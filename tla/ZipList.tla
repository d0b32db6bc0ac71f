------------------------------- MODULE ZipList -------------------------------
(***************************************************************************)
(* zipjpeg list, 03_types_homework-12926-ac0783/main.c: finds a ZIP        *)
(* archive at the end of a file, such as a JPEG, and lists its members.    *)
(* All offsets in the archive are off by the length of what precedes it.   *)
(*                                                                         *)
(* A file is its length and the headers at their positions; what else is   *)
(* in it has no signature.  The sizes of the headers are constants, and    *)
(* 32-bit offsets are numbers modulo W.  disk stands for what archives of  *)
(* one volume has zero or equal, nul for a zero byte in a name.  A file is *)
(* an archive behind a prefix, whole, or cut, or with one field or         *)
(* signature changed.                                                      *)
(***************************************************************************)
EXTENDS Integers, Sequences, SequencesExt

CONSTANTS EOCDR_SZ, CFH_SZ, LFH_SZ,  \* 22, 46 and 30 in the code
          W,          \* 2^32 in the code
          MAX_COMMENT,\* UINT16_MAX in the code
          Member,     \* members archives are made of
          Prefix,     \* lengths of what precedes the archive
          Comment,    \* comments: their length, and where in them a false
                      \* end record begins (0: nowhere)
          Members,    \* bound: members of an archive
          Value       \* bound: values a field is changed to

VARIABLES
    file,      \* the file: its length, and headers by position
    intact,    \* history: the members of an archive that nobody changed
    phase,     \* "read", "find", "check", "list", "end" or "abort" by an assert
    status,    \* "running", "listed" or "failed"
    comment_len,   \* the loop of find_eocdr
    zip_file_offset,
    todo,      \* members zip_read has not checked yet
    offset,    \* where it checks, then members_end
    it,        \* members_begin, then where the listing is
    listed,    \* the names that were printed
    reach      \* history: where the bytes that were looked at end

zip  == <<comment_len, zip_file_offset, todo, offset, it>>
vars == <<file, intact, phase, status, zip, listed, reach>>

-----------------------------------------------------------------------------
\* The archive of members ms behind a prefix of p bytes.
LfhLen(m) == LFH_SZ + m.name_len + m.extra_len + m.comp_size
CfhLen(m) == CFH_SZ + m.name_len + m.extra_len + m.comment_len

\* Where the parts of ms begin, one behind the other, and where the last ends.
Begins(Size(_), ms) ==
    LET to[i \in 1..Len(ms) + 1] == IF i = 1 THEN 0 ELSE to[i - 1] + Size(ms[i - 1]) IN to

Lfh(m) == [type |-> "lfh", name_len |-> m.name_len, extra_len |-> m.extra_len]
Cfh(m, lfh_offset) ==
    [type |-> "cfh", name |-> m.name, name_len |-> m.name_len, extra_len |-> m.extra_len,
     comment_len |-> m.comment_len, comp_size |-> m.comp_size, uncomp_size |-> m.uncomp_size,
     method |-> m.method, gp_flag |-> m.gp_flag, disk |-> m.disk, nul |-> m.nul,
     lfh_offset |-> lfh_offset]

Archive(p, ms, c) ==
    LET n     == Len(ms)
        lfhAt == Begins(LfhLen, ms)
        cfhAt == Begins(CfhLen, ms)
        cd    == p + lfhAt[n + 1]
        end   == cd + cfhAt[n + 1]
        lfhs  == {p + lfhAt[i] : i \in 1..n}
        cfhs  == {cd + cfhAt[i] : i \in 1..n}
        ends  == {end} \cup IF c.false = 0 THEN {} ELSE {end + EOCDR_SZ + c.false - 1}
        eocdr == [type |-> "eocdr", disk |-> 0, entries |-> n, cd_size |-> cfhAt[n + 1],
                  cd_offset |-> lfhAt[n + 1], comment_len |-> c.len]
    IN  [len |-> end + EOCDR_SZ + c.len,
         at  |-> [x \in lfhs \cup cfhs \cup ends |->
                     IF x \in lfhs THEN Lfh(ms[CHOOSE i \in 1..n : p + lfhAt[i] = x])
                     ELSE IF x \in cfhs
                     THEN LET i == CHOOSE j \in 1..n : cd + cfhAt[j] = x IN Cfh(ms[i], lfhAt[i])
                     ELSE eocdr]]

\* A member that zip_read accepts: neither encrypted, nor packed by an unknown
\* method, and its name is one.
Usual(m) ==
    /\ m.gp_flag % 2 = 0 /\ m.method \in {0, 8} /\ (m.method = 0 => m.uncomp_size = m.comp_size)
    /\ m.disk = 0 /\ m.nul = 0

ZipAssumption ==
    /\ {EOCDR_SZ, CFH_SZ, LFH_SZ, W} \subseteq Nat \ {0} /\ {MAX_COMMENT, Members} \subseteq Nat
    /\ Prefix \subseteq Nat /\ Value \subseteq Nat
    /\ Member \subseteq [name : STRING, name_len : Nat, extra_len : Nat, comment_len : Nat,
                         comp_size : Nat, uncomp_size : Nat, method : Nat, gp_flag : Nat,
                         disk : Nat, nul : Nat]
    /\ Comment \subseteq [len : 0..MAX_COMMENT, false : Nat]
    /\ \A m \in Member : Usual(m)
    /\ \A p \in Prefix, ms \in SeqOf(Member, Members), c \in Comment : Archive(p, ms, c).len < W

\* Files of which one byte range is not what the archiver wrote.
Changed(f) ==
    {[f EXCEPT !.at[x] = [type |-> "none"]] : x \in DOMAIN f.at}
    \cup {[f EXCEPT !.len = n] : n \in 0..f.len - 1}
    \cup UNION {{[f EXCEPT !.at[x][k] = v] : k \in DOMAIN f.at[x] \ {"type", "name"}, v \in Value}
                : x \in DOMAIN f.at}

Init ==
    /\ \E p \in Prefix, ms \in SeqOf(Member, Members), c \in Comment :
          LET f == Archive(p, ms, c) IN
          \/ file = f /\ intact = <<ms>>
          \/ file \in Changed(f) /\ intact = <<>>
    /\ phase = "read" /\ status = "running"
    /\ comment_len = 0 /\ zip_file_offset = 0 /\ todo = 0 /\ offset = 0 /\ it = 0
    /\ listed = <<>> /\ reach = 0

-----------------------------------------------------------------------------
At(x) == IF x \in DOMAIN file.at THEN file.at[x] ELSE [type |-> "none"]

\* Mutant: only where the range begins is looked at.
BeginsInFile(x, n) == x <= file.len
\* n bytes from x on are in the file.
Fits(x, n) == x <= file.len /\ file.len - x >= n

End(s) == phase' = "end" /\ status' = s
Look(S) == reach' = Max(S \cup {reach})

\* The file is read to memory, or fopen, malloc, realloc or fread fails.
ReadFile ==
    /\ phase = "read"
    /\ \/ phase' = "find" /\ UNCHANGED status
       \/ End("failed")
    /\ UNCHANGED <<file, intact, zip, listed, reach>>

\* Mutant: what precedes the archive is forgotten.
ShiftForgotten(e) == 0
\* How far the archive is from where its offsets count from.
Shift(e) == (file.len - (e.cd_offset + e.cd_size + EOCDR_SZ + e.comment_len)) % W

\* The end record is the one whose comment reaches to the end of the file.
IsEocdr(e) == e.type = "eocdr" /\ e.comment_len = comment_len

\* The beginning of zip_read, with the record e.
BeginRead(e) ==
    /\ zip_file_offset' = Shift(e) /\ todo' = e.entries
    /\ offset' = (file.len - e.cd_size - EOCDR_SZ - comment_len) % W /\ it' = offset'
    /\ IF e.disk = 0 THEN phase' = "check" /\ UNCHANGED status ELSE End("failed")
    /\ UNCHANGED comment_len

\* One round of find_eocdr.
FindEocdr ==
    /\ phase = "find"
    /\ LET x == file.len - EOCDR_SZ - comment_len IN
       IF comment_len > MAX_COMMENT \/ x < 0
       THEN End("failed") /\ UNCHANGED <<zip, reach>>
       ELSE /\ Look({x + EOCDR_SZ})
            /\ \/ IsEocdr(At(x)) /\ BeginRead(At(x))
               \/ /\ ~ IsEocdr(At(x)) /\ comment_len' = comment_len + 1
                  /\ UNCHANGED <<phase, status, zip_file_offset, todo, offset, it>>
    /\ UNCHANGED <<file, intact, listed>>

-----------------------------------------------------------------------------
\* read_cfh and read_lfh
CfhOk(x) == Fits(x, CFH_SZ) /\ At(x).type = "cfh" /\ Fits(x, CfhLen(At(x)))
LfhOk(x) == /\ Fits(x, LFH_SZ) /\ At(x).type = "lfh"
            /\ Fits(x, LFH_SZ + At(x).name_len + At(x).extra_len)

LfhOffset(c) == (c.lfh_offset + zip_file_offset) % W

\* What zip_read asks of a member; its data is in the file.
MemberOk(c) ==
    /\ Usual(c)
    /\ LET x == LfhOffset(c) IN
       LfhOk(x) /\ Fits(x + LFH_SZ + At(x).name_len + At(x).extra_len, c.comp_size)

\* The ends of what is looked at for a central header at x.
LookAt(x) ==
    (IF Fits(x, CFH_SZ) THEN {x + CFH_SZ} ELSE {})
    \cup IF ~ CfhOk(x) THEN {} ELSE
         {x + CFH_SZ + At(x).name_len}
         \cup IF Fits(LfhOffset(At(x)), LFH_SZ) THEN {LfhOffset(At(x)) + LFH_SZ} ELSE {}

\* One round of the loop of zip_read.
CheckMember ==
    /\ phase = "check" /\ todo > 0
    /\ Look(LookAt(offset))
    /\ IF CfhOk(offset) /\ MemberOk(At(offset))
       THEN /\ offset' = offset + CfhLen(At(offset)) /\ todo' = todo - 1
            /\ UNCHANGED <<phase, status>>
       ELSE End("failed") /\ UNCHANGED <<offset, todo>>
    /\ UNCHANGED <<file, intact, comment_len, zip_file_offset, it, listed>>

\* The comment is printed; it ends the file.
Checked ==
    /\ phase = "check" /\ todo = 0 /\ phase' = "list" /\ Look({file.len})
    /\ UNCHANGED <<file, intact, status, zip, listed>>

NextMember(x) == x + CfhLen(At(x))

\* zip_member with its asserts, and its name is printed.
ListMember ==
    /\ phase = "list" /\ it # offset
    /\ Look(LookAt(it))
    /\ IF it < offset /\ CfhOk(it) /\ LfhOk(LfhOffset(At(it))) /\ NextMember(it) <= offset
       THEN it' = NextMember(it) /\ listed' = Append(listed, At(it).name) /\ UNCHANGED phase
       ELSE phase' = "abort" /\ UNCHANGED <<it, listed>>
    /\ UNCHANGED <<file, intact, status, comment_len, zip_file_offset, todo, offset>>

Finish ==
    /\ phase = "list" /\ it = offset /\ End("listed")
    /\ UNCHANGED <<file, intact, zip, listed, reach>>

Next == ReadFile \/ FindEocdr \/ CheckMember \/ Checked \/ ListMember \/ Finish

Spec == Init /\ [][Next]_vars

-----------------------------------------------------------------------------
TypeOK ==
    /\ phase \in {"read", "find", "check", "list", "end", "abort"}
    /\ status \in {"running", "listed", "failed"} /\ (status = "running" <=> phase # "end")
    /\ comment_len \in 0..MAX_COMMENT + 1 /\ zip_file_offset \in 0..W - 1
    /\ todo \in Nat /\ offset \in Nat /\ it \in Nat /\ reach \in Nat

(***************************************************************************)
(* An intact archive, once it was read, is found and listed whole and in   *)
(* order, whatever precedes it, however long its comment is, and even if   *)
(* the comment holds what looks like an end record of another comment.     *)
(***************************************************************************)
IntactIsListed ==
    phase = "end" /\ intact # <<>> /\ reach > 0 =>
        status = "listed" /\ listed = [i \in DOMAIN intact[1] |-> intact[1][i].name]

(***************************************************************************)
(* Whatever was changed in the file, no byte beyond its end is looked at,  *)
(* although every offset and length comes from the file, and the listing   *)
(* runs over the same headers as the check before it: no assert fails.     *)
(***************************************************************************)
StaysInFile == reach <= file.len /\ phase # "abort"
==============================================================================
