----------------------------- MODULE Driver_proof -----------------------------
(***************************************************************************)
(* Proofs about RingBuffer for every set of threads and bytes, every range *)
(* of sizes and every set of messages and offsets, and then about the      *)
(* driver: what is shown of the device holds through any number of loads,  *)
(* failed loads and unloads, and loading and unloading leave nothing       *)
(* behind.                                                                 *)
(***************************************************************************)
EXTENDS Driver, SequenceTheorems, TLAPS

USE SizeAssumption, JunkAssumption, FreeAssumption, PosAssumption DEF Closed

-----------------------------------------------------------------------------
\* Indices wrap at most once.
LEMMA ModAdd ==
    ASSUME NEW n \in Nat \ {0}, NEW r \in 0..n - 1, NEW k \in 0..n
    PROVE  /\ (r + k) % n = IF r + k < n THEN r + k ELSE r + k - n
           /\ (r + k) % n \in 0..n - 1
<1>1. CASE r + k < n
  BY <1>1
<1>2. CASE r + k >= n
  <2>1. r + k - n \in 0..n - 1
    BY <1>2
  <2>2. (r + k - n) % n = r + k - n
    BY <2>1
  <2>3. (r + k) % n = (r + k - n) % n
    BY <2>1
  <2> QED BY <2>1, <2>2, <2>3, <1>2
<1> QED BY <1>1, <1>2

-----------------------------------------------------------------------------
(***************************************************************************)
(* The inductive strengthening of TypeOK.  A call under way holds the      *)
(* mutex while it sleeps, so what it computed under the mutex still fits   *)
(* the buffer: the room a write made, the bytes a read was promised.       *)
(***************************************************************************)
WriteFits(t) == pc[t] \in {"copy1", "copy2"} => data /\ Len(req[t]) \in 1..size - count
ReadFits(t)  == pc[t] \in {"peek1", "peek2", "discard"} => data /\ len[t] \in 1..count
SizeFits(t)  == pc[t] \in Setting => len[t] \in MinSize..MaxSize

CallInv == \A t \in Thread : WriteFits(t) /\ ReadFits(t) /\ SizeFits(t)

TypeInv == TypeOK /\ LockInv /\ CallInv

\* Cutting a message to the size of the buffer leaves between 1 and n bytes.
LEMMA LastOfLen ==
    ASSUME NEW S, NEW s \in Seq(S) \ {<<>>}, NEW n \in Nat \ {0}
    PROVE  LastOf(s, n) \in Seq(S) /\ Len(LastOf(s, n)) \in 1..n
BY DEF LastOf

\* What a copy does to the cells keeps them bytes.
LEMMA StoredType ==
    ASSUME TypeOK, NEW s \in Seq(Byte), NEW at \in Nat, NEW n \in Nat
    PROVE  /\ Stored(at, s) \in [Index -> Byte \cup {Junk}]
           /\ Spoiled(at, n) \in [Index -> Byte \cup {Junk}]
BY DEF TypeOK, Stored, Spoiled, Index

\* A part of a sequence has its members.
LEMMA SubSeqType ==
    ASSUME NEW S, NEW s \in Seq(S), NEW i \in 1..Len(s) + 1, NEW j \in 0..Len(s)
    PROVE  SubSeq(s, i, j) \in Seq(S)
OBVIOUS

\* A write of more than the room before the end of the buffer is split there.
LEMMA ToWriteRange ==
    ASSUME TypeInv, NEW t \in Thread, pc[t] \in {"copy1", "copy2"}
    PROVE  ToWrite(t) \in 1..Len(req[t]) /\ write_pos + ToWrite(t) <= size
BY DEF TypeInv, TypeOK, CallInv, WriteFits, ToWrite, Min2

\* So is a read.
LEMMA Part1Range ==
    ASSUME TypeInv, NEW t \in Thread, pc[t] \in {"peek1", "peek2", "discard"}
    PROVE  Part1(t) \in 1..len[t] /\ read_pos + Part1(t) <= size
BY DEF TypeInv, TypeOK, CallInv, ReadFits, Part1, Min2

\* It holds at the start.
LEMMA TypeInit == Init => TypeInv
BY DEF Init, TypeInv, TypeOK, LockInv, CallInv, WriteFits, ReadFits, SizeFits,
       Index, Inside, Setting

\* Every step keeps it.
LEMMA TypeStep == TypeInv /\ [Next]_vars => TypeInv'
<1> SUFFICES ASSUME TypeInv, [Next]_vars PROVE TypeInv'
  OBVIOUS
<1> USE DEF TypeInv, LockInv, CallInv, WriteFits, ReadFits, SizeFits, Goto, Lock, Unlock,
            Inside, Setting, rb, file
<1>a. size \in Nat \ {0} /\ read_pos \in 0..size - 1 /\ write_pos \in 0..size - 1 /\ count \in 0..size
  BY DEF TypeOK
<1>1. ASSUME NEW t \in Thread, DevOpen(t) PROVE TypeInv'
  BY <1>1 DEF DevOpen, TypeOK
<1>2. ASSUME NEW t \in Thread, DevRelease(t) PROVE TypeInv'
  BY <1>2 DEF DevRelease, TypeOK
<1>3. ASSUME NEW t \in Thread, NEW u \in Message, DevWrite(t, u) PROVE TypeInv'
  <2> DEFINE s == LastOf(u, size)
             excess == IF Len(s) > Space THEN Len(s) - Space ELSE 0
  <2>1. s \in Seq(Byte) /\ Len(s) \in 1..size
    BY MessageAssumption, LastOfLen DEF TypeOK
  <2>2. excess \in 0..count /\ Len(s) \in 1..size - (count - excess)
    BY <2>1 DEF TypeOK, Space
  <2> HIDE DEF s, excess
  <2>3. (read_pos + excess) % size \in 0..size - 1
    <3>1. excess \in 0..size
      BY <1>a, <2>2
    <3> QED BY ONLY <1>a, <3>1, ModAdd
  <2>4. /\ req' = [req EXCEPT ![t] = s] /\ count' = count - excess
        /\ read_pos' = (read_pos + excess) % size
    BY <1>3 DEF DevWrite, s, excess
  <2>5. TypeOK' /\ LockInv'
    <3>1. count - excess \in 0..size
      BY <1>a, <2>2
    <3>2. /\ req' \in [Thread -> Seq(Byte)] /\ pc' \in [Thread -> Inside \cup {"idle", "publish"}]
      BY <1>3, <2>1, <2>4 DEF DevWrite, TypeOK
    <3>3. LockInv'
      BY <1>3 DEF DevWrite, TypeOK
    <3> QED BY <1>3, <2>3, <2>4, <3>1, <3>2, <3>3 DEF DevWrite, TypeOK
  <2>6. \A u2 \in Thread \ {t} : pc[u2] \notin Inside /\ pc'[u2] = pc[u2]
    BY <1>3 DEF DevWrite, TypeOK
  <2>7. pc'[t] = "copy1" /\ req'[t] = s
    BY <1>3, <2>4 DEF DevWrite, TypeOK
  <2> QED BY <1>3, <2>1, <2>2, <2>4, <2>5, <2>6, <2>7 DEF DevWrite, TypeOK
<1>4. ASSUME NEW t \in Thread, CopyFirst(t) PROVE TypeInv'
  <2>1. SubSeq(req[t], 1, ToWrite(t)) \in Seq(Byte)
    <3>1. pc[t] \in {"copy1", "copy2"} /\ req[t] \in Seq(Byte)
      BY <1>4 DEF CopyFirst, TypeOK
    <3>2. ToWrite(t) \in 1..Len(req[t])
      BY <3>1, ToWriteRange
    <3> QED BY <3>1, <3>2, SubSeqType
  <2>2. mem' \in [Index -> Byte \cup {Junk}]
    <3>1. write_pos \in Nat
      BY <1>a
    <3>2. Stored(write_pos, SubSeq(req[t], 1, ToWrite(t))) \in [Index -> Byte \cup {Junk}]
      BY <2>1, <3>1, StoredType
    <3> QED BY <1>4, <3>2 DEF CopyFirst
  <2> QED BY <1>4, <2>2 DEF CopyFirst, TypeOK
<1>5. ASSUME NEW t \in Thread, CopyRest(t) PROVE TypeInv'
  <2>0. req[t] \in Seq(Byte) /\ ToWrite(t) \in 1..Len(req[t]) /\ Len(req[t]) \in 0..size
    <3>1. pc[t] = "copy2" /\ req[t] \in Seq(Byte)
      BY <1>5 DEF CopyRest, TypeOK
    <3>2. Len(req[t]) \in 1..size - count
      BY <3>1
    <3>3. Len(req[t]) \in 0..size
      BY ONLY <1>a, <3>2
    <3> QED BY <3>1, <3>3, ToWriteRange
  <2>1. SubSeq(req[t], ToWrite(t) + 1, Len(req[t])) \in Seq(Byte)
    BY <2>0, SubSeqType
  <2>2. mem' \in [Index -> Byte \cup {Junk}]
    BY <1>5, <2>1, StoredType DEF CopyRest, TypeOK
  <2>3. write_pos' \in 0..size - 1
    <3>1. (write_pos + Len(req[t])) % size \in 0..size - 1
      BY ONLY <1>a, <2>0, ModAdd
    <3> QED BY <1>5, <3>1 DEF CopyRest
  <2> QED BY <1>5, <2>2, <2>3 DEF CopyRest, TypeOK
<1>6. ASSUME NEW t \in Thread, CopyFails(t) PROVE TypeInv'
  <2>1. PICK at \in Nat, n \in Nat : pc[t] \in {"copy1", "copy2"} /\ CopyFault(t, at, n)
    <3>1. CASE pc[t] = "copy1" /\ CopyFault(t, write_pos, ToWrite(t))
      BY <3>1, <1>a, ToWriteRange DEF TypeOK
    <3>2. CASE pc[t] = "copy2" /\ CopyFault(t, 0, Len(req[t]) - ToWrite(t))
      BY <3>2, <1>a, ToWriteRange DEF TypeOK
    <3> QED BY <1>6, <3>1, <3>2 DEF CopyFails
  <2>2. mem' \in [Index -> Byte \cup {Junk}]
    BY <2>1, StoredType DEF CopyFault, TypeOK
  <2> QED BY <2>1, <2>2 DEF CopyFault, TypeOK
<1>7. ASSUME NEW t \in Thread, NEW n \in 1..MaxSize, DevRead(t, n) PROVE TypeInv'
  <2>1. Min2(n, count) \in 1..count /\ Min2(n, count) \in Nat
    BY <1>7, <1>a DEF DevRead, Min2
  <2> QED BY <1>7, <2>1 DEF DevRead, TypeOK
<1>8. ASSUME NEW t \in Thread, PeekFirst(t) PROVE TypeInv'
  <2>1. Part1(t) \in Nat /\ read_pos + Part1(t) <= size
    BY <1>8, Part1Range DEF PeekFirst, TypeOK
  <2>2. [i \in 1..Part1(t) |-> mem[read_pos + i - 1]] \in Seq(Byte \cup {Junk})
    <3>1. \A i \in 1..Part1(t) : mem[read_pos + i - 1] \in Byte \cup {Junk}
      BY <2>1, <1>a DEF TypeOK, Index
    <3> QED BY ONLY <2>1, <3>1
  <2> QED BY <1>8, <2>2 DEF PeekFirst, TypeOK
<1>9. ASSUME NEW t \in Thread, PeekRest(t) PROVE TypeInv'
  <2>1. len[t] - Part1(t) \in 0..size
    BY <1>9, Part1Range DEF PeekRest, TypeOK
  <2>2. [i \in 1..len[t] - Part1(t) |-> mem[i - 1]] \in Seq(Byte \cup {Junk})
    BY <2>1 DEF TypeOK, Index
  <2>3. ubuf' \in [Thread -> Seq(Byte \cup {Junk})]
    BY <1>9, <2>2 DEF PeekRest, TypeOK
  <2> QED BY <1>9, <2>3 DEF PeekRest, TypeOK
<1>10. ASSUME NEW t \in Thread, PeekFails(t) PROVE TypeInv'
  BY <1>10 DEF PeekFails, TypeOK
<1>11. ASSUME NEW t \in Thread, Discard(t) PROVE TypeInv'
  <2>1. read_pos' \in 0..size - 1 /\ count' \in 0..size
    <3>1. len[t] \in 1..count
      BY <1>11 DEF Discard
    <3>2. (read_pos + len[t]) % size \in 0..size - 1
      <4>1. len[t] \in 0..size
        BY <1>a, <3>1
      <4> QED BY ONLY <1>a, <4>1, ModAdd
    <3> QED BY <1>11, <1>a, <3>1, <3>2 DEF Discard
  <2>2. f_pos' \in [Thread -> Nat \cup {Closed}]
    <3>1. len[t] \in Nat \ {0} /\ f_pos \in [Thread -> Nat \cup {-1}]
      BY <1>11 DEF Discard, TypeOK
    <3>2. f_pos[t] + len[t] \in Nat
      BY <3>1
    <3> QED BY <1>11, <3>1, <3>2 DEF Discard
  <2> QED BY <1>11, <2>1, <2>2 DEF Discard, TypeOK
<1>12. ASSUME NEW t \in Thread, NEW off \in Offset, NEW w \in {"SET", "CUR", "END"},
              DevLlseek(t, off, w)
       PROVE TypeInv'
  <2>1. f_pos' \in [Thread -> Nat \cup {Closed}]
    <3> DEFINE new == CASE w = "SET" -> off
                        [] w = "CUR" -> f_pos[t] + off
                        [] w = "END" -> count + off
    <3>1. f_pos[t] \in Nat /\ off \in Int /\ count \in Nat
      BY <1>12, <1>a, PosAssumption DEF DevLlseek, TypeOK
    <3>2. new \in Int
      BY <3>1
    <3>3. new >= 0 /\ f_pos' = [f_pos EXCEPT ![t] = Min2(new, count)]
      BY <1>12 DEF DevLlseek
    <3> HIDE DEF new
    <3>4. Min2(new, count) \in Nat
      BY <3>1, <3>2, <3>3 DEF Min2
    <3> QED BY <3>3, <3>4 DEF TypeOK
  <2> QED BY <1>12, <2>1 DEF DevLlseek, TypeOK
<1>13. ASSUME NEW t \in Thread, NEW n \in MinSize..MaxSize, BufSizeSet(t, n) PROVE TypeInv'
  <2>0. n \in Nat
    OBVIOUS
  <2>1. TypeOK' /\ LockInv'
    <3>1. len' \in [Thread -> Nat] /\ pc' \in [Thread -> Inside \cup {"idle", "publish"}]
      BY <1>13, <2>0 DEF BufSizeSet, TypeOK
    <3>2. LockInv'
      BY <1>13 DEF BufSizeSet, TypeOK
    <3> QED BY <1>13, <3>1, <3>2 DEF BufSizeSet, TypeOK
  <2>2. \A u \in Thread : ~ (pc[u] \in Inside)
    BY <1>13 DEF BufSizeSet, TypeOK
  <2>3. CallInv'
    BY <1>13, <2>2 DEF BufSizeSet, TypeOK
  <2> QED BY <2>1, <2>3
<1>14. ASSUME NEW t \in Thread, KmallocOk(t) PROVE TypeInv'
  BY <1>14 DEF KmallocOk, TypeOK, Index
<1>15. ASSUME NEW t \in Thread, KmallocFails(t) PROVE TypeInv'
  BY <1>15 DEF KmallocFails, TypeOK
<1>16. ASSUME NEW t \in Thread, Publish(t) PROVE TypeInv'
  BY <1>16 DEF Publish, TypeOK
<1>17. CASE UNCHANGED vars
  BY <1>17 DEF vars, TypeOK
<1> QED
  BY <1>1, <1>2, <1>3, <1>4, <1>5, <1>6, <1>7, <1>8, <1>9, <1>10, <1>11, <1>12, <1>13,
     <1>14, <1>15, <1>16, <1>17 DEF Next, Call, Continue

(***************************************************************************)
(* Type correctness: the positions of dev_read, dev_write and llseek stay  *)
(* inside the allocation whatever the interleaving, and rb_mutex is held   *)
(* by exactly the thread that is inside a critical section.                *)
(***************************************************************************)
THEOREM TypeCorrect == Spec => [](TypeOK /\ LockInv)
<1>1. TypeInv => TypeOK /\ LockInv
  BY DEF TypeInv
<1> QED BY TypeInit, TypeStep, <1>1, PTL DEF Spec

-----------------------------------------------------------------------------
\* Moving a steps on and then b is moving a + b steps on.
LEMMA ModAssoc ==
    ASSUME NEW n \in Nat \ {0}, NEW r \in 0..n - 1, NEW a \in Nat, NEW b \in Nat, a + b <= n
    PROVE  (((r + a) % n) + b) % n = (r + (a + b)) % n
<1> DEFINE q == (r + a) % n
<1>1. q = (IF r + a < n THEN r + a ELSE r + a - n) /\ q \in 0..n - 1
  <2>1. a \in 0..n
    OBVIOUS
  <2> QED BY <2>1, ModAdd
<1>2. (r + (a + b)) % n = IF r + (a + b) < n THEN r + (a + b) ELSE r + (a + b) - n
  <2>1. a + b \in 0..n
    OBVIOUS
  <2> QED BY <2>1, ModAdd
<1>3. (q + b) % n = IF q + b < n THEN q + b ELSE q + b - n
  <2>1. b \in 0..n
    OBVIOUS
  <2> QED BY <2>1, <1>1, ModAdd
<1> HIDE DEF q
<1>4. (q + b) % n = (r + (a + b)) % n
  BY <1>1, <1>2, <1>3
<1> QED BY <1>4 DEF q

\* Different offsets from the same position are different cells.
LEMMA ModApart ==
    ASSUME NEW n \in Nat \ {0}, NEW r \in 0..n - 1,
           NEW x \in 0..n - 1, NEW y \in 0..n - 1, x # y
    PROVE  (r + x) % n # (r + y) % n
<1>1. x \in 0..n /\ y \in 0..n
  OBVIOUS
<1>2. (r + x) % n = IF r + x < n THEN r + x ELSE r + x - n
  BY <1>1, ModAdd
<1>3. (r + y) % n = IF r + y < n THEN r + y ELSE r + y - n
  BY <1>1, ModAdd
<1> QED BY <1>2, <1>3

(***************************************************************************)
(* While a thread is inside its critical section, the steps of the others  *)
(* leave the buffer and what the thread remembers alone.                   *)
(***************************************************************************)
LEMMA HolderAlone ==
    ASSUME TypeInv, NEW t \in Thread, pc[t] \in Inside, NEW u \in Thread \ {t},
           Call(u) \/ Continue(u)
    PROVE  /\ UNCHANGED rb /\ pc'[t] = pc[t]
           /\ req'[t] = req[t] /\ ubuf'[t] = ubuf[t] /\ len'[t] = len[t]
<1>1. mutex # Free /\ pc[u] \notin Inside
  BY DEF TypeInv, LockInv
<1>2. DevOpen(u) \/ DevRelease(u) \/ Publish(u)
  BY <1>1 DEF Call, Continue, DevWrite, DevRead, DevLlseek, BufSizeSet, CopyFirst, CopyRest,
     CopyFails, PeekFirst, PeekRest, PeekFails, Discard, KmallocOk, KmallocFails,
     Goto, Lock, Inside
<1> QED BY <1>2 DEF DevOpen, DevRelease, Publish, Goto, TypeInv, TypeOK

-----------------------------------------------------------------------------
(***************************************************************************)
(* The inductive strengthening of Integrity: the counters agree even while *)
(* rb.data is NULL, and the first half of a write already holds bytes.     *)
(***************************************************************************)
Geometry == write_pos = (read_pos + count) % size
Retained == data => \A i \in 0..count - 1 : mem[(read_pos + i) % size] \in Byte
HalfDone(t) == pc[t] = "copy2" => \A k \in write_pos..write_pos + ToWrite(t) - 1 : mem[k] \in Byte

IInv == TypeInv /\ Geometry /\ Retained /\ \A t \in Thread : HalfDone(t)

\* Cells a write may fill are none of those retained.
LEMMA CellsApart ==
    ASSUME TypeInv, Geometry, NEW i \in 0..count - 1, NEW j \in 0..size - count - 1
    PROVE  (read_pos + i) % size # (write_pos + j) % size
<1>1. size \in Nat \ {0} /\ read_pos \in 0..size - 1 /\ count \in 0..size
  BY DEF TypeInv, TypeOK
<1>2. (write_pos + j) % size = (read_pos + (count + j)) % size
  <2>1. count \in Nat /\ j \in Nat /\ count + j <= size
    BY <1>1
  <2>2. (((read_pos + count) % size) + j) % size = (read_pos + (count + j)) % size
    BY ONLY <1>1, <2>1, ModAssoc
  <2> QED BY <2>2 DEF Geometry
<1>3. i \in 0..size - 1 /\ count + j \in 0..size - 1 /\ i # count + j
  BY <1>1
<1> QED BY <1>1, <1>2, <1>3, ModApart

\* Where the k-th byte of a write goes: behind write_pos until the end of the
\* buffer, the rest to its front.
LEMMA WhereWritten ==
    ASSUME TypeInv, NEW t \in Thread, pc[t] \in {"copy1", "copy2"}, NEW j \in 0..Len(req[t]) - 1
    PROVE  /\ j < ToWrite(t) => (write_pos + j) % size = write_pos + j
           /\ j >= ToWrite(t) => (write_pos + j) % size = j - ToWrite(t)
           /\ (write_pos + j) % size \in 0..size - 1
<1>1. /\ size \in Nat \ {0} /\ write_pos \in 0..size - 1 /\ count \in 0..size
      /\ Len(req[t]) \in 1..size - count
      /\ ToWrite(t) \in 1..Len(req[t]) /\ write_pos + ToWrite(t) <= size
      /\ ToWrite(t) = Len(req[t]) \/ ToWrite(t) = size - write_pos
  BY ToWriteRange DEF TypeInv, TypeOK, CallInv, WriteFits, ToWrite, Min2
<1>2. j \in 0..size
  BY <1>1
<1>3. /\ (write_pos + j) % size = IF write_pos + j < size THEN write_pos + j ELSE write_pos + j - size
      /\ (write_pos + j) % size \in 0..size - 1
  BY ONLY <1>1, <1>2, ModAdd
<1> QED BY <1>1, <1>3

\* So the cells of neither copy of a write are retained.
LEMMA CopyApart ==
    ASSUME TypeInv, Geometry, NEW t \in Thread, pc[t] \in {"copy1", "copy2"},
           NEW i \in 0..count - 1
    PROVE  /\ (read_pos + i) % size \notin write_pos..write_pos + ToWrite(t) - 1
           /\ (read_pos + i) % size \notin 0..Len(req[t]) - ToWrite(t) - 1
<1>1. /\ size \in Nat \ {0} /\ write_pos \in 0..size - 1 /\ count \in 0..size
      /\ Len(req[t]) \in 1..size - count /\ ToWrite(t) \in 1..Len(req[t])
  BY ToWriteRange DEF TypeInv, TypeOK, CallInv, WriteFits
<1>2. ASSUME NEW k \in write_pos..write_pos + ToWrite(t) - 1 PROVE (read_pos + i) % size # k
  <2>1. k - write_pos \in 0..Len(req[t]) - 1 /\ k - write_pos < ToWrite(t)
        /\ k - write_pos \in 0..size - count - 1 /\ write_pos + (k - write_pos) = k
    BY <1>1
  <2> QED BY <2>1, WhereWritten, CellsApart
<1>3. ASSUME NEW k \in 0..Len(req[t]) - ToWrite(t) - 1 PROVE (read_pos + i) % size # k
  <2> DEFINE j == k + ToWrite(t)
  <2>1. j \in 0..Len(req[t]) - 1 /\ j >= ToWrite(t) /\ j \in 0..size - count - 1 /\ j - ToWrite(t) = k
    BY <1>1
  <2> HIDE DEF j
  <2> QED BY <2>1, WhereWritten, CellsApart
<1> QED BY <1>2, <1>3

\* A copy that faults spoils no retained cell.
LEMMA FaultApart ==
    ASSUME TypeInv, Geometry, NEW t \in Thread, pc[t] \in {"copy1", "copy2"},
           NEW at \in Nat, NEW n \in Nat, CopyFault(t, at, n),
           \/ at = write_pos /\ n = ToWrite(t)
           \/ at = 0 /\ n = Len(req[t]) - ToWrite(t)
    PROVE  \A i \in 0..count - 1 : mem'[(read_pos + i) % size] = mem[(read_pos + i) % size]
<1> SUFFICES ASSUME NEW i \in 0..count - 1
             PROVE  mem'[(read_pos + i) % size] = mem[(read_pos + i) % size]
  OBVIOUS
<1>1. size \in Nat \ {0} /\ size <= MaxSize /\ read_pos \in 0..size - 1 /\ count \in 0..size
  BY DEF TypeInv, TypeOK
<1>2. (read_pos + i) % size \in Index
  <2>1. i \in 0..size
    BY <1>1
  <2>2. (read_pos + i) % size \in 0..size - 1
    BY ONLY <1>1, <2>1, ModAdd
  <2> QED BY <1>1, <2>2 DEF Index
<1>3. (read_pos + i) % size \notin at..at + n - 1
  <2>1. CASE at = write_pos /\ n = ToWrite(t)
    BY <2>1, CopyApart
  <2>2. CASE at = 0 /\ n = Len(req[t]) - ToWrite(t)
    <3>1. 0 + n = n
      OBVIOUS
    <3> QED BY <2>2, <3>1, CopyApart
  <2> QED BY <2>1, <2>2
<1> QED BY <1>2, <1>3 DEF CopyFault, Spoiled

\* Bytes the buffer will drop, or has taken, leave the rest where it was.
LEMMA DropOldest ==
    ASSUME IInv, NEW e \in 0..count,
           UNCHANGED <<data, mem, size, write_pos>>,
           read_pos' = (read_pos + e) % size, count' = count - e
    PROVE  Geometry' /\ Retained'
<1>1. size \in Nat \ {0} /\ read_pos \in 0..size - 1 /\ count \in 0..size
  BY DEF IInv, TypeInv, TypeOK
<1>2. Geometry'
  <2>1. (((read_pos + e) % size) + (count - e)) % size = (read_pos + (e + (count - e))) % size
    BY <1>1, ModAssoc
  <2> QED BY <2>1, <1>1 DEF IInv, Geometry
<1>3. ASSUME NEW i \in 0..count' - 1, data PROVE mem[(read_pos' + i) % size] \in Byte
  <2>1. (((read_pos + e) % size) + i) % size = (read_pos + (e + i)) % size
    BY <1>1, ModAssoc
  <2>2. e + i \in 0..count - 1
    BY <1>1
  <2> QED BY <2>1, <2>2, <1>3 DEF IInv, Retained
<1> QED BY <1>2, <1>3 DEF Retained

\* It holds at the start.
LEMMA IntegrityInit == Init => IInv
<1> SUFFICES ASSUME Init PROVE IInv
  OBVIOUS
<1>1. Geometry
  BY DEF Init, Geometry
<1> QED BY TypeInit, <1>1 DEF Init, IInv, Retained, HalfDone

\* Every step keeps it.
LEMMA IntegrityStep == IInv /\ [Next]_vars => IInv'
<1> SUFFICES ASSUME IInv, [Next]_vars PROVE Geometry' /\ Retained' /\ \A t \in Thread : HalfDone(t)'
  BY TypeStep DEF IInv
<1> USE DEF IInv
<1>a. /\ size \in Nat \ {0} /\ read_pos \in 0..size - 1 /\ write_pos \in 0..size - 1
      /\ count \in 0..size /\ size <= MaxSize
      /\ pc \in [Thread -> Inside \cup {"idle", "publish"}] /\ req \in [Thread -> Seq(Byte)]
      /\ mem \in [Index -> Byte \cup {Junk}]
  BY DEF TypeInv, TypeOK
<1>b. SUFFICES ASSUME NEW t \in Thread, Call(t) \/ Continue(t)
               PROVE  Geometry' /\ Retained' /\ HalfDone(t)'
  <2>1. CASE UNCHANGED vars
    BY <2>1 DEF vars, rb, Geometry, Retained, HalfDone, ToWrite
  <2>2. ASSUME NEW u \in Thread, Call(u) \/ Continue(u), NEW v \in Thread \ {u}
        PROVE HalfDone(v)'
    <3>1. CASE pc[v] \in Inside
      BY <3>1, <2>2, HolderAlone DEF rb, HalfDone, ToWrite
    <3>2. CASE pc[v] \notin Inside
      <4>1. pc'[v] = pc[v]
        BY <2>2, <1>a DEF Call, Continue, DevOpen, DevRelease, DevWrite, DevRead, DevLlseek,
           BufSizeSet, CopyFirst, CopyRest, CopyFails, CopyFault, PeekFirst, PeekRest, PeekFails,
           Discard, KmallocOk, KmallocFails, Publish, Goto
      <4> QED BY <4>1, <3>2 DEF HalfDone, Inside
    <3> QED BY <3>1, <3>2
  <2> QED BY <2>1, <2>2, <1>b DEF Next
<1>1. ASSUME UNCHANGED rb, pc'[t] # "copy2" PROVE Geometry' /\ Retained' /\ HalfDone(t)'
  BY <1>1 DEF rb, Geometry, Retained, HalfDone
<1>2. ASSUME NEW u \in Message, DevWrite(t, u) PROVE Geometry' /\ Retained' /\ HalfDone(t)'
  <2> DEFINE s == LastOf(u, size)
             excess == IF Len(s) > Space THEN Len(s) - Space ELSE 0
  <2>1. Len(s) \in 1..size
    BY <1>a, MessageAssumption, LastOfLen
  <2>2. excess \in 0..count
    BY <1>a, <2>1 DEF Space
  <2>3. read_pos' = (read_pos + excess) % size /\ count' = count - excess
    BY <1>2 DEF DevWrite
  <2> HIDE DEF s, excess
  <2>4. Geometry' /\ Retained'
    BY <1>2, <2>2, <2>3, DropOldest DEF DevWrite
  <2> QED BY <1>a, <1>2, <2>4 DEF DevWrite, Goto, HalfDone
<1>3. ASSUME CopyFirst(t) PROVE Geometry' /\ Retained' /\ HalfDone(t)'
  <2> DEFINE s == SubSeq(req[t], 1, ToWrite(t))
  <2>1. ToWrite(t) \in 1..Len(req[t]) /\ write_pos + ToWrite(t) <= size
    BY <1>3, ToWriteRange DEF CopyFirst, Goto
  <2>2. s \in Seq(Byte) /\ Len(s) = ToWrite(t)
    BY <1>a, <2>1, SubSeqType
  <2> HIDE DEF s
  <2>3. \A k \in Index : mem'[k] \in Byte \/ mem'[k] = mem[k]
    BY <1>3, <1>a, <2>2 DEF CopyFirst, Stored, s
  <2>4. \A k \in write_pos..write_pos + ToWrite(t) - 1 : k \in Index /\ mem'[k] \in Byte
    BY <1>3, <1>a, <2>1, <2>2 DEF CopyFirst, Stored, s, Index
  <2>5. Retained'
    <3>1. ASSUME NEW i \in 0..count - 1 PROVE (read_pos + i) % size \in Index
      <4>1. i \in 0..size
        BY <1>a
      <4> QED BY <1>a, <4>1, ModAdd DEF Index
    <3> QED BY <1>3, <2>3, <3>1 DEF CopyFirst, Retained
  <2>6. ToWrite(t)' = ToWrite(t)
    BY <1>3 DEF CopyFirst, ToWrite
  <2> QED BY <1>3, <2>4, <2>5, <2>6 DEF CopyFirst, Geometry, HalfDone
<1>4. ASSUME CopyRest(t) PROVE Geometry' /\ Retained' /\ HalfDone(t)'
  <2> DEFINE L == Len(req[t])
             s == SubSeq(req[t], ToWrite(t) + 1, L)
  <2>1. ToWrite(t) \in 1..L /\ write_pos + ToWrite(t) <= size
    BY <1>4, ToWriteRange DEF CopyRest, Goto
  <2>2. L \in 1..size - count /\ (ToWrite(t) = L \/ ToWrite(t) = size - write_pos)
    BY <1>4, <1>a DEF CopyRest, Goto, TypeInv, CallInv, WriteFits, ToWrite, Min2
  <2>3. s \in Seq(Byte) /\ Len(s) = L - ToWrite(t)
    BY <1>a, <2>1, SubSeqType
  <2> HIDE DEF s, L
  <2>4. /\ mem' = Stored(0, s) /\ count' = count + L /\ write_pos' = (write_pos + L) % size
        /\ pc'[t] = "idle" /\ UNCHANGED <<data, size, read_pos>>
    BY <1>4, <1>a DEF CopyRest, Goto, L, s
  <2>5. \A k \in Index : mem'[k] \in Byte \/ mem'[k] = mem[k]
    BY <1>a, <2>3, <2>4 DEF Stored
  <2>6. \A k \in 0..L - ToWrite(t) - 1 : mem'[k] \in Byte
    BY <1>a, <2>1, <2>2, <2>3, <2>4 DEF Stored, Index
  <2>7. Geometry'
    <3>0. count \in Nat /\ L \in Nat /\ count + L <= size
      BY <1>a, <2>2
    <3>1. (((read_pos + count) % size) + L) % size = (read_pos + (count + L)) % size
      BY ONLY <1>a, <3>0, ModAssoc
    <3> QED BY <2>4, <3>1 DEF Geometry
  <2>8. ASSUME NEW i \in 0..count + L - 1, data PROVE mem'[(read_pos + i) % size] \in Byte
    <3>1. (read_pos + i) % size \in Index
      <4>1. i \in 0..size
        BY <1>a, <2>2
      <4> QED BY <1>a, <4>1, ModAdd DEF Index
    <3>2. CASE i < count
      <4>1. i \in 0..count - 1
        BY <3>2, <1>a
      <4>2. mem[(read_pos + i) % size] \in Byte
        BY <2>8, <4>1 DEF Retained
      <4> QED BY <2>5, <3>1, <4>2
    <3>3. CASE i >= count
      <4> DEFINE j == i - count
      <4>1. j \in 0..L - 1 /\ count + j = i /\ j \in 0..size
        BY <3>3, <1>a, <2>2
      <4>2. (read_pos + i) % size = (write_pos + j) % size
        <5>1. (((read_pos + count) % size) + j) % size = (read_pos + (count + j)) % size
          <6>1. count \in Nat /\ j \in Nat /\ count + j <= size
            BY <1>a, <2>2, <4>1
          <6> QED BY ONLY <1>a, <6>1, ModAssoc
        <5> QED BY <5>1, <4>1 DEF Geometry
      <4> HIDE DEF j
      <4>3. (write_pos + j) % size = IF write_pos + j < size THEN write_pos + j ELSE write_pos + j - size
        BY <1>a, <4>1, ModAdd
      <4>4. CASE j < ToWrite(t)
        <5>1. write_pos + j < size /\ write_pos + j \in write_pos..write_pos + ToWrite(t) - 1
          BY <1>a, <2>1, <4>1, <4>4
        <5>2. mem[write_pos + j] \in Byte
          BY <1>4, <5>1 DEF CopyRest, Goto, HalfDone
        <5> QED BY <2>5, <3>1, <4>2, <4>3, <5>1, <5>2
      <4>5. CASE j >= ToWrite(t)
        <5>1. (write_pos + j) % size \in 0..L - ToWrite(t) - 1
          BY <1>a, <2>1, <2>2, <4>1, <4>3, <4>5
        <5> QED BY <2>6, <4>2, <5>1
      <4> QED BY <4>1, <4>4, <4>5, <2>1, <1>a
    <3> QED BY <3>2, <3>3, <1>a, <2>2
  <2>9. Retained'
    <3>1. data => \A i \in 0..count + L - 1 : mem'[(read_pos + i) % size] \in Byte
      BY <2>8
    <3>2. read_pos' = read_pos /\ size' = size /\ count' = count + L /\ data' = data
      BY <2>4
    <3>3. data' => \A i \in 0..count' - 1 : mem'[(read_pos' + i) % size'] \in Byte
      <4> SUFFICES ASSUME data', NEW i \in 0..count' - 1
                   PROVE  mem'[(read_pos' + i) % size'] \in Byte
        OBVIOUS
      <4>1. i \in 0..count + L - 1
        BY <3>2, <2>2, <1>a
      <4>2. data
        BY <3>2
      <4>3. mem'[(read_pos + i) % size] \in Byte
        BY <3>1, <4>1, <4>2
      <4> QED BY <3>2, <4>3
    <3> QED BY ONLY <3>3 DEF Retained
  <2>10. HalfDone(t)'
    BY <2>4 DEF HalfDone
  <2> QED BY <2>7, <2>9, <2>10
<1>5. ASSUME CopyFails(t) PROVE Geometry' /\ Retained' /\ HalfDone(t)'
  <2>1. ToWrite(t) \in 1..Len(req[t]) /\ ToWrite(t) \in Nat /\ Len(req[t]) - ToWrite(t) \in Nat
    BY <1>5, <1>a, ToWriteRange DEF CopyFails
  <2>2. PICK at \in Nat, n \in Nat :
          /\ CopyFault(t, at, n) /\ pc[t] \in {"copy1", "copy2"}
          /\ \/ at = write_pos /\ n = ToWrite(t)
             \/ at = 0 /\ n = Len(req[t]) - ToWrite(t)
    <3>1. write_pos \in Nat /\ 0 \in Nat
      BY <1>a
    <3> QED BY <1>5, <2>1, <3>1 DEF CopyFails
  <2>3. \A i \in 0..count - 1 : mem'[(read_pos + i) % size] = mem[(read_pos + i) % size]
    BY <2>2, FaultApart
  <2> QED BY <1>a, <2>2, <2>3 DEF CopyFault, Geometry, Retained, HalfDone
<1>6. ASSUME Discard(t) PROVE Geometry' /\ Retained' /\ HalfDone(t)'
  <2>1. len[t] \in 0..count
    BY <1>6, <1>a DEF Discard, Goto, TypeInv, CallInv, ReadFits
  <2>2. data /\ read_pos' = (read_pos + len[t]) % size /\ count' = count - len[t]
    BY <1>6, <2>1 DEF Discard, Goto, TypeInv, CallInv, ReadFits
  <2>3. Geometry' /\ Retained'
    BY <1>6, <2>1, <2>2, DropOldest DEF Discard
  <2> QED BY <1>6, <1>a, <2>3 DEF Discard, Goto, HalfDone
<1>7. ASSUME NEW n \in MinSize..MaxSize, BufSizeSet(t, n)
      PROVE  Geometry' /\ Retained' /\ HalfDone(t)'
  BY <1>7, <1>a DEF BufSizeSet, Goto, Geometry, Retained, HalfDone
<1>8. ASSUME KmallocOk(t) PROVE Geometry' /\ Retained' /\ HalfDone(t)'
  <2>1. len[t] \in Nat \ {0}
    BY <1>8 DEF KmallocOk, Goto, TypeInv, CallInv, SizeFits, Setting
  <2> QED BY <1>8, <1>a, <2>1 DEF KmallocOk, Goto, Geometry, Retained, HalfDone
<1>9. CASE \/ DevOpen(t) \/ DevRelease(t) \/ \E n \in 1..MaxSize : DevRead(t, n)
           \/ \E off \in Offset, w \in {"SET", "CUR", "END"} : DevLlseek(t, off, w)
           \/ PeekFirst(t) \/ PeekRest(t) \/ PeekFails(t) \/ KmallocFails(t) \/ Publish(t)
  BY <1>9, <1>1, <1>a DEF DevOpen, DevRelease, DevRead, DevLlseek, PeekFirst, PeekRest,
     PeekFails, KmallocFails, Publish, Goto, rb
<1> QED BY <1>b, <1>2, <1>3, <1>4, <1>5, <1>6, <1>7, <1>8, <1>9 DEF Call, Continue

(***************************************************************************)
(* Integrity holds in every execution, for every size up to MaxSize and    *)
(* any number of threads: a byte delivered is a byte some user wrote.      *)
(***************************************************************************)
THEOREM IntegrityHolds == Spec => []Integrity
<1>1. IInv => Integrity
  <2> SUFFICES ASSUME IInv, data, NEW i \in DOMAIN Contents PROVE Contents[i] \in Byte
    BY DEF Integrity, IInv, Geometry
  <2>1. i - 1 \in 0..count - 1 /\ i \in 1..count /\ read_pos + i - 1 = read_pos + (i - 1)
    BY DEF Contents, IInv, TypeInv, TypeOK
  <2> QED BY <2>1 DEF Contents, IInv, Retained
<1> QED BY IntegrityInit, IntegrityStep, <1>1, PTL DEF Spec

-----------------------------------------------------------------------------
(***************************************************************************)
(* The inductive strengthening of ReadExact: after the first copy of a     *)
(* read the user has the bytes up to the end of the buffer.                *)
(***************************************************************************)
HalfRead(t) == pc[t] = "peek2" =>
    ubuf[t] = [i \in 1..Part1(t) |-> mem[read_pos + i - 1]]
AllRead(t) == pc[t] = "discard" =>
    /\ len[t] \in 1..Len(Contents)
    /\ ubuf[t] = SubSeq(Contents, 1, len[t])

\* A read's own steps extend what it has copied, and no other task's step changes it.
LEMMA ReadStep ==
    ASSUME TypeInv, NEW t \in Thread, HalfRead(t), AllRead(t), [Next]_vars
    PROVE  HalfRead(t)' /\ AllRead(t)'
<1>a. /\ size \in Nat \ {0} /\ read_pos \in 0..size - 1 /\ count \in 0..size /\ data \in BOOLEAN
      /\ pc \in [Thread -> Inside \cup {"idle", "publish"}]
      /\ ubuf \in [Thread -> Seq(Byte \cup {Junk})] /\ len \in [Thread -> Nat]
  BY DEF TypeInv, TypeOK
<1>1. CASE UNCHANGED vars
  BY <1>1 DEF vars, rb, HalfRead, AllRead, Part1, Contents
<1>2. ASSUME NEW u \in Thread \ {t}, Call(u) \/ Continue(u) PROVE HalfRead(t)' /\ AllRead(t)'
  <2>1. CASE pc[t] \in Inside
    <3>1. /\ UNCHANGED rb /\ pc'[t] = pc[t]
          /\ ubuf'[t] = ubuf[t] /\ len'[t] = len[t]
      BY <1>2, <2>1, HolderAlone
    <3>2. Part1(t)' = Part1(t) /\ Contents' = Contents
      BY <3>1 DEF rb, Part1, Contents
    <3> QED BY <3>1, <3>2 DEF rb, HalfRead, AllRead
  <2>2. CASE pc[t] \notin Inside
    <3>1. pc'[t] = pc[t]
      BY <1>2, <1>a DEF Call, Continue, DevOpen, DevRelease, DevWrite, DevRead, DevLlseek,
         BufSizeSet, CopyFirst, CopyRest, CopyFails, CopyFault, PeekFirst, PeekRest, PeekFails,
         Discard, KmallocOk, KmallocFails, Publish, Goto
    <3> QED BY <2>2, <3>1 DEF HalfRead, AllRead, Inside
  <2> QED BY <2>1, <2>2
<1>3. CASE PeekFirst(t)
  BY <1>3, <1>a DEF PeekFirst, Goto, rb, HalfRead, AllRead, Part1
<1>4. CASE PeekRest(t)
  <2>1. /\ data /\ len[t] \in 1..count /\ pc[t] = "peek2"
    BY <1>4 DEF PeekRest, Goto, TypeInv, CallInv, ReadFits
  <2>2. /\ Part1(t) \in 1..len[t] /\ read_pos + Part1(t) <= size
        /\ Part1(t) = len[t] \/ Part1(t) = size - read_pos
    BY <2>1, <1>a, Part1Range DEF Part1, Min2
  <2> DEFINE rest == [i \in 1..len[t] - Part1(t) |-> mem[i - 1]]
             got  == ubuf[t] \o rest
             want == SubSeq(Contents, 1, len[t])
  <2>3. Contents = [i \in 1..count |-> mem[(read_pos + i - 1) % size]]
    BY <2>1 DEF Contents
  <2>4. Len(Contents) = count /\ Contents \in Seq(Byte \cup {Junk})
    <3>1. \A i \in 1..count : mem[(read_pos + i - 1) % size] \in Byte \cup {Junk}
      BY <1>a DEF TypeInv, TypeOK, Index
    <3> QED BY ONLY <1>a, <2>3, <3>1
  <2>5. want = [i \in 1..len[t] |-> mem[(read_pos + i - 1) % size]]
    BY <1>a, <2>1, <2>3, <2>4
  <2>6. ubuf[t] = [i \in 1..Part1(t) |-> mem[read_pos + i - 1]] /\ Len(ubuf[t]) = Part1(t)
    BY <2>1, <2>2, <1>a DEF HalfRead
  <2>7. got = [i \in 1..len[t] |->
                 IF i <= Part1(t) THEN mem[read_pos + i - 1] ELSE mem[i - Part1(t) - 1]]
    <3>1. \A i \in 1..len[t] - Part1(t) : mem[i - 1] \in Byte \cup {Junk}
      BY <2>1, <2>2, <1>a DEF TypeInv, TypeOK, Index
    <3>2. rest \in Seq(Byte \cup {Junk}) /\ Len(rest) = len[t] - Part1(t)
      <4>1. len[t] - Part1(t) \in Nat
        BY <2>1, <2>2, <1>a
      <4> QED BY ONLY <3>1, <4>1
    <3>3. \A i \in 1..len[t] - Part1(t) : rest[i] = mem[i - 1]
      OBVIOUS
    <3> HIDE DEF rest
    <3>4. got = [i \in 1..Len(ubuf[t]) + Len(rest) |->
                   IF i <= Len(ubuf[t]) THEN ubuf[t][i] ELSE rest[i - Len(ubuf[t])]]
      <4>1. got \in Seq(Byte \cup {Junk}) /\ Len(got) = Len(ubuf[t]) + Len(rest)
        <5>1. ubuf[t] \in Seq(Byte \cup {Junk})
          BY <1>a
        <5> QED BY ONLY <5>1, <3>2, ConcatProperties
      <4>2. \A i \in 1..Len(ubuf[t]) + Len(rest) :
              got[i] = IF i <= Len(ubuf[t]) THEN ubuf[t][i] ELSE rest[i - Len(ubuf[t])]
        BY <3>2, <1>a, ConcatProperties
      <4> HIDE DEF got
      <4> QED BY <4>1, <4>2
    <3>5. Len(ubuf[t]) + Len(rest) = len[t]
      BY <3>2, <2>1, <2>2, <2>6, <1>a
    <3>6. \A i \in 1..len[t] :
            got[i] = IF i <= Part1(t) THEN mem[read_pos + i - 1] ELSE mem[i - Part1(t) - 1]
      <4> HIDE DEF got
      <4> SUFFICES ASSUME NEW i \in 1..len[t]
                   PROVE  got[i] = IF i <= Part1(t) THEN mem[read_pos + i - 1]
                                                   ELSE mem[i - Part1(t) - 1]
        OBVIOUS
      <4>0. len[t] \in Nat /\ Part1(t) \in 1..len[t] /\ i \in Nat
        BY <1>a, <2>2
      <4>1. got[i] = IF i <= Part1(t) THEN ubuf[t][i] ELSE rest[i - Part1(t)]
        BY <3>4, <3>5, <2>6
      <4>2. CASE i <= Part1(t)
        <5>1. i \in 1..Part1(t)
          BY <4>0, <4>2
        <5>2. ubuf[t][i] = mem[read_pos + i - 1]
          BY <2>6, <5>1
        <5> QED BY <4>1, <4>2, <5>2
      <4>3. CASE ~ (i <= Part1(t))
        <5>1. i - Part1(t) \in 1..len[t] - Part1(t)
          BY <4>0, <4>3
        <5> QED BY <4>1, <4>3, <5>1, <3>3
      <4> QED BY <4>2, <4>3
    <3> HIDE DEF got
    <3> QED BY <3>4, <3>5, <3>6
  <2>8. ASSUME NEW i \in 1..len[t]
        PROVE  (read_pos + i - 1) % size =
                 IF i <= Part1(t) THEN read_pos + i - 1 ELSE i - Part1(t) - 1
    <3>1. i - 1 \in 0..size /\ read_pos + i - 1 = read_pos + (i - 1)
      BY <1>a, <2>1
    <3>2. (read_pos + (i - 1)) % size =
            IF read_pos + (i - 1) < size THEN read_pos + (i - 1) ELSE read_pos + (i - 1) - size
      BY ONLY <1>a, <3>1, ModAdd
    <3> QED BY <1>a, <2>1, <2>2, <3>1, <3>2
  <2>9. got = want
    BY <2>5, <2>7, <2>8
  <2> HIDE DEF got, want
  <2>10. pc'[t] = "discard" /\ ubuf'[t] = got /\ len' = len /\ Contents' = Contents
    BY <1>4, <1>a DEF PeekRest, Goto, rb, Contents, got
  <2> QED BY <2>1, <2>4, <2>9, <2>10 DEF HalfRead, AllRead, want
<1>5. CASE (Call(t) \/ Continue(t)) /\ ~ PeekFirst(t) /\ ~ PeekRest(t)
  <2>1. pc'[t] \notin {"peek2", "discard"}
    BY <1>5, <1>a DEF Call, Continue, DevOpen, DevRelease, DevWrite, DevRead, DevLlseek,
       BufSizeSet, CopyFirst, CopyRest, CopyFails, CopyFault, PeekFails,
       Discard, KmallocOk, KmallocFails, Publish, Goto
  <2> QED BY <2>1 DEF HalfRead, AllRead
<1> QED BY <1>1, <1>2, <1>3, <1>4, <1>5 DEF Next

(***************************************************************************)
(* What a read removes is exactly what it delivered, for any number of     *)
(* concurrent readers, writers and resizes.                                *)
(***************************************************************************)
THEOREM ReadIsExact == Spec => []ReadExact
<1> DEFINE RInv == TypeInv /\ \A t \in Thread : HalfRead(t) /\ AllRead(t)
<1>1. Init => RInv
  BY TypeInit DEF Init, HalfRead, AllRead
<1>2. RInv /\ [Next]_vars => RInv'
  BY TypeStep, ReadStep
<1>3. RInv => ReadExact
  BY DEF ReadExact, AllRead
<1> QED BY <1>1, <1>2, <1>3, PTL DEF Spec

-----------------------------------------------------------------------------
(***************************************************************************)
(* The inductive strengthening of ParamInSync: one setter at a time, the   *)
(* parameter equals the size until kmalloc succeeds, and the setter still  *)
(* remembers the size it installed.                                        *)
(***************************************************************************)
OneSetter == \A t, u \in Thread : pc[t] \in Setting /\ pc[u] \in Setting => t = u
Published == /\ (\A t \in Thread : pc[t] # "publish") => param_buf_size = size
             /\ \A t \in Thread : pc[t] = "publish" => len[t] = size

\* Every step keeps the published size in step with the buffer's.
LEMMA ParamStep == TypeInv /\ OneSetter /\ Published /\ [Next]_vars => (OneSetter /\ Published)'
<1> SUFFICES ASSUME TypeInv, OneSetter, Published, [Next]_vars PROVE (OneSetter /\ Published)'
  OBVIOUS
<1>a. /\ pc \in [Thread -> Inside \cup {"idle", "publish"}] /\ len \in [Thread -> Nat]
  BY DEF TypeInv, TypeOK
<1> USE DEF OneSetter, Published, Setting, Goto
<1>1. CASE UNCHANGED vars
  BY <1>1 DEF vars, rb, file
<1>2. ASSUME NEW t \in Thread, NEW n \in MinSize..MaxSize, BufSizeSet(t, n)
      PROVE  (OneSetter /\ Published)'
  BY <1>2, <1>a DEF BufSizeSet, file
<1>3. ASSUME NEW t \in Thread, KmallocOk(t) PROVE (OneSetter /\ Published)'
  BY <1>3, <1>a DEF KmallocOk, file
<1>4. ASSUME NEW t \in Thread, KmallocFails(t) PROVE (OneSetter /\ Published)'
  BY <1>4, <1>a DEF KmallocFails, file, rb
<1>5. ASSUME NEW t \in Thread, Publish(t) PROVE (OneSetter /\ Published)'
  BY <1>5, <1>a DEF Publish, rb
<1>6. ASSUME NEW t \in Thread, pc[t] \notin Setting, pc'[t] \notin Setting,
             \A u \in Thread \ {t} : pc'[u] = pc[u] /\ len'[u] = len[u],
             UNCHANGED <<size, param_buf_size>>
      PROVE  (OneSetter /\ Published)'
  BY <1>6
<1>7. ASSUME NEW t \in Thread,
             \/ DevOpen(t) \/ DevRelease(t) \/ CopyFirst(t) \/ CopyRest(t) \/ CopyFails(t)
             \/ PeekFirst(t) \/ PeekRest(t) \/ PeekFails(t) \/ Discard(t)
             \/ \E u \in Message : DevWrite(t, u)
             \/ \E n \in 1..MaxSize : DevRead(t, n)
             \/ \E off \in Offset, w \in {"SET", "CUR", "END"} : DevLlseek(t, off, w)
      PROVE  (OneSetter /\ Published)'
  <2>1. /\ pc[t] \notin Setting /\ pc'[t] \notin Setting
        /\ UNCHANGED <<size, param_buf_size>>
        /\ \A u \in Thread \ {t} : pc'[u] = pc[u] /\ len'[u] = len[u]
    BY <1>7, <1>a DEF DevOpen, DevRelease, DevWrite, DevRead, DevLlseek, CopyFirst, CopyRest,
       CopyFails, CopyFault, PeekFirst, PeekRest, PeekFails, Discard, rb, file
  <2> QED BY <1>6, <2>1
<1> QED BY <1>1, <1>2, <1>3, <1>4, <1>5, <1>7 DEF Next, Call, Continue

(***************************************************************************)
(* The parameter sysfs shows is the size of the buffer between two         *)
(* resizes, failed ones included, given the kernel's parameter lock.       *)
(***************************************************************************)
THEOREM ParamIsInSync == Spec => []ParamInSync
<1> DEFINE PInv == TypeInv /\ OneSetter /\ Published
<1>1. Init => PInv
  BY TypeInit DEF Init, OneSetter, Published, Setting
<1>2. PInv /\ [Next]_vars => PInv'
  BY TypeStep, ParamStep
<1>3. PInv => ParamInSync
  BY DEF ParamInSync, Published, Setting
<1> QED BY <1>1, <1>2, <1>3, PTL DEF Spec

-----------------------------------------------------------------------------
(***************************************************************************)
(* The refinement of LossyFifo needs to know which bytes are in the        *)
(* buffer, where Integrity says only that users wrote them: the first half *)
(* of a write holds the user's bytes, and a resize has freed the old ones. *)
(***************************************************************************)
HalfStored(t) == pc[t] = "copy2" => \A k \in 1..ToWrite(t) : mem[write_pos + k - 1] = req[t][k]
Freed(t)      == pc[t] = "kmalloc" => ~ data

FInv == IInv /\ \A t \in Thread : HalfStored(t) /\ Freed(t)

\* The bytes retained, as a sequence.
Listed ==
    /\ Contents \in Seq(Byte \cup {Junk})
    /\ Len(Contents) = IF data THEN count ELSE 0
    /\ \A i \in 1..Len(Contents) : Contents[i] = mem[(read_pos + (i - 1)) % size]

\* Contents is that sequence.
LEMMA ContentsType == TypeInv => Listed
<1> SUFFICES ASSUME TypeInv PROVE Listed
  OBVIOUS
<1>1. /\ size \in Nat \ {0} /\ read_pos \in 0..size - 1 /\ count \in 0..size /\ data \in BOOLEAN
      /\ size <= MaxSize /\ mem \in [Index -> Byte \cup {Junk}]
  BY DEF TypeInv, TypeOK
<1> DEFINE n == IF data THEN count ELSE 0
<1>2. n \in 0..size
  BY <1>1
<1>3. Contents = [i \in 1..n |-> mem[(read_pos + i - 1) % size]]
  BY DEF Contents
<1> HIDE DEF n
<1>4. \A i \in 1..n : /\ mem[(read_pos + i - 1) % size] \in Byte \cup {Junk}
                      /\ read_pos + i - 1 = read_pos + (i - 1)
  BY <1>1, <1>2 DEF Index
<1>5. Contents \in Seq(Byte \cup {Junk}) /\ Len(Contents) = n
  BY ONLY <1>2, <1>3, <1>4
<1> QED BY <1>3, <1>4, <1>5 DEF n, Listed

\* The same of the next state.
LEMMA ContentsTypeNext == TypeInv' => Listed'
BY ContentsType, PTL

\* A step that leaves the retained cells alone leaves the contents alone.
LEMMA SameContents ==
    ASSUME TypeInv, TypeInv', UNCHANGED <<data, size, read_pos, count>>,
           data => \A i \in 0..count - 1 : mem'[(read_pos + i) % size] = mem[(read_pos + i) % size]
    PROVE  Contents' = Contents
<1> DEFINE n == IF data THEN count ELSE 0
<1>1. n \in Nat
  BY DEF TypeInv, TypeOK
<1>2. Contents = [i \in 1..n |-> mem[(read_pos + i - 1) % size]]
  BY DEF Contents
<1>3. Contents' = [i \in 1..n |-> mem'[(read_pos + i - 1) % size]]
  BY DEF Contents
<1>4. ASSUME NEW i \in 1..n
      PROVE  mem'[(read_pos + i - 1) % size] = mem[(read_pos + i - 1) % size]
  <2>1. i - 1 \in 0..count - 1 /\ data /\ read_pos + i - 1 = read_pos + (i - 1)
    BY <1>1 DEF TypeInv, TypeOK
  <2> QED BY <2>1
<1> HIDE DEF n
<1> QED BY <1>2, <1>3, <1>4

\* Moving read_pos e cells on drops the e oldest bytes.
LEMMA ContentsDropped ==
    ASSUME TypeInv, TypeInv', data, NEW e \in 0..count,
           UNCHANGED <<data, mem, size>>,
           read_pos' = (read_pos + e) % size, count' = count - e
    PROVE  Contents' = SubSeq(Contents, e + 1, Len(Contents))
<1>1. size \in Nat \ {0} /\ read_pos \in 0..size - 1 /\ count \in 0..size
  BY DEF TypeInv, TypeOK
<1>2. /\ Contents \in Seq(Byte \cup {Junk}) /\ Len(Contents) = count
      /\ \A i \in 1..count : Contents[i] = mem[(read_pos + (i - 1)) % size]
  BY ContentsType DEF Listed
<1>3. /\ Contents' \in Seq(Byte \cup {Junk}) /\ Len(Contents') = count - e
      /\ \A i \in 1..count - e : Contents'[i] = mem[(((read_pos + e) % size) + (i - 1)) % size]
  BY ContentsTypeNext DEF Listed
<1>4. ASSUME NEW i \in 1..count - e PROVE Contents'[i] = Contents[e + i]
  <2>1. e \in Nat /\ i - 1 \in Nat /\ e + (i - 1) <= size /\ e + i \in 1..count
        /\ (e + i) - 1 = e + (i - 1)
    BY <1>1
  <2>2. (((read_pos + e) % size) + (i - 1)) % size = (read_pos + (e + (i - 1))) % size
    BY ONLY <1>1, <2>1, ModAssoc
  <2>3. Contents[e + i] = mem[(read_pos + ((e + i) - 1)) % size]
    BY <1>2, <2>1
  <2> QED BY <1>3, <2>1, <2>2, <2>3
<1> DEFINE rest == SubSeq(Contents, e + 1, Len(Contents))
<1>5. rest \in Seq(Byte \cup {Junk}) /\ Len(rest) = count - e
      /\ \A i \in 1..count - e : rest[i] = Contents[e + i]
  BY ONLY <1>1, <1>2
<1> HIDE DEF rest
<1>6. Contents' = rest
  BY ONLY <1>1, <1>3, <1>4, <1>5
<1> QED BY <1>6 DEF rest

\* The write under way, if there is one, is that of the owner of the mutex.
LEMMA OneWriter ==
    ASSUME TypeInv
    PROVE  /\ \A t \in Thread : pc[t] \in {"copy1", "copy2"} => Pending = req[t] /\ Pending # <<>>
           /\ (\A t \in Thread : pc[t] \notin {"copy1", "copy2"}) => Pending = <<>>
<1>1. ASSUME NEW t \in Thread, pc[t] \in {"copy1", "copy2"} PROVE Pending = req[t] /\ Pending # <<>>
  <2>1. Writing = {t}
    BY <1>1 DEF Writing, TypeInv, LockInv, Inside
  <2>2. (CHOOSE u \in Writing : TRUE) = t
    BY <2>1
  <2>3. Len(req[t]) >= 1
    BY <1>1 DEF TypeInv, TypeOK, CallInv, WriteFits
  <2> QED BY <2>1, <2>2, <2>3 DEF Pending
<1>2. (\A t \in Thread : pc[t] \notin {"copy1", "copy2"}) => Pending = <<>>
  BY DEF Pending, Writing
<1> QED BY <1>1, <1>2

\* The first copy of a write.
LEMMA FirstCopied ==
    ASSUME FInv, NEW t \in Thread, CopyFirst(t)
    PROVE  /\ \A k \in 1..ToWrite(t) : mem'[write_pos + k - 1] = req[t][k]
           /\ \A i \in 0..count - 1 : mem'[(read_pos + i) % size] = mem[(read_pos + i) % size]
<1>1. /\ size \in Nat \ {0} /\ write_pos \in 0..size - 1 /\ read_pos \in 0..size - 1
      /\ count \in 0..size /\ size <= MaxSize
      /\ req[t] \in Seq(Byte) /\ ToWrite(t) \in 1..Len(req[t]) /\ write_pos + ToWrite(t) <= size
      /\ pc[t] = "copy1" /\ mem' = Stored(write_pos, SubSeq(req[t], 1, ToWrite(t)))
  BY ToWriteRange DEF FInv, IInv, TypeInv, TypeOK, CopyFirst, Goto
<1> DEFINE s == SubSeq(req[t], 1, ToWrite(t))
<1>2. Len(s) = ToWrite(t) /\ \A k \in 1..ToWrite(t) : s[k] = req[t][k]
  BY ONLY <1>1
<1> HIDE DEF s
<1>3. ASSUME NEW k \in 1..ToWrite(t) PROVE mem'[write_pos + k - 1] = req[t][k]
  <2>1. /\ write_pos + k - 1 \in Index /\ write_pos + k - 1 \in write_pos..write_pos + Len(s) - 1
        /\ (write_pos + k - 1) - write_pos + 1 = k
    BY <1>1, <1>2 DEF Index
  <2>2. mem'[write_pos + k - 1] = s[(write_pos + k - 1) - write_pos + 1]
    BY <1>1, <2>1 DEF Stored, s
  <2> QED BY <1>2, <2>1, <2>2
<1>4. ASSUME NEW i \in 0..count - 1
      PROVE  mem'[(read_pos + i) % size] = mem[(read_pos + i) % size]
  <2>1. (read_pos + i) % size \notin write_pos..write_pos + Len(s) - 1
    BY <1>1, <1>2, CopyApart DEF FInv, IInv
  <2>2. (read_pos + i) % size \in Index
    <3>1. i \in 0..size
      BY <1>1
    <3>2. (read_pos + i) % size \in 0..size - 1
      BY ONLY <1>1, <3>1, ModAdd
    <3> QED BY <1>1, <3>2 DEF Index
  <2> QED BY <1>1, <2>1, <2>2 DEF Stored, s
<1> QED BY <1>3, <1>4

\* Both hold initially and are kept by every step.
LEMMA FifoInit == Init => FInv
BY IntegrityInit DEF Init, FInv, HalfStored, Freed

\* Every step keeps the invariant of the refinement.
LEMMA FifoInvStep == FInv /\ [Next]_vars => FInv'
<1> SUFFICES ASSUME FInv, [Next]_vars, NEW t \in Thread PROVE HalfStored(t)' /\ Freed(t)'
  BY IntegrityStep DEF FInv
<1>a. pc \in [Thread -> Inside \cup {"idle", "publish"}] /\ TypeInv
  BY DEF FInv, IInv, TypeInv, TypeOK
<1>1. CASE UNCHANGED vars
  BY <1>1 DEF FInv, vars, rb, HalfStored, Freed, ToWrite
<1>2. ASSUME NEW u \in Thread \ {t}, Call(u) \/ Continue(u) PROVE HalfStored(t)' /\ Freed(t)'
  <2>1. CASE pc[t] \in Inside
    BY <2>1, <1>2, <1>a, HolderAlone DEF FInv, rb, HalfStored, Freed, ToWrite
  <2>2. CASE pc[t] \notin Inside
    <3>1. pc'[t] = pc[t]
      BY <1>2, <1>a DEF Call, Continue, DevOpen, DevRelease, DevWrite, DevRead, DevLlseek,
         BufSizeSet, CopyFirst, CopyRest, CopyFails, CopyFault, PeekFirst, PeekRest, PeekFails,
         Discard, KmallocOk, KmallocFails, Publish, Goto
    <3> QED BY <2>2, <3>1 DEF HalfStored, Freed, Inside
  <2> QED BY <2>1, <2>2
<1>3. CASE CopyFirst(t)
  <2>1. ToWrite(t)' = ToWrite(t) /\ write_pos' = write_pos /\ req' = req /\ pc'[t] = "copy2"
    BY <1>3, <1>a DEF CopyFirst, Goto, ToWrite
  <2> QED BY <1>3, <2>1, FirstCopied DEF HalfStored, Freed
<1>4. ASSUME NEW n \in MinSize..MaxSize, BufSizeSet(t, n) PROVE HalfStored(t)' /\ Freed(t)'
  BY <1>4, <1>a DEF BufSizeSet, Goto, HalfStored, Freed
<1>5. ASSUME Call(t) \/ Continue(t), ~ CopyFirst(t), \A n \in MinSize..MaxSize : ~ BufSizeSet(t, n)
      PROVE  HalfStored(t)' /\ Freed(t)'
  <2>1. pc'[t] \notin {"copy2", "kmalloc"}
    BY <1>5, <1>a DEF Call, Continue, DevOpen, DevRelease, DevWrite, DevRead, DevLlseek,
       CopyRest, CopyFails, CopyFault, PeekFirst, PeekRest, PeekFails,
       Discard, KmallocOk, KmallocFails, Publish, Goto
  <2> QED BY <2>1 DEF HalfStored, Freed
<1> QED BY <1>1, <1>2, <1>3, <1>4, <1>5 DEF Next

\* Who is not writing does not start to, and the write under way keeps its bytes.
LEMMA SamePending ==
    ASSUME UNCHANGED req,
           \A t \in Thread : pc[t] \in {"copy1", "copy2"} <=> pc'[t] \in {"copy1", "copy2"}
    PROVE  Pending' = Pending
<1>1. Writing' = Writing
  BY DEF Writing
<1> QED BY <1>1 DEF Pending

\* The same of the next state.
LEMMA OneWriterNext ==
    TypeInv' =>
      /\ \A t \in Thread : pc'[t] \in {"copy1", "copy2"} => Pending' = req'[t]
      /\ (\A t \in Thread : pc'[t] \notin {"copy1", "copy2"}) => Pending' = <<>>
<1> DEFINE P == /\ \A t \in Thread : pc[t] \in {"copy1", "copy2"} => Pending = req[t]
                /\ (\A t \in Thread : pc[t] \notin {"copy1", "copy2"}) => Pending = <<>>
<1>1. TypeInv => P
  BY OneWriter
<1>2. TypeInv' => P'
  BY <1>1, PTL
<1> QED BY <1>2

\* What is left of a sequence behind its n-th element, and what a concatenation holds.
LEMMA TailFrom ==
    ASSUME NEW S, NEW q \in Seq(S), NEW n \in 0..Len(q)
    PROVE  /\ SubSeq(q, n + 1, Len(q)) \in Seq(S)
           /\ Len(SubSeq(q, n + 1, Len(q))) = Len(q) - n
           /\ \A k \in 1..Len(q) - n : SubSeq(q, n + 1, Len(q))[k] = q[n + k]
OBVIOUS

\* The members of a concatenation.
LEMMA JoinedWith ==
    ASSUME NEW S, NEW q \in Seq(S), NEW r \in Seq(S)
    PROVE  /\ q \o r \in Seq(S) /\ Len(q \o r) = Len(q) + Len(r)
           /\ \A i \in 1..Len(q) + Len(r) :
                (q \o r)[i] = IF i <= Len(q) THEN q[i] ELSE r[i - Len(q)]
OBVIOUS

\* The second copy appends the bytes of the write to the contents.
LEMMA Appended ==
    ASSUME FInv, FInv', NEW t \in Thread, CopyRest(t)
    PROVE  Contents' = Contents \o req[t]
<1> DEFINE L == Len(req[t])
           s == SubSeq(req[t], ToWrite(t) + 1, L)
<1>1. /\ size \in Nat \ {0} /\ write_pos \in 0..size - 1 /\ read_pos \in 0..size - 1
      /\ count \in 0..size /\ size <= MaxSize
      /\ req[t] \in Seq(Byte) /\ L \in 1..size - count /\ data
      /\ ToWrite(t) \in 1..L /\ write_pos + ToWrite(t) <= size
      /\ pc[t] = "copy2" /\ mem' = Stored(0, s) /\ count' = count + L
      /\ UNCHANGED <<data, size, read_pos>>
      /\ TypeInv /\ Geometry
  <2>1. pc[t] = "copy2" /\ TypeInv /\ Geometry
    BY DEF FInv, IInv, CopyRest, Goto
  <2>2. /\ size \in Nat \ {0} /\ write_pos \in 0..size - 1 /\ read_pos \in 0..size - 1
        /\ count \in 0..size /\ size <= MaxSize /\ req[t] \in Seq(Byte)
    BY <2>1 DEF TypeInv, TypeOK
  <2>3. data /\ L \in 1..size - count
    BY <2>1 DEF TypeInv, CallInv, WriteFits
  <2>4. ToWrite(t) \in 1..L /\ write_pos + ToWrite(t) <= size
    BY <2>1, ToWriteRange
  <2>5. mem' = Stored(0, s) /\ count' = count + L /\ UNCHANGED <<data, size, read_pos>>
    BY DEF CopyRest
  <2> QED BY <2>1, <2>2, <2>3, <2>4, <2>5
<1>2. Len(s) = L - ToWrite(t) /\ \A k \in 1..L - ToWrite(t) : s[k] = req[t][ToWrite(t) + k]
  <2>1. req[t] \in Seq(Byte) /\ ToWrite(t) \in 0..Len(req[t])
    BY <1>1
  <2> QED BY ONLY <2>1, TailFrom, Zenon
<1>3. \A k \in 1..ToWrite(t) : mem[write_pos + k - 1] = req[t][k]
  BY <1>1 DEF FInv, HalfStored
<1> HIDE DEF s, L
<1>4. /\ Contents \in Seq(Byte \cup {Junk}) /\ Len(Contents) = count
      /\ \A i \in 1..count : Contents[i] = mem[(read_pos + (i - 1)) % size]
  BY <1>1, ContentsType DEF Listed
<1>5. /\ Contents' \in Seq(Byte \cup {Junk}) /\ Len(Contents') = count + L
      /\ \A i \in 1..count + L : Contents'[i] = mem'[(read_pos + (i - 1)) % size]
  BY <1>1, ContentsTypeNext DEF Listed, FInv, IInv
<1>6. ASSUME NEW i \in 1..count PROVE Contents'[i] = Contents[i]
  <2>1. i - 1 \in 0..count - 1 /\ i - 1 \in 0..size /\ i \in 1..count + L
    BY <1>1
  <2>2. (read_pos + (i - 1)) % size \notin 0..L - ToWrite(t) - 1
    BY <1>1, <2>1, CopyApart DEF L
  <2>3. (read_pos + (i - 1)) % size \in 0..size - 1
    BY ONLY <1>1, <2>1, ModAdd
  <2>4. mem'[(read_pos + (i - 1)) % size] = mem[(read_pos + (i - 1)) % size]
    BY <1>1, <1>2, <2>2, <2>3 DEF Stored, Index
  <2> QED BY <1>4, <1>5, <2>1, <2>4
<1>7. ASSUME NEW k \in 1..L PROVE Contents'[count + k] = req[t][k]
  <2> DEFINE cell == (write_pos + (k - 1)) % size
  <2>1. k - 1 \in 0..L - 1 /\ count + k \in 1..count + L /\ (count + k) - 1 = count + (k - 1)
        /\ count \in Nat /\ k - 1 \in Nat /\ count + (k - 1) <= size
    BY <1>1
  <2>2. (((read_pos + count) % size) + (k - 1)) % size = (read_pos + (count + (k - 1))) % size
    BY ONLY <1>1, <2>1, ModAssoc
  <2>3. Contents'[count + k] = mem'[cell]
    BY <1>1, <1>5, <2>1, <2>2 DEF Geometry
  <2>4. /\ k - 1 < ToWrite(t) => cell = write_pos + (k - 1)
        /\ k - 1 >= ToWrite(t) => cell = (k - 1) - ToWrite(t)
        /\ cell \in 0..size - 1
    BY <1>1, <2>1, WhereWritten DEF L
  <2> HIDE DEF cell
  <2>5. cell \in Index
    BY <1>1, <2>4 DEF Index
  <2>6. CASE k - 1 < ToWrite(t)
    <3>1. cell = write_pos + k - 1 /\ k \in 1..ToWrite(t)
      BY <1>1, <2>4, <2>6
    <3>2. mem[cell] = req[t][k]
      BY <1>3, <3>1
    <3>3. cell \notin 0..Len(s) - 1
      <4>1. CASE ToWrite(t) = L
        BY <1>2, <4>1, <1>1
      <4>2. CASE ToWrite(t) # L
        <5>1. ToWrite(t) = size - write_pos
          BY <4>2 DEF ToWrite, Min2, L
        <5> QED BY <1>1, <1>2, <3>1, <5>1
      <4> QED BY <4>1, <4>2
    <3>4. mem'[cell] = mem[cell]
      BY <1>1, <2>5, <3>3 DEF Stored
    <3> QED BY <2>3, <3>2, <3>4
  <2>7. CASE k - 1 >= ToWrite(t)
    <3>1. /\ cell = (k - 1) - ToWrite(t) /\ cell \in 0..Len(s) - 1
          /\ cell - 0 + 1 = k - ToWrite(t) /\ k - ToWrite(t) \in 1..L - ToWrite(t)
          /\ ToWrite(t) + (k - ToWrite(t)) = k
      BY <1>1, <1>2, <2>4, <2>7
    <3>2. mem'[cell] = s[k - ToWrite(t)]
      BY <1>1, <2>5, <3>1 DEF Stored
    <3> QED BY <1>2, <2>3, <3>1, <3>2
  <2> QED BY <1>1, <2>6, <2>7
<1> DEFINE both == Contents \o req[t]
<1>8. /\ both \in Seq(Byte \cup {Junk}) /\ Len(both) = count + L
      /\ \A i \in 1..count + L : both[i] = IF i <= count THEN Contents[i] ELSE req[t][i - count]
  <2>1. req[t] \in Seq(Byte \cup {Junk}) /\ Len(req[t]) = L
    BY <1>1 DEF L
  <2>2. /\ both \in Seq(Byte \cup {Junk}) /\ Len(both) = Len(Contents) + Len(req[t])
        /\ \A i \in 1..Len(Contents) + Len(req[t]) :
             both[i] = IF i <= Len(Contents) THEN Contents[i] ELSE req[t][i - Len(Contents)]
    BY ONLY <1>4, <2>1, JoinedWith, Zenon
  <2> HIDE DEF both
  <2> QED BY <1>4, <2>1, <2>2
<1> HIDE DEF both
<1>9. ASSUME NEW i \in 1..count + L PROVE Contents'[i] = both[i]
  <2>1. CASE i <= count
    <3>1. i \in 1..count
      BY <1>1, <2>1
    <3> QED BY <1>6, <1>8, <2>1, <3>1
  <2>2. CASE ~ (i <= count)
    <3>1. i - count \in 1..L /\ count + (i - count) = i
      BY <1>1, <2>2
    <3>2. Contents'[count + (i - count)] = req[t][i - count]
      BY <1>7, <3>1
    <3> QED BY <1>8, <2>2, <3>1, <3>2
  <2> QED BY <2>1, <2>2
<1>10. Contents' = both
  BY ONLY <1>1, <1>5, <1>8, <1>9
<1> QED BY <1>10 DEF both

(***************************************************************************)
(* Every step of the device is a step of the lossy FIFO or leaves it as it *)
(* is.                                                                     *)
(***************************************************************************)
LEMMA FifoStep ==
    ASSUME FInv, FInv', [Next]_vars
    PROVE  [Fifo!ANext]_(Fifo!avars)
<1>a. /\ TypeInv /\ TypeInv' /\ Geometry
      /\ pc \in [Thread -> Inside \cup {"idle", "publish"}] /\ req \in [Thread -> Seq(Byte)]
      /\ size \in Nat \ {0} /\ size \in MinSize..MaxSize /\ count \in 0..size /\ data \in BOOLEAN
      /\ len \in [Thread -> Nat]
  <2>1. TypeInv /\ TypeInv' /\ Geometry
    BY DEF FInv, IInv
  <2>2. TypeOK
    BY <2>1 DEF TypeInv
  <2>3. size \in Nat \ {0}
    BY <2>2 DEF TypeOK
  <2> QED BY <2>1, <2>2, <2>3 DEF TypeOK
<1>b. ASSUME Contents' = Contents, size' = size, Pending' = Pending
      PROVE  [Fifo!ANext]_(Fifo!avars)
  BY <1>b DEF Fifo!avars
<1>1. CASE UNCHANGED vars
  <2>1. Contents' = Contents /\ size' = size /\ Pending' = Pending
    BY <1>1 DEF vars, rb, Contents, Pending, Writing
  <2> QED BY <1>b, <2>1
<1>2. SUFFICES ASSUME NEW t \in Thread, Call(t) \/ Continue(t) PROVE [Fifo!ANext]_(Fifo!avars)
  BY <1>1 DEF Next
<1>3. ASSUME NEW u \in Message, DevWrite(t, u) PROVE Fifo!Reserve(u)
  <2> DEFINE s == LastOf(u, size)
             excess == IF Len(s) > Space THEN Len(s) - Space ELSE 0
  <2>1. Len(s) \in 1..size
    BY <1>a, MessageAssumption, LastOfLen
  <2>2. /\ excess \in 0..count /\ (excess = 0 => count <= size - Len(s))
        /\ (excess # 0 => excess + (size - Len(s)) = count)
    BY <1>a, <2>1 DEF Space
  <2>3. /\ read_pos' = (read_pos + excess) % size /\ count' = count - excess
        /\ req' = [req EXCEPT ![t] = s] /\ pc' = [pc EXCEPT ![t] = "copy1"]
        /\ UNCHANGED <<data, mem, size>> /\ data /\ mutex = Free
    BY <1>3 DEF DevWrite, Goto, Lock
  <2> HIDE DEF s, excess
  <2>4. Contents' = SubSeq(Contents, excess + 1, Len(Contents))
    BY <1>a, <2>2, <2>3, ContentsDropped
  <2>5. Contents \in Seq(Byte \cup {Junk}) /\ Len(Contents) = count
    BY <1>a, <2>3, ContentsType DEF Listed
  <2>6. Pending = <<>>
    <3>1. \A v \in Thread : pc[v] \notin {"copy1", "copy2"}
      BY <1>a, <2>3 DEF TypeInv, LockInv, Inside
    <3> QED BY <1>a, <3>1, OneWriter
  <2>7. Pending' = s
    BY <1>a, <2>3, OneWriterNext
  <2>8. Contents' = Fifo!LastOf(Contents, size - Len(s))
    <3>1. CASE excess = 0
      <4>1. SubSeq(Contents, 0 + 1, Len(Contents)) = Contents
        BY <2>5
      <4> QED BY <2>2, <2>4, <2>5, <3>1, <4>1 DEF Fifo!LastOf
    <3>2. CASE excess # 0
      <4>1. /\ ~ (Len(Contents) <= size - Len(s))
            /\ Len(Contents) - (size - Len(s)) + 1 = excess + 1
        <5>1. size \in Nat /\ Len(s) \in Nat /\ excess \in Nat \ {0} /\ excess + (size - Len(s)) = count
          BY <1>a, <2>1, <2>2, <3>2
        <5>2. Len(Contents) = count
          BY <2>5
        <5> QED BY ONLY <5>1, <5>2
      <4> QED BY <2>4, <4>1 DEF Fifo!LastOf
    <3> QED BY <3>1, <3>2
  <2>9. s = Fifo!LastOf(u, size)
    BY DEF s, LastOf, Fifo!LastOf
  <2> QED BY <2>3, <2>6, <2>7, <2>8, <2>9 DEF Fifo!Reserve
<1>4. ASSUME CopyFirst(t) PROVE [Fifo!ANext]_(Fifo!avars)
  <2>1. Contents' = Contents
    BY <1>4, <1>a, FirstCopied, SameContents DEF CopyFirst
  <2>2. Pending' = Pending
    BY <1>4, <1>a, SamePending DEF CopyFirst, Goto
  <2> QED BY <1>b, <1>4, <2>1, <2>2 DEF CopyFirst
<1>5. ASSUME CopyRest(t) PROVE Fifo!Commit
  <2>1. pc[t] = "copy2" /\ \A v \in Thread : pc'[v] \notin {"copy1", "copy2"}
    BY <1>5, <1>a DEF CopyRest, Goto, TypeInv, LockInv, Inside
  <2>2. Pending = req[t] /\ Pending # <<>> /\ Pending' = <<>>
    BY <1>a, <2>1, OneWriter, OneWriterNext
  <2>3. Contents' = Contents \o req[t]
    BY <1>5, Appended
  <2> QED BY <1>5, <2>2, <2>3 DEF CopyRest, Fifo!Commit
<1>6. ASSUME CopyFails(t) PROVE Fifo!Abort
  <2>1. PICK at \in Nat, n \in Nat :
          /\ CopyFault(t, at, n) /\ pc[t] \in {"copy1", "copy2"}
          /\ \/ at = write_pos /\ n = ToWrite(t)
             \/ at = 0 /\ n = Len(req[t]) - ToWrite(t)
    <3>0. pc[t] \in {"copy1", "copy2"}
      BY <1>6 DEF CopyFails, CopyFault
    <3>1. ToWrite(t) \in 1..Len(req[t]) /\ write_pos \in Nat
      <4>1. TypeInv
        BY <1>a
      <4>2. ToWrite(t) \in 1..Len(req[t])
        BY ONLY <3>0, <4>1, t \in Thread, ToWriteRange
      <4>3. write_pos \in Nat
        BY <4>1, SizeAssumption DEF TypeInv, TypeOK
      <4> QED BY <4>2, <4>3
    <3>2. ToWrite(t) \in Nat /\ Len(req[t]) - ToWrite(t) \in Nat /\ 0 \in Nat
      BY <3>1, <1>a
    <3> QED BY <1>6, <3>1, <3>2 DEF CopyFails
  <2>2. \A v \in Thread : pc'[v] \notin {"copy1", "copy2"}
    BY <1>a, <2>1 DEF CopyFault, TypeInv, LockInv, Inside
  <2>3. Pending # <<>> /\ Pending' = <<>>
    BY <1>a, <2>1, <2>2, OneWriter, OneWriterNext
  <2>4. Contents' = Contents
    BY <1>a, <2>1, FaultApart, SameContents DEF CopyFault
  <2> QED BY <2>1, <2>3, <2>4 DEF CopyFault, Fifo!Abort
<1>7. ASSUME Discard(t) PROVE \E n \in 1..Len(Contents) : Fifo!Take(n)
  <2>1. len[t] \in 1..count /\ data /\ mutex = t /\ pc[t] = "discard"
    BY <1>7, <1>a DEF Discard, Goto, TypeInv, CallInv, ReadFits, LockInv, Inside
  <2>2. read_pos' = (read_pos + len[t]) % size /\ count' = count - len[t]
    BY <1>7, <1>a, <2>1 DEF Discard
  <2>3. Contents' = SubSeq(Contents, len[t] + 1, Len(Contents)) /\ Len(Contents) = count
    BY <1>7, <1>a, <2>1, <2>2, ContentsDropped, ContentsType DEF Discard, Listed
  <2>4. \A v \in Thread : pc[v] \notin {"copy1", "copy2"}
    BY <1>a, <2>1 DEF TypeInv, LockInv, Inside
  <2>5. Pending = <<>> /\ Pending' = Pending
    BY <1>7, <1>a, <2>1, <2>4, OneWriter, SamePending DEF Discard, Goto
  <2> QED BY <1>7, <2>1, <2>3, <2>5 DEF Discard, Fifo!Take
<1>8. ASSUME NEW n \in MinSize..MaxSize, BufSizeSet(t, n) PROVE Fifo!Clear
  <2>1. \A v \in Thread : pc[v] \notin {"copy1", "copy2"}
    BY <1>8, <1>a DEF BufSizeSet, Lock, TypeInv, LockInv, Inside
  <2>2. Pending = <<>> /\ Pending' = Pending
    BY <1>8, <1>a, <2>1, OneWriter, SamePending DEF BufSizeSet, Goto
  <2>3. Contents' = <<>>
    BY <1>8 DEF BufSizeSet, Contents
  <2> QED BY <1>8, <2>2, <2>3 DEF BufSizeSet, Fifo!Clear
<1>9. ASSUME KmallocOk(t) PROVE \E n \in MinSize..MaxSize : Fifo!Resize(n)
  <2>1. pc[t] = "kmalloc" /\ ~ data /\ len[t] \in MinSize..MaxSize
    BY <1>9 DEF KmallocOk, Goto, FInv, Freed, IInv, TypeInv, CallInv, SizeFits, Setting
  <2>2. \A v \in Thread : pc[v] \notin {"copy1", "copy2"}
    BY <1>a, <2>1 DEF TypeInv, LockInv, Inside
  <2>3. Pending = <<>> /\ Pending' = Pending
    BY <1>9, <1>a, <2>1, <2>2, OneWriter, SamePending DEF KmallocOk, Goto
  <2>4. Contents = <<>> /\ Contents' = <<>>
    BY <1>9, <2>1 DEF KmallocOk, Contents
  <2> QED BY <1>9, <2>1, <2>3, <2>4 DEF KmallocOk, Fifo!Resize
<1>10. CASE \/ DevOpen(t) \/ DevRelease(t) \/ \E n \in 1..MaxSize : DevRead(t, n)
            \/ \E off \in Offset, w \in {"SET", "CUR", "END"} : DevLlseek(t, off, w)
            \/ PeekFirst(t) \/ PeekRest(t) \/ PeekFails(t) \/ KmallocFails(t) \/ Publish(t)
  <2>1. UNCHANGED rb /\ UNCHANGED req
    BY <1>10 DEF DevOpen, DevRelease, DevRead, DevLlseek, PeekFirst, PeekRest, PeekFails,
       KmallocFails, Publish
  <2>2. \A v \in Thread : pc[v] \in {"copy1", "copy2"} <=> pc'[v] \in {"copy1", "copy2"}
    BY <1>10, <1>a DEF DevOpen, DevRelease, DevRead, DevLlseek, PeekFirst, PeekRest, PeekFails,
       KmallocFails, Publish, Goto
  <2>3. Pending' = Pending
    BY <2>1, <2>2, SamePending
  <2>4. Contents' = Contents /\ size' = size
    BY <2>1 DEF rb, Contents
  <2> QED BY <1>b, <2>3, <2>4
<1> QED BY <1>2, <1>3, <1>4, <1>5, <1>6, <1>7, <1>8, <1>9, <1>10
        DEF Call, Continue, Fifo!ANext

(***************************************************************************)
(* The device is a lossy FIFO for its users, for any sizes, messages and   *)
(* number of threads: a write appends all of its bytes or none, drops only *)
(* the oldest and no more than it needs, a read removes from the front.    *)
(***************************************************************************)
THEOREM FifoRefined == Spec => ImplementsFifo
<1>1. Init => Fifo!AInit
  <2> SUFFICES ASSUME Init PROVE Fifo!AInit
    OBVIOUS
  <2>1. Contents = <<>>
    BY DEF Init, Contents
  <2>2. Writing = {} /\ Pending = <<>>
    BY DEF Init, Writing, Pending
  <2> QED BY <2>1, <2>2 DEF Init, Fifo!AInit
<1>2. FInv /\ FInv' /\ [Next]_vars => [Fifo!ANext]_(Fifo!avars)
  BY FifoStep
<1> QED BY FifoInit, FifoInvStep, <1>1, <1>2, PTL DEF Spec, ImplementsFifo, Fifo!ASpec

-----------------------------------------------------------------------------
(***************************************************************************)
(* The driver: the device between a load and an unload.                    *)
(***************************************************************************)
\* All that is inductive about the device between two calls.
DeviceInv ==
    /\ FInv
    /\ \A t \in Thread : HalfRead(t) /\ AllRead(t)
    /\ OneSetter /\ Published

(***************************************************************************)
(* Nobody is inside of the device unless it is loaded, and what is still   *)
(* to be given back is what is held, from its top down.                    *)
(***************************************************************************)
Suffixes ==
    {ExitOrder, <<"class", "cdev", "region", "buffer">>, <<"cdev", "region", "buffer">>,
     <<"region", "buffer">>, <<"buffer">>}

Quiet == phase # "live" => \A t \in Thread : pc[t] = "idle"

LifeInv ==
    /\ phase \in {"out", "init", "unwind", "live", "exit"}
    /\ held \subseteq Resource
    /\ early \in 0..MaxEarly
    /\ heap = early + (IF "buffer" \in held /\ data THEN 1 ELSE 0)
    /\ phase = "out" => held = {} /\ todo = <<>> /\ ~ data
    /\ phase = "init" => todo = <<>> /\ \E r \in Resource : held = Before[r]
    /\ phase = "live" => todo = <<>> /\ held = Resource
    /\ phase \in {"unwind", "exit"} =>
          todo \in Suffixes /\ held = {todo[i] : i \in DOMAIN todo}

DInv == DeviceInv /\ Quiet /\ LifeInv

-----------------------------------------------------------------------------
\* A step of the device, or none, keeps what is inductive about it.
LEMMA DeviceStep == DeviceInv /\ [Next]_vars => DeviceInv'
BY FifoInvStep, ReadStep, ParamStep DEF DeviceInv, FInv, IInv

\* So does a step that puts rb into the state of a new image while nobody is
\* inside of the device.
LEMMA ImageStep ==
    ASSUME DeviceInv, \A t \in Thread : pc[t] = "idle",
           NEW d \in BOOLEAN, NEW n \in MinSize..MaxSize, Image(d, n),
           param_buf_size' = n,
           UNCHANGED <<mutex, f_pos, pc, req, ubuf, len>>
    PROVE  DeviceInv'
<1>1. /\ data' = d /\ mem' = [i \in Index |-> Junk] /\ size' = n
      /\ count' = 0 /\ read_pos' = 0 /\ write_pos' = 0
  BY DEF Image
<1>2. \A t \in Thread : pc'[t] = "idle"
  OBVIOUS
<1>3. TypeOK' /\ LockInv'
  <2>1. TypeOK /\ LockInv
    BY DEF DeviceInv, FInv, IInv, TypeInv
  <2>2. LockInv'
    BY <2>1 DEF LockInv
  <2>3. mem' \in [Index -> Byte \cup {Junk}]
    BY <1>1
  <2>4. 0 \in 0..n - 1 /\ 0 \in 0..n
    OBVIOUS
  <2> QED BY <2>1, <2>2, <2>3, <2>4, <1>1 DEF TypeOK
<1>4. CallInv'
  BY <1>2 DEF CallInv, WriteFits, ReadFits, SizeFits, Setting
<1>5. Geometry' /\ Retained' /\ \A t \in Thread : HalfDone(t)'
  <2>1. n \in Nat \ {0} /\ 0 % n = 0 /\ \A i \in 0..0 - 1 : FALSE
    OBVIOUS
  <2> QED BY <1>1, <1>2, <2>1 DEF Geometry, Retained, HalfDone
<1>6. (\A t \in Thread : HalfRead(t) /\ AllRead(t))' /\ OneSetter' /\ Published'
  BY <1>1, <1>2 DEF HalfRead, AllRead, OneSetter, Published, Setting
<1>7. \A t \in Thread : HalfStored(t)' /\ Freed(t)'
  BY <1>2 DEF HalfStored, Freed
<1> QED BY <1>3, <1>4, <1>5, <1>6, <1>7 DEF DeviceInv, FInv, IInv, TypeInv

\* Giving back the head of a label leaves the rest of it; the buffer is last.
LEMMA Unwinding ==
    ASSUME NEW s \in Suffixes
    PROVE  /\ s # <<>>
           /\ {Tail(s)[i] : i \in DOMAIN Tail(s)} = {s[i] : i \in DOMAIN s} \ {Head(s)}
           /\ Tail(s) # <<>> => Tail(s) \in Suffixes
           /\ "buffer" \in {s[i] : i \in DOMAIN s}
           /\ Head(s) = "buffer" <=> Tail(s) = <<>>
<1>1. CASE s = ExitOrder
  BY <1>1 DEF Suffixes, ExitOrder
<1>2. CASE s = <<"class", "cdev", "region", "buffer">>
  BY <1>2 DEF Suffixes
<1>3. CASE s = <<"cdev", "region", "buffer">>
  BY <1>3 DEF Suffixes
<1>4. CASE s = <<"region", "buffer">>
  BY <1>4 DEF Suffixes
<1>5. CASE s = <<"buffer">>
  BY <1>5 DEF Suffixes
<1> QED BY <1>1, <1>2, <1>3, <1>4, <1>5 DEF Suffixes

\* It holds before the module is first loaded.
LEMMA DInvInit == DriverInit => DInv
<1> SUFFICES ASSUME DriverInit PROVE DInv
  OBVIOUS
<1>1. TypeOK /\ LockInv /\ CallInv
  <2>1. TypeOK
    BY DEF DriverInit, TypeOK, Index
  <2>2. LockInv
    BY DEF DriverInit, LockInv, Inside
  <2>3. CallInv
    BY DEF DriverInit, CallInv, WriteFits, ReadFits, SizeFits, Setting
  <2> QED BY <2>1, <2>2, <2>3
<1>2. Geometry /\ Retained /\ \A t \in Thread : HalfDone(t)
  <2>1. 0 % MinSize = 0
    OBVIOUS
  <2> QED BY <2>1 DEF DriverInit, Geometry, Retained, HalfDone
<1>3. (\A t \in Thread : HalfRead(t) /\ AllRead(t) /\ HalfStored(t) /\ Freed(t))
      /\ OneSetter /\ Published
  BY DEF DriverInit, HalfRead, AllRead, HalfStored, Freed, OneSetter, Published, Setting
<1>4. Quiet /\ LifeInv
  BY EarlyAssumption DEF DriverInit, Quiet, LifeInv
<1> QED BY <1>1, <1>2, <1>3, <1>4 DEF DInv, DeviceInv, FInv, IInv, TypeInv

\* Every step of the device, of loading and of unloading keeps it.
LEMMA DInvStep == DInv /\ [DriverNext]_dvars => DInv'
<1> SUFFICES ASSUME DInv, [DriverNext]_dvars PROVE DInv'
  OBVIOUS
<1>a. /\ DeviceInv /\ Quiet /\ LifeInv /\ data \in BOOLEAN /\ size \in MinSize..MaxSize
  BY DEF DInv, DeviceInv, FInv, IInv, TypeInv, TypeOK
<1>b. (\A t \in Thread : pc[t] = "idle") => param_buf_size = size
  BY <1>a DEF DeviceInv, Published
<1>1. CASE Insmod
  <2>1. \A t \in Thread : pc[t] = "idle"
    BY <1>1, <1>a DEF Insmod, Quiet
  <2>2. DeviceInv'
    <3>1. MinSize \in MinSize..MaxSize
      OBVIOUS
    <3> QED BY <1>1, <1>a, <2>1, <3>1, ImageStep DEF Insmod
  <2>3. Quiet' /\ LifeInv'
    BY <1>1, <1>a, <2>1 DEF Insmod, Quiet, LifeInv, Image, Before, Resource
  <2> QED BY <2>2, <2>3 DEF DInv
<1>2. ASSUME NEW n \in MinSize..MaxSize, InsmodWith(n) PROVE DInv'
  <2>1. \A t \in Thread : pc[t] = "idle"
    BY <1>2, <1>a DEF InsmodWith, Quiet
  <2>2. DeviceInv'
    BY <1>2, <1>a, <2>1, ImageStep DEF InsmodWith
  <2>3. Quiet' /\ LifeInv'
    <3>1. held = {} /\ todo = <<>> /\ heap = early /\ Before["buffer"] = {} /\ "buffer" \in Resource
      BY <1>2, <1>a DEF InsmodWith, LifeInv, Before, Resource
    <3>2. early + 1 \in 0..MaxEarly
      BY <1>2, <1>a, EarlyAssumption DEF InsmodWith, LifeInv
    <3> QED BY <1>2, <2>1, <3>1, <3>2 DEF InsmodWith, Quiet, LifeInv
  <2> QED BY <2>2, <2>3 DEF DInv
<1>3. CASE InitBuffer
  <2>1. \A t \in Thread : pc[t] = "idle"
    BY <1>3, <1>a DEF InitBuffer, Quiet
  <2>2. PICK d \in BOOLEAN : Image(d, size)
    BY <1>3 DEF InitBuffer
  <2>3. DeviceInv'
    BY <1>3, <1>a, <1>b, <2>1, <2>2, ImageStep DEF InitBuffer, file
  <2>4. Quiet' /\ LifeInv'
    BY <1>3, <1>a, <2>1 DEF InitBuffer, Quiet, LifeInv, Image, Before, Resource
  <2> QED BY <2>3, <2>4 DEF DInv
<1>4. ASSUME NEW r \in Resource \ {"buffer"}, Acquire(r) PROVE DInv'
  <2>1. DeviceInv'
    BY <1>4, <1>a, DeviceStep DEF Acquire
  <2>2. Quiet' /\ LifeInv'
    BY <1>4, <1>a DEF Acquire, Quiet, LifeInv, Before, Resource, vars, rb
  <2> QED BY <2>1, <2>2 DEF DInv
<1>5. ASSUME NEW r \in Resource \ {"buffer"}, Fails(r) PROVE DInv'
  <2>1. DeviceInv'
    BY <1>5, <1>a, DeviceStep DEF Fails
  <2>2. Label[r] \in Suffixes /\ Before[r] = {Label[r][i] : i \in DOMAIN Label[r]}
    BY DEF Label, Suffixes, Before, Resource
  <2>3. Quiet' /\ LifeInv'
    BY <1>5, <1>a, <2>2 DEF Fails, Quiet, LifeInv, vars, rb
  <2> QED BY <2>1, <2>3 DEF DInv
<1>6. CASE Rmmod
  <2>1. DeviceInv'
    BY <1>6, <1>a, DeviceStep DEF Rmmod
  <2>2. Resource = {ExitOrder[i] : i \in DOMAIN ExitOrder}
    BY DEF ExitOrder, Resource
  <2>3. Quiet' /\ LifeInv'
    BY <1>6, <1>a, <2>2 DEF Rmmod, Users, Quiet, LifeInv, Suffixes, vars, rb
  <2> QED BY <2>1, <2>3 DEF DInv
<1>7. CASE GiveBack
  <2>1. phase \in {"unwind", "exit"} /\ todo \in Suffixes /\ held = {todo[i] : i \in DOMAIN todo}
    BY <1>7, <1>a DEF GiveBack, LifeInv
  <2>2. \A t \in Thread : pc[t] = "idle"
    BY <1>a, <2>1 DEF Quiet
  <2>3. DeviceInv'
    <3>1. CASE Head(todo) = "buffer"
      BY <1>7, <1>a, <1>b, <2>2, <3>1, ImageStep DEF GiveBack, file
    <3>2. CASE Head(todo) # "buffer"
      <4>1. UNCHANGED vars
        BY <1>7, <3>2 DEF GiveBack, vars, rb, file
      <4> QED BY <1>a, <4>1, DeviceStep
    <3> QED BY <3>1, <3>2
  <2>4. /\ held' = {Tail(todo)[i] : i \in DOMAIN Tail(todo)}
        /\ todo' = Tail(todo)
        /\ "buffer" \in held /\ held' \subseteq held
    BY <1>7, <2>1, Unwinding DEF GiveBack
  <2>5. ASSUME Tail(todo) = <<>> PROVE LifeInv'
    <3>1. Head(todo) = "buffer" /\ held' = {} /\ phase' = "out"
      BY <1>7, <2>1, <2>4, <2>5, Unwinding DEF GiveBack
    <3>2. heap' = early /\ data' = FALSE
      BY <1>7, <1>a, <2>4, <3>1 DEF GiveBack, LifeInv, Image
    <3>3. todo' = <<>> /\ early' = early /\ early \in 0..MaxEarly
      BY <1>7, <1>a, <2>4, <2>5 DEF GiveBack, LifeInv
    <3>4. heap' = early' + (IF "buffer" \in held' /\ data' THEN 1 ELSE 0)
      BY <3>1, <3>2, <3>3, EarlyAssumption
    <3> QED BY <3>1, <3>2, <3>3, <3>4 DEF LifeInv
  <2>7. ASSUME Tail(todo) # <<>> PROVE LifeInv'
    <3>1. Head(todo) # "buffer" /\ "buffer" \in held' /\ phase' = phase /\ todo' \in Suffixes
      BY <1>7, <2>1, <2>4, <2>7, Unwinding DEF GiveBack
    <3>2. heap' = heap /\ data' = data
      BY <1>7, <3>1 DEF GiveBack, rb
    <3>3. /\ early' = early /\ early \in 0..MaxEarly /\ held' \subseteq Resource
          /\ heap = early + (IF data THEN 1 ELSE 0)
      BY <1>7, <1>a, <2>4 DEF GiveBack, LifeInv
    <3>4. held' = {todo'[i] : i \in DOMAIN todo'}
      BY <2>4
    <3>5. heap' = early' + (IF "buffer" \in held' /\ data' THEN 1 ELSE 0)
      BY <3>1, <3>2, <3>3
    <3>6. phase' \in {"unwind", "exit"}
      BY <2>1, <3>1
    <3>7. phase' # "out" /\ phase' # "init" /\ phase' # "live"
      BY <3>6
    <3> QED BY <3>1, <3>3, <3>4, <3>5, <3>6, <3>7 DEF LifeInv
  <2>6. Quiet'
    BY <1>7, <2>2 DEF GiveBack, Quiet
  <2> QED BY <2>3, <2>5, <2>6, <2>7 DEF DInv
<1>8. CASE Use(Next)
  <2>1. DeviceInv'
    BY <1>8, <1>a, DeviceStep DEF Use
  <2>2. data' \in BOOLEAN
    BY <2>1 DEF DeviceInv, FInv, IInv, TypeInv, TypeOK
  <2>3. Quiet' /\ LifeInv'
    BY <1>8, <1>a, <2>2 DEF Use, Quiet, LifeInv, Resource
  <2> QED BY <2>1, <2>3 DEF DInv
<1>9. CASE UNCHANGED dvars
  <2>1. DeviceInv'
    BY <1>9, <1>a, DeviceStep DEF dvars
  <2>2. Quiet' /\ LifeInv'
    BY <1>9, <1>a DEF dvars, life, vars, rb, Quiet, LifeInv
  <2> QED BY <2>1, <2>2 DEF DInv
<1> QED BY <1>1, <1>2, <1>3, <1>4, <1>5, <1>6, <1>7, <1>8, <1>9 DEF DriverNext

-----------------------------------------------------------------------------
\* What the invariant says of the runs' properties.
LEMMA DInvImplies == DInv => DriverTypeOK /\ Integrity /\ ReadExact /\ ParamInSync /\ NothingLeaks
<1> SUFFICES ASSUME DInv PROVE DriverTypeOK /\ Integrity /\ ReadExact /\ ParamInSync /\ NothingLeaks
  OBVIOUS
<1> USE DEF DInv, DeviceInv, FInv, IInv
<1>1. DriverTypeOK
  <2>1. todo \in Seq(Resource)
    <3>1. \A s \in Suffixes : s \in Seq(Resource)
      <4>1. /\ "device" \in Resource /\ "class" \in Resource /\ "cdev" \in Resource
            /\ "region" \in Resource /\ "buffer" \in Resource
        BY DEF Resource
      <4>2. /\ <<"buffer">> \in Seq(Resource)
            /\ <<"region", "buffer">> \in Seq(Resource)
            /\ <<"cdev", "region", "buffer">> \in Seq(Resource)
            /\ <<"class", "cdev", "region", "buffer">> \in Seq(Resource)
            /\ <<"device", "class", "cdev", "region", "buffer">> \in Seq(Resource)
        BY <4>1
      <4> QED BY <4>2 DEF Suffixes, ExitOrder
    <3>2. <<>> \in Seq(Resource)
      OBVIOUS
    <3> QED BY <3>1, <3>2 DEF LifeInv
  <2>2. heap \in Nat
    BY EarlyAssumption DEF LifeInv
  <2> QED BY <2>1, <2>2 DEF LifeInv, TypeInv, DriverTypeOK
<1>2. Integrity
  <2> SUFFICES ASSUME data, NEW i \in DOMAIN Contents PROVE Contents[i] \in Byte
    BY DEF Integrity, Geometry
  <2>1. i - 1 \in 0..count - 1 /\ i \in 1..count /\ read_pos + i - 1 = read_pos + (i - 1)
    BY DEF Contents, TypeInv, TypeOK
  <2> QED BY <2>1 DEF Contents, Retained
<1>3. ReadExact
  BY DEF ReadExact, AllRead
<1>4. ParamInSync
  BY DEF ParamInSync, Published, Setting
<1>5. NothingLeaks
  <2>1. \A r \in held : Before[r] \subseteq held
    BY DEF LifeInv, Suffixes, ExitOrder, Before, Resource
  <2> QED BY <2>1 DEF NothingLeaks, LifeInv, Resource
<1> QED BY <1>1, <1>2, <1>3, <1>4, <1>5

(***************************************************************************)
(* Type correctness of the module and of the device in it, through any     *)
(* number of loads, failed loads and unloads.                              *)
(***************************************************************************)
THEOREM DriverTypeCorrect == DriverSpec => []DriverTypeOK
BY DInvInit, DInvStep, DInvImplies, PTL DEF DriverSpec

(***************************************************************************)
(* Every failed load and every unload gives back all that was acquired, in *)
(* order and once: nothing of the module is left when it is out, but the   *)
(* buffers that parameters of insmod allocated.                            *)
(***************************************************************************)
THEOREM NothingLeaksHolds == DriverSpec => []NothingLeaks
BY DInvInit, DInvStep, DInvImplies, PTL DEF DriverSpec

(***************************************************************************)
(* The device keeps its promises when modules come and go: a reload starts *)
(* with an empty buffer and no byte, position or size of the last one.     *)
(***************************************************************************)
THEOREM DeviceSurvivesReload == DriverSpec => [](Integrity /\ ReadExact /\ ParamInSync)
BY DInvInit, DInvStep, DInvImplies, PTL DEF DriverSpec

-----------------------------------------------------------------------------
\* A new image while nobody is inside of the device: the FIFO is empty after
\* it, and of another capacity only if it was empty before.
LEMMA ImageClears ==
    ASSUME DInv, DInv', \A t \in Thread : pc[t] = "idle", UNCHANGED <<pc, req>>,
           NEW d \in BOOLEAN, NEW n \in MinSize..MaxSize, Image(d, n),
           n = size \/ ~ data
    PROVE  Fifo!ANext
<1>1. Pending = <<>> /\ Pending' = <<>>
  <2>1. Writing = {} /\ Writing' = {}
    BY DEF Writing
  <2> QED BY <2>1 DEF Pending
<1>2. Contents' = <<>>
  BY DEF Image, Contents
<1>3. CASE n = size
  <2>1. Fifo!Clear
    BY <1>1, <1>2, <1>3 DEF Image, Fifo!Clear
  <2> QED BY <2>1 DEF Fifo!ANext
<1>4. CASE ~ data
  <2>1. Contents = <<>>
    BY <1>4 DEF Contents
  <2>2. Fifo!Resize(n)
    BY <1>1, <1>2, <2>1 DEF Image, Fifo!Resize
  <2> QED BY <2>2 DEF Fifo!ANext
<1> QED BY <1>3, <1>4

\* Every step of the module is a step of the lossy FIFO or leaves it as it is.
LEMMA DriverFifoStep ==
    ASSUME DInv, DInv', [DriverNext]_dvars
    PROVE  [Fifo!ANext]_(Fifo!avars)
<1>a. /\ FInv /\ FInv' /\ size \in MinSize..MaxSize /\ Quiet
      /\ phase = "out" => ~ data
  <2>1. FInv /\ FInv' /\ Quiet /\ LifeInv
    BY DEF DInv, DeviceInv
  <2>2. size \in MinSize..MaxSize
    BY <2>1 DEF FInv, IInv, TypeInv, TypeOK
  <2> QED BY <2>1, <2>2 DEF LifeInv
<1>1. ASSUME NEW n \in MinSize..MaxSize, NEW d \in BOOLEAN, phase = "out", Image(d, n),
             UNCHANGED <<pc, req>>
      PROVE  Fifo!ANext
  <2>1. \A t \in Thread : pc[t] = "idle"
    BY <1>1, <1>a DEF Quiet
  <2> QED BY <1>1, <1>a, <2>1, ImageClears
<1>2. CASE Insmod
  <2>1. MinSize \in MinSize..MaxSize
    OBVIOUS
  <2> QED BY <1>1, <1>2, <2>1 DEF Insmod
<1>3. ASSUME NEW n \in MinSize..MaxSize, InsmodWith(n) PROVE Fifo!ANext
  BY <1>1, <1>3 DEF InsmodWith
<1>4. ASSUME NEW d \in BOOLEAN, Image(d, size), phase # "live", UNCHANGED <<pc, req>>
      PROVE  Fifo!ANext
  <2>1. \A t \in Thread : pc[t] = "idle"
    BY <1>4, <1>a DEF Quiet
  <2> QED BY <1>4, <1>a, <2>1, ImageClears
<1>5. CASE InitBuffer
  BY <1>4, <1>5 DEF InitBuffer
<1>6. CASE UNCHANGED vars
  BY <1>6, <1>a, FifoStep
<1>7. ASSUME NEW r \in Resource \ {"buffer"}, Acquire(r) \/ Fails(r) PROVE UNCHANGED vars
  BY <1>7 DEF Acquire, Fails
<1>8. CASE Rmmod
  BY <1>6, <1>8 DEF Rmmod
<1>9. CASE GiveBack
  <2>1. CASE Head(todo) = "buffer"
    <3>1. phase # "live"
      BY <1>9 DEF GiveBack, DInv, LifeInv
    <3> QED BY <1>4, <1>9, <2>1, <3>1 DEF GiveBack
  <2>2. CASE Head(todo) # "buffer"
    BY <1>6, <1>9, <2>2 DEF GiveBack, vars, rb, file
  <2> QED BY <2>1, <2>2
<1>10. CASE Use(Next)
  BY <1>10, <1>a, FifoStep DEF Use
<1>11. CASE UNCHANGED dvars
  BY <1>6, <1>11 DEF dvars
<1> QED BY <1>2, <1>3, <1>5, <1>6, <1>7, <1>8, <1>9, <1>10, <1>11 DEF DriverNext

(***************************************************************************)
(* The device in the loaded module is the same lossy FIFO, through every   *)
(* load, failed load and unload: a reload starts it empty.                 *)
(***************************************************************************)
THEOREM DriverFifoRefined == DriverSpec => ImplementsFifo
<1>1. DriverInit => Fifo!AInit
  <2> SUFFICES ASSUME DriverInit PROVE Fifo!AInit
    OBVIOUS
  <2>1. Contents = <<>>
    BY DEF DriverInit, Contents
  <2>2. Writing = {} /\ Pending = <<>>
    BY DEF DriverInit, Writing, Pending
  <2> QED BY <2>1, <2>2 DEF DriverInit, Fifo!AInit
<1>2. DInv /\ DInv' /\ [DriverNext]_dvars => [Fifo!ANext]_(Fifo!avars)
  BY DriverFifoStep
<1> QED BY DInvInit, DInvStep, <1>1, <1>2, PTL DEF DriverSpec, ImplementsFifo, Fifo!ASpec
=============================================================================
