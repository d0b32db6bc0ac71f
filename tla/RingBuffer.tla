------------------------------ MODULE RingBuffer ------------------------------
(***************************************************************************)
(* The ring-buffer character device, 27_driver/ringbuf_driver.c.           *)
(*                                                                         *)
(* Threads are tasks inside a system call on the device or a write to the  *)
(* sysfs parameter buf_size.  rb_mutex is a variable, not an assumption:   *)
(* every place where the code may sleep while it holds the mutex (the two  *)
(* halves of each user copy, kmalloc) is a step of its own, and so is the  *)
(* assignment of param_buf_size after the mutex is released.               *)
(* mutex_lock_interruptible that is interrupted changes nothing and is     *)
(* left out.                                                               *)
(***************************************************************************)
EXTENDS Integers, Sequences

CONSTANTS Thread,    \* tasks that use the device
          Byte,      \* bytes users write
          Junk,      \* content of a cell nobody has written
          Free,      \* rb_mutex has no owner
          Message,   \* what users write: non-empty sequences of bytes
          MinSize,   \* 16 in the code: smallest and initial size
          MaxSize,   \* 65536 in the code
          MaxPos,    \* bound: file positions the model follows
          Offset     \* bound: offsets passed to llseek

ASSUME SizeAssumption ==
    MinSize \in Nat \ {0} /\ MaxSize \in Nat /\ MinSize <= MaxSize
ASSUME MessageAssumption == Message \subseteq Seq(Byte) \ {<<>>}
ASSUME JunkAssumption == Junk \notin Byte
ASSUME FreeAssumption == Free \notin Thread
ASSUME PosAssumption == MaxPos \in Nat /\ Offset \subseteq Int

VARIABLES
    data,            \* rb.data is not NULL
    mem,             \* the bytes behind rb.data; only 0..size-1 are allocated
    size, count, read_pos, write_pos,     \* the rest of rb
    mutex,           \* owner of rb_mutex
    param_buf_size,
    f_pos,           \* per thread: position of its open file, Closed when none
    pc,              \* per thread: where in the driver it is
    req,             \* per thread: the bytes a write is copying in
    ubuf,            \* per thread: the bytes a read has copied out
    len              \* per thread: avail of a read, new_size of a resize

rb   == <<data, mem, size, count, read_pos, write_pos>>
file == <<param_buf_size, f_pos>>
vars == <<rb, mutex, file, pc, req, ubuf, len>>

Closed == -1
Index  == 0..MaxSize - 1
Setting == {"kmalloc", "publish"}
Inside  == {"copy1", "copy2", "peek1", "peek2", "discard", "kmalloc"}

Min2(a, b) == IF a <= b THEN a ELSE b
\* Mutant: a write that is too long keeps its first bytes.
FirstOf(s, n) == IF Len(s) <= n THEN s ELSE SubSeq(s, 1, n)

LastOf(s, n) == IF Len(s) <= n THEN s ELSE SubSeq(s, Len(s) - n + 1, Len(s))

\* Mutant: room for one byte more than there is.
SpaceOffByOne == size - count + 1
\* ringbuf_space
Space == size - count

\* The bytes held, oldest first.
Contents == [i \in 1..(IF data THEN count ELSE 0) |-> mem[(read_pos + i - 1) % size]]

\* mem with the bytes s stored from index at on.
Stored(at, s) ==
    [i \in Index |-> IF i \in at..at + Len(s) - 1 THEN s[i - at + 1] ELSE mem[i]]

\* A copy_from_user that faults leaves the n cells from index at on unspecified.
Spoiled(at, n) == [i \in Index |-> IF i \in at..at + n - 1 THEN Junk ELSE mem[i]]

Goto(t, from, to) == pc[t] = from /\ pc' = [pc EXCEPT ![t] = to]
\* Mutant: the mutex is taken without waiting for its owner.
LockNoWait(t) == mutex' = t
Lock(t)   == mutex = Free /\ mutex' = t
Unlock(t) == mutex' = Free

Init ==
    /\ data = TRUE /\ mem = [i \in Index |-> Junk]
    /\ size = MinSize /\ count = 0 /\ read_pos = 0 /\ write_pos = 0
    /\ mutex = Free /\ param_buf_size = MinSize
    /\ f_pos = [t \in Thread |-> Closed]
    /\ pc = [t \in Thread |-> "idle"]
    /\ req = [t \in Thread |-> <<>>]
    /\ ubuf = [t \in Thread |-> <<>>]
    /\ len = [t \in Thread |-> 0]

-----------------------------------------------------------------------------
\* dev_open looks at rb.data without the mutex; it fails when that is NULL.
DevOpen(t) ==
    /\ pc[t] = "idle" /\ f_pos[t] = Closed /\ data
    /\ f_pos' = [f_pos EXCEPT ![t] = 0]
    /\ UNCHANGED <<rb, mutex, param_buf_size, pc, req, ubuf, len>>

DevRelease(t) ==
    /\ pc[t] = "idle" /\ f_pos[t] # Closed
    /\ f_pos' = [f_pos EXCEPT ![t] = Closed]
    /\ UNCHANGED <<rb, mutex, param_buf_size, pc, req, ubuf, len>>

-----------------------------------------------------------------------------
\* dev_write up to the first copy: of u only the last size bytes count, and
\* the oldest bytes are dropped to make room for them.
DevWrite(t, u) ==
    /\ f_pos[t] # Closed /\ data
    /\ Goto(t, "idle", "copy1") /\ Lock(t)
    /\ LET s      == LastOf(u, size)
           excess == IF Len(s) > Space THEN Len(s) - Space ELSE 0
       IN  /\ req' = [req EXCEPT ![t] = s]
           /\ read_pos' = (read_pos + excess) % size
           /\ count' = count - excess
    /\ UNCHANGED <<data, mem, size, write_pos, file, ubuf, len>>

\* The part of a write that fits before the end of the buffer.
ToWrite(t) == Min2(Len(req[t]), size - write_pos)

\* A copy_from_user of a write faults: the write returns 0.
CopyFault(t, at, n) ==
    /\ n > 0
    /\ pc' = [pc EXCEPT ![t] = "idle"] /\ Unlock(t)
    /\ mem' = Spoiled(at, n)
    /\ req' = [req EXCEPT ![t] = <<>>]
    /\ UNCHANGED <<data, size, count, read_pos, write_pos, file, ubuf, len>>

CopyFirst(t) ==
    /\ Goto(t, "copy1", "copy2")
    /\ mem' = Stored(write_pos, SubSeq(req[t], 1, ToWrite(t)))
    /\ UNCHANGED <<data, size, count, read_pos, write_pos, mutex, file, req, ubuf, len>>

CopyRest(t) ==
    /\ Goto(t, "copy2", "idle") /\ Unlock(t)
    /\ mem' = Stored(0, SubSeq(req[t], ToWrite(t) + 1, Len(req[t])))
    /\ write_pos' = (write_pos + Len(req[t])) % size
    /\ count' = count + Len(req[t])
    /\ req' = [req EXCEPT ![t] = <<>>]
    /\ UNCHANGED <<data, size, read_pos, file, ubuf, len>>

CopyFails(t) ==
    \/ pc[t] = "copy1" /\ CopyFault(t, write_pos, ToWrite(t))
    \/ pc[t] = "copy2" /\ CopyFault(t, 0, Len(req[t]) - ToWrite(t))

-----------------------------------------------------------------------------
\* dev_read up to the first copy of ringbuf_peek.
DevRead(t, n) ==
    /\ f_pos[t] # Closed /\ data /\ count > 0
    /\ f_pos[t] + n <= MaxPos
    /\ Goto(t, "idle", "peek1") /\ Lock(t)
    /\ len' = [len EXCEPT ![t] = Min2(n, count)]
    /\ UNCHANGED <<rb, file, req, ubuf>>

\* The part of a read that ends before the end of the buffer.
Part1(t) == Min2(len[t], size - read_pos)

PeekFirst(t) ==
    /\ Goto(t, "peek1", "peek2")
    /\ ubuf' = [ubuf EXCEPT ![t] = [i \in 1..Part1(t) |-> mem[read_pos + i - 1]]]
    /\ UNCHANGED <<rb, mutex, file, req, len>>

PeekRest(t) ==
    /\ Goto(t, "peek2", "discard")
    /\ ubuf' = [ubuf EXCEPT ![t] = @ \o [i \in 1..len[t] - Part1(t) |-> mem[i - 1]]]
    /\ UNCHANGED <<rb, mutex, file, req, len>>

\* copy_to_user faults: the read returns 0 and removes nothing.
PeekFails(t) ==
    /\ pc[t] = "peek1" \/ (pc[t] = "peek2" /\ len[t] > Part1(t))
    /\ pc' = [pc EXCEPT ![t] = "idle"] /\ Unlock(t)
    /\ ubuf' = [ubuf EXCEPT ![t] = <<>>]
    /\ len' = [len EXCEPT ![t] = 0]
    /\ UNCHANGED <<rb, file, req>>

\* ringbuf_discard, the new file position and the end of dev_read.
Discard(t) ==
    /\ Goto(t, "discard", "idle") /\ Unlock(t)
    /\ IF data /\ len[t] <= count
       THEN read_pos' = (read_pos + len[t]) % size /\ count' = count - len[t]
       ELSE UNCHANGED <<read_pos, count>>
    /\ f_pos' = [f_pos EXCEPT ![t] = @ + len[t]]
    /\ ubuf' = [ubuf EXCEPT ![t] = <<>>]
    /\ len' = [len EXCEPT ![t] = 0]
    /\ UNCHANGED <<data, mem, size, write_pos, param_buf_size, req>>

\* dev_llseek, wholly inside the mutex; a negative position is refused.
DevLlseek(t, off, whence) ==
    LET newpos == CASE whence = "SET" -> off
                    [] whence = "CUR" -> f_pos[t] + off
                    [] whence = "END" -> count + off
    IN  /\ pc[t] = "idle" /\ f_pos[t] # Closed /\ mutex = Free
        /\ newpos >= 0 /\ Min2(newpos, count) <= MaxPos
        /\ f_pos' = [f_pos EXCEPT ![t] = Min2(newpos, count)]
        /\ UNCHANGED <<rb, mutex, param_buf_size, pc, req, ubuf, len>>

-----------------------------------------------------------------------------
\* buf_size_set of an acceptable n: the old bytes are freed first.  The
\* kernel runs one setter at a time (kernel_param_lock).
BufSizeSet(t, n) ==
    /\ \A u \in Thread : pc[u] \notin Setting
    /\ Goto(t, "idle", "kmalloc") /\ Lock(t)
    /\ data' = FALSE
    /\ len' = [len EXCEPT ![t] = n]
    /\ UNCHANGED <<mem, size, count, read_pos, write_pos, file, req, ubuf>>

\* Mutant: the counters of the old buffer survive the resize.
KmallocKeepsCount(t) ==
    /\ Goto(t, "kmalloc", "publish") /\ Unlock(t)
    /\ data' = TRUE /\ mem' = [i \in Index |-> Junk] /\ size' = len[t]
    /\ UNCHANGED <<count, read_pos, write_pos, file, req, ubuf, len>>

\* kmalloc gives uninitialised memory; param_buf_size changes after the unlock.
KmallocOk(t) ==
    /\ Goto(t, "kmalloc", "publish") /\ Unlock(t)
    /\ data' = TRUE /\ mem' = [i \in Index |-> Junk]
    /\ size' = len[t] /\ count' = 0 /\ read_pos' = 0 /\ write_pos' = 0
    /\ UNCHANGED <<file, req, ubuf, len>>

\* Mutants: -ENOMEM without the unlock; the parameter assigned all the same.
KmallocFailsLocked(t) ==
    /\ Goto(t, "kmalloc", "idle") /\ len' = [len EXCEPT ![t] = 0]
    /\ UNCHANGED <<rb, mutex, file, req, ubuf>>

KmallocFailsPublishes(t) ==
    /\ Goto(t, "kmalloc", "publish") /\ Unlock(t)
    /\ UNCHANGED <<rb, file, req, ubuf, len>>

\* -ENOMEM: rb.data stays NULL beside the old size, count and positions.
KmallocFails(t) ==
    /\ Goto(t, "kmalloc", "idle") /\ Unlock(t)
    /\ len' = [len EXCEPT ![t] = 0]
    /\ UNCHANGED <<rb, file, req, ubuf>>

Publish(t) ==
    /\ Goto(t, "publish", "idle")
    /\ param_buf_size' = len[t]
    /\ len' = [len EXCEPT ![t] = 0]
    /\ UNCHANGED <<rb, mutex, f_pos, req, ubuf>>

-----------------------------------------------------------------------------
\* The steps of a call that is already under way.
Continue(t) ==
    \/ CopyFirst(t) \/ CopyRest(t) \/ CopyFails(t)
    \/ PeekFirst(t) \/ PeekRest(t) \/ PeekFails(t) \/ Discard(t)
    \/ KmallocOk(t) \/ KmallocFails(t) \/ Publish(t)

Call(t) ==
    \/ DevOpen(t) \/ DevRelease(t)
    \/ \E u \in Message : DevWrite(t, u)
    \/ \E n \in 1..MaxSize : DevRead(t, n)
    \/ \E off \in Offset, whence \in {"SET", "CUR", "END"} : DevLlseek(t, off, whence)
    \/ \E n \in MinSize..MaxSize : BufSizeSet(t, n)

Next == \E t \in Thread : Call(t) \/ Continue(t)

\* A call under way runs to its end: the kernel schedules it.
Fairness == \A t \in Thread : WF_vars(Continue(t))

Spec == Init /\ [][Next]_vars /\ Fairness
-----------------------------------------------------------------------------
TypeOK ==
    /\ data \in BOOLEAN
    /\ mem \in [Index -> Byte \cup {Junk}]
    /\ size \in MinSize..MaxSize
    /\ count \in 0..size
    /\ read_pos \in 0..size - 1
    /\ write_pos \in 0..size - 1
    /\ mutex \in Thread \cup {Free}
    /\ param_buf_size \in MinSize..MaxSize
    /\ f_pos \in [Thread -> Nat \cup {Closed}]
    /\ pc \in [Thread -> Inside \cup {"idle", "publish"}]
    /\ req \in [Thread -> Seq(Byte)]
    /\ ubuf \in [Thread -> Seq(Byte \cup {Junk})]
    /\ len \in [Thread -> Nat]

\* The thread inside a critical section is the owner of rb_mutex.
LockInv == \A t \in Thread : pc[t] \in Inside <=> mutex = t

(***************************************************************************)
(* Whatever calls fault half way, and in whatever order threads come, the  *)
(* three counters of rb agree (write_pos is where the retained bytes end)  *)
(* and every retained cell holds a byte some user wrote: memory fresh from *)
(* kmalloc, or the target of a faulted copy, is never part of the buffer.  *)
(* A write that advanced write_pos or count before its copies, or that     *)
(* made less room than it fills, would break it.                           *)
(***************************************************************************)
Integrity ==
    data => /\ write_pos = (read_pos + count) % size
            /\ \A i \in DOMAIN Contents : Contents[i] \in Byte

(***************************************************************************)
(* dev_read peeks and then discards.  When it comes to the discard, the    *)
(* bytes in the user's buffer are exactly the oldest bytes still retained, *)
(* so no byte is lost unread and none is delivered twice, although other   *)
(* threads write, read, seek and resize.                                   *)
(***************************************************************************)
ReadExact ==
    \A t \in Thread : pc[t] = "discard" =>
        /\ len[t] \in 1..Len(Contents)
        /\ ubuf[t] = SubSeq(Contents, 1, len[t])

(***************************************************************************)
(* What sysfs shows as buf_size is the size of the buffer whenever no      *)
(* setter is under way, although the code assigns param_buf_size after it  *)
(* has released rb_mutex: a failed kmalloc changes neither.                *)
(***************************************************************************)
ParamInSync ==
    (\A t \in Thread : pc[t] \notin Setting) => param_buf_size = size

\* Every path out of a call, the failing ones too, gives the mutex back.
MutexReleased == \A t \in Thread : mutex = t ~> mutex # t

-----------------------------------------------------------------------------
(***************************************************************************)
(* The driver implements the lossy FIFO: whatever faults, a write drops    *)
(* exactly the bytes it needs the room of and appends all of its bytes or  *)
(* none, a read removes what it delivered, a resize forgets everything.    *)
(***************************************************************************)
Writing == {t \in Thread : pc[t] \in {"copy1", "copy2"}}

\* The bytes of the write under way.
Pending == IF Writing = {} THEN <<>> ELSE req[CHOOSE t \in Writing : TRUE]

Fifo == INSTANCE LossyFifo WITH fifo <- Contents, cap <- size, pending <- Pending

ImplementsFifo == Fifo!ASpec

==============================================================================
