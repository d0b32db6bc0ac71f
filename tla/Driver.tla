-------------------------------- MODULE Driver --------------------------------
(***************************************************************************)
(* The ring-buffer driver as a kernel module, 27_driver/ringbuf_driver.c:  *)
(* loading with or without the parameter buf_size, the steps of            *)
(* ringbuf_init and the labels by which it unwinds, unloading by           *)
(* ringbuf_exit, and between them the device of RingBuffer.                *)
(*                                                                         *)
(* A file of the device can be opened once device_create has made its      *)
(* node, the last step of ringbuf_init, and an open file keeps the module  *)
(* loaded (owner = THIS_MODULE).  The parameter is written on the command  *)
(* line of insmod, before ringbuf_init, and while the module is loaded;    *)
(* writes to sysfs during ringbuf_init or ringbuf_exit, against which the  *)
(* code has no lock, are not modelled.                                     *)
(***************************************************************************)
EXTENDS RingBuffer

CONSTANT MaxEarly    \* bound: loads with the parameter

ASSUME EarlyAssumption == MaxEarly \in Nat

VARIABLES
    phase,     \* "out", "init", "unwind", "live" or "exit"
    held,      \* what ringbuf_init has acquired and nothing has given back
    todo,      \* what the label or ringbuf_exit has still to give back
    heap,      \* buffers that kmalloc gave and kfree did not take
    early      \* history: loads whose parameter allocated a buffer

life  == <<phase, held, todo, heap, early>>
dvars == <<vars, life>>

Resource == {"buffer", "region", "cdev", "class", "device"}

\* What ringbuf_init has when it comes to each resource.
Before == [buffer |-> {}, region |-> {"buffer"}, cdev |-> {"buffer", "region"},
           class |-> {"buffer", "region", "cdev"}, device |-> Resource \ {"device"}]

\* Mutant: a failing class_create jumps one label too far.
LabelTooFar ==
    [region |-> <<"buffer">>, cdev |-> <<"region", "buffer">>,
     class |-> <<"region", "buffer">>, device |-> <<"class", "cdev", "region", "buffer">>]
\* The label a failing step jumps to: what is given back from there on.
Label ==
    [region |-> <<"buffer">>, cdev |-> <<"region", "buffer">>,
     class |-> <<"cdev", "region", "buffer">>,
     device |-> <<"class", "cdev", "region", "buffer">>]

\* The order of ringbuf_exit.
ExitOrder == <<"device", "class", "cdev", "region", "buffer">>

Users == {t \in Thread : f_pos[t] # Closed \/ pc[t] # "idle"}

\* The static data of rb, with rb.data and rb.size as given.
Image(d, n) ==
    /\ data' = d /\ mem' = [i \in Index |-> Junk] /\ size' = n
    /\ count' = 0 /\ read_pos' = 0 /\ write_pos' = 0

DriverInit ==
    /\ data = FALSE /\ mem = [i \in Index |-> Junk]
    /\ size = MinSize /\ count = 0 /\ read_pos = 0 /\ write_pos = 0
    /\ mutex = Free /\ param_buf_size = MinSize
    /\ f_pos = [t \in Thread |-> Closed] /\ pc = [t \in Thread |-> "idle"]
    /\ req = [t \in Thread |-> <<>>] /\ ubuf = [t \in Thread |-> <<>>]
    /\ len = [t \in Thread |-> 0]
    /\ phase = "out" /\ held = {} /\ todo = <<>> /\ heap = 0 /\ early = 0

-----------------------------------------------------------------------------
\* insmod without a parameter: fresh static data, then ringbuf_init.
Insmod ==
    /\ phase = "out" /\ phase' = "init"
    /\ Image(FALSE, MinSize) /\ param_buf_size' = MinSize
    /\ UNCHANGED <<mutex, f_pos, pc, req, ubuf, len, held, todo, heap, early>>

\* insmod buf_size=n: buf_size_set first allocates a buffer of its own.  When
\* it fails the module is not loaded and nothing has changed.
InsmodWith(n) ==
    /\ phase = "out" /\ phase' = "init" /\ early < MaxEarly
    /\ Image(TRUE, n) /\ param_buf_size' = n
    /\ heap' = heap + 1 /\ early' = early + 1
    /\ UNCHANGED <<mutex, f_pos, pc, req, ubuf, len, held, todo>>

\* The buffer of ringbuf_init takes the place of what rb.data was, also when
\* kmalloc fails and the module is not loaded.
InitBuffer ==
    /\ phase = "init" /\ held = Before.buffer
    /\ \/ /\ Image(TRUE, size) /\ held' = {"buffer"} /\ heap' = heap + 1
          /\ UNCHANGED phase
       \/ Image(FALSE, size) /\ phase' = "out" /\ UNCHANGED <<held, heap>>
    /\ UNCHANGED <<mutex, file, pc, req, ubuf, len, todo, early>>

\* alloc_chrdev_region, cdev_add, class_create or device_create.
Acquire(r) ==
    /\ phase = "init" /\ held = Before[r]
    /\ held' = held \cup {r}
    /\ phase' = IF r = "device" THEN "live" ELSE "init"
    /\ UNCHANGED <<vars, todo, heap, early>>

Fails(r) ==
    /\ phase = "init" /\ held = Before[r]
    /\ phase' = "unwind" /\ todo' = Label[r]
    /\ UNCHANGED <<vars, held, heap, early>>

\* rmmod, which is refused while a file is open.
Rmmod ==
    /\ phase = "live" /\ Users = {}
    /\ phase' = "exit" /\ todo' = ExitOrder
    /\ UNCHANGED <<vars, held, heap, early>>

\* The next call of the label or of ringbuf_exit.  kfree(rb.data) does not set
\* rb.data, but nobody looks at it any more.
GiveBack ==
    /\ todo # <<>>
    /\ held' = held \ {Head(todo)} /\ todo' = Tail(todo)
    /\ phase' = IF todo' = <<>> THEN "out" ELSE phase
    /\ IF Head(todo) = "buffer"
       THEN Image(FALSE, size) /\ heap' = heap - (IF data THEN 1 ELSE 0)
       ELSE UNCHANGED <<rb, heap>>
    /\ UNCHANGED <<mutex, file, pc, req, ubuf, len, early>>

\* A step of the device: a call that makes rb.data NULL has freed the buffer.
Use(A) ==
    /\ phase = "live" /\ A
    /\ heap' = heap + (IF data' THEN 1 ELSE 0) - (IF data THEN 1 ELSE 0)
    /\ UNCHANGED <<phase, held, todo, early>>

DriverNext ==
    \/ Insmod \/ InitBuffer \/ Rmmod \/ GiveBack
    \/ \E n \in MinSize..MaxSize : InsmodWith(n)
    \/ \E r \in Resource \ {"buffer"} : Acquire(r) \/ Fails(r)
    \/ Use(Next)

\* A call under way runs to its end, as in RingBuffer.
DriverSpec ==
    /\ DriverInit /\ [][DriverNext]_dvars
    /\ \A t \in Thread : WF_dvars(Use(Continue(t)))

-----------------------------------------------------------------------------
DriverTypeOK ==
    /\ TypeOK
    /\ phase \in {"out", "init", "unwind", "live", "exit"}
    /\ held \subseteq Resource /\ todo \in Seq(Resource)
    /\ heap \in Nat /\ early \in 0..MaxEarly

(***************************************************************************)
(* Whichever step of ringbuf_init fails, its label gives back exactly what *)
(* was acquired, each thing before those it was made from, and the same    *)
(* holds of ringbuf_exit: when the module is out nothing is left of it,    *)
(* and nothing is given back twice.  The one exception is in the formula:  *)
(* the buffer of a parameter given to insmod is lost, since ringbuf_init   *)
(* allocates over it.  A buffer is allocated while the device is in use    *)
(* exactly if rb.data points to it, through failed resizes too.            *)
(***************************************************************************)
NothingLeaks ==
    /\ \A r \in held : Before[r] \subseteq held
    /\ \A i \in DOMAIN todo : todo[i] \in held
    /\ phase \in {"out", "live"} => heap = early + (IF data THEN 1 ELSE 0)
    /\ phase = "out" => held = {} /\ ~data
==============================================================================
