# Specifications of the otus_c_prog programs

The repository is a collection of independent C programs. This directory models
those of them whose behaviour is hard to test: a kernel driver, a logging library
with writer threads, a multi-threaded log analyser, an event-driven HTTP server, a
daemon, an event-driven game, and five programs of one process. Each model is one TLA+ module named for the component; an
`MC*` module and a `.cfg` instantiate it for TLC; `*_proof` modules hold theorems
checked by TLAPS. `PROJECT.json` relates every definition to the lines it models.

## 1. The system

### Components, their state and operations

| component | state | operations | what makes it hard |
|---|---|---|---|
| `27_driver/ringbuf_driver.c` ring buffer character device | `rb` (data, size, count, positions), `rb_mutex`, `param_buf_size`, `f_pos` per open file | open, release, read, write, llseek, setting of `buf_size`, load, unload | any number of tasks; copies that fault half way; a resize whose allocation fails after the old buffer is gone; wrap-around |
| `12_error_handling/logger.c` logging library | `initialized`, `current_level`, `common_file`; per level a file, a queue, a writer thread | `logger_init`, `logger_set_env_prefix`, `logger_set_level`, `logger_log`, `logger_shutdown`; the writer | double-checked lazy initialisation, condition variables, draining at shutdown, initialisation after shutdown |
| `17_log_reader/main.c` log statistics | `FileQueue`, `total_bytes`, two chained hash maps, each under a mutex | workers take files, parse lines, add; main creates, joins, reports, frees | shared accumulators; the end of the queue; an empty directory; `exit` in a worker |
| `23_http_server/main.c` HTTP server | listening socket, table of connections, `nconns`, kqueue registrations with pointers into the table | start, accept, read, answer, write, close, compact the table, `die` and `cleanup` | partial sends, events of closed connections in the same round, pointers that outlive a move |
| `15_daemon/` filesizer daemon | configuration, PID file, UNIX socket, `keep_running` | read the configuration, start, check and create the PID file, daemonize, serve, signal, exit handlers | several starts at once, crashes, order of exit handlers, the window before `accept` |
| `08_search_sort_homework/hashmap_open.c` word counter | open-addressing `Hashmap` | `get`, `put`, `xremove`, `rehashUp`, `countWords`, `printDescending`, `destroyHashmap` | removal without tombstones, rehashing while words are counted, a full table, failing allocations |
| `35_game/main.c` tic-tac-toe | `board`, `player_x_turn`, `state`, the event queue, `redraw` | clicks, keys, timer events, drawing | any sequence of clicks over menu and board; input handled before the screen shows what came before it |
| `21_telnet` figlet client | a socket, the text of the command, the piece that was read | connect, send a line, search the prompt, send the command, print up to the next prompt | a server that sends pieces of any length, may stop or close at any time; each waits for the other |
| `03_types` ZIP-in-JPEG detector | the file in memory, offsets into it | find the end record, check every member, list them | every offset and length comes from the file; two walks that must agree |
| `29_dbstat` table statistics | a connection and a result, the statistics | connect, query, accumulate, print, `cleanup` at exit | a failure of any call after handles were acquired |
| `09_assembler_homework` linked list | list nodes | build, map, filter, free; in C and in assembler | failing allocations, lists that stay empty |
| `04_types_contd`, `16_crc32` | one buffer or a mapped file | convert, compute | nothing but their tables |
| `08_libraries`, `16_oop_gtk`, `26_ftrace`, `30_cube`, `point_wave_model`, `13_curl`, `14_leaks`, `16_oop_gstreamer` | library handles, floats, or no C source | I/O, drawing, floating point | nothing a model checker reaches |

The programs do not call each other. Interaction is inside each of them: shared
memory and mutexes (driver, logger, log reader), callbacks with pointers (HTTP
server), files shared between processes (daemon), calls of the kernel (driver) and
messages (figlet and its server). `PROJECT.json` lists the
hazards of each at the line where they bite, with the properties that would show
them going wrong.

### What makes each correct

* Driver: loading that fails leaves nothing behind, and neither does unloading; in
  between it is a FIFO that drops the oldest bytes; a read removes exactly what it
  delivered; failures leave a consistent buffer and a free mutex.
* Logger: messages that were accepted for a level with a file are written once and in
  order; one that no memory is found for is lost alone; shutdown ends, and only when
  the writers have dealt with every message.
* Log reader: every file is read once; the totals are the sums of the lines parsed,
  in whatever order the workers work; the program ends.
* HTTP server: answers are whole and in order; sockets and files are not lost.
* Daemon: one server; its files last as long as it does; signals stop it.
* Word counter: the map is the frequency table; the report is sorted; memory is
  released once.
* Figlet client: the command holds the arguments, what is printed is the answer; the
  program ends.
* ZIP detector: an archive that is whole is listed, whatever precedes it; no file
  makes it look beyond its end.
* Table statistics: they are those of the column; handles are given back once.
* Linked list: what is printed is the data, then its odd elements; every element is
  freed once.
* Game: the board is one that fair play leads to; marks stand; the screen shows it.

## 2. Modules and how they correspond to the code

| module | models | notes |
|---|---|---|
| `LossyFifo` | - | abstract: a bounded sequence; a write reserves room by dropping the oldest, then commits or aborts |
| `RingBuffer` | `ringbuf_driver.c` | one action per stretch of code between two points where another task or a failing call can intervene; `pc[t]` is where a task is, `mutex` the owner of `rb_mutex` |
| `Driver` | `ringbuf_driver.c` as a kernel module | extends `RingBuffer`: `phase` is the life of the module, `held` what `ringbuf_init` has acquired, `todo` the calls that the label it jumped to, or `ringbuf_exit`, has still to make, `heap` the number of buffers; the steps of the device are those of `RingBuffer` while the module is live (`Use`) |
| `Driver_proof` | - | the theorems about `RingBuffer`, and from them those about `Driver` |
| `LogChannel` | - | abstract: a FIFO channel in which every message is, in its turn, delivered or lost |
| `Logger` | `logger.c` | `pc[t]` per logging thread, `wpc[l]` per writer thread, `mpc` for main in `logger_shutdown`; `queue[l]` is the linked list, `wmsg[l]` the node a writer has unlinked, `handled[l]` what became of the messages it took |
| `Logger_proof` | - | the theorems about `Logger` |
| `LogReader` | `main.c` of the log reader | the queue's critical section is one step; those of the totals are a look and an update with the mutex held between them, so that a missing lock would be seen; `mpc` follows main through creating, joining, the two lists and the freeing |
| `LogReader_proof` | - | the theorems about `LogReader` |
| `HttpServer` | `main.c` of the server | one action per outcome of handling one event; `kq` holds the registrations with the index of the structure they point to, `events` what `kevent` returned for this round; `phase` goes from the start over rounds to the exit by `die` |
| `HttpServer_proof` | - | the theorems about `HttpServer` |
| `Daemon` | `main.c`, `server.c` of the daemon | each process is one start of the program; what they share is the file system (`pidfile`, `sockname`); `LoadConfig` is a fold over the scalars of `config.yaml` |
| `Daemon_proof` | - | the theorems about `Daemon` |
| `WordCount` | `hashmap_open.c` | the map is a record; `get`, `put`, `xremove`, `rehashUp` are operators on it, recursive functions or folds over the buckets where the code loops |
| `Figlet` | `main.c` of the figlet client | `stream` is all the server has sent and `pos` how much of it was read; a read takes the next `n` characters for every `n`; `Reply` and `Close` are the server's steps |
| `ZipList` | `main.c` of the ZIP detector | the file is its length and the headers at their positions; one action per round of each loop; `reach` is the furthest byte looked at |
| `DbStat` | `main.c` of `dbstat` | one action per call of the library and per row; `handles` is what the library has given out |
| `AsmList` | `main.c`, `asm/main.asm` | `cell` is the memory of the nodes, `at` where the recursion or the loop is; `language` chooses what a failing `malloc` does |
| `Programs` | - | `WordCount`, `Figlet`, `ZipList`, `DbStat` and `AsmList` side by side: `prog` is the one that runs, and the variables of the others are `Idle` |
| `Programs_proof` | - | the theorems about `Programs`, a part for each program |
| `DataLemmas` | - | what the proofs need of data: induction over numbers and finite sets, extremes, sums over finite sets, functions that a recursion defines, remainders |
| `Game` | `main.c` of the game | one action per case of the loop's `switch` and of the handlers below it; the test for a redraw that ends each turn of the loop is part of every one (`Redraws`) |
| `Game_proof` | - | the theorems about `Game` |

History variables (`accepted`, `handled`, `taken`, `counted`, `got`, `fate`,
`overlap`, `hit`, `freq`, ...) record what happened for the properties; no guard
reads them.

Conventions. A definition preceded by "Mutant:" is not part of a specification: it
is a wrong version of the definition below it, kept to show that a property notices
it. `Goto(t, from, to)` moves a control point. Constants called bounds in comments
limit the model, not the program.

### What is abstracted

* `RingBuffer`: a byte is a model value; `MinSize` and `MaxSize` stand for 16 and
  65536; a cell that nobody wrote, or that a faulted copy left, holds `Junk`.
  `mutex_lock_interruptible` that is interrupted returns before it changes
  anything and is left out. The kernel's own lock over parameters orders setters
  (external `Setting`).
* `Driver`: the kernel's registrations are present or not. A file can be opened from
  the last step of `ringbuf_init` on, and keeps the module loaded. `insmod` and
  `rmmod` exclude each other; a write to the parameter in sysfs while one of them
  runs is left out, since the code has no lock against it.
* `Logger`: the text of a message is its thread and number. The environment is a
  record of which variables are set and which files can be opened. `main` calls
  `logger_shutdown` only when no thread is in `logger_log`: the library does not
  support anything else, and the sample application joins its threads first.
  A message that a writer has taken is written to the file of its level, or to stdout
  (line 216), or lost: when `asprintf` fails (lines 217-223 and 239-248), or when
  `fwrite` does, whose result nobody looks at. Any message can be lost so, in any
  number. What becomes of a message that its thread writes to the common file is not
  followed. When `asprintf` fails in `format_log_message` (line 163) the pointer it
  returns is undefined; the model has only the outcome `NULL`, a dropped message.
* `LogReader`: a line is what `parse_log_line` returns. Each worker may fail to open
  a file, refuse a line, or run out of memory. There is a worker (`WorkerAssumption`):
  `main` refuses fewer than one; a `-t` value whose conversion to `int` gives none is
  left out. `qsort` may leave equal entries in any
  order. The URL is printed as it is stored, without decoding.
* `HttpServer`: bytes are counted in units numbered within their answer. What a
  request asks for, what `recv` returns, how much `send` takes and which calls fail
  are choices. The served file may grow at any time. A call on a descriptor that is
  not open fails. Once structures were moved, the file that a closed connection had
  may have been closed through a copy: whether `close` still finds it open is a choice.
* `Daemon`: PIDs are not reused. A file that is missing or is not YAML is one that
  lacks a key. Reading freed memory in `cleanup_socket` is a choice
  between the old name and no file's name.
* `WordCount`: hash codes are chosen at the start; words longer than the buffer are
  left out. Of memory only the entries are followed (an entry with its key and its
  value); the file's buffer and the maps themselves are not.
* `Figlet`: texts are sequences of characters. The banner and the answers are
  chosen, some with lines that look like prompts; the addresses may refuse. An answer
  is never empty: the server has something to draw.
* `ZipList`: positions are numbers modulo `W` where the code has 32 bits; the sizes
  of the headers are constants. A file is an archive of up to two members behind a
  prefix, as the archiver made it, or cut at any length, or with one signature
  destroyed or one field changed. An archive is shorter than `W` (4 GiB), and the
  archiver writes members that `zip_read` accepts (`Usual`: stored or deflated, not
  encrypted, on one disk); the altered files are not bound to that.
* `DbStat`: numbers are integers, sums exact. The validation of the names and the
  length of the query are one choice of success or failure.
* `AsmList`: addresses are given in the order of allocation and never again. As in the
  code's array, no two data are equal and one of them is odd (`DataAssumption`).
* `Game`: what an input event is, and where a click is, is chosen when the loop
  handles it, since nothing looks at it earlier. Nothing is said about how the screen
  looks, only whether it shows the present state.

## 3. Runs

| run | states | what it shows |
|---|---|---|
| `ringbuf` | about 224 000 | the module is loaded with or without the parameter, with a failure of any step, used, unloaded and loaded again; two tasks, buffers of 2 and 3 bytes, writes of 1, 2 and 4 bytes: a write longer than, equal to and shorter than the buffer, wrapping at every position, growing and shrinking, faults of every copy. `NothingLeaks` follows what the labels and `ringbuf_exit` give back; `ImplementsFifo` is the refinement of `LossyFifo`, which holds through reloading; `MutexReleased` is liveness |
| `logger` | about 244 000 | two threads, three messages, each of which its writer may lose, two levels of which one may lack its file, INFO with and without a common file, disabled logging, an uncooperative prefix, one change of the level; shutdown and re-initialisation |
| `logger_info`, `logger_level` | - | two statements of the documentation that the code does not keep (below) |
| `log_reader` | about 22 000 | two workers, no file or three files with repeated URLs and referers, an unparsable line, a line of zero bytes, lists of one. `ReportRight` compares the sums and the lists printed with the lines parsed |
| `http` | about 99 000 | the start and its failures, a table of two, two descriptors that are reused, header of one unit, blocks of two, a file of 0 to 2 units that grows, an exit between any two rounds (`ExitCloses`) |
| `http_moved` | - | the move of a structure (below) |
| `daemon` | about 123 000 | two starts, foreground or daemonized, a configuration with an absolute, a relative or no name of the PID file, two clients, a crash at any point |
| `daemon_config` | - | option `-c` (below) |
| `game` | about 318 000 | ten points: each cell once, on its edges where it has some, both buttons, and outside; two events in the queue |
| `programs` | about 630 000 | `wordFreq`: four words, up to six read, 128 hash functions with collisions before and after a rehashing, a failure of any allocation. Figlet: five argument lists, from none to some that are cut inside or between words; three banners, three answers, every division into pieces, two addresses. ZIP: no, one or two members, a prefix or none, comments with and without a false end record, about 4 500 altered files. `dbstat`: all columns of up to four values. The lists: the data of the code, any `malloc` fails |
| `last_word` | - | the last word of a file (below) |

Why the bounds are enough. Ring buffer: positions only matter modulo size, and with
three bytes every combination of empty, partial, full and wrapped occurs with
writes on both sides of each; a third task meets the same mutex as the second.
Logger: two messages of one thread and one of another are the least that can be
reordered, lost behind each other or split between two queues. Log reader: two
workers and three files let one worker take the last file while the other waits,
works or has ended. HTTP: two structures are the least for a move; two units per
block the least for a partial send. Daemon: whether a start is refused depends on
one earlier process, and on the files it left. Words: three buckets with limit 1
are the smallest map in which two entries collide, wrap round the end, and a third
word forces a rehashing. Figlet: three arguments with an empty one, and texts one
shorter than, equal to and longer than the room, meet every branch of the
assembly; the prompt has three characters, and every way to cut it occurs. ZIP: two
members are the least for which an offset depends on another length; the changed
values are below, at and beyond the size of the file and of `W`. `dbstat`: four rows
hold a number before, between and after values that are skipped or NaN. Game: every board that play can reach is reached; with two
events queued an input can hide behind another one and before a timer event.

`programs` is one run since its programs have nothing in common but that each is
one process: the states of the run are the sum of theirs. Properties of it that join
several conjuncts (`GivesBack`, `WordsReported`, `FigletAnswer`) name them one by one.

Deadlock is checked for the driver and the logger, which never stop. The other
programs end (the HTTP server by `die`): their configurations switch the deadlock
check off, and the log reader, the daemon and the programs of `programs` have a
liveness property that they end (`wordFreq` excepted, for whose rehashing operators
TLC cannot evaluate fairness in reasonable time).

### Findings

1. `http_moved`: `free_conns` moves structures, the registrations in the kqueue keep
   pointing to the old place. The moved connection is served through its old place
   and closed there; the copy in the table never is. It occupies a slot for ever,
   and a new connection may be put in the old place while events of the first still
   point to it. A copy also keeps the descriptor of the file: it is closed, and counted
   down, once per copy. Two structures never show the second; the attempt to prove
   that the count of open files stays a number did, for a table of three. Therefore the other properties of `HttpServer`, except
   `OpenAreListed`, are stated until the first move.
2. `logger_info`: with `INFO_LOG_FILE` but without `LOG_FILE`, INFO messages go to
   standard output and not to their file.
3. `logger_level`: `logger_set_level` before the first message is overwritten by
   `LOG_LEVEL`, though its description says that it overrides the environment.
4. `daemon_config`: `getopt` is given `"dch:"`, so `-c` takes no argument.
5. `last_word`: a word that the end of the file ends is not counted.

Seen while modelling, without a run of its own: `write_single_log_message` drops a
message that was accepted when `asprintf` fails, with a line on stderr, and without one
when it was for stdout (the fate "lost" in `Logger`); when an allocation in `createHashmap`
fails, `perror_if` is given a map that is `NULL` or has no buckets, and
`destroyHashmap` reads through it (action `NoMap`); `destroyHashmap` does not free the
buckets of a map without entries; the daemon's `load_config` requires `pid_path`,
which `15_daemon/README.md` does not mention ("две опции"); the figlet client takes
any `.` at the end of a line for the prompt that a comment calls a dot on an empty
line, and reports success when the server closes in the middle of the answer (the
assumptions of `FigletAnswer`); it misses a prompt that two reads divide, and then
waits (`ProgramEnds`), but prints nothing wrong: the proof of `FigletAnswer` needs no
assumption about it; `ringbuf_init` allocates over the buffer that `insmod buf_size=n` has
already allocated (`early` in `NothingLeaks`); `deleteList` of the C list looks at the
first element of an empty list (`ListRight`); in `dbstat` a NaN that comes first stays
the least and the greatest (`DbStatsRight`).

## 4. Fairness

* `RingBuffer`: weak fairness of the continuation of a call that is inside the
  driver: kernel tasks that hold the mutex are scheduled. Nobody is assumed to make
  a call.
* `Driver`: the same while the module is live. Nobody is assumed to load it.
* `Figlet`: weak fairness of the client, which runs until `read` blocks, and of the
  server's answer to a line it got. That the server closes, or that `read` fails, is
  not assumed.
* `ZipList`, `DbStat`, `AsmList`: weak fairness of the program, which waits for nobody.
* `Logger`: weak fairness of each writer thread and of main inside `logger_shutdown`.
* `LogReader`: weak fairness of main and of each worker. Spurious wake-ups are
  possible and not fair.
* `HttpServer`: weak fairness of the main loop, which never blocks elsewhere than in
  `kevent`; strong fairness, per socket, of being reported writable and of `send`
  taking something. This is the assumption that the client reads; the server has no
  timeout, and against a client that does not read the property is false.
* `Game`: the timer ticks (strongly fair, since the bound on the queue may keep it out
  for a while), the loop turns, and it is faster than its events: it finds its queue
  empty again and again. The last is what 60 timer events a second leave time for.
* `Daemon`: weak fairness of each process. Neither signals nor clients nor crashes are
  assumed to come.

## 5. Proofs

`Driver_proof` proves of `RingBuffer`, for all sets of threads and bytes, all messages and all
sizes, from the named assumptions of `RingBuffer` (in particular
`0 < MinSize <= MaxSize`, messages are not empty, `Junk` is no byte, `Free` no thread):

* `TypeCorrect`: `Spec => [](TypeOK /\ LockInv)`. `TypeOK` alone is not inductive: that a
  count stays within the size needs to know that nobody else is between the
  arithmetic and the copies. `LockInv` says that a thread inside a critical section
  owns the mutex; lemma `HolderAlone` turns it into: a step of one thread leaves the
  others outside.
* `IntegrityHolds`, `ReadIsExact`, `ParamIsInSync`: the safety invariants of the run, by a
  strengthening that gives, per control point, what the thread inside has computed
  so far (what it is to copy, how many bytes it peeked, that a buffer is absent in
  the middle of a resize). The lemmas on modular addition and on `Stored` and
  `Contents` carry the wrap-around.

It extends these results to the module as it is loaded and unloaded, with
the assumption that the bound on loads is a number:

* `DriverTypeCorrect` and `DeviceSurvivesReload`: the invariant of the device is
  preserved by the device's steps, and by those of the module's life since they
  happen when every task is idle (`Quiet`: outside of the live phase no call is under
  way); the buffer they put in place is empty and its positions agree.
* `NothingLeaksHolds`: `LifeInv` relates `held`, `todo` and `heap` per phase: while
  loading, what is held is what one of the steps finds (`Before`); while unwinding,
  `todo` lists exactly what is held, latest first.

It also proves the refinement of `LossyFifo`:

* `FifoRefined` and `DriverFifoRefined`: `Spec => ImplementsFifo` and
  `DriverSpec => ImplementsFifo`. Each step of the device is a step of the FIFO or none
  (`FifoStep`); `FInv` adds to the invariant what the first copy has already stored
  (`HalfStored`), so that the second completes the message of `Pending`. The lemmas
  on `Contents` say what it becomes when the oldest bytes are dropped, when a message
  is stored and when nothing of it is touched. Loading and unloading are
  stutters or empty the FIFO.

`Game_proof` proves for any set of points and any bound on the queue:

* `TypeCorrect`, and `MovesStandHolds` from it: lemma `GameStep` shows that every step leaves
  the board alone, clears it on the way from the menu, or marks one free cell of a
  board on which the game is not over; the theorems look at these three cases only.
* `FairPlayHolds`: a mark raises one count by one and passes the turn (`Balanced`, with
  the cardinality facts of the library), and a line can only be completed by the
  player who moves on a board where nobody has one, so at most the player who moved
  last has a line.

`Logger_proof` proves for any set of threads and any quotas of messages:

* `TypeCorrect`, with `IInv`: `WriterInv` follows the life of a level's writer against
  that of its file (a file is open exactly as long as somebody takes from its queue,
  and a little longer for the level that `logger_shutdown` is joining); `PhaseInv`
  keeps main, the threads and `initialized` apart; `CallInv` says what a call has
  found. That a writer lives while its file is open needs the order of the shutdown
  and that nobody logs meanwhile.
* `QueueIsServedHolds`: the look at the file without its mutex is harmless, and so is
  that at the common file: it is open as long as logging is enabled (`PhaseInv`).
* `ConservationHolds`: each step moves at most one message between the four sequences
  `accepted`, `handled`, `wmsg`, `queue` of one level, and whatever the fate of a message
  it becomes the last one of `handled` (`HandleAppends`). That messages are only lost to
  a failed `asprintf` or `fwrite` is what these theorems say; that none is lost would be
  false of the code. `ShutdownFlushesHolds` follows, since a level that was joined has
  neither queue nor node.
* `LogIsChannel`: `Spec => Chan!CInit /\ [][Chan!CNext]_(Chan!cvars)`, that is
  `ImplementsChannel` without its fairness.

`LogReader_proof` proves for any non-empty set of workers and any directory:

* `TypeCorrect` and `QueueExactHolds`, by `QInv`: which worker reads which file and line,
  which lines were counted before, and that a worker that ended has seen the end
  of the queue.
* `ReportRightHolds`: the sums and the lists that main prints are those of the lines
  that were parsed. `Booked` says it of the middle of the run: each sum is that of the
  lines whose workers are past it (`Done`), and `Section` that the worker inside a
  mutex has seen what is there now, which a missing lock would break. The sums are
  folds over sets of lines; their lemmas (`SumStep`, `SumRemove`, `SumAdd`) are in
  `DataLemmas`.

`Daemon_proof` proves for any set of starts, any configuration and any bounds:

* `TypeCorrect`, with `IInv`. `OwnerInv` treats the PID file as the lock it is meant to
  be: at most one process is between its look and its entry (`Sole`), who runs is
  whom it names (`Named`), who looked while somebody ran has found him (`Seen`), who
  is about to write has nobody to write over (`Clear`), and the listener is found
  under the name (`AtName`). All of it under `Orderly`, which states what the code
  does not ensure: that nobody looks while another is at its entry, and that the file
  has one place. `RemainsInv` says whose the files are as long as nobody is killed;
  `SignalInv` why a server that was told to stop can still be in `accept`.
* `OneServerHolds` and `CleanEndHolds` from it.

`HttpServer_proof` proves for every size of the table, of the header, of the blocks and
of the file:

* `TypeCorrect` and `OpenAreListedHolds`, `ExitClosesHolds`. The inductive invariant has
  two parts. `Table` holds whatever moves: every open socket is in the table and every
  registration is of an open socket. `Serve` holds until the first move: a
  registration points to the structure of its own socket (`Pointers`), a socket has
  one structure (`OneEach`), the files open are those being sent (`Holds`), and reading
  is registered until the request is whole (`Requests`). The proof needs them
  together: that closing removes the right file is `OneEach`, that an event of this
  round reaches its own connection is `Pointers`. The handlers fall into two kinds,
  those that close (`CloseStep`) and those that change one structure (`ChangeStep`).
* `InOrderHolds` and the action property `AnswerWholeHolds`, by a second layer
  (`InStep`): what a client has received is the answer up to where the structure says
  that it is (`End`) less what is still in its buffer.

`DataLemmas` is the induction that the others need. The induction theorems of the
library take an operator as a parameter, which cannot be instantiated here; what can
is a set: `LeastNat` and `UpTo` say that a set of numbers with 0 and successors has
all of them, `Descent` that a set of finite sets which holds every set whose smaller
ones it holds has all. They follow from the well-foundedness of numbers and of strict
inclusion. From them come the extremes and sums of finite sets, and `IteratedExists`
and `IteratedSteps`: a recursive function over `0..n` (`IsIterated`) exists, is
unique, and satisfies its own equations, so that loops written as such functions can
be proved about. Folds and sums of the community modules are folded over a `CHOOSE`,
of which `SumUnique` and `SumExists` show that the choice does not matter.

`Programs_proof` proves `ProgramsSpec => []I` for every invariant `I` of the run
`programs`. `PInv` says that the program that runs has its own inductive invariant and
`PInvStep` that the steps of each are its own, so each part below is a proof about one
program:

* `WordCount` (`WInv`), for any set of words, any hash functions, any initial size of
  at least three and multiplier of at least two, and any number of words read. `MapOk`
  says that `size` is the number of entries, that no two have the same key, and that
  no free bucket lies between the first bucket probed for a key and its entry
  (`Reached`); `Sized` that at least one bucket is free (`size <= arr_size / 2 + 1 <
  arr_size`). `WInv` adds that the content is the table of frequencies (`Table`).
  `xremove` breaks `Reached`: it leaves a hole. Lemma `Replaced` shows why that is
  harmless: after the removal the map has room, so `put` does not rehash, and the
  freed bucket is the first free one on its way. `RehashUp` is a recursive function of
  the buckets moved so far, and `IsMoved` what holds after each of them. Of
  `printDescending` the proof shows that each round finds an entry not yet printed
  with the greatest value among these, so that the rounds are as many as the entries
  and the list (`IsReport`) is a descending permutation of them. `RingStep` and
  `Remainder` carry the probing round the end of the array.
* `ZipList` (`ZInv`, `GInv`), for any sizes of the headers, any `W` and any file that
  `Init` allows. Of any file: `ZInv` holds a set `V` of the positions that the check
  has accepted, each followed by another of them or by where the check is (`Walked`);
  the listing walks within `V`, so its asserts hold and nothing beyond the file is
  looked at. The check looks at each header only after the range was compared with the
  length of the file. Of an intact archive: `GInv` says where search, check and
  listing are in the archive of members `ms` behind a prefix of `p` bytes (`Going`).
  The end record that the search finds is the one the archiver wrote, because the
  search goes from short comments to long ones and a false record inside the comment
  claims another length; the shift found from it is `p`, without wrapping since the
  file is shorter than `W`; then the `k`th central header is where the first `k - 1`
  lengths add up (`CfhAt`).
* `DbStat` (`DInv`), for any column: after `fetched` rows the statistics are those of
  the rows read (`SumsOf`), a NaN makes the sums NaN, and `first` says that no number
  was read. `HInv` relates handles and pointers: a pointer is `NULL` until the call
  that sets it and at the end (`PointersByPhase`), so no handle is overwritten and
  `cleanup` gives back each one once.
* `AsmList` (`LInv`), for any data that `DataAssumption` allows: `LShape` knows which
  addresses hold the first list, the second one, or are free again; `HeadRight`,
  `OutRight`, `NewRight` and `OutNewRight` relate lists, output and data. That the
  filter keeps what is odd and in the order of the list, also after failures of
  `malloc`, is stated by indices (`InOrder`).
* `Figlet` (`FInv`), for any arguments, fonts, banners, answers and sizes of the
  buffers: `StreamOk` lists what the server can have sent at each phase; `OutOk` says
  that what is printed is a stretch of it that ends where the client is. `Exact` adds,
  for banners and answers in which nothing looks like a prompt (`Plain`), that the
  client leaves the first search at one of two places and finds the second prompt at
  one: the lemmas on `Find` show where three characters can be found in a
  concatenation. No assumption about prompts that two reads divide is needed: such a
  client waits and prints no more. `Text` is compared with `Joined` argument by
  argument.

The assumptions on constants are those of the modules (`WordAssumption`,
`ZipAssumption`, `DbAssumption`, `DataAssumption`, `FigletAssumption`); TLC evaluates
them for the values of each run. They say what the code and its environment have: the
initial size and the multiplier of the map (100 and 2), sizes of headers that are not
zero, an archive that 32-bit offsets reach, data that are different and not all even,
an answer that is not empty.

What is only model-checked, and why: liveness needs fairness and `ENABLED`, which the
provers do not do. These are `MutexReleased`, `ShutdownEnds`, `Ends`, `AnswerEnds`,
`StopEnds`, `ScreenCatchesUp`, `ProgramEnds`, and the fairness in `ImplementsChannel`.
The five runs that end in a violation state what is false.

## 6. Not modelled

* `16_crc32`: exclusive-or over 32-bit words is beyond TLC's integers, and the
  module of bit operations cannot be used where something is proved. What surrounds
  it, a loop that maps a piece of the file, adds it and unmaps it, exits on the
  first failure.
* `04_types_contd`: three tables of code points and their encoding. A model would be
  the tables once more.
* `point_wave_model`: floating-point integration; neither tool has reals with
  rounding.
* `08_libraries`, `16_oop_gtk`, `26_ftrace`, `30_cube`: one call of a library after
  another, with no state that a step could find changed.
* Of modelled programs: the parsing of log lines and of HTTP requests, the YAML
  library, formatting, drawing, and the set-up of Allegro.

## 7. State of the plan

1. All components above that keep a state of their own are modelled, with the module
   life of the driver and the composition of the programs of one process.
2. Every invariant that a run checks is proved for all values of the constants, and so
   are the refinement of `LossyFifo`, the safety part of that of `LogChannel`, and the
   action properties but for their liveness.
3. Left to TLC are the liveness properties; left out of the models is what section 6
   lists.
