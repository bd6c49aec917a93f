# A verification of the sensor server

The program is a small TCP server in C: one thread runs an edge-triggered
epoll loop (`src/sserver.c`), and what it receives is parsed and answered by the
workers of a thread pool (`src/thpool.c`). With it come a logger (`src/log.c`) and a
JSON library (`src/cJSON.c`). This directory holds TLA+ modules of all of them, the
TLC configurations that check them, and proofs about the pool, its job queue, the server,
the packet parser, the logger and the items of cJSON.

## The system

| Part | State | Operations | Talks to |
| --- | --- | --- | --- |
| Thread pool, `thpool.c` | `threads_keepalive`, `threads_on_hold`, `num_threads_alive`, `num_threads_working`, two mutexes, one condition, the job queue with the binary semaphore `has_jobs` | `thpool_init`, `_add_work`, `_wait`, `_destroy`, `_pause`, `_resume`; the worker loop `thread_do` | its owner by calls; its workers by the queue, the semaphore, the condition and SIGUSR1 |
| Event loop, `start_epoll` | `g_events`, the epoll instance, the descriptors | accept, register, hang up, receive, submit, re-register | the pool (`thpool_add_work`), the connection table, the kernel |
| Packet parser, `parse_packet` | `th_args` of one receive: the buffer and its length | parse the header and the length, reply, close, move the rest to the front and call itself | run by the workers; shares the descriptors with the loop |
| Connection table | `connections`, `global_connection_id`, `mutex` | `add_new_connection`, the tail of `epoll_del_fd` | called by the loop; `parse_packet` only logs the counter |
| Kernel and clients | backlog, socket buffers, ready list | accept, recv, send, close, epoll | external; modelled from its use |
| Start-up, `main` | - | create a pool of 16 workers, listen, run the loop for ever | `thpool_wait` and `thpool_destroy` after it are never reached |
| Logger `log.c` | the lock function, the level, 32 callbacks | `log_log`, `log_add_callback`, setters | called from every thread |
| cJSON, `cJSON.c` | items: lists linked by `next` and `prev`, hung below their parents by `child`; some share the list of another item | create, add, refer, detach, delete, replace, duplicate; parse, print, minify | called by nobody in the repository; `malloc` |
| `uuid4.c` | a seed | `uuid4_init`, `uuid4_generate` | called by nobody |

What is hard in it:

* The pool synchronises with a *binary* semaphore, so posts collapse; it reads
  counters and the length of the queue without their locks; it is torn down by
  a flag that workers test between waiting and working.
* The loop holds a snapshot of events while workers close descriptors, and the
  kernel hands the same numbers out again.
* Edge triggering reports a change once. Every path that does not finish what
  an event announced has lost it.
* Jobs of the same client run concurrently.
* Signals suspend a worker anywhere, locks included.
* The list of jobs is kept by four fields that must agree, and its structs
  pass from the caller to the list to a worker, who frees them.
* A receive ends anywhere in a packet. Offsets and lengths are computed from bytes
  the client chose, and some from memory that nobody has written.
* cJSON works on pointers: an item that keeps a neighbour, a duplicate that
  fails half-way, a reference that is taken for an owner. The length of a
  printed text is added up apart from its writing.

What makes each part correct: the pool runs each job once, in FIFO order of
start, never lets a job wait for a wakeup nobody will give, returns from wait
and destroy exactly when it may. The loop strands no event and closes no
connection but the one that ended. A client gets the replies to its own
packets, in order. The counter that indexes the table stays in range. The parser
answers what arrives packet by packet, and fails for known causes only. Lines of the log are
written once to every stream that wants them, and whole if there is a lock. Every JSON item has
one owner, its links agree, and its text says what it says and fits its buffer.

## The modules

| Module | Models | Notes |
| --- | --- | --- |
| `JobPool` | what a pool promises its owner | abstract: a queue, a set of running and one of finished jobs, the phase of the owner |
| `ThreadPool` | `thpool.c` without pause | workers step by step, the owner's calls; refines `JobPool` |
| `JobQueue` | the job structs and the list of them: `front`, `rear`, `len`, `prev`, `malloc`, `free` | extends `ThreadPool`: each of its steps is a step of the pool together with what it does to the list |
| `MCThreadPool` | instances for TLC | symmetry of workers and jobs; extends `JobQueue` |
| `ThreadPoolPause` | `thpool_pause`, `thpool_resume`, `thread_hold` | extends `ThreadPool`: a held worker takes no step of its own |
| `ThreadPoolShared` | a second pool in the process | extends `ThreadPool`: the other pool writes the shared flag |
| `ThreadPoolProofs` | theorems about the pool, its list, and the pool under pause | TLAPS |
| `Sockets` | kernel and clients | external: one connection per client, edge-triggered epoll, RST and SIGPIPE |
| `ConnectionTable` | the table and its counter | extended by `Server` |
| `Server` | `start_epoll` and `parse_packet` | composes `Sockets`, `ConnectionTable` and the pool as `JobPool`; `ThreadPool` implements `JobPool`, so the server's results do not depend on how the pool is built |
| `MCServer` | instances for TLC | symmetry of clients |
| `ServerProofs`, `ServerClientProofs` | lemmas about the ready list and the system calls; theorems about the server's counter, and about what it does for clients that keep to a discipline | TLAPS |
| `Induction` | induction over the natural numbers for sets; running sums and joins of sequences | TLAPS; extended by `ServerProofs`, `ThreadPoolProofs`, `PacketParserProofs`, `CJsonProofs` |
| `PacketParser` | `parse_packet` byte by byte | one connection, one receive after the other |
| `MCPacketParser` | an instance for TLC | the streams of packets |
| `PacketParserProofs` | theorems | TLAPS |
| `Logger` | `log.c` | threads in `log_log`, one step per write to a stream |
| `LoggerProofs` | theorems | TLAPS |
| `JsonForest` | what the items of cJSON are to a program | abstract: items with a sequence of children each, no pointers; `CJsonLists` implements it (proved) |
| `CJsonItems` | the functions of `cJSON.c` on items | operators on a heap of items with `next`, `prev`, `child`, and `malloc` that can run out |
| `CJsonLists` | a program that makes lists of items | one action per call; what it parses or duplicates comes to it as new items (`Graft`) |
| `CJsonPrint` | printing | from items to a text and the size of the buffer for it; `CJsonLists` extends it |
| `CJsonCopies` | items by name, `cJSON_Duplicate`, arrays of many items | extends `CJsonItems` by what builds more than one item |
| `CJsonText` | parsing, minifying | operators from texts to heaps and to texts |
| `CJson` | a program that calls the library in any order | extends `CJsonText`, `CJsonCopies` and `CJsonLists`; implements `CJsonLists` (proved), and with it `JsonForest` |
| `MCCJson` | an instance for TLC | two programs, names, a value |
| `CJsonProofs`, `CJsonCallsProofs` | theorems about `CJsonLists`; theorems about `CJson` | TLAPS |

### How ThreadPool corresponds to thpool.c

`pc[w]` is the place of worker `w` in `thread_do`:

    absent, failed   before pthread_create, or it failed
    created          running, not yet counted               -> line 355
    loop             while (threads_keepalive)                 358
    bsem_wait        inside bsem_wait, at its test             548
    asleep           in pthread_cond_wait                      550
    woken            if (threads_keepalive)                    363
    count            num_threads_working++                     367
    pull_lock, pull  jobqueue_pull, before and with rwmutex    472
    run              func_buff(arg_buff)                       378
    uncount          num_threads_working--                     383
    exit             num_threads_alive--                       392
    exit_unlock      before the unlock of thcount_lock         393
    gone             the thread has ended

`opc` is the owner's place: `init`, `ready` (between calls), `push`, four
places of `thpool_wait`, `destroy`, `done`. Assignments under one lock whose
data only that lock's holders touch are one step. Three sections are split
because code outside the lock sees them half-way: `jobqueue_pull` (a signal can
suspend its holder), the tests in `thpool_wait` (`len` is read without `rwmutex`),
and the exit of a worker (`thpool_destroy` reads `num_threads_alive` unlocked).
In `ThreadPool` the linked list is a sequence, and `len` its length; `JobQueue` has the
list in memory beside it, and its invariant `ListIsQueue` says that the one is the
other. The fields of the list change under `rwmutex` only, so a
push or a pull is one step there too. `thpool_destroy`'s two polling
loops do the same thing at two rates and are one action. `malloc` never
fails; a failing thread creation is an action, bounded by `MaxFailures`.

### How Server corresponds to sserver.c

The loop has five places: `wait` (at `epoll_wait`), `event` (at the head of
`g_events`), `add` (between `accept` and `EPOLL_CTL_ADD`), `mod` (between
`thpool_add_work` and `EPOLL_CTL_MOD`), and `locked`: the connection after the one that
exceeded the table has been registered and counted, and the loop waits for ever for the mutex
in `new_connection`. Between them workers can close descriptors
and the kernel can change them. One action handles each branch:
`AcceptConnection`, `AddConnection`, `Hangup`, `RecvData`, `RecvNothing`, `ModFd`,
`SkipEvent`. `AddConnection` has the process exit in `set_no_block`, or go on without the
connection, when a worker has closed the new descriptor. A worker starts a job with `StartJob` and ends it with one of
`NotSSP`, `ReplyPacket`, `DisConn`, `ShortPacket`, the branches of `parse_packet`.
`Remaining` is what it does with the bytes after the first packet.

Packets are whole, and of three kinds: `request` (PING, CONN, SEND, PUBLISH: all are
answered with one `send`), `disconn` and `short` (fewer than four bytes). A
receive delivers up to `RecvMax` of them. What parse_packet reads from memory
nobody has written, or that it has freed - the fourth byte of the header, `next_parse_offset` after
DIS_CONN (which can send it to a second activation that closes the descriptor again), `args->socket_fd` after
`free` (lines 221-222) - is a nondeterministic choice when `Uninitialized` is TRUE. FALSE stands for the values a
reader would expect: 0, the length of a DIS_CONN, the descriptor. It is an assumption about memory, and nothing in
the code ensures it; what rests on it says so.

The environment is set by constants, so that each run says under which clients
its result holds: `Crowded` (clients connect while others wait for accept),
`Pipelined` (clients send before the last reply came, or go on after a packet
without one), `Leave` (clients close), `Kinds`.

The model of epoll: a descriptor is put on the ready list when its connection
changes while it is registered, and when it is added or modified while an
event it is registered for is present. `epoll_wait` takes up to `MaxEvents` from
the list and reports what is present at that time. After the first receive a
descriptor is registered for EPOLLIN and EPOLLOUT, without EPOLLRDHUP.

### How PacketParser corresponds to sserver.c

A client sends a `stream` of packets. `Receive` is a `recv` of any number of bytes into
the cleared buffer, so that receives cut packets anywhere and hold several.
`calls` counts the activations of `parse_packet` on it. Each branch is an action:
`TooShort` (less than four bytes: closed), `NotSSP` (line 235), `UnknownType` (no case of
the switch), `Answer` (PING, CONN, SEND, PUBLISH) and `DisConn`. The last two end in
`Continue`: `remain_len` is zero, and args is freed; or positive, and what `Moved` leaves is
parsed again; or negative, and given to `memcpy` and `bzero` as a size, which ends the
process (`fate = "crashed"`). `Moved` follows the order of the code, which clears the
bytes before it moves them. The fourth byte of the header and the offset after DIS_CONN, which
nobody writes, are chosen from `StrayBytes` and `StrayOffsets`.

The two models of `parse_packet` divide the work. What one call does depends on its
own args only, so `PacketParser` runs one at a time, in bytes; what several calls
and the loop do to each other depends on descriptors and whole replies, so `Server` has
packets for data.

### How CJson corresponds to cJSON.c

`heap` maps each cell of memory to an item or to `Free`, and an item has the fields of
`struct cJSON`. `cJSON_New_Item` takes a free cell, or fails when there is none. Each function that
changes items is an operator from heap to heap, pointer assignment by pointer
assignment, and each call of it an action of `CJsonLists`, or of `CJson` if it parses, prints,
duplicates or creates. `held` are the items that
the program must still add or delete. The loops and recursions that only collect items
(`cJSON_Delete`, the walk to the last item of a list) are least sets (`Walked`): the smallest
set that the links do not lead out of. What goes along a list in its order, by index or by
name, uses the sequence of its members (`Chain`). Functions that call themselves
(`cJSON_Duplicate`, `parse_value`, `print_value`) take a cell of memory for each call or go one level down, so
no more than `NumItems` calls are within each other: each is a recursive function of how many more there can be, and
the loop in it a recursive function of how often it has been run.
A reference has a field `of`, which the code has not: the item whose list it shows.

In `CJsonLists` the calls that make many items at once are one action, `Graft`: somewhere
in free memory there are new items, well formed by themselves, all in one
that the program gets. That what `CJson` does by parsing, duplicating and creating is no more than
this, also when memory runs out half-way, is `ListSpec`: the run `cjson_items` checks it, and
`CallsAreListCalls` proves it. Texts are sequences of characters; `Parse` and
`Render` follow the functions of `cJSON.c`, `Render` with the size of the buffer it
allocates.

The program keeps to the rules that `cJSON.h` implies. It adds and
deletes only items it holds; it gives members of objects names; it puts no item into
itself; while there is a reference to an item it neither deletes that item nor changes its
list, nor does it change a list through a reference. A text that ends behind a
backslash is not parsed: `parse_string` would read beyond its end (line 236).

## The runs

| Run | Shows |
| --- | --- |
| `pool_safety` | 3 workers, 3 jobs, one creation may fail, spurious wakeups. `JobsAccounted`, `NoLostWakeup`, `PostWakesWorker`, `QuietWhenFreed`, `WaitIsComplete`, the refinement `ImplementsJobPool`, the list of jobs as `ListIsQueue` and `StructsOwned` (no struct leaked, freed twice or used after it was freed), and the inductive invariant `IInv` of the proofs |
| `pool_live` | `ThreadPoolPause`, 2 workers, 2 jobs, 2 pauses by an owner that resumes again as long as a worker is held. `thpool_wait` and `thpool_destroy` return and all jobs run if jobs return, wherever a signal finds a worker and also when it arrives after the first resume; a job that never returns keeps no other job in the queue |
| `pool_freed` | refuted: that workers have made their last access to the pool when it is freed |
| `shared_jobs` | refuted: that a pool's jobs run although another pool is destroyed |
| `server_safety` | clients that wait for each reply, and may crowd, disconnect, send short packets and leave, with memory assumed benign (`Uninitialized` FALSE): `RepliesFaithful`, `NoWrongClose` |
| `server_wild` | three clients that do what they like, any uninitialised bytes, a table of one slot: the counter stays in range, `CounterInRange`, by the inductive invariant `IInv` of the proofs, also where the third connection locks the loop up or the process exits |
| `server_answers` | clients that connect one at a time, stay, and whose packets no `recv` joins: no event is stranded, `NoStrandedEvent`, and every request answered, `RequestsAnswered` |
| `server_break` | refuted: that every request is answered, when a client leaves in the same round |
| `server_reuse` | refuted: that a client only gets replies to its own packets, when clients leave without waiting |
| `logger_lines` | 2 threads, with and without a lock function, all levels, a callback more than the table holds: `LinesWhole` and `TimeIsOwn` with a lock, `Delivered` always; the inductive invariant `IInv` |
| `parser_bytes` | streams of one or two packets of every type and of three PINGs, cut anywhere: `CrashHasCause`, `ClosedForReason`, `ExactAnswered` (as long as the header byte that nobody writes has been 0), the inductive invariant `IInv` |
| `cjson_items` | programs in a small memory: `LinksConsistent`, `OwnedOnce`, `PrintedTextParses`, `TextFits`, `DuplicateIsIdentical`, the refinement `ImplementsForest`, and `ListSpec`, that `CJson` implements `CJsonLists` |

Other results are a constant away, and show why the runs have the constants they have:

* `pool_live` with `Careful = FALSE` refutes `EveryJobRuns`: nothing then has the owner resume again. One that
  pauses and resumes once, as in the example of `thpool.h:99-127`, can resume before a signal has arrived; the
  handler sets the flag again, and the worker is held for ever, perhaps with a lock in its hands.
* `pool_live` with `MaxFailures = 1` has an owner in `thpool_init` for ever (`InitSpin`).
* `server_answers` with `Crowded = TRUE` refutes `NoStrandedEvent`: two connections that arrive in one edge are
  accepted one at a time (`sserver.c:129`), and the second waits for the next client. `test.escript:8-20`
  opens a hundred at once.
* `server_safety` with `Pipelined = TRUE` refutes `RepliesFaithful`: two jobs of a client that does not wait run
  at a time, and their replies can overtake each other. No document promises otherwise.

### Bounds

Safety: three workers are enough for one that sleeps, one on its way to the queue and one
that runs; three jobs for all cases of `jobqueue_pull` (none, one, more) with one
running. The pool's safety does not rest on these bounds: it is proved.
Liveness takes two workers and two jobs: as many workers as jobs, and one worker
that can be stuck or held while the other is needed.
Two clients on two descriptors give reuse, a snapshot that holds both, jobs of
one client next to each other and a client behind another's hangup; two packets
per client give a second receive and two packets in one receive. `MaxJobs` is
at least the number of packets, so no receive is stopped by it. `server_wild` has a third client, because
`Limit` is 1 in it: the second connection exceeds the table, writes outside the array and leaves the mutex locked, and
the third counts once more and waits for the mutex. It takes one packet per client and one worker, because only the loop
touches the counter.
The results of `server_safety` and `server_wild` do not rest on their bounds: they are proved.

`parser_bytes`: a buffer of 14 bytes and a uuid of 2 instead of 10240 and 32; two packets with
data may be more than the buffer, and one SEND alone claims more than it. Streams of two packets have every type
followed by every other; three PINGs in one receive leave two packets behind the first. The stray offsets are
below zero, at the header, in and behind the packet, and beyond the receive.

`cjson_items`: three cells for items of every kind, a string, two names that differ only in
case; four cells for lists, so that an item in the middle of three can be replaced and
a duplicate can fail at any depth. `LinksConsistent` and `OwnedOnce` do not rest on these bounds: they are proved
for every memory. A list of three has a first, a middle and a last item, which are
the cases of every loop over `next`. The string holds a quote, a backslash and what looks like
a comment. Texts to parse are cut at any place up to 12 characters. TLC visits every
state: the memory is the only bound on the length of the behaviours.

### Fairness

Threads are scheduled: weak fairness of each worker, of the owner inside a call,
of the loop and of each job. Nobody is obliged to start a call, connect or send,
and a job need not return: where a result needs that, it says so (`JobsReturn`).
With pauses, signals are delivered, and the careful owner of `pool_live` resumes what
it has paused, resumes again while a signal that came late holds a worker, and makes no other call
before all workers are back. It may resume before any signal has arrived. The header asks less of an owner: the
pool's liveness under pause is a result about owners that do more.
Weak fairness is enough. No worker competes for ever for a mutex in these
instances, whose jobs are finite in number, and a polling `thpool_destroy`
finds its condition stable once true.

### Deadlock

`parser_bytes` and `shared_jobs` switch the deadlock check off. In the first the client has sent
everything, or the process has crashed or closed the connection; in the second all
workers may be gone while the owner still waits. All other runs have it on. The final states
`Stopped` (after `thpool_destroy`) and `Halted` (the process has ended, or the loop is locked) stutter.

## What is proved

### The pool

`ThreadPoolProofs` proves for every non-empty finite set of workers, every set of jobs,
any number of failed thread creations, with or without spurious wakeups:

| Theorem | Statement |
| --- | --- |
| `Invariance` | `Spec => []IInv` |
| `TypeCorrect` | `Spec => []TypeOK` |
| `NoJobLost` | `Spec => []JobsAccounted` |
| `NoJobStranded` | `Spec => []NoLostWakeup` |
| `PostsReachWorkers` | `Spec => []PostWakesWorker` |
| `DestroyIsQuiet` | `Spec => []QuietWhenFreed` |
| `WaitCorrect` | `Spec => WaitIsComplete` |
| `Implementation` | `Spec => ImplementsJobPool` |
| `PausedPoolIsPool` | `PauseSpec => Spec` |
| `PausesLoseNothing` | `PauseSpec => [](JobsAccounted /\ NoLostWakeup /\ QuietWhenFreed) /\ WaitIsComplete` |
| `SharedInvariance` | `SharedSpec => []SharedInv` |
| `OtherPoolLosesNothing` | `SharedSpec => [](JobsAccounted /\ QuietWhenFreed) /\ WaitIsComplete` |
| `SharedPoolIsJobPool` | `SharedSpec => ImplementsJobPool` |

The only assumption is `ThreadPoolAssumption`, that the constants are what
their names say. `IInv` adds to the properties three facts that none of them
is inductive without:

* `CountersExact`: the two counters are the numbers of workers in certain places.
  It turns `num_threads_working = 0`, which `thpool_wait` reads, into "no worker
  has a job", and `num_threads_alive = 0` into "no worker is in its loop". The lemma
  `CountersDecide` says this; it needs the cardinality theorems of the library.
* `ControlInv`: a worker holds a job exactly while it runs it; when `thpool_init` has returned all
  workers have been counted; once the owner is in `wait_working`
  the queue is empty, since only the owner fills it.
* `KeepaliveInv`: the keepalive flag is cleared by `thpool_destroy` and workers leave their loop only after that.

Each conjunct of `IInv` has a lemma for one step of `Next`, with a case per
action (`NextTypeOK`, `NextCountersExact`, `NextControlInv`, `NextKeepaliveInv`, `NextJobsAccounted`,
`NextNoLostWakeup`, `NextPostWakesWorker`, `NextQuietWhenFreed`); `Invariance`
combines them. `NextNoLostWakeup` is the argument about the binary semaphore: a
worker consumes the 1 only to go to the queue itself, and whoever leaves a
job behind posts again. `WorkerStepRefines` and `OwnerStepRefines` map each step
to a step of `JobPool` or to a stutter; `WaitTestWorking` is the step
that needs the invariant.

A signal of `thpool_pause` suspends a worker anywhere, with a lock in its hands or the semaphore's 1
consumed. `PauseStepIsStep` says that it changes nothing of the pool, so all of the above holds of
`ThreadPoolPause` too, whether its owner is careful or not: a pause delays jobs and loses none.
What a pause can do to liveness is the matter of `pool_live`.

Only `NoLostWakeup` needs `KeepaliveInv`. The rest of the invariant, `SharedInv`, is inductive without it, and
holds although a second pool writes the flag this pool's workers read (`OtherKeeps`), when they leave their
loops while their pool is open, or come back to work while it is destroyed. `shared_jobs` shows
what a second pool can do: jobs may wait for ever. `OtherPoolLosesNothing` and `SharedPoolIsJobPool` show that this is all: none is lost
or run twice, none is started after the pool is closed, `thpool_wait` does not return too early, and
the pool is not freed under a worker in its loop.

### The list of jobs

`ThreadPoolProofs` also has `LinkedPoolIsPool` (`LinkedSpec => Spec`: all theorems about the pool hold of the
pool with its list in memory) and `LinkedListIsQueue` (`LinkedSpec => []ListIsQueue`). What a
push or a pull needs is that no job is in the queue twice, which is `JobsAccounted` of the
pool; so the invariant of the list is proved on top of that of the pool, by one lemma for
each way a step can touch the list (`PushKeepsList`, `PullKeepsList`, `FreeKeepsList`, `EmptyList`).

`StructsAreOwned` (`LinkedSpec => []StructsOwned`): each allocated struct is in the list, in the
hands of a worker, or held by the caller that is about to push it, and each of these is allocated. `jobqueue_clear` pulls and frees
until the list is empty; `PullsInOrder` shows by induction that its i-th pull is the i-th job of the
queue, and `ClearFreesQueue` that it frees those and no others. `OwnedInv` adds that the
caller holds a struct in the step before its push and at no other time.

### The server

`ServerProofs`: `ServerInvariance` (`Spec => []IInv`), `ServerTypes` (`Spec => []TypeOK`) and
`CounterNeverWraps` (`Spec => []CounterInRange`), for all finite sets of clients and
descriptors, any number of packets, workers and events per round, with every value of the
uninitialised bytes and all environments. The assumptions are those of `SocketsAssumption`,
`ConnectionTableAssumption` and `ServerAssumption`.

That the counter stays in range is not inductive. The loop decrements it
for an event, perhaps of a descriptor that a worker has closed since; so the
counter must be compared with what is registered *or* still among the events of this
round (`Watched`, `CounterCovers`). A hangup takes its event away and closes its
descriptor, which pays for the decrement, as the events of a round are of distinct
descriptors (`NoRepeats`), because the ready list has no descriptor twice
(`QueuesInOrder`). From above, the counter has counted each client at most
once, those in the backlog and the one between `accept` and `EPOLL_CTL_ADD` not yet
(`Newcomers`, `CounterCounts`), and beyond the limit it goes up at most twice (`CounterLimited`): the first
time `new_connection` keeps its mutex, and the second time, as it counts before it locks, it
never returns. So the modulus of the unsigned counter is never reached. `ServerProofs` has one lemma per action, each in four parts: the
sockets, the loop, the jobs, the counts.

It begins with a proof for each system call that it keeps `QueuesInOrder`. `Keep`, what
`epoll` leaves of a list, is a recursive function. The induction theorems of the library
cannot be used with the installed provers; `Induction` proves one of its own over the natural numbers
for sets (`LeastNumber`, `Induct`) from the well-foundedness of `<`. For the parser it adds what is needed
of the running sums of a sequence of lengths (`RunningSum`, `SumsGrow`) and of the texts that lie one after
the other in a longer one (`RunningConcat`, `JoinAt`).
`KeepFacts` follows from it: what `Keep` returns has only wanted elements, all of them,
and none twice. `KeepAppend` says the same of one more element.

`ServerClientProofs`: `NothingStranded` (`Spec => []NoStrandedEvent`) under the assumption
`Steady`: clients connect one at a time, stay and send requests only, and there is a descriptor
for each. They may send at any time, and a receive may hold one packet or two. `server_answers` is
an instance of it. Each part of it is needed: TLC finds a stranded event when `Crowded`, `Leave`, a
packet of another kind or one descriptor for two clients is allowed. The invariant
is `SteadyInv`:

* `Announced`: what there is to accept or to receive is on the ready list or among the events of the
  round, where only an event with EPOLLIN counts. `ModFd` keeps it, although the event is then
  dropped, because it registers for EPOLLOUT, which is always present; `AddConnection`, because data
  that came before the registration puts the descriptor on the list (`RegisterSteady`).
* `EventsCurrent`: what an event of the round announces is still there when the loop comes to it.
  So a `recv` never returns without data, the `break` of the loop that drops
  the rest of the round is not reached (`AtCurrent`), and neither is `epoll_del_fd`.
* `OneFdEach`: a client has one descriptor, and at most one client waits for `accept`. That an
  `accept` finds a free descriptor is the pigeonhole principle (`FreeDescriptor`).

The same module proves `RepliesAreFaithful` (`Spec => []RepliesFaithful`) and `HangupsAreRight`
(`Spec => NoWrongClose`) under the assumption `Polite`: clients wait for each reply, and they send requests
only, or else memory is benign (`Uninitialized` FALSE). So for clients that send only PING, CONN, SEND and PUBLISH
the two hold with every value of the byte nobody writes, which drops packets and disturbs no others. For clients
that ask to be disconnected or send short packets they hold on an assumption about memory that the code does not
ensure: a DIS_CONN reads an offset that is not set, and a short packet a descriptor that is freed. All of them may crowd
and leave, and the loop may be locked at the limit. `server_safety` is an instance with benign memory, and
`server_reuse` shows what happens without the waiting. While clients wait, no descriptor is reused
that a job still has: the theorems say that waiting is enough for that. The invariant is `PoliteInv`:

* `OneEach`: a client has one packet on its way, in its socket or in a job that has not ended. So no
  two jobs have the same descriptor, and while a job is under way its descriptor is not closed
  by another one.
* The loop does not close it either. After the first receive a descriptor is no longer registered for
  EPOLLRDHUP (`AgainMask`), so the loop cannot see the client leave; `OneEach` has the registration
  of each job's descriptor, also between `thpool_add_work` and `EPOLL_CTL_MOD`. With it
  `HangupsCurrent` is inductive: a hangup that is still to be handled is of a descriptor that is
  open, whose client has left, and that no job has.
* `Answering`: the request on its way is the next one its client waits for, and the client has not
  closed. So the reply is in its place, and `send` provokes no RST. A packet without a
  reply is the last of its client.

### The packet parser

`PacketParserProofs` proves, for every set of streams, every buffer that holds a header and a uuid, and
every value of the bytes and offsets that nobody has written:

| Theorem | Statement |
| --- | --- |
| `ParserInvariance` | `Spec => []IInv` |
| `CrashesHaveCause` | `Spec => []CrashHasCause` |
| `ClosesHaveReason` | `Spec => []ClosedForReason` |
| `PacketsAnswered` | `Spec => []ExactAnswered` |

All rest on what the code does to the bytes behind the first packet: it clears them before it moves them
(`RestIsZero`, a fact about lines 321 and 322 and not about what is wanted of them), so that a second activation
ends in `TooShort` or `NotSSP`. The three properties speak of where packets lie in the stream. `Ends`, the places where packets end, is a recursive
function, and the stream is the join of its packets; by the lemmas of `Induction` the ends grow, and the
bytes behind the n-th end are those of the next packet. So a receive that begins where a packet does begins
with that packet's header (`FirstHeader`). The parts of the invariant tie the buffer to the stream:
`BufferIsReceived` (the buffer holds what was received, then zeros), `RestIsAfterFirst` (what a second
activation is given is what lies behind the first packet of the receive, or behind data that has been taken for one in a
receive that begins inside a packet), and `InStep` (for a client that sends one
answerable packet per receive and whose headers are not misread: what is received begins and ends where the next packet does, and the replies are
those to the packets before it). A receive that begins inside a packet can begin with data that looks like a packet
(`TakenForPacket`), and then a close has the reasons that packet would give. A negative rest is then traced to what the first packet was, and a close to
the length of what was left.

### The logger

`LoggerProofs`: `LoggerInvariance` (`Spec => []IInv`), `LinesAreWhole` (`Spec => []LinesWhole`),
`TimesAreOwn` (`Spec => []TimeIsOwn`) and `EveryStreamGetsLine` (`Spec => []Delivered`), for any number of
threads, streams, callbacks and calls.
`Exclusive` says that who writes holds the lock; `LineOpen`, that what a
thread has written of its line is the last thing on its stream, which only `Exclusive` protects from
others; `TimeKept`, that the shared `struct tm` is that of the call from its `localtime` on.
`Delivered` does not need the lock. A thread that is `OnCourse` has written one line to each
stream that one of its passes over the callbacks was for and that asks for it; a pass adds one line
(`PassEnds`) because no stream has two callbacks (`FilesOnce`) and nothing on a stream is of
a later call (`NoLaterCall`).

### The items of cJSON

`CJsonProofs`: `ListInvariance` (`ListSpec => []IInv`), `LinksStayConsistent` (`ListSpec => []LinksConsistent`) and
`ItemsOwnedOnce` (`ListSpec => []OwnedOnce`), for any number of cells, names, texts and calls in
any order, and with memory running out at any time. The assumptions are `CJsonItemsAssumption` and `CJsonListsAssumption`,
which say of the constants that they are what their names say.

`IInv` is `WellFormed(heap, held)`: `Linked` (no dangling link, `next` and `prev` inverse, nothing held has a
neighbour), `Listed` (a list has one owner, and what else leads to it are references to that owner)
and `Kept` (every item is in an item the program holds). The second half of `OwnedOnce` - that two
held items have nothing in common - is not part of it but follows: only one item leads to an
item (`OneLeads`), and none to one that is held, so a walk never enters what another one
has (`LeadsFromInside`, `FamiliesDisjoint`).

A walk is the least set that the links do not lead out of. So there is no induction along lists: to show
that what is reached has a property, one shows that the set of what has it is not left. That a list has a last item, where
`cJSON_AddItemToArray` appends, is the pigeonhole principle. `Reached`
says the same of `Kept`: a set with the held items that no link leaves is all of memory in use. For each call the proof
names the links it changes and derives the three parts: adding (`AddKeeps`, `AddNamedKeeps`), taking out of
a list (`DetachKeeps`), putting in place of another (`SwapKeeps`), deleting (`DeleteKeeps`), referring (`ReferenceKeeps`), and
new items beside the old ones (`GraftKeeps`). Two of them are composed: `cJSON_ReplaceItemInArray` is a swap and a delete
(`ReplaceKeeps`), `cJSON_AddItemReferenceToArray` a reference and an addition.

The discipline of the program is needed. `DeleteKeeps` uses `Unreferred`: a reference to what is deleted would
be left with the address of freed items. `AddKeeps` uses that an item is not put into itself.

`ListsAreForest` (`ListSpec => ImplementsForest`) says that the lists implement `JsonForest`, under the refinement mapping
`ForestOf`, which gives each item in use the sequence of its members (`Chain`). The argument:

* A `Chain` is a sequence with the right links (`IsListing`), there is one
  (`ListingExists`: the path to the last member, again from the pigeonhole principle and least sets),
  and it is the only one (`ListingIsChain`). So a list is known as soon as a sequence with the right links
  is named (`ChainIs`), and two lists with the same head and the same links are the same (`ChainSame`).
* Each operator on the heap is the operator on sequences that it stands for: `Append` for `AddItem` (`AddForest`),
  `RemoveAt` for `Detach` (`DetachForest`), `ReplaceAt` for `Swap` (`SwapForest`); a name is changed
  (`RenameForest`), a reference shows what its item shows (`ReferenceForest`), deleting and growing change no item
  that stays (`DeleteForest`, `GraftForest`). All other lists stay: `OtherLists` says
  that a list that nothing refers to has no member in common with the list of another item, which needs `Listed`.
* What `cJSON_Delete` reaches is the family of the item, the item with everything in it (`FamilyIs`).
* Then every call is one step of the forest: a lemma for each of them, from `AddToArrayIsInsert` to
  `ReplaceInObjectIsReplace`, and `NextIsStep` puts them together.

Here, too, the discipline is needed: with a reference to an item whose list is changed, the
reference may show another list than its item, and the forest has no step for it.

`TextsFit` (`ListSpec => []TextFits`, and for every depth) says that the length which `print_string_ptr`, `print_array`
and `print_object` compute before they write is enough. The text of a level and its size are proved to fit if those one level
down do (`ItemFits`, from `StringFits`, `ArrayFits`, `ObjectFits`), and a text put together of parts fits into the sum of
the sizes if each part fits into its own (`FlattenFits`).

`CJsonCallsProofs`: `CallsAreListCalls` (`Spec => ListSpec`) says that every call of a program in `CJson` is one of those of
`CJsonLists`, and `ProgramsAreSafe` draws the conclusion: what was proved of `ListSpec` holds of `Spec`. The step that takes
work is that a call which builds many items is one `Graft`, or leaves the heap as it was:

* `Builds(h, g)` says that `g` differs from `h` only in cells that were free, and `Copied` what is expected of such a call: either
  nothing has changed, or there is one more item to hold, well formed and built. What has been built beside a well-formed heap has
  no link to it or from it, so it is a graft (`BuiltIsGraft`), and deleting its item gives back the heap of before (`BuiltAlone`):
  this is why parsing and duplicating leak nothing when they fail half-way. (An array of several new items that
  runs out of memory half-way dereferences NULL in the code, and is not among the calls.)
* Inside of the loops the heap is well formed with the item under construction held (`Building`, `InList`); a new item is alone
  (`NewKeeps`) until it is linked behind the last one (`LinkKeeps`, `NextBegins`), which must be open: nothing behind it, not held, and the item
  whose list it ends not shown by a reference (`Unshown`). Without the last, adding to the list would make a reference stale.
* A parser fills an item that is already in a list. So what it does is `Fills`: apart from free cells it changes that item, but not its `next`,
  which its caller sets afterwards.
* What recursive functions return is proved by induction on how many calls can be within each other (`DuplicateKeeps`,
  `ParserParses`), with the loop in each by induction on its length (`CopyAllKeeps`, `FillKeeps`, `ParseMembersKeeps`). TLA+ chooses the function that
  satisfies a recursive definition, so first there must be one (the lemmas that end in `Runs`).
* The cells that a string needs must be characters: `ReadCharIs` needs that a text does not end behind a backslash, as
  the program of `CJson` sees to.
* `DuplicatesAreIdentical` (`Spec => DuplicateIsIdentical`) adds what a duplicate says. `Same` compares an item of one heap with one of
  another to every depth of `Meaning`. What is made later leaves it so: all that is in an item that was there `Stays` when other cells
  are filled (`BuildsStay`) and when a copy is linked into a list of an item that is still held (`RelistedStays`), because nothing else has
  that item in its list. So in the loop of `cJSON_Duplicate` the copy `Mirrors` the first k members, and one more after each round
  (`MirrorNext`; the fast append at the last item does what `cJSON_AddItemToArray` would, `LinkIsAdd`). At the end every member has its twin,
  and then so has the item (`MirrorSame`).

### Only model-checked

* Liveness (`WaitReturns`, `DestroyReturns`, `EveryJobStarts`, `EveryJobRuns`,
  `RequestsAnswered`): fairness and ENABLED are out of the prover's reach.
* Of cJSON `PrintedTextParses`: that a text, parsed, says what was printed. What is proved of parsing is what it does to memory.

## Where code and documents disagree

`PROJECT.json` lists the disagreements that a run demonstrates. Others follow
from the same modules and have no run of their own:

* `thpool_init` ignores a thread that could not be created and spins (`InitSpin`);
  the header promises NULL (`thpool.h:33`, `thpool.c:163,170`).
* A worker held by `thpool_pause` inside `jobqueue_pull` keeps `rwmutex`, and
  `thpool_add_work` blocks; the header says work can be added (`thpool.h:103`).
* One `thpool_resume` does not bring back a worker whose signal comes after it (`thpool.c:309`, `HoldBegin`); the header
  says that the threads return to their previous states (`thpool.h:99-100`).
* One connection is accepted per edge (`sserver.c:129`, `AcceptConnection`), and `test.escript:8-20` opens a
  hundred at once, each of which waits for its replies.
* A client that leaves early can have the process ended by SIGPIPE (`sserver.c:255`, `BrokenPipe`).
* Two packets in one receive: the second is cleared before it is moved
  (`sserver.c:321`), against the comment at 217 (`Remaining`).
* `recv` returning 0 does not close the descriptor (`sserver.c:171`, `RecvNothing`).
* `new_connection` returns with its mutex locked at the limit, which is 2048
  and not the 1024 of its log line, and the next connection locks the loop up (`sserver.c:353`, `AddNewConnection`,
  `AddBlocked`).
* `epoll_del_fd` clears the newest slot of the table, whichever connection ended
  (`sserver.c:393`, `DropConnection`).
* The header comparison reads a byte that is not written (`sserver.c:235`, `NotSSP`).

## Not modelled

* Changes of the logger's lock function or callback table while a thread logs, which
  log.c does not protect. The server makes neither at any time: it runs the logger
  without a lock, where of the three properties `Delivered` is the one that holds.
* Memory that is never freed (`args` on most paths of the loop, arguments of dropped
  jobs): nothing depends on it.
* The branch `recv_len > RECV_BUFFER_LEN` of the loop, which `recv` excludes, and
  errors of `epoll_wait`, which do nothing.
* The byte that `parse_packet` writes behind the memory it allocates for a PUBLISH
  (`sserver.c:300` copies one more than it asked for), and what is read from memory behind
  the buffer.
* In cJSON: numbers, `true`, the escapes other than quote, backslash and newline, and `\u`; `malloc`
  that fails for a name, a value or a text (`cJSON_strdup` returns NULL, and the
  functions that create a named item go on); the old name that `cJSON_ReplaceItemInObject`
  does not free if the item has another already; `cJSON_CreateIntArray` and the others when
  `malloc` fails for one of several elements, where they dereference NULL (that of an only element, which leaves the array
  empty, is in the model).
* `uuid4.c`: nobody calls it, and it is one sequence of 64-bit xorshift numbers, whose
  quality no model checker sees.
* Option parsing in `main`; empty `encode_packet` and `decode_packet`; UDP, which is only declared.

## Plan

Done: the pool, its list of jobs, pause and shared flags; the server with table and
sockets; the packet parser; the logger; cJSON; and the proofs above. What is left:

1. `Server` over `ThreadPool` instead of `JobPool`, on an instance small enough. The result is
   implied by `Implementation`; a run would show the two state spaces together.
2. Numbers in the text of cJSON, as decimals of bounded length.
