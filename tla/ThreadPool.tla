------------------------------ MODULE ThreadPool ------------------------------
(***************************************************************************)
(* The thread pool of src/thpool.c: the worker threads of thread_do, the    *)
(* job queue with its mutex, the binary semaphore has_jobs, and the thread  *)
(* that owns the pool and calls thpool_init, thpool_add_work, thpool_wait   *)
(* and thpool_destroy.                                                      *)
(*                                                                          *)
(* A section under bsem.mutex is one step, and so is a section under        *)
(* thcount_lock or rwmutex that no other thread can observe half-way: what  *)
(* it touches is only accessed under the same lock.  The sections that are  *)
(* observed from outside their lock are split, and the lock is a variable:  *)
(* jobqueue_pull (a thread can be suspended in it, ThreadPoolPause.tla),    *)
(* the checks of thpool_wait (len is read without rwmutex) and the last     *)
(* section of thread_do (thpool_destroy reads num_threads_alive unlocked).  *)
(*                                                                          *)
(* The jobs of the linked list front..rear are a sequence.  A worker in     *)
(* pthread_cond_wait has pc "asleep", and being woken means going back to   *)
(* the test of the loop around the wait.                                    *)
(***************************************************************************)
EXTENDS Integers, Sequences, FiniteSets

CONSTANTS
  Workers,        \* the threads thpool_init creates
  Jobs,           \* the jobs the owner may submit, each at most once
  Owner,          \* the thread that calls the thpool_* functions
  None,           \* no thread, no job
  MaxFailures,    \* bound on thread creations that fail
  Spurious        \* whether pthread_cond_wait may return without a signal

ASSUME ThreadPoolAssumption ==
  /\ IsFiniteSet(Workers)
  /\ Workers # {}
  /\ Owner \notin Workers
  /\ None \notin Workers \cup {Owner} \cup Jobs
  /\ MaxFailures \in Nat
  /\ Spurious \in BOOLEAN

VARIABLES
  threads_keepalive,
  num_threads_alive,
  num_threads_working,
  thcount_lock,     \* who holds thcount_lock
  rwmutex,          \* who holds jobqueue.rwmutex
  queue,            \* jobs from front to rear; len is Len(queue)
  has_jobs,         \* the value v of the binary semaphore
  pc,               \* where each worker is in thread_do
  job,              \* the job each worker executes
  opc,              \* where the owner is
  newjob,           \* the job thpool_add_work is about to push
  submitted,        \* history: jobs pushed on the queue
  finished          \* history: jobs executed to the end

ownerVars == <<opc, newjob>>
history == <<submitted, finished>>
vars == <<threads_keepalive, num_threads_alive, num_threads_working,
          thcount_lock, rwmutex, queue, has_jobs, pc, job,
          opc, newjob, submitted, finished>>

InPool  == {"count", "pull_lock", "pull", "run", "uncount"}
Counted == {"loop", "bsem_wait", "asleep", "woken", "exit"} \cup InPool
Busy    == {"pull_lock", "pull", "run", "uncount"}
WorkerStates == Counted \cup {"absent", "failed", "created", "exit_unlock", "gone"}
WaitStates == {"wait_lock", "wait_len", "wait_working", "wait_asleep"}
OwnerStates == {"init", "ready", "push", "destroy", "done"} \cup WaitStates

Alive   == {w \in Workers : pc[w] \in Counted}
Working == {w \in Workers : pc[w] \in Busy}
Asleep  == {w \in Workers : pc[w] = "asleep"}
Queued  == {queue[i] : i \in 1..Len(queue)}
Running == {job[w] : w \in Workers} \ {None}

-------------------------------------------------------------------------------
(* Synchronisation: bsem_post and bsem_post_all, on the workers' states pcs. *)
(* An operator whose name ends in Fault is a mutation of the one after it:    *)
(* TLC must refute a property of the pool when it takes that one's place.     *)

BsemPostFault(pcs) == has_jobs' = 1 /\ pc' = pcs

BsemPost(pcs) ==
  /\ has_jobs' = 1
  /\ \/ Asleep = {} /\ pc' = pcs
     \/ \E s \in Asleep : pc' = [pcs EXCEPT ![s] = "bsem_wait"]

BsemPostAllFault == has_jobs' = 1 /\ UNCHANGED pc

BsemPostAll ==
  /\ has_jobs' = 1
  /\ pc' = [w \in Workers |-> IF w \in Asleep THEN "bsem_wait" ELSE pc[w]]

Go(w, from, to) ==
  /\ pc[w] = from
  /\ pc' = [pc EXCEPT ![w] = to]

-------------------------------------------------------------------------------
(* The worker: thread_do, bsem_wait, jobqueue_pull.                          *)

CountAliveFault(n) == num_threads_alive' \in {num_threads_alive, num_threads_alive + n}

CountAlive(n) == num_threads_alive' = num_threads_alive + n

ThreadStart(w) ==
  /\ Go(w, "created", "loop")
  /\ thcount_lock = None
  /\ CountAlive(1)
  /\ UNCHANGED <<threads_keepalive, num_threads_working, thcount_lock, rwmutex,
                 queue, has_jobs, job, ownerVars, history>>

TestKeepalive(w) ==
  /\ \/ threads_keepalive = 1 /\ Go(w, "loop", "bsem_wait")
     \/ threads_keepalive = 0 /\ Go(w, "loop", "exit")
     \/ threads_keepalive = 1 /\ Go(w, "woken", "count")
     \/ threads_keepalive = 0 /\ Go(w, "woken", "loop")
  /\ UNCHANGED <<threads_keepalive, num_threads_alive, num_threads_working,
                 thcount_lock, rwmutex, queue, has_jobs, job, ownerVars, history>>

BsemWait(w) ==
  /\ \/ has_jobs = 1 /\ has_jobs' = 0 /\ Go(w, "bsem_wait", "woken")
     \/ has_jobs # 1 /\ UNCHANGED has_jobs /\ Go(w, "bsem_wait", "asleep")
  /\ UNCHANGED <<threads_keepalive, num_threads_alive, num_threads_working,
                 thcount_lock, rwmutex, queue, job, ownerVars, history>>

CountUp(w) ==
  /\ Go(w, "count", "pull_lock")
  /\ thcount_lock = None
  /\ num_threads_working' = num_threads_working + 1
  /\ UNCHANGED <<threads_keepalive, num_threads_alive, thcount_lock, rwmutex,
                 queue, has_jobs, job, ownerVars, history>>

PullLock(w) ==
  /\ Go(w, "pull_lock", "pull")
  /\ rwmutex = None
  /\ rwmutex' = w
  /\ UNCHANGED <<threads_keepalive, num_threads_alive, num_threads_working,
                 thcount_lock, queue, has_jobs, job, ownerVars, history>>

(* jobqueue_pull in its three cases: no job, the last job, more than one.    *)
NoJobFault(w) == pc' = [pc EXCEPT ![w] = "run"] /\ UNCHANGED <<queue, job, has_jobs>>

NoJob(w) == pc' = [pc EXCEPT ![w] = "uncount"] /\ UNCHANGED <<queue, job, has_jobs>>

TakeFrontFault(w) ==
  /\ queue' = SubSeq(queue, 1, Len(queue) - 1)
  /\ job' = [job EXCEPT ![w] = queue[Len(queue)]]

TakeFrontTwiceFault(w) ==
  /\ queue' = IF Len(queue) = 1 THEN <<>> ELSE queue
  /\ job' = [job EXCEPT ![w] = Head(queue)]

TakeFront(w) ==
  /\ queue' = Tail(queue)
  /\ job' = [job EXCEPT ![w] = Head(queue)]

PostAgainFault(pcs) == pc' = pcs /\ UNCHANGED has_jobs

PostAgain(pcs) ==
  \/ Len(queue) > 1 /\ BsemPost(pcs)
  \/ Len(queue) = 1 /\ pc' = pcs /\ UNCHANGED has_jobs

Pull(w) ==
  /\ pc[w] = "pull"
  /\ \/ queue = <<>> /\ NoJob(w)
     \/ queue # <<>> /\ TakeFront(w) /\ PostAgain([pc EXCEPT ![w] = "run"])
  /\ rwmutex' = None
  /\ UNCHANGED <<threads_keepalive, num_threads_alive, num_threads_working,
                 thcount_lock, ownerVars, history>>

RunJob(w) ==
  /\ Go(w, "run", "uncount")
  /\ finished' = finished \cup {job[w]}
  /\ job' = [job EXCEPT ![w] = None]
  /\ UNCHANGED <<threads_keepalive, num_threads_alive, num_threads_working,
                 thcount_lock, rwmutex, queue, has_jobs, ownerVars, submitted>>

SignalIdleFault(working) == opc' = opc

SignalIdle(working) ==
  opc' = IF working = 0 /\ opc = "wait_asleep" THEN "wait_lock" ELSE opc

CountDown(w) ==
  /\ Go(w, "uncount", "loop")
  /\ thcount_lock = None
  /\ num_threads_working' = num_threads_working - 1
  /\ SignalIdle(num_threads_working - 1)
  /\ UNCHANGED <<threads_keepalive, num_threads_alive, thcount_lock, rwmutex,
                 queue, has_jobs, job, newjob, history>>

ExitCount(w) ==
  /\ Go(w, "exit", "exit_unlock")
  /\ thcount_lock = None
  /\ thcount_lock' = w
  /\ CountAlive(-1)
  /\ UNCHANGED <<threads_keepalive, num_threads_working, rwmutex,
                 queue, has_jobs, job, ownerVars, history>>

ExitUnlock(w) ==
  /\ Go(w, "exit_unlock", "gone")
  /\ thcount_lock' = None
  /\ UNCHANGED <<threads_keepalive, num_threads_alive, num_threads_working,
                 rwmutex, queue, has_jobs, job, ownerVars, history>>

-------------------------------------------------------------------------------
(* The owner: thpool_init, thpool_add_work, thpool_wait, thpool_destroy.     *)

ThreadInit(w) ==
  /\ opc = "init"
  /\ \/ Go(w, "absent", "created")
     \/ /\ Cardinality({x \in Workers : pc[x] = "failed"}) < MaxFailures
        /\ Go(w, "absent", "failed")
  /\ UNCHANGED <<threads_keepalive, num_threads_alive, num_threads_working,
                 thcount_lock, rwmutex, queue, has_jobs, job, ownerVars, history>>

InitReturn ==
  /\ opc = "init"
  /\ \A w \in Workers : pc[w] # "absent"
  /\ num_threads_alive = Cardinality(Workers)
  /\ opc' = "ready"
  /\ UNCHANGED <<threads_keepalive, num_threads_alive, num_threads_working,
                 thcount_lock, rwmutex, queue, has_jobs, pc, job, newjob, history>>

InitSpin ==
  /\ opc = "init"
  /\ \A w \in Workers : pc[w] # "absent"
  /\ num_threads_alive # Cardinality(Workers)
  /\ UNCHANGED vars

AddWork(j) ==
  /\ opc = "ready"
  /\ j \notin submitted
  /\ opc' = "push"
  /\ newjob' = j
  /\ UNCHANGED <<threads_keepalive, num_threads_alive, num_threads_working,
                 thcount_lock, rwmutex, queue, has_jobs, pc, job, history>>

JobqueuePush ==
  /\ opc = "push"
  /\ rwmutex = None
  /\ queue' = Append(queue, newjob)
  /\ BsemPost(pc)
  /\ opc' = "ready"
  /\ newjob' = None
  /\ submitted' = submitted \cup {newjob}
  /\ UNCHANGED <<threads_keepalive, num_threads_alive, num_threads_working,
                 thcount_lock, rwmutex, job, finished>>

OwnerGo(from, to) ==
  /\ opc = from
  /\ opc' = to
  /\ UNCHANGED <<threads_keepalive, num_threads_alive, num_threads_working,
                 rwmutex, queue, has_jobs, pc, job, newjob, history>>

WaitCall == OwnerGo("ready", "wait_lock") /\ UNCHANGED thcount_lock

WaitLock ==
  /\ OwnerGo("wait_lock", "wait_len")
  /\ thcount_lock = None
  /\ thcount_lock' = Owner

WaitTestLenFault == OwnerGo("wait_len", "wait_working") /\ UNCHANGED thcount_lock

WaitTestLen ==
  \/ queue # <<>> /\ OwnerGo("wait_len", "wait_asleep") /\ thcount_lock' = None
  \/ queue = <<>> /\ OwnerGo("wait_len", "wait_working") /\ UNCHANGED thcount_lock

WaitTestWorking ==
  /\ \/ num_threads_working # 0 /\ OwnerGo("wait_working", "wait_asleep")
     \/ num_threads_working = 0 /\ OwnerGo("wait_working", "ready")
  /\ thcount_lock' = None

DestroyCall ==
  /\ opc = "ready"
  /\ opc' = "destroy"
  /\ threads_keepalive' = 0
  /\ UNCHANGED <<num_threads_alive, num_threads_working, thcount_lock, rwmutex,
                 queue, has_jobs, pc, job, newjob, history>>

AllExitedFault == num_threads_working = 0

AllExited == num_threads_alive = 0

DestroyPostAll ==
  /\ opc = "destroy"
  /\ ~AllExited
  /\ BsemPostAll
  /\ UNCHANGED <<threads_keepalive, num_threads_alive, num_threads_working,
                 thcount_lock, rwmutex, queue, job, ownerVars, history>>

BsemReset == has_jobs' = 0

JobqueueClear == queue' = <<>> /\ BsemReset

JobqueueDestroy == JobqueueClear

DestroyFree ==
  /\ opc = "destroy"
  /\ AllExited
  /\ opc' = "done"
  /\ JobqueueDestroy
  /\ UNCHANGED <<threads_keepalive, num_threads_alive, num_threads_working,
                 thcount_lock, rwmutex, pc, job, newjob, history>>

-------------------------------------------------------------------------------
(* pthread_cond_wait may return although nobody signalled the condition.     *)

SpuriousWakeup ==
  /\ Spurious
  /\ \/ /\ \E w \in Workers : Go(w, "asleep", "bsem_wait")
        /\ UNCHANGED opc
     \/ /\ opc = "wait_asleep"
        /\ opc' = "wait_lock"
        /\ UNCHANGED pc
  /\ UNCHANGED <<threads_keepalive, num_threads_alive, num_threads_working,
                 thcount_lock, rwmutex, queue, has_jobs, job, newjob, history>>

(* After thpool_destroy nothing happens any more.                            *)
Stopped ==
  /\ opc = "done"
  /\ \A w \in Workers : pc[w] = "gone"
  /\ UNCHANGED vars

-------------------------------------------------------------------------------
JobqueueInit == rwmutex = None /\ queue = <<>> /\ has_jobs = 0

Init ==
  /\ threads_keepalive = 1
  /\ num_threads_alive = 0
  /\ num_threads_working = 0
  /\ thcount_lock = None
  /\ JobqueueInit
  /\ pc = [w \in Workers |-> "absent"]
  /\ job = [w \in Workers |-> None]
  /\ opc = "init"
  /\ newjob = None
  /\ submitted = {}
  /\ finished = {}

WorkerStep(w) ==
  \/ ThreadStart(w) \/ TestKeepalive(w) \/ BsemWait(w) \/ CountUp(w)
  \/ PullLock(w) \/ Pull(w) \/ RunJob(w) \/ CountDown(w)
  \/ ExitCount(w) \/ ExitUnlock(w)

(* Steps inside a call the owner has made, and the calls it may make.        *)
OwnerStep ==
  \/ \E w \in Workers : ThreadInit(w)
  \/ InitReturn \/ InitSpin
  \/ JobqueuePush
  \/ WaitLock \/ WaitTestLen \/ WaitTestWorking
  \/ DestroyPostAll \/ DestroyFree

OwnerCall ==
  \/ \E j \in Jobs : AddWork(j)
  \/ WaitCall
  \/ DestroyCall

Next ==
  \/ \E w \in Workers : WorkerStep(w)
  \/ OwnerStep
  \/ OwnerCall
  \/ SpuriousWakeup
  \/ Stopped

Spec == Init /\ [][Next]_vars

(* Every thread that can run does: the scheduler starves no thread.  A job    *)
(* need not return, and the owner need not make a further call.              *)
Fairness ==
  /\ \A w \in Workers : WF_vars(pc[w] # "run" /\ WorkerStep(w))
  /\ WF_vars(OwnerStep)
-------------------------------------------------------------------------------
(* The values every variable takes in thpool.c.                              *)
TypeOK ==
  /\ threads_keepalive \in {0, 1}
  /\ num_threads_alive \in Nat
  /\ num_threads_working \in Nat
  /\ thcount_lock \in Workers \cup {Owner, None}
  /\ rwmutex \in Workers \cup {None}
  /\ queue \in Seq(Jobs)
  /\ has_jobs \in {0, 1}
  /\ pc \in [Workers -> WorkerStates]
  /\ job \in [Workers -> Jobs \cup {None}]
  /\ opc \in OwnerStates
  /\ newjob \in Jobs \cup {None}
  /\ submitted \subseteq Jobs
  /\ finished \subseteq Jobs

(* A submitted job is in exactly one place until the pool is destroyed: once *)
(* in the queue, with exactly one worker, or finished.  So concurrent        *)
(* jobqueue_push and jobqueue_pull neither lose a job nor hand it out twice. *)
JobsAccounted ==
  /\ \A i, k \in 1..Len(queue) : queue[i] = queue[k] => i = k
  /\ \A u, w \in Workers : job[u] # None /\ job[u] = job[w] => u = w
  /\ Queued \cap Running = {}
  /\ (Queued \cup Running) \cap finished = {}
  /\ opc # "done" => submitted = Queued \cup Running \cup finished

(* While the pool runs, a job in the queue is never left to a semaphore that *)
(* is 0 with no worker on its way to jobqueue_pull: the binary semaphore     *)
(* collapses several posts into one, and jobqueue_pull must post again.      *)
NoLostWakeup ==
  threads_keepalive = 1 /\ queue # <<>> =>
    \/ has_jobs = 1
    \/ \E w \in Workers : pc[w] \in {"woken", "count", "pull_lock", "pull"}

(* A posted semaphore is never left to sleeping workers only: bsem_post      *)
(* signals the condition, and a worker that goes to sleep has seen v = 0.    *)
PostWakesWorker == has_jobs = 1 => Asleep # Workers

(* When thpool_destroy frees the pool, every worker has left its loop: none  *)
(* runs a job or waits on the semaphore that is freed.                       *)
QuietWhenFreed ==
  opc = "done" => \A w \in Workers : pc[w] \in {"exit_unlock", "gone"}

(* What the counters of the pool count.                                      *)
CountersExact ==
  /\ num_threads_alive = Cardinality(Alive)
  /\ num_threads_working = Cardinality(Working)

(* Where the owner and the workers can be together, whatever the value of    *)
(* threads_keepalive, and what its value says of them.                       *)
ControlInv ==
  /\ \A w \in Workers :
        /\ job[w] # None <=> pc[w] = "run"
        /\ opc # "init" => pc[w] \notin {"absent", "failed", "created"}
  /\ opc = "push" => newjob \in Jobs \ submitted
  /\ opc = "wait_working" => queue = <<>>

KeepaliveInv ==
  /\ threads_keepalive = 1 <=> opc \notin {"destroy", "done"}
  /\ \A w \in Workers : pc[w] \in {"exit", "exit_unlock", "gone"} => threads_keepalive = 0

(* The inductive invariant of ThreadPoolProofs.tla.  Its first part does not *)
(* need the flag and stays when another pool writes it.                      *)
SharedInv ==
  /\ TypeOK
  /\ CountersExact
  /\ ControlInv
  /\ JobsAccounted
  /\ PostWakesWorker
  /\ QuietWhenFreed

IInv == SharedInv /\ KeepaliveInv /\ NoLostWakeup

(* thpool_wait returns only when every job submitted before has finished,    *)
(* although it reads the length of the queue without its mutex.              *)
WaitIsComplete ==
  [][opc = "wait_working" /\ opc' = "ready" => submitted = finished]_vars

(* thpool.h on thpool_destroy: it waits for the active threads to finish     *)
(* before it frees the memory they use.  thread_do still has to unlock       *)
(* thcount_lock after it has decremented num_threads_alive.                  *)
FreedAfterLastAccess == opc = "done" => \A w \in Workers : pc[w] = "gone"

(* Every job that is started returns.                                        *)
JobsReturn == \A w \in Workers : []<>(pc[w] # "run")

(* thpool_wait returns once the submitted jobs are done: the last worker to  *)
(* become idle signals threads_all_idle, and the signal cannot be missed.    *)
WaitReturns == JobsReturn => (opc \in WaitStates ~> opc = "ready")

(* thpool_destroy returns although a worker can go to sleep on the semaphore *)
(* after the first bsem_post_all.                                            *)
DestroyReturns == JobsReturn => (opc = "destroy" ~> opc = "done")

(* As long as there are as many workers as jobs, a job that never returns    *)
(* keeps no other job in the queue: jobqueue_pull posts the semaphore again  *)
(* for the jobs it leaves.                                                   *)
EveryJobStarts ==
  \A j \in Jobs : j \in submitted ~> j \notin Queued \/ threads_keepalive = 0

-------------------------------------------------------------------------------
(* The abstract pool this pool implements.                                   *)
Phase ==
  CASE opc \in WaitStates -> "waiting"
    [] opc = "destroy" -> "closing"
    [] opc = "done" -> "closed"
    [] OTHER -> "open"

Pool == INSTANCE JobPool WITH pending <- queue, running <- Running, phase <- Phase

(* The pool implements JobPool: FIFO start, at most one run of each job, no  *)
(* early return of wait, no job started after the pool is closed.            *)
ImplementsJobPool == Pool!PoolSpec
===============================================================================
