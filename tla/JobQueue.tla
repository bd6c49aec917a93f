------------------------------- MODULE JobQueue -------------------------------
(***************************************************************************)
(* The job queue of src/thpool.c as it is in memory, beside the sequence    *)
(* that ThreadPool.tla uses for it: a list of job structs linked by prev,    *)
(* from front to rear, with its length kept in len.  jobqueue_push and       *)
(* jobqueue_pull decide by len and not by front or rear, so the four fields  *)
(* must agree.  The structs are allocated by thpool_add_work and freed by    *)
(* the worker that has executed the job, or by jobqueue_clear.               *)
(*                                                                          *)
(* A struct is named by its job.  A freed struct has prev = None.            *)
(***************************************************************************)
EXTENDS ThreadPool

VARIABLES
  front,
  rear,
  len,
  prev,        \* the field prev of every job struct
  allocated    \* the job structs that are allocated

listVars == <<front, rear, len, prev, allocated>>
linkedVars == <<vars, listVars>>

-------------------------------------------------------------------------------
(* thpool_add_work: malloc.                                                  *)
AllocateJob(j) ==
  /\ allocated' = allocated \cup {j}
  /\ UNCHANGED <<front, rear, len, prev>>

(* jobqueue_push in its two cases.                                           *)
Enqueue(j) ==
  /\ \/ len = 0 /\ front' = j /\ prev' = [prev EXCEPT ![j] = None]
     \/ len # 0 /\ UNCHANGED front /\ prev' = [prev EXCEPT ![j] = None, ![rear] = j]
  /\ rear' = j
  /\ len' = len + 1
  /\ UNCHANGED allocated

(* jobqueue_pull: what becomes of the list, by len.                          *)
UnlinkFrontFault ==
  /\ \/ len = 0 /\ UNCHANGED <<front, len>>
     \/ len > 0 /\ front' = prev[front] /\ len' = len - 1
  /\ UNCHANGED <<rear, prev, allocated>>

UnlinkFront ==
  /\ \/ len = 0 /\ UNCHANGED <<front, rear, len>>
     \/ len = 1 /\ front' = None /\ rear' = None /\ len' = 0
     \/ len > 1 /\ front' = prev[front] /\ len' = len - 1 /\ UNCHANGED rear
  /\ UNCHANGED <<prev, allocated>>

Release(js) ==
  /\ allocated' = allocated \ js
  /\ prev' = [j \in Jobs |-> IF j \in js THEN None ELSE prev[j]]

(* thread_do frees the struct of the job it has executed.                    *)
FreeJobFault(j) == UNCHANGED listVars

FreeJob(j) == Release({j}) /\ UNCHANGED <<front, rear, len>>

(* The struct that the n-th pull in a row returns.                           *)
PulledAt(n) ==
  LET walk[i \in 0..n] == IF i = 0 THEN front ELSE prev[walk[i - 1]]
  IN  walk[n]

(* jobqueue_clear: pull and free as long as len is not 0.                    *)
ClearList ==
  /\ Release({PulledAt(n) : n \in 0..(len - 1)})
  /\ front' = None
  /\ rear' = None
  /\ len' = 0

-------------------------------------------------------------------------------
ListInit ==
  /\ front = None
  /\ rear = None
  /\ len = 0
  /\ prev = [j \in Jobs |-> None]
  /\ allocated = {}

(* The steps of the pool that touch no job struct.                           *)
PoolStep ==
  \/ \E w \in Workers :
        \/ ThreadInit(w) \/ ThreadStart(w) \/ TestKeepalive(w) \/ BsemWait(w)
        \/ CountUp(w) \/ PullLock(w) \/ CountDown(w) \/ ExitCount(w) \/ ExitUnlock(w)
  \/ InitReturn \/ InitSpin
  \/ WaitCall \/ WaitLock \/ WaitTestLen \/ WaitTestWorking
  \/ DestroyCall \/ DestroyPostAll
  \/ SpuriousWakeup \/ Stopped

LinkedNext ==
  \/ \E j \in Jobs : AddWork(j) /\ AllocateJob(j)
  \/ JobqueuePush /\ Enqueue(newjob)
  \/ \E w \in Workers : Pull(w) /\ UnlinkFront
  \/ \E w \in Workers : RunJob(w) /\ FreeJob(job[w])
  \/ DestroyFree /\ ClearList
  \/ PoolStep /\ UNCHANGED listVars

LinkedInit == Init /\ ListInit

LinkedSpec == LinkedInit /\ [][LinkedNext]_linkedVars

-------------------------------------------------------------------------------
(* The list is the queue: len is its length, front and rear are its ends,    *)
(* and prev leads from each job to the next, the rear's prev being None.     *)
(* jobqueue_push and jobqueue_pull keep this in every order of their calls,  *)
(* also when the last job is pulled and the list fills again.                *)
ListIsQueue ==
  /\ len = Len(queue)
  /\ queue = <<>> => front = None /\ rear = None
  /\ queue # <<>> => front = queue[1] /\ rear = queue[len] /\ prev[rear] = None
  /\ \A i \in 1..(len - 1) : prev[queue[i]] = queue[i + 1]

(* Every allocated job struct has exactly the owner that will free it: the   *)
(* caller of thpool_add_work, the list, or a worker.  So none is leaked,     *)
(* also not by thpool_destroy, none is used after it was freed, and none is  *)
(* freed twice.                                                              *)
StructsOwned == allocated = ({newjob} \ {None}) \cup Queued \cup Running
===============================================================================
