------------------------------- MODULE JobPool --------------------------------
(***************************************************************************)
(* What a thread pool promises to the thread that owns it, with no threads, *)
(* locks or semaphores: an accepted job waits in a queue, is started in the *)
(* order of submission, runs once, and the owner's wait returns only when   *)
(* no job is queued or running.  Closing the pool lets the running jobs end *)
(* and drops the queued ones.  ThreadPool.tla is shown to implement it.     *)
(***************************************************************************)
EXTENDS Naturals, Sequences

CONSTANT Jobs

VARIABLES
  pending,    \* accepted jobs not yet started, oldest first
  running,    \* jobs that some thread executes
  finished,   \* jobs that have been executed
  phase       \* what the owner is doing: "open", "waiting", "closing", "closed"

poolVars == <<pending, running, finished, phase>>

Accepted == {pending[i] : i \in 1..Len(pending)} \cup running \cup finished

PoolInit ==
  /\ pending = <<>>
  /\ running = {}
  /\ finished = {}
  /\ phase = "open"

Submit(j) ==
  /\ phase = "open"
  /\ j \notin Accepted
  /\ pending' = Append(pending, j)
  /\ UNCHANGED <<running, finished, phase>>

Start ==
  /\ phase # "closed"
  /\ pending # <<>>
  /\ running' = running \cup {Head(pending)}
  /\ pending' = Tail(pending)
  /\ UNCHANGED <<finished, phase>>

Finish(j) ==
  /\ j \in running
  /\ running' = running \ {j}
  /\ finished' = finished \cup {j}
  /\ UNCHANGED <<pending, phase>>

WaitBegin ==
  /\ phase = "open"
  /\ phase' = "waiting"
  /\ UNCHANGED <<pending, running, finished>>

WaitEnd ==
  /\ phase = "waiting"
  /\ pending = <<>>
  /\ running = {}
  /\ phase' = "open"
  /\ UNCHANGED <<pending, running, finished>>

CloseBegin ==
  /\ phase = "open"
  /\ phase' = "closing"
  /\ UNCHANGED <<pending, running, finished>>

CloseEnd ==
  /\ phase = "closing"
  /\ running = {}
  /\ pending' = <<>>
  /\ phase' = "closed"
  /\ UNCHANGED <<running, finished>>

PoolNext ==
  \/ \E j \in Jobs : Submit(j) \/ Finish(j)
  \/ Start
  \/ WaitBegin \/ WaitEnd
  \/ CloseBegin \/ CloseEnd

PoolSpec == PoolInit /\ [][PoolNext]_poolVars
===============================================================================
