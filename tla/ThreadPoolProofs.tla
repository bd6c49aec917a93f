--------------------------- MODULE ThreadPoolProofs ---------------------------
(***************************************************************************)
(* Proofs about ThreadPool, for every set of workers and jobs, about the     *)
(* list of its jobs in memory, JobQueue, about the pool that is paused and   *)
(* resumed, ThreadPoolPause, and about the pool in a program with another    *)
(* one, ThreadPoolShared.  The argument is the inductive invariant IInv, or  *)
(* its part SharedInv, which does not need threads_keepalive.  Each action   *)
(* is treated once for the typing part and once for each of the other parts  *)
(* it can disturb.                                                           *)
(***************************************************************************)
EXTENDS JobQueue, ThreadPoolPause, ThreadPoolShared, Induction,
        FiniteSetTheorems, SequenceTheorems, TLAPS

USE DEF InPool, Counted, Busy, WorkerStates, WaitStates, OwnerStates,
        ownerVars, history, JobqueueInit, JobqueueDestroy, JobqueueClear, BsemReset

(* The initial states satisfy every part of the invariant.                   *)
LEMMA InitIInv == Init => IInv
<1> SUFFICES ASSUME Init PROVE IInv
  OBVIOUS
<1> USE ThreadPoolAssumption DEF Init
<1>1. TypeOK
  BY DEF TypeOK
<1>2. CountersExact
  <2>1. Alive = {} /\ Working = {}
    BY DEF Alive, Working
  <2>2. QED
    BY <2>1, FS_EmptySet DEF CountersExact
<1>3. ControlInv /\ KeepaliveInv
  BY DEF ControlInv, KeepaliveInv
<1>4. JobsAccounted
  BY DEF JobsAccounted, Queued, Running
<1>5. NoLostWakeup /\ PostWakesWorker /\ QuietWhenFreed
  BY DEF NoLostWakeup, PostWakesWorker, QuietWhenFreed
<1>6. QED
  BY <1>1, <1>2, <1>3, <1>4, <1>5 DEF IInv, SharedInv

(* Every variable keeps its type.                                            *)
LEMMA NextTypeOK == SharedInv /\ [Next]_vars => TypeOK'
<1> SUFFICES ASSUME SharedInv, [Next]_vars PROVE TypeOK'
  OBVIOUS
<1> USE ThreadPoolAssumption DEF SharedInv, TypeOK
<1>0. Cardinality(Alive) \in Nat /\ Cardinality(Working) \in Nat
  <2>1. IsFiniteSet(Alive) /\ IsFiniteSet(Working)
    BY FS_Subset DEF Alive, Working
  <2>2. QED
    BY <2>1, FS_CardinalityType
<1>1. ASSUME NEW w \in Workers, WorkerStep(w)
      PROVE  TypeOK'
  <2>1. CASE ThreadStart(w)
    BY <2>1 DEF ThreadStart, Go, CountAlive
  <2>2. CASE TestKeepalive(w)
    BY <2>2 DEF TestKeepalive, Go
  <2>3. CASE BsemWait(w)
    BY <2>3 DEF BsemWait, Go
  <2>4. CASE CountUp(w)
    BY <2>4 DEF CountUp, Go
  <2>5. CASE PullLock(w)
    BY <2>5 DEF PullLock, Go
  <2>6. CASE Pull(w)
    <3>1. CASE queue = <<>>
      BY <2>6, <3>1 DEF Pull, NoJob
    <3>2. CASE queue # <<>>
      <4>1. Head(queue) \in Jobs /\ Tail(queue) \in Seq(Jobs)
        BY <3>2
      <4>2. has_jobs' \in {0, 1} /\ pc' \in [Workers -> WorkerStates]
        BY <2>6, <3>2 DEF Pull, TakeFront, PostAgain, BsemPost, Asleep
      <4>3. QED
        BY <2>6, <3>2, <4>1, <4>2, ZenonT(60) DEF Pull, TakeFront
    <3>3. QED
      BY <3>1, <3>2
  <2>7. CASE RunJob(w)
    BY <2>7 DEF RunJob, Go, ControlInv
  <2>8. CASE CountDown(w)
    <3>1. w \in Working
      BY <2>8 DEF CountDown, Go, Working
    <3>2. num_threads_working # 0
      BY <3>1, FS_EmptySet, FS_Subset DEF CountersExact, Working
    <3>3. QED
      BY <2>8, <3>2 DEF CountDown, Go, SignalIdle
  <2>9. CASE ExitCount(w)
    <3>1. w \in Alive
      BY <2>9 DEF ExitCount, Go, Alive
    <3>2. num_threads_alive # 0
      BY <3>1, FS_EmptySet, FS_Subset DEF CountersExact, Alive
    <3>3. QED
      BY <2>9, <3>2 DEF ExitCount, Go, CountAlive
  <2>10. CASE ExitUnlock(w)
    BY <2>10 DEF ExitUnlock, Go
  <2>11. QED
    BY <1>1, <2>1, <2>2, <2>3, <2>4, <2>5, <2>6, <2>7, <2>8, <2>9, <2>10
    DEF WorkerStep
<1>2. CASE OwnerStep
  <2>1. ASSUME NEW w \in Workers, ThreadInit(w)
        PROVE  TypeOK'
    BY <2>1 DEF ThreadInit, Go
  <2>2. CASE InitReturn
    BY <2>2 DEF InitReturn
  <2>3. CASE InitSpin
    BY <2>3 DEF InitSpin, vars
  <2>4. CASE JobqueuePush
    <3>1. newjob \in Jobs
      BY <2>4 DEF JobqueuePush, ControlInv
    <3>2. Append(queue, newjob) \in Seq(Jobs)
      BY <3>1
    <3>3. has_jobs' \in {0, 1} /\ pc' \in [Workers -> WorkerStates]
      BY <2>4 DEF JobqueuePush, BsemPost, Asleep
    <3>4. QED
      BY <2>4, <3>1, <3>2, <3>3 DEF JobqueuePush
  <2>5. CASE WaitLock
    BY <2>5 DEF WaitLock, OwnerGo
  <2>6. CASE WaitTestLen
    BY <2>6 DEF WaitTestLen, OwnerGo
  <2>7. CASE WaitTestWorking
    BY <2>7 DEF WaitTestWorking, OwnerGo
  <2>8. CASE DestroyPostAll
    BY <2>8 DEF DestroyPostAll, BsemPostAll
  <2>9. CASE DestroyFree
    BY <2>9 DEF DestroyFree
  <2>10. QED
    BY <1>2, <2>1, <2>2, <2>3, <2>4, <2>5, <2>6, <2>7, <2>8, <2>9 DEF OwnerStep
<1>3. CASE OwnerCall
  BY <1>3 DEF OwnerCall, AddWork, WaitCall, OwnerGo, DestroyCall
<1>4. CASE SpuriousWakeup
  BY <1>4 DEF SpuriousWakeup, Go
<1>5. CASE Stopped \/ UNCHANGED vars
  BY <1>5 DEF Stopped, vars
<1>6. QED
  BY <1>1, <1>2, <1>3, <1>4, <1>5 DEF Next

-------------------------------------------------------------------------------
(* bsem_post wakes at most one sleeping worker, moves no other, and leaves   *)
(* some worker awake when there was one or when it wakes one.                *)
LEMMA BsemPostEffect ==
  ASSUME TypeOK,
         NEW pcs \in [Workers -> WorkerStates],
         \A x \in Workers : pcs[x] = "asleep" <=> pc[x] = "asleep",
         BsemPost(pcs)
  PROVE  /\ has_jobs' = 1
         /\ pc' \in [Workers -> WorkerStates]
         /\ \A x \in Workers : \/ pc'[x] = pcs[x]
                               \/ pcs[x] = "asleep" /\ pc'[x] = "bsem_wait"
         /\ \E x \in Workers : pc'[x] # "asleep"
<1> USE ThreadPoolAssumption DEF TypeOK, Asleep
<1>1. CASE Asleep = {} /\ pc' = pcs
  BY <1>1 DEF BsemPost
<1>2. ASSUME NEW s \in Asleep, pc' = [pcs EXCEPT ![s] = "bsem_wait"]
      PROVE  /\ pc' \in [Workers -> WorkerStates]
             /\ \A x \in Workers : \/ pc'[x] = pcs[x]
                                   \/ pcs[x] = "asleep" /\ pc'[x] = "bsem_wait"
             /\ \E x \in Workers : pc'[x] # "asleep"
  <2>1. s \in Workers /\ pcs[s] = "asleep" /\ pc'[s] = "bsem_wait"
    BY <1>2
  <2>2. QED
    BY <1>2, <2>1
<1>3. QED
  BY <1>1, <1>2 DEF BsemPost

(* jobqueue_pull either finds no job and goes on to the decrement, or takes  *)
(* the front job; the posting that follows wakes at most one worker.         *)
LEMMA PullEffect ==
  ASSUME TypeOK, NEW w \in Workers, Pull(w)
  PROVE  /\ pc[w] = "pull"
         /\ pc' \in [Workers -> WorkerStates]
         /\ pc'[w] = IF queue = <<>> THEN "uncount" ELSE "run"
         /\ \A x \in Workers \ {w} : \/ pc'[x] = pc[x]
                                     \/ pc[x] = "asleep" /\ pc'[x] = "bsem_wait"
         /\ Len(queue) > 1 => has_jobs' = 1
         /\ has_jobs' \in {has_jobs, 1}
<1> USE DEF TypeOK
<1>1. CASE queue = <<>>
  BY <1>1 DEF Pull, NoJob
<1>2. CASE queue # <<>>
  <2> DEFINE pcs == [pc EXCEPT ![w] = "run"]
  <2>1. pc[w] = "pull" /\ PostAgain(pcs)
    BY <1>2 DEF Pull
  <2>2. /\ pcs \in [Workers -> WorkerStates]
        /\ \A x \in Workers : pcs[x] = "asleep" <=> pc[x] = "asleep"
        /\ pcs[w] = "run"
        /\ \A x \in Workers \ {w} : pcs[x] = pc[x]
    BY <2>1
  <2> HIDE DEF pcs
  <2>3. CASE Len(queue) > 1 /\ BsemPost(pcs)
    BY <1>2, <2>1, <2>2, <2>3, BsemPostEffect
  <2>4. CASE Len(queue) = 1 /\ pc' = pcs /\ UNCHANGED has_jobs
    BY <1>2, <2>1, <2>2, <2>4
  <2>5. QED
    BY <2>1, <2>3, <2>4 DEF PostAgain
<1>3. QED
  BY <1>1, <1>2

(* The counters of the pool stay equal to what they count.                   *)
LEMMA NextCountersExact == SharedInv /\ [Next]_vars => CountersExact'
<1> SUFFICES ASSUME SharedInv, [Next]_vars PROVE CountersExact'
  OBVIOUS
<1> USE ThreadPoolAssumption DEF SharedInv, TypeOK
<1>0. /\ IsFiniteSet(Alive) /\ IsFiniteSet(Working)
      /\ Cardinality(Alive) \in Nat /\ Cardinality(Working) \in Nat
  <2>1. IsFiniteSet(Alive) /\ IsFiniteSet(Working)
    BY FS_Subset DEF Alive, Working
  <2>2. QED
    BY <2>1, FS_CardinalityType
<1>1. ASSUME Alive' = Alive, Working' = Working,
             UNCHANGED <<num_threads_alive, num_threads_working>>
      PROVE  CountersExact'
  BY <1>1 DEF CountersExact
<1>2. ASSUME NEW w \in Workers, WorkerStep(w)
      PROVE  CountersExact'
  <2>1. CASE ThreadStart(w)
    <3>1. w \notin Alive /\ Alive' = Alive \cup {w} /\ Working' = Working
      BY <2>1 DEF ThreadStart, Go, Alive, Working
    <3>2. QED
      BY <1>0, <2>1, <3>1, FS_AddElement DEF ThreadStart, CountAlive, CountersExact
  <2>2. CASE TestKeepalive(w)
    <3>1. Alive' = Alive /\ Working' = Working
      BY <2>2 DEF TestKeepalive, Go, Alive, Working
    <3>2. QED
      BY <1>1, <2>2, <3>1 DEF TestKeepalive
  <2>3. CASE BsemWait(w)
    <3>1. Alive' = Alive /\ Working' = Working
      BY <2>3 DEF BsemWait, Go, Alive, Working
    <3>2. QED
      BY <1>1, <2>3, <3>1 DEF BsemWait
  <2>4. CASE CountUp(w)
    <3>1. w \notin Working /\ Working' = Working \cup {w} /\ Alive' = Alive
      BY <2>4 DEF CountUp, Go, Alive, Working
    <3>2. QED
      BY <1>0, <2>4, <3>1, FS_AddElement DEF CountUp, CountersExact
  <2>5. CASE PullLock(w)
    <3>1. Alive' = Alive /\ Working' = Working
      BY <2>5 DEF PullLock, Go, Alive, Working
    <3>2. QED
      BY <1>1, <2>5, <3>1 DEF PullLock
  <2>6. CASE Pull(w)
    <3>1. Alive' = Alive /\ Working' = Working
      BY <2>6, PullEffect DEF Alive, Working
    <3>2. QED
      BY <1>1, <2>6, <3>1 DEF Pull
  <2>7. CASE RunJob(w)
    <3>1. Alive' = Alive /\ Working' = Working
      BY <2>7 DEF RunJob, Go, Alive, Working
    <3>2. QED
      BY <1>1, <2>7, <3>1 DEF RunJob
  <2>8. CASE CountDown(w)
    <3>1. w \in Working /\ Working' = Working \ {w} /\ Alive' = Alive
      BY <2>8 DEF CountDown, Go, Alive, Working
    <3>2. QED
      BY <1>0, <2>8, <3>1, FS_RemoveElement DEF CountDown, CountersExact
  <2>9. CASE ExitCount(w)
    <3>1. w \in Alive /\ Alive' = Alive \ {w} /\ Working' = Working
      BY <2>9 DEF ExitCount, Go, Alive, Working
    <3>2. QED
      BY <1>0, <2>9, <3>1, FS_RemoveElement DEF ExitCount, CountAlive, CountersExact
  <2>10. CASE ExitUnlock(w)
    <3>1. Alive' = Alive /\ Working' = Working
      BY <2>10 DEF ExitUnlock, Go, Alive, Working
    <3>2. QED
      BY <1>1, <2>10, <3>1 DEF ExitUnlock
  <2>11. QED
    BY <1>2, <2>1, <2>2, <2>3, <2>4, <2>5, <2>6, <2>7, <2>8, <2>9, <2>10
    DEF WorkerStep
<1>3. CASE OwnerStep
  <2>1. ASSUME NEW w \in Workers, ThreadInit(w)
        PROVE  CountersExact'
    <3>1. Alive' = Alive /\ Working' = Working
      BY <2>1 DEF ThreadInit, Go, Alive, Working
    <3>2. QED
      BY <1>1, <2>1, <3>1 DEF ThreadInit
  <2>2. CASE JobqueuePush
    <3>1. Alive' = Alive /\ Working' = Working
      BY <2>2, BsemPostEffect DEF JobqueuePush, Alive, Working
    <3>2. QED
      BY <1>1, <2>2, <3>1 DEF JobqueuePush
  <2>3. CASE DestroyPostAll
    <3>1. Alive' = Alive /\ Working' = Working
      BY <2>3 DEF DestroyPostAll, BsemPostAll, Asleep, Alive, Working
    <3>2. QED
      BY <1>1, <2>3, <3>1 DEF DestroyPostAll
  <2>4. CASE \/ InitReturn \/ InitSpin \/ WaitLock \/ WaitTestLen
             \/ WaitTestWorking \/ DestroyFree
    <3>1. UNCHANGED <<pc, num_threads_alive, num_threads_working>>
      BY <2>4 DEF InitReturn, InitSpin, vars, WaitLock, WaitTestLen,
                  WaitTestWorking, OwnerGo, DestroyFree
    <3>2. QED
      BY <1>1, <3>1 DEF Alive, Working
  <2>5. QED
    BY <1>3, <2>1, <2>2, <2>3, <2>4 DEF OwnerStep
<1>4. CASE OwnerCall
  <2>1. UNCHANGED <<pc, num_threads_alive, num_threads_working>>
    BY <1>4 DEF OwnerCall, AddWork, WaitCall, OwnerGo, DestroyCall
  <2>2. QED
    BY <1>1, <2>1 DEF Alive, Working
<1>5. CASE SpuriousWakeup
  <2>1. Alive' = Alive /\ Working' = Working
    BY <1>5 DEF SpuriousWakeup, Go, Alive, Working
  <2>2. QED
    BY <1>1, <1>5, <2>1 DEF SpuriousWakeup
<1>6. CASE Stopped \/ UNCHANGED vars
  BY <1>1, <1>6 DEF Stopped, vars, Alive, Working
<1>7. QED
  BY <1>2, <1>3, <1>4, <1>5, <1>6 DEF Next

(* Nothing is counted as alive exactly when no worker is between its         *)
(* increment and its decrement of num_threads_alive; all are when it reaches *)
(* the number of workers; none works when num_threads_working is 0.          *)
LEMMA CountersDecide ==
  ASSUME TypeOK, CountersExact
  PROVE  /\ num_threads_alive = 0 => Alive = {}
         /\ num_threads_alive = Cardinality(Workers) => Alive = Workers
         /\ num_threads_working = 0 => Working = {}
<1>1. Alive \subseteq Workers /\ Working \subseteq Workers
  BY DEF Alive, Working
<1>2. IsFiniteSet(Alive) /\ IsFiniteSet(Working)
  BY <1>1, FS_Subset, ThreadPoolAssumption
<1>3. QED
  BY <1>1, <1>2, FS_Subset, FS_EmptySet, ThreadPoolAssumption DEF CountersExact

(* The control states of the owner and of the workers stay consistent.       *)
LEMMA NextControlInv == SharedInv /\ [Next]_vars => ControlInv'
<1> SUFFICES ASSUME SharedInv, [Next]_vars PROVE ControlInv'
  OBVIOUS
<1> USE ThreadPoolAssumption DEF SharedInv, TypeOK, ControlInv
<1>1. ASSUME NEW w \in Workers, WorkerStep(w)
      PROVE  ControlInv'
  <2>1. CASE ThreadStart(w)
    BY <2>1 DEF ThreadStart, Go
  <2>2. CASE TestKeepalive(w)
    BY <2>2 DEF TestKeepalive, Go
  <2>3. CASE BsemWait(w)
    BY <2>3 DEF BsemWait, Go
  <2>4. CASE CountUp(w)
    BY <2>4 DEF CountUp, Go
  <2>5. CASE PullLock(w)
    BY <2>5 DEF PullLock, Go
  <2>6. CASE Pull(w)
    <3>1. /\ UNCHANGED <<threads_keepalive, opc, newjob, submitted>>
          /\ opc = "wait_working" => queue' = <<>>
      BY <2>6 DEF Pull, NoJob
    <3>2. \A x \in Workers \ {w} : job'[x] = job[x]
      BY <2>6 DEF Pull, NoJob, TakeFront
    <3>3. job'[w] # None <=> pc'[w] = "run"
      <4>1. CASE queue = <<>>
        BY <2>6, <4>1 DEF Pull, NoJob
      <4>2. CASE queue # <<>>
        <5>1. job'[w] = Head(queue) /\ Head(queue) \in Jobs
          BY <2>6, <4>2 DEF Pull, TakeFront
        <5>2. pc'[w] = "run"
          BY <2>6, <4>2, PullEffect
        <5>3. QED
          BY <5>1, <5>2
      <4>3. QED
        BY <4>1, <4>2
    <3>4. QED
      BY <2>6, <3>1, <3>2, <3>3, PullEffect
  <2>7. CASE RunJob(w)
    BY <2>7 DEF RunJob, Go
  <2>8. CASE CountDown(w)
    BY <2>8 DEF CountDown, Go, SignalIdle
  <2>9. CASE ExitCount(w)
    BY <2>9 DEF ExitCount, Go
  <2>10. CASE ExitUnlock(w)
    BY <2>10 DEF ExitUnlock, Go
  <2>11. QED
    BY <1>1, <2>1, <2>2, <2>3, <2>4, <2>5, <2>6, <2>7, <2>8, <2>9, <2>10
    DEF WorkerStep
<1>2. CASE OwnerStep
  <2>1. ASSUME NEW w \in Workers, ThreadInit(w)
        PROVE  ControlInv'
    BY <2>1 DEF ThreadInit, Go
  <2>2. CASE InitReturn
    <3>1. Alive = Workers
      BY <2>2, CountersDecide DEF InitReturn
    <3>2. \A x \in Workers : pc[x] \notin {"absent", "failed", "created"}
      BY <3>1 DEF Alive
    <3>3. QED
      BY <2>2, <3>2 DEF InitReturn
  <2>3. CASE InitSpin
    BY <2>3 DEF InitSpin, vars
  <2>4. CASE JobqueuePush
    BY <2>4, BsemPostEffect DEF JobqueuePush
  <2>5. CASE WaitLock
    BY <2>5 DEF WaitLock, OwnerGo
  <2>6. CASE WaitTestLen
    BY <2>6 DEF WaitTestLen, OwnerGo
  <2>7. CASE WaitTestWorking
    BY <2>7 DEF WaitTestWorking, OwnerGo
  <2>8. CASE DestroyPostAll
    BY <2>8 DEF DestroyPostAll, BsemPostAll, Asleep
  <2>9. CASE DestroyFree
    BY <2>9 DEF DestroyFree
  <2>10. QED
    BY <1>2, <2>1, <2>2, <2>3, <2>4, <2>5, <2>6, <2>7, <2>8, <2>9 DEF OwnerStep
<1>3. CASE OwnerCall
  BY <1>3 DEF OwnerCall, AddWork, WaitCall, OwnerGo, DestroyCall
<1>4. CASE SpuriousWakeup
  BY <1>4 DEF SpuriousWakeup, Go
<1>5. CASE Stopped \/ UNCHANGED vars
  BY <1>5 DEF Stopped, vars
<1>6. QED
  BY <1>1, <1>2, <1>3, <1>4, <1>5 DEF Next

(* No step loses a job or puts it in two places.                             *)
LEMMA NextJobsAccounted == SharedInv /\ [Next]_vars => JobsAccounted'
<1> SUFFICES ASSUME SharedInv, [Next]_vars PROVE JobsAccounted'
  OBVIOUS
<1> USE ThreadPoolAssumption DEF SharedInv, TypeOK
<1>1. ASSUME UNCHANGED <<queue, job, submitted, finished>>,
             opc' # "done" => opc # "done"
      PROVE  JobsAccounted'
  <2>1. Queued' = Queued /\ Running' = Running
    BY <1>1 DEF Queued, Running
  <2>2. QED
    BY <1>1, <2>1 DEF JobsAccounted
<1>2. ASSUME NEW w \in Workers, Pull(w)
      PROVE  JobsAccounted'
  <2>1. CASE queue = <<>>
    BY <1>1, <1>2, <2>1 DEF Pull, NoJob
  <2>2. CASE queue # <<>>
    <3> DEFINE j == Head(queue)
    <3>1. j \in Jobs /\ j = queue[1] /\ Len(queue) \in Nat \ {0}
      BY <2>2
    <3>2. /\ queue' = Tail(queue)
          /\ job' = [job EXCEPT ![w] = j]
          /\ UNCHANGED <<submitted, finished, opc>>
      BY <1>2, <2>2 DEF Pull, TakeFront
    <3>3. /\ Len(queue') = Len(queue) - 1
          /\ \A i \in 1..Len(queue') : i + 1 \in 1..Len(queue) /\ queue'[i] = queue[i + 1]
      BY <2>2, <3>2
    <3>4. job[w] = None
      BY <1>2 DEF Pull, ControlInv
    <3>5. Running' = Running \cup {j}
      BY <3>1, <3>2, <3>4 DEF Running
    <3>6. Queued' \cup {j} = Queued /\ j \notin Queued'
      <4>1. j \in Queued
        BY <3>1 DEF Queued
      <4>2. Queued' \subseteq Queued
        BY <3>3 DEF Queued
      <4>3. ASSUME NEW x \in Queued, x # j PROVE x \in Queued'
        <5>1. PICK i \in 1..Len(queue) : x = queue[i]
          BY DEF Queued
        <5>2. i - 1 \in 1..Len(queue')
          BY <3>1, <3>3, <4>3, <5>1
        <5>3. queue'[i - 1] = queue[i]
          BY <3>1, <3>3, <5>2
        <5>4. QED
          BY <5>1, <5>2, <5>3 DEF Queued
      <4>4. j \notin Queued'
        BY <3>1, <3>3 DEF Queued, JobsAccounted
      <4>5. QED
        BY <4>1, <4>2, <4>3, <4>4
    <3>7. \A i, k \in 1..Len(queue') : queue'[i] = queue'[k] => i = k
      <4>1. SUFFICES ASSUME NEW i \in 1..Len(queue'), NEW k \in 1..Len(queue'),
                            queue'[i] = queue'[k]
                     PROVE  i = k
        OBVIOUS
      <4>2. queue[i + 1] = queue[k + 1]
        BY <3>3, <4>1
      <4>3. i + 1 = k + 1
        BY <3>3, <4>2 DEF JobsAccounted
      <4>4. QED
        BY <3>1, <3>3, <4>3
    <3>8. \A u, x \in Workers : job'[u] # None /\ job'[u] = job'[x] => u = x
      BY <3>1, <3>2, <3>6 DEF JobsAccounted, Running
    <3> HIDE DEF j
    <3>9. QED
      BY <3>2, <3>5, <3>6, <3>7, <3>8 DEF JobsAccounted
  <2>3. QED
    BY <2>1, <2>2
<1>3. ASSUME NEW w \in Workers, RunJob(w)
      PROVE  JobsAccounted'
  <2>1. job[w] \in Running
    BY <1>3 DEF RunJob, Go, ControlInv, Running
  <2>2. Running' = Running \ {job[w]}
    BY <1>3, <2>1 DEF RunJob, Running, JobsAccounted
  <2>3. Queued' = Queued
    BY <1>3 DEF RunJob, Queued
  <2>4. \A u, x \in Workers : job'[u] # None /\ job'[u] = job'[x] => u = x
    BY <1>3 DEF RunJob, JobsAccounted
  <2>5. QED
    BY <1>3, <2>1, <2>2, <2>3, <2>4 DEF RunJob, ownerVars, JobsAccounted
<1>4. ASSUME NEW w \in Workers, WorkerStep(w)
      PROVE  JobsAccounted'
  <2>1. CASE Pull(w)
    BY <1>2, <2>1
  <2>2. CASE RunJob(w)
    BY <1>3, <2>2
  <2>3. CASE CountDown(w)
    BY <1>1, <2>3 DEF CountDown, SignalIdle
  <2>4. CASE \/ ThreadStart(w) \/ TestKeepalive(w) \/ BsemWait(w) \/ CountUp(w)
             \/ PullLock(w) \/ ExitCount(w) \/ ExitUnlock(w)
    BY <1>1, <2>4 DEF ThreadStart, TestKeepalive, BsemWait, CountUp, PullLock,
                      ExitCount, ExitUnlock
  <2>5. QED
    BY <1>4, <2>1, <2>2, <2>3, <2>4 DEF WorkerStep
<1>5. CASE JobqueuePush
  <2>1. newjob \in Jobs \ submitted /\ opc # "done" /\ opc' # "done"
    BY <1>5 DEF JobqueuePush, ControlInv
  <2>2. /\ queue' = Append(queue, newjob)
        /\ submitted' = submitted \cup {newjob}
        /\ UNCHANGED <<job, finished>>
    BY <1>5 DEF JobqueuePush
  <2>3. /\ Len(queue') = Len(queue) + 1
        /\ queue'[Len(queue) + 1] = newjob
        /\ \A i \in 1..Len(queue) : queue'[i] = queue[i]
    BY <2>1, <2>2
  <2>4. Queued' = Queued \cup {newjob}
    BY <2>1, <2>3 DEF Queued
  <2>5. Running' = Running
    BY <2>2 DEF Running
  <2>6. newjob \notin Queued \cup Running \cup finished
    BY <2>1 DEF JobsAccounted
  <2>7. \A i, k \in 1..Len(queue') : queue'[i] = queue'[k] => i = k
    BY <2>3, <2>6 DEF JobsAccounted, Queued
  <2>8. \A u, x \in Workers : job'[u] # None /\ job'[u] = job'[x] => u = x
    BY <2>2 DEF JobsAccounted
  <2>9. QED
    BY <2>1, <2>2, <2>4, <2>5, <2>6, <2>7, <2>8 DEF JobsAccounted
<1>6. CASE DestroyFree
  <2>1. Queued' = {} /\ Running' = Running
    BY <1>6 DEF DestroyFree, Queued, Running
  <2>2. QED
    BY <1>6, <2>1 DEF DestroyFree, history, JobsAccounted
<1>7. CASE OwnerStep
  <2>1. CASE (\E w \in Workers : ThreadInit(w)) \/ InitReturn \/ InitSpin
    BY <1>1, <2>1 DEF ThreadInit, InitReturn, InitSpin, vars
  <2>2. CASE WaitLock \/ WaitTestLen \/ WaitTestWorking
    BY <1>1, <2>2 DEF WaitLock, WaitTestLen, WaitTestWorking, OwnerGo
  <2>3. CASE DestroyPostAll
    BY <1>1, <2>3 DEF DestroyPostAll
  <2>4. QED
    BY <1>5, <1>6, <1>7, <2>1, <2>2, <2>3 DEF OwnerStep
<1>8. CASE OwnerCall
  BY <1>1, <1>8 DEF OwnerCall, AddWork, WaitCall, OwnerGo, DestroyCall
<1>9. CASE SpuriousWakeup
  BY <1>1, <1>9 DEF SpuriousWakeup
<1>10. CASE Stopped \/ UNCHANGED vars
  BY <1>1, <1>10 DEF Stopped, vars
<1>11. QED
  BY <1>4, <1>7, <1>8, <1>9, <1>10 DEF Next

(* The owner clears threads_keepalive in thpool_destroy only, and no worker   *)
(* leaves its loop before.                                                   *)
LEMMA NextKeepaliveInv == IInv /\ [Next]_vars => KeepaliveInv'
<1> SUFFICES ASSUME IInv, [Next]_vars PROVE KeepaliveInv'
  OBVIOUS
<1> USE ThreadPoolAssumption DEF IInv, SharedInv, TypeOK, KeepaliveInv
<1>1. ASSUME NEW w \in Workers, WorkerStep(w)
      PROVE  KeepaliveInv'
  <2>1. CASE CountDown(w)
    BY <2>1 DEF CountDown, Go, SignalIdle
  <2>2. CASE Pull(w)
    BY <2>2, PullEffect DEF Pull
  <2>3. CASE \/ ThreadStart(w) \/ TestKeepalive(w) \/ BsemWait(w) \/ CountUp(w)
             \/ PullLock(w) \/ RunJob(w) \/ ExitCount(w) \/ ExitUnlock(w)
    BY <2>3 DEF ThreadStart, TestKeepalive, BsemWait, CountUp, PullLock, RunJob,
                ExitCount, ExitUnlock, Go
  <2>4. QED
    BY <1>1, <2>1, <2>2, <2>3 DEF WorkerStep
<1>2. CASE OwnerStep
  <2>1. CASE JobqueuePush
    BY <2>1, BsemPostEffect DEF JobqueuePush
  <2>2. CASE DestroyPostAll
    BY <2>2 DEF DestroyPostAll, BsemPostAll, Asleep
  <2>3. CASE \/ \E w \in Workers : ThreadInit(w)
             \/ InitReturn \/ InitSpin \/ WaitLock \/ WaitTestLen \/ WaitTestWorking
             \/ DestroyFree
    BY <2>3 DEF ThreadInit, Go, InitReturn, InitSpin, vars, WaitLock, WaitTestLen,
                WaitTestWorking, OwnerGo, DestroyFree
  <2>4. QED
    BY <1>2, <2>1, <2>2, <2>3 DEF OwnerStep
<1>3. CASE OwnerCall
  BY <1>3 DEF OwnerCall, AddWork, WaitCall, OwnerGo, DestroyCall
<1>4. CASE SpuriousWakeup
  BY <1>4 DEF SpuriousWakeup, Go
<1>5. CASE Stopped \/ UNCHANGED vars
  BY <1>5 DEF Stopped, vars
<1>6. QED
  BY <1>1, <1>2, <1>3, <1>4, <1>5 DEF Next

(* A job in the queue always has a posted semaphore or a worker on its way.  *)
LEMMA NextNoLostWakeup == IInv /\ [Next]_vars => NoLostWakeup'
<1> SUFFICES ASSUME IInv, [Next]_vars PROVE NoLostWakeup'
  OBVIOUS
<1> USE DEF IInv, SharedInv, KeepaliveInv, TypeOK, NoLostWakeup
<1>1. ASSUME NEW w \in Workers, WorkerStep(w)
      PROVE  NoLostWakeup'
  <2>1. CASE ThreadStart(w)
    BY <2>1 DEF ThreadStart, Go
  <2>2. CASE TestKeepalive(w)
    BY <2>2 DEF TestKeepalive, Go
  <2>3. CASE BsemWait(w)
    BY <2>3 DEF BsemWait, Go
  <2>4. CASE CountUp(w)
    BY <2>4 DEF CountUp, Go
  <2>5. CASE PullLock(w)
    BY <2>5 DEF PullLock, Go
  <2>6. CASE Pull(w)
    <3>1. queue' # <<>> => Len(queue) > 1
      BY <2>6 DEF Pull, NoJob, TakeFront
    <3>2. QED
      BY <2>6, <3>1, PullEffect
  <2>7. CASE RunJob(w)
    BY <2>7 DEF RunJob, Go
  <2>8. CASE CountDown(w)
    BY <2>8 DEF CountDown, Go
  <2>9. CASE ExitCount(w)
    BY <2>9 DEF ExitCount, Go
  <2>10. CASE ExitUnlock(w)
    BY <2>10 DEF ExitUnlock, Go
  <2>11. QED
    BY <1>1, <2>1, <2>2, <2>3, <2>4, <2>5, <2>6, <2>7, <2>8, <2>9, <2>10
    DEF WorkerStep
<1>2. CASE OwnerStep
  <2>1. ASSUME NEW w \in Workers, ThreadInit(w)
        PROVE  NoLostWakeup'
    BY <2>1 DEF ThreadInit, Go
  <2>2. CASE JobqueuePush
    BY <2>2, BsemPostEffect DEF JobqueuePush
  <2>3. CASE DestroyPostAll
    BY <2>3 DEF DestroyPostAll, BsemPostAll
  <2>4. CASE DestroyFree
    BY <2>4 DEF DestroyFree
  <2>5. CASE \/ InitReturn \/ InitSpin \/ WaitLock \/ WaitTestLen \/ WaitTestWorking
    BY <2>5 DEF InitReturn, InitSpin, vars, WaitLock, WaitTestLen, WaitTestWorking,
                OwnerGo
  <2>6. QED
    BY <1>2, <2>1, <2>2, <2>3, <2>4, <2>5 DEF OwnerStep
<1>3. CASE OwnerCall
  BY <1>3 DEF OwnerCall, AddWork, WaitCall, OwnerGo, DestroyCall
<1>4. CASE SpuriousWakeup
  BY <1>4 DEF SpuriousWakeup, Go
<1>5. CASE Stopped \/ UNCHANGED vars
  BY <1>5 DEF Stopped, vars
<1>6. QED
  BY <1>1, <1>2, <1>3, <1>4, <1>5 DEF Next

(* The workers are never all asleep under a posted semaphore.                *)
LEMMA NextPostWakesWorker == SharedInv /\ [Next]_vars => PostWakesWorker'
<1> SUFFICES ASSUME SharedInv, [Next]_vars PROVE PostWakesWorker'
  OBVIOUS
<1> USE DEF SharedInv, TypeOK, PostWakesWorker, Asleep
<1>1. ASSUME NEW w \in Workers, WorkerStep(w)
      PROVE  PostWakesWorker'
  <2>1. CASE BsemWait(w)
    BY <2>1 DEF BsemWait, Go
  <2>2. CASE Pull(w)
    <3>1. pc'[w] # "asleep"
      BY <2>2, PullEffect
    <3>2. QED
      BY <3>1
  <2>3. CASE \/ ThreadStart(w) \/ TestKeepalive(w) \/ CountUp(w) \/ PullLock(w)
             \/ RunJob(w) \/ CountDown(w) \/ ExitCount(w) \/ ExitUnlock(w)
    <3>1. pc'[w] # "asleep"
      BY <2>3 DEF ThreadStart, TestKeepalive, CountUp, PullLock, RunJob, CountDown,
                  ExitCount, ExitUnlock, Go
    <3>2. QED
      BY <3>1
  <2>4. QED
    BY <1>1, <2>1, <2>2, <2>3 DEF WorkerStep
<1>2. CASE OwnerStep
  <2>1. ASSUME NEW w \in Workers, ThreadInit(w)
        PROVE  PostWakesWorker'
    BY <2>1 DEF ThreadInit, Go
  <2>2. CASE JobqueuePush
    BY <2>2, BsemPostEffect DEF JobqueuePush
  <2>3. CASE DestroyPostAll
    BY <2>3, ThreadPoolAssumption DEF DestroyPostAll, BsemPostAll
  <2>4. CASE DestroyFree
    BY <2>4 DEF DestroyFree
  <2>5. CASE \/ InitReturn \/ InitSpin \/ WaitLock \/ WaitTestLen \/ WaitTestWorking
    BY <2>5 DEF InitReturn, InitSpin, vars, WaitLock, WaitTestLen, WaitTestWorking,
                OwnerGo
  <2>6. QED
    BY <1>2, <2>1, <2>2, <2>3, <2>4, <2>5 DEF OwnerStep
<1>3. CASE OwnerCall
  BY <1>3 DEF OwnerCall, AddWork, WaitCall, OwnerGo, DestroyCall
<1>4. CASE SpuriousWakeup
  BY <1>4 DEF SpuriousWakeup, Go
<1>5. CASE Stopped \/ UNCHANGED vars
  BY <1>5 DEF Stopped, vars
<1>6. QED
  BY <1>1, <1>2, <1>3, <1>4, <1>5 DEF Next

(* thpool_destroy frees only when no worker is in its loop; no worker comes  *)
(* back into it.                                                             *)
LEMMA NextQuietWhenFreed == SharedInv /\ [Next]_vars => QuietWhenFreed'
<1> SUFFICES ASSUME SharedInv, [Next]_vars PROVE QuietWhenFreed'
  OBVIOUS
<1> USE DEF SharedInv, TypeOK, QuietWhenFreed
<1>1. ASSUME NEW w \in Workers, WorkerStep(w)
      PROVE  QuietWhenFreed'
  <2>1. CASE CountDown(w)
    BY <2>1 DEF CountDown, Go, SignalIdle
  <2>2. CASE Pull(w)
    BY <2>2, PullEffect DEF Pull
  <2>3. CASE \/ ThreadStart(w) \/ TestKeepalive(w) \/ BsemWait(w) \/ CountUp(w)
             \/ PullLock(w) \/ RunJob(w) \/ ExitCount(w) \/ ExitUnlock(w)
    BY <2>3 DEF ThreadStart, TestKeepalive, BsemWait, CountUp, PullLock, RunJob,
                ExitCount, ExitUnlock, Go
  <2>4. QED
    BY <1>1, <2>1, <2>2, <2>3 DEF WorkerStep
<1>2. CASE OwnerStep
  <2>1. CASE DestroyFree
    <3>1. Alive = {}
      BY <2>1, CountersDecide DEF DestroyFree, AllExited
    <3>2. \A w \in Workers : pc[w] \notin {"absent", "failed", "created"}
      BY <2>1 DEF DestroyFree, ControlInv
    <3>3. \A w \in Workers : pc[w] \in {"exit_unlock", "gone"}
      BY <3>1, <3>2 DEF Alive
    <3>4. QED
      BY <2>1, <3>3 DEF DestroyFree
  <2>2. CASE \/ \E w \in Workers : ThreadInit(w)
             \/ InitReturn \/ InitSpin \/ JobqueuePush \/ WaitLock
             \/ WaitTestLen \/ WaitTestWorking \/ DestroyPostAll
    BY <2>2 DEF ThreadInit, InitReturn, InitSpin, vars, JobqueuePush, WaitLock,
                WaitTestLen, WaitTestWorking, OwnerGo, DestroyPostAll
  <2>3. QED
    BY <1>2, <2>1, <2>2 DEF OwnerStep
<1>3. CASE OwnerCall
  BY <1>3 DEF OwnerCall, AddWork, WaitCall, OwnerGo, DestroyCall
<1>4. CASE SpuriousWakeup
  BY <1>4 DEF SpuriousWakeup, Go
<1>5. CASE Stopped \/ UNCHANGED vars
  BY <1>5 DEF Stopped, vars
<1>6. QED
  BY <1>1, <1>2, <1>3, <1>4, <1>5 DEF Next

-------------------------------------------------------------------------------
(* The part of the invariant that does not need the flag is inductive alone. *)
LEMMA NextSharedInv == SharedInv /\ [Next]_vars => SharedInv'
BY NextTypeOK, NextCountersExact, NextControlInv, NextJobsAccounted,
   NextPostWakesWorker, NextQuietWhenFreed DEF SharedInv

(* The inductive invariant holds in every reachable state.                   *)
THEOREM Invariance == Spec => []IInv
<1>1. IInv /\ [Next]_vars => IInv'
  BY NextSharedInv, NextKeepaliveInv, NextNoLostWakeup DEF IInv
<1>2. QED
  BY InitIInv, <1>1, PTL DEF Spec

(* Every variable has its type, for any number of workers and jobs.          *)
THEOREM TypeCorrect == Spec => []TypeOK
<1>1. IInv => TypeOK
  BY DEF IInv, SharedInv
<1>2. QED
  BY Invariance, <1>1, PTL

(* jobqueue_push and jobqueue_pull neither lose nor duplicate a job.         *)
THEOREM NoJobLost == Spec => []JobsAccounted
<1>1. IInv => JobsAccounted
  BY DEF IInv, SharedInv
<1>2. QED
  BY Invariance, <1>1, PTL

(* The collapsed posts of the binary semaphore never strand a queued job:    *)
(* either the semaphore is posted, and then some worker is awake to take it, *)
(* or a worker is already on its way to jobqueue_pull.                       *)
THEOREM NoJobStranded == Spec => []NoLostWakeup
<1>1. IInv => NoLostWakeup
  BY DEF IInv
<1>2. QED
  BY Invariance, <1>1, PTL

(* A posted semaphore never finds all workers asleep on it.                  *)
THEOREM PostsReachWorkers == Spec => []PostWakesWorker
<1>1. IInv => PostWakesWorker
  BY DEF IInv, SharedInv
<1>2. QED
  BY Invariance, <1>1, PTL

(* No worker is in its loop when thpool_destroy frees the pool.              *)
THEOREM DestroyIsQuiet == Spec => []QuietWhenFreed
<1>1. IInv => QuietWhenFreed
  BY DEF IInv, SharedInv
<1>2. QED
  BY Invariance, <1>1, PTL

(* When the owner finds num_threads_working 0 after it found the queue       *)
(* empty, every submitted job has finished.                                  *)
LEMMA IdleMeansFinished ==
  ASSUME SharedInv, opc = "wait_working", num_threads_working = 0
  PROVE  queue = <<>> /\ Running = {} /\ submitted = finished
<1> USE DEF SharedInv, TypeOK
<1>1. Working = {}
  BY CountersDecide
<1>2. \A w \in Workers : job[w] = None
  BY <1>1 DEF Working, ControlInv
<1>3. Running = {}
  BY <1>2 DEF Running
<1>4. queue = <<>>
  BY DEF ControlInv
<1>5. Queued = {}
  BY <1>4 DEF Queued
<1>6. QED
  BY <1>3, <1>4, <1>5 DEF JobsAccounted

(* A step out of thpool_wait is its last test, with no worker at work.       *)
LEMMA WaitStep ==
  SharedInv /\ [Next]_vars
    => [opc = "wait_working" /\ opc' = "ready" => submitted = finished]_vars
<1>1. ASSUME SharedInv, [Next]_vars, opc = "wait_working", opc' = "ready"
      PROVE  submitted = finished
  <2>1. num_threads_working = 0
    <3>1. CASE WaitTestWorking
      BY <1>1, <3>1 DEF WaitTestWorking, OwnerGo
    <3>2. ASSUME NEW w \in Workers, WorkerStep(w)
          PROVE  FALSE
      BY <1>1, <3>2 DEF WorkerStep, ThreadStart, TestKeepalive, BsemWait, CountUp,
         PullLock, Pull, RunJob, CountDown, SignalIdle, ExitCount, ExitUnlock
    <3>3. CASE OwnerStep /\ ~WaitTestWorking
      BY <1>1, <3>3 DEF OwnerStep, ThreadInit, InitReturn, InitSpin, JobqueuePush,
         WaitLock, WaitTestLen, OwnerGo, DestroyPostAll, DestroyFree, vars
    <3>4. CASE OwnerCall \/ SpuriousWakeup \/ Stopped \/ UNCHANGED vars
      BY <1>1, <3>4 DEF OwnerCall, AddWork, WaitCall, OwnerGo, DestroyCall,
         SpuriousWakeup, Stopped, vars
    <3>5. QED
      BY <1>1, <3>1, <3>2, <3>3, <3>4 DEF Next
  <2>2. QED
    BY <1>1, <2>1, IdleMeansFinished
<1>2. QED
  BY <1>1

(* thpool_wait returns only when every submitted job has finished.           *)
THEOREM WaitCorrect == Spec => WaitIsComplete
<1>1. IInv => SharedInv
  BY DEF IInv
<1>2. QED
  BY Invariance, WaitStep, <1>1, PTL DEF Spec, WaitIsComplete

-------------------------------------------------------------------------------
(* A step that changes no variable of JobPool is a stutter of it.            *)
LEMMA PoolStutter ==
  ASSUME UNCHANGED <<queue, job, finished>>, Phase' = Phase
  PROVE  UNCHANGED Pool!poolVars
BY DEF Pool!poolVars, Running

(* Every step of a worker is Start or Finish of the abstract pool, or no     *)
(* step of it.                                                               *)
LEMMA WorkerStepRefines ==
  ASSUME SharedInv, NEW w \in Workers, WorkerStep(w)
  PROVE  [Pool!PoolNext]_Pool!poolVars
<1> USE ThreadPoolAssumption DEF SharedInv, TypeOK
<1>1. CASE Pull(w)
  <2>1. CASE queue = <<>>
    BY <1>1, <2>1, PoolStutter DEF Pull, NoJob, Phase
  <2>2. CASE queue # <<>>
    <3>1. /\ queue' = Tail(queue)
          /\ job' = [job EXCEPT ![w] = Head(queue)]
          /\ UNCHANGED <<finished, opc>>
      BY <1>1, <2>2 DEF Pull, TakeFront
    <3>2. Head(queue) \in Jobs /\ job[w] = None
      BY <1>1, <2>2 DEF Pull, ControlInv
    <3>3. Running' = Running \cup {Head(queue)}
      BY <3>1, <3>2 DEF Running
    <3>4. opc # "done"
      BY <1>1 DEF Pull, QuietWhenFreed
    <3>5. Phase # "closed" /\ Phase' = Phase
      BY <3>1, <3>4 DEF Phase
    <3>6. Pool!Start
      BY <2>2, <3>1, <3>3, <3>5 DEF Pool!Start
    <3>7. QED
      BY <3>6 DEF Pool!PoolNext
  <2>3. QED
    BY <2>1, <2>2
<1>2. CASE RunJob(w)
  <2>1. job[w] \in Running /\ job[w] \in Jobs
    BY <1>2 DEF RunJob, Go, ControlInv, Running
  <2>2. Running' = Running \ {job[w]}
    BY <1>2, <2>1 DEF RunJob, Running, JobsAccounted
  <2>3. Phase' = Phase
    BY <1>2 DEF RunJob, Phase
  <2>4. Pool!Finish(job[w])
    BY <1>2, <2>1, <2>2, <2>3 DEF RunJob, Pool!Finish
  <2>5. QED
    BY <2>1, <2>4 DEF Pool!PoolNext
<1>3. CASE CountDown(w)
  BY <1>3, PoolStutter DEF CountDown, SignalIdle, Phase
<1>4. CASE \/ ThreadStart(w) \/ TestKeepalive(w) \/ BsemWait(w) \/ CountUp(w)
           \/ PullLock(w) \/ ExitCount(w) \/ ExitUnlock(w)
  BY <1>4, PoolStutter DEF ThreadStart, TestKeepalive, BsemWait, CountUp, PullLock,
                           ExitCount, ExitUnlock, Phase
<1>5. QED
  BY <1>1, <1>2, <1>3, <1>4 DEF WorkerStep

(* Every step inside a call of the owner is Submit, WaitEnd or CloseEnd of   *)
(* the abstract pool, or no step of it.                                      *)
LEMMA OwnerStepRefines ==
  ASSUME SharedInv, OwnerStep
  PROVE  [Pool!PoolNext]_Pool!poolVars
<1> USE DEF SharedInv, TypeOK
<1>1. CASE JobqueuePush
  <2>1. newjob \in Jobs \ submitted
    BY <1>1 DEF JobqueuePush, ControlInv
  <2>2. submitted = Queued \cup Running \cup finished
    BY <1>1 DEF JobqueuePush, JobsAccounted
  <2>3. newjob \notin Pool!Accepted
    BY <2>1, <2>2 DEF Pool!Accepted, Queued
  <2>4. Running' = Running /\ Phase = "open" /\ Phase' = "open"
    BY <1>1 DEF JobqueuePush, Running, Phase
  <2>5. Pool!Submit(newjob)
    BY <1>1, <2>3, <2>4 DEF JobqueuePush, Pool!Submit
  <2>6. QED
    BY <2>1, <2>5 DEF Pool!PoolNext
<1>2. CASE WaitTestWorking
  <2>1. CASE num_threads_working = 0
    <3>1. queue = <<>> /\ Running = {}
      BY <1>2, <2>1, IdleMeansFinished DEF WaitTestWorking, OwnerGo
    <3>2. Running' = Running /\ Phase = "waiting" /\ Phase' = "open"
      BY <1>2, <2>1 DEF WaitTestWorking, OwnerGo, Running, Phase
    <3>3. Pool!WaitEnd
      BY <1>2, <3>1, <3>2 DEF WaitTestWorking, OwnerGo, history, Pool!WaitEnd
    <3>4. QED
      BY <3>3 DEF Pool!PoolNext
  <2>2. CASE num_threads_working # 0
    BY <1>2, <2>2, PoolStutter DEF WaitTestWorking, OwnerGo, Phase
  <2>3. QED
    BY <2>1, <2>2
<1>3. CASE DestroyFree
  <2>1. Alive = {}
    BY <1>3, CountersDecide DEF DestroyFree, AllExited
  <2>2. \A w \in Workers : job[w] = None
    BY <2>1 DEF Alive, ControlInv
  <2>3. Running = {} /\ Running' = Running
    BY <1>3, <2>2 DEF DestroyFree, Running
  <2>4. Phase = "closing" /\ Phase' = "closed"
    BY <1>3 DEF DestroyFree, Phase
  <2>5. Pool!CloseEnd
    BY <1>3, <2>3, <2>4 DEF DestroyFree, Pool!CloseEnd
  <2>6. QED
    BY <2>5 DEF Pool!PoolNext
<1>4. CASE (\E w \in Workers : ThreadInit(w)) \/ InitReturn \/ InitSpin
  BY <1>4, PoolStutter DEF ThreadInit, InitReturn, InitSpin, vars, Phase
<1>5. CASE WaitLock \/ WaitTestLen
  BY <1>5, PoolStutter DEF WaitLock, WaitTestLen, OwnerGo, Phase
<1>6. CASE DestroyPostAll
  BY <1>6, PoolStutter DEF DestroyPostAll, Phase
<1>7. QED
  BY <1>1, <1>2, <1>3, <1>4, <1>5, <1>6 DEF OwnerStep

LEMMA InitRefines == Init => Pool!PoolInit
<1> SUFFICES ASSUME Init PROVE Pool!PoolInit
  OBVIOUS
<1>1. Running = {} /\ Phase = "open"
  BY DEF Init, Running, Phase
<1>2. QED
  BY <1>1 DEF Init, Pool!PoolInit

(* Every step of the pool, the calls of the owner included, is a step of the *)
(* abstract pool or none of it.                                              *)
LEMMA StepRefines == SharedInv /\ [Next]_vars => [Pool!PoolNext]_Pool!poolVars
<1> SUFFICES ASSUME SharedInv, [Next]_vars PROVE [Pool!PoolNext]_Pool!poolVars
  OBVIOUS
<1>1. ASSUME NEW j \in Jobs, AddWork(j)
      PROVE  [Pool!PoolNext]_Pool!poolVars
  BY <1>1, PoolStutter DEF AddWork, Phase
<1>2. CASE WaitCall
  <2>1. Running' = Running /\ Phase = "open" /\ Phase' = "waiting"
    BY <1>2 DEF WaitCall, OwnerGo, Running, Phase
  <2>2. Pool!WaitBegin
    BY <1>2, <2>1 DEF WaitCall, OwnerGo, Pool!WaitBegin
  <2>3. QED
    BY <2>2 DEF Pool!PoolNext
<1>3. CASE DestroyCall
  <2>1. Running' = Running /\ Phase = "open" /\ Phase' = "closing"
    BY <1>3 DEF DestroyCall, Running, Phase
  <2>2. Pool!CloseBegin
    BY <1>3, <2>1 DEF DestroyCall, Pool!CloseBegin
  <2>3. QED
    BY <2>2 DEF Pool!PoolNext
<1>4. CASE SpuriousWakeup
  BY <1>4, PoolStutter DEF SpuriousWakeup, Phase
<1>5. CASE Stopped \/ UNCHANGED vars
  BY <1>5, PoolStutter DEF Stopped, vars, Phase
<1>6. QED
  BY <1>1, <1>2, <1>3, <1>4, <1>5, WorkerStepRefines, OwnerStepRefines
  DEF Next, OwnerCall

(* The pool implements JobPool: every behaviour of thpool.c is one of the    *)
(* abstract pool under the mapping of ThreadPool.tla.                        *)
THEOREM Implementation == Spec => ImplementsJobPool
<1>1. IInv => SharedInv
  BY DEF IInv
<1>2. QED
  BY <1>1, Invariance, InitRefines, StepRefines, PTL DEF Spec, ImplementsJobPool, Pool!PoolSpec

-------------------------------------------------------------------------------
(* The linked list of JobQueue is the sequence of ThreadPool.  Every step of *)
(* the linked pool is a step of the pool, so its inductive invariant IInv    *)
(* holds here too; it says that no job is in the queue twice and that a new  *)
(* job is not in the queue, without which linking a struct would cut the     *)
(* list.                                                                     *)
HIDE DEF InPool, Counted, Busy, WorkerStates, WaitStates, OwnerStates,
         ownerVars, history, JobqueueInit, JobqueueDestroy, JobqueueClear, BsemReset

(* A step of the linked pool is a step of the pool.                          *)
LEMMA LinkedStepIsStep == [LinkedNext]_linkedVars => [Next]_vars
<1> SUFFICES ASSUME [LinkedNext]_linkedVars PROVE [Next]_vars
  OBVIOUS
<1>1. ASSUME NEW j \in Jobs, AddWork(j) PROVE Next
  BY <1>1 DEF Next, OwnerCall
<1>2. CASE JobqueuePush
  BY <1>2 DEF Next, OwnerStep
<1>3. ASSUME NEW w \in Workers, Pull(w) \/ RunJob(w) PROVE Next
  BY <1>3 DEF Next, WorkerStep
<1>4. CASE DestroyFree
  BY <1>4 DEF Next, OwnerStep
<1>5. CASE PoolStep
  BY <1>5 DEF PoolStep, Next, WorkerStep, OwnerStep, OwnerCall
<1>6. CASE UNCHANGED linkedVars
  BY <1>6 DEF linkedVars
<1>7. QED
  BY <1>1, <1>2, <1>3, <1>4, <1>5, <1>6 DEF LinkedNext

(* The steps that do not touch the list do not touch the queue either.       *)
LEMMA PoolStepKeepsQueue == PoolStep => UNCHANGED queue
BY DEF PoolStep, ThreadInit, ThreadStart, TestKeepalive, BsemWait, CountUp,
       PullLock, CountDown, ExitCount, ExitUnlock, InitReturn, InitSpin, WaitCall,
       WaitLock, WaitTestLen, WaitTestWorking, OwnerGo, DestroyCall,
       DestroyPostAll, SpuriousWakeup, Stopped, vars

(* What the proof needs of the pool: the queue holds jobs, each at most once, *)
(* and the job that thpool_add_work is about to push is not among them.      *)
LEMMA QueueFacts ==
  ASSUME IInv
  PROVE  /\ queue \in Seq(Jobs)
         /\ \A i \in 1..Len(queue) : queue[i] \in Jobs
         /\ \A i, k \in 1..Len(queue) : queue[i] = queue[k] => i = k
         /\ opc = "push" => newjob \in Jobs /\ \A i \in 1..Len(queue) : queue[i] # newjob
<1>1. queue \in Seq(Jobs)
  BY DEF IInv, SharedInv, TypeOK
<1>2. \A i \in 1..Len(queue) : queue[i] \in Jobs
  BY <1>1
<1>3. \A i, k \in 1..Len(queue) : queue[i] = queue[k] => i = k
  BY DEF IInv, SharedInv, JobsAccounted
<1>4. opc = "push" => newjob \in Jobs /\ \A i \in 1..Len(queue) : queue[i] # newjob
  BY DEF IInv, SharedInv, ControlInv, JobsAccounted, Queued
<1>5. QED
  BY <1>1, <1>2, <1>3, <1>4

(* The list together with the type of prev, which the induction needs.       *)
ListInv == prev \in [Jobs -> Jobs \cup {None}] /\ ListIsQueue

(* The empty list of jobqueue_init.                                          *)
LEMMA InitListInv == LinkedInit => ListInv
<1> SUFFICES ASSUME LinkedInit PROVE ListInv
  OBVIOUS
<1>1. queue = <<>> /\ front = None /\ rear = None /\ len = 0
  BY DEF LinkedInit, Init, JobqueueInit, ListInit
<1>2. prev \in [Jobs -> Jobs \cup {None}]
  BY DEF LinkedInit, ListInit
<1>3. QED
  BY <1>1, <1>2 DEF ListInv, ListIsQueue

(* An empty list with no job linked is the empty queue.                      *)
LEMMA EmptyList ==
  ASSUME queue' = <<>>, front' = None, rear' = None, len' = 0,
         prev' \in [Jobs -> Jobs \cup {None}]
  PROVE  ListInv'
BY DEF ListInv, ListIsQueue

(* jobqueue_push links the new job behind the rear.                          *)
LEMMA PushKeepsList ==
  ASSUME IInv, ListInv, JobqueuePush, Enqueue(newjob)
  PROVE  ListInv'
<1>1. /\ queue \in Seq(Jobs)
      /\ newjob \in Jobs
      /\ \A i \in 1..Len(queue) : queue[i] \in Jobs /\ queue[i] # newjob
      /\ \A i, k \in 1..Len(queue) : queue[i] = queue[k] => i = k
  BY QueueFacts DEF JobqueuePush, ListInv
<1>2. /\ queue' = Append(queue, newjob)
      /\ queue' # <<>>
      /\ Len(queue') = Len(queue) + 1
      /\ queue'[Len(queue) + 1] = newjob
      /\ \A i \in 1..Len(queue) : queue'[i] = queue[i]
  BY <1>1 DEF JobqueuePush
<1>3. len = Len(queue) /\ len \in Nat /\ len' = len + 1 /\ rear' = newjob
  BY <1>1 DEF ListInv, ListIsQueue, Enqueue
<1>4. CASE len = 0
  <2>1. front' = newjob /\ prev' = [prev EXCEPT ![newjob] = None]
    BY <1>4 DEF Enqueue
  <2>2. prev' \in [Jobs -> Jobs \cup {None}] /\ prev'[newjob] = None
    BY <1>1, <2>1 DEF ListInv
  <2>3. QED
    BY <1>1, <1>2, <1>3, <1>4, <2>1, <2>2 DEF ListInv, ListIsQueue
<1>5. CASE len # 0
  <2>1. front' = front /\ prev' = [prev EXCEPT ![newjob] = None, ![rear] = newjob]
    BY <1>5 DEF Enqueue
  <2>2. front = queue[1] /\ rear = queue[len] /\ rear \in Jobs /\ rear # newjob
    BY <1>1, <1>3, <1>5 DEF ListInv, ListIsQueue
  <2>3. /\ prev' \in [Jobs -> Jobs \cup {None}]
        /\ prev'[newjob] = None
        /\ prev'[rear] = newjob
        /\ \A j \in Jobs \ {newjob, rear} : prev'[j] = prev[j]
    BY <1>1, <2>1, <2>2 DEF ListInv
  <2>4. ASSUME NEW i \in 1..(len' - 1)
        PROVE  prev'[queue'[i]] = queue'[i + 1]
    <3>1. CASE i = len
      BY <1>2, <1>3, <1>5, <2>2, <2>3, <3>1
    <3>2. CASE i # len
      <4>1. i \in 1..(len - 1) /\ i \in 1..Len(queue) /\ i + 1 \in 1..Len(queue)
            /\ len \in 1..Len(queue)
        BY <1>3, <3>2
      <4>2. queue[i] \in Jobs \ {newjob, rear}
        BY <1>1, <2>2, <3>2, <4>1
      <4>3. prev[queue[i]] = queue[i + 1]
        BY <4>1 DEF ListInv, ListIsQueue
      <4>4. QED
        BY <1>2, <2>3, <4>1, <4>2, <4>3
    <3>3. QED
      BY <3>1, <3>2
  <2>5. front' = queue'[1] /\ rear' = queue'[len'] /\ prev'[rear'] = None
    BY <1>2, <1>3, <1>5, <2>1, <2>2, <2>3
  <2>6. len' = Len(queue')
    BY <1>2, <1>3
  <2>7. QED
    BY <1>2, <2>3, <2>4, <2>5, <2>6 DEF ListInv, ListIsQueue
<1>6. QED
  BY <1>4, <1>5

(* jobqueue_pull unlinks the front, in each of its three cases.              *)
LEMMA PullKeepsList ==
  ASSUME IInv, ListInv, NEW w \in Workers, Pull(w), UnlinkFront
  PROVE  ListInv'
<1>1. queue \in Seq(Jobs) /\ len = Len(queue) /\ len \in Nat
  BY QueueFacts DEF ListInv, ListIsQueue
<1>0. queue = <<>> <=> len = 0
  BY <1>1, EmptySeq
<1>2. prev' = prev /\ (queue = <<>> => queue' = <<>>) /\ (queue # <<>> => queue' = Tail(queue))
  BY DEF UnlinkFront, Pull, NoJob, TakeFront
<1>3. CASE len = 0
  <2>1. queue = <<>> /\ queue' = <<>>
    BY <1>0, <1>2, <1>3
  <2>2. front' = front /\ rear' = rear /\ len' = len
    BY <1>3 DEF UnlinkFront
  <2>3. QED
    BY <1>2, <1>3, <2>1, <2>2, EmptyList DEF ListInv, ListIsQueue
<1>4. CASE len = 1
  <2>1. queue # <<>>
    BY <1>0, <1>4
  <2>2. Tail(queue) \in Seq(Jobs) /\ Len(Tail(queue)) = 0
    <3>1. Tail(queue) \in Seq(Jobs) /\ Len(Tail(queue)) = Len(queue) - 1
      BY <1>1, <2>1, HeadTailProperties
    <3>2. QED
      BY <1>1, <1>4, <3>1
  <2>3. Tail(queue) = <<>>
    BY <2>2, EmptySeq
  <2>4. front' = None /\ rear' = None /\ len' = 0
    BY <1>4 DEF UnlinkFront
  <2>5. QED
    BY <1>2, <2>1, <2>3, <2>4, EmptyList DEF ListInv
<1>5. CASE len > 1
  <2>1. front' = prev[front] /\ len' = len - 1 /\ rear' = rear
    BY <1>1, <1>5, SMTT(30) DEF UnlinkFront
  <2>2. /\ queue' = Tail(queue)
        /\ Len(queue') = len - 1
        /\ \A i \in 1..(len - 1) : queue'[i] = queue[i + 1]
    BY <1>0, <1>1, <1>2, <1>5, HeadTailProperties
  <2>3. /\ front = queue[1] /\ rear = queue[len] /\ prev[rear] = None
        /\ \A i \in 1..(len - 1) : prev[queue[i]] = queue[i + 1]
    BY <1>1, <1>5 DEF ListInv, ListIsQueue
  <2>4. front' = queue'[1] /\ rear' = queue'[len'] /\ queue' # <<>>
    <3>1. 1 \in 1..(len - 1) /\ len - 1 \in 1..(len - 1)
      BY <1>1, <1>5
    <3>2. queue'[1] = queue[2] /\ queue'[len - 1] = queue[len] /\ prev[queue[1]] = queue[2]
      BY <1>1, <2>2, <2>3, <3>1
    <3>3. queue' # <<>>
      <4>1. Tail(queue) \in Seq(Jobs) /\ Len(Tail(queue)) # 0
        BY <1>0, <1>1, <1>5, <2>2, HeadTailProperties
      <4>2. QED
        BY <2>2, <4>1, EmptySeq
    <3>4. QED
      BY <2>1, <2>3, <3>2, <3>3
  <2>5. \A i \in 1..(len' - 1) : prev'[queue'[i]] = queue'[i + 1]
    BY <1>1, <1>2, <1>5, <2>1, <2>2, <2>3
  <2>6. QED
    BY <1>1, <1>2, <2>1, <2>2, <2>3, <2>4, <2>5 DEF ListInv, ListIsQueue
<1>6. QED
  BY <1>1, <1>3, <1>4, <1>5

(* Freeing a struct that is not in the list leaves the list alone.           *)
LEMMA FreeKeepsList ==
  ASSUME IInv, ListInv, NEW w \in Workers, RunJob(w), FreeJob(job[w])
  PROVE  ListInv'
<1>1. queue \in Seq(Jobs) /\ queue' = queue /\ len = Len(queue) /\ len \in Nat
  BY QueueFacts DEF ListInv, ListIsQueue, RunJob
<1>2. job[w] \in Running /\ \A i \in 1..Len(queue) : queue[i] \in Jobs /\ queue[i] # job[w]
  <2>1. job[w] # None
    BY DEF IInv, SharedInv, ControlInv, RunJob, Go
  <2>2. job[w] \in Running
    BY <2>1 DEF Running
  <2>3. QED
    BY <1>1, <2>2 DEF IInv, SharedInv, JobsAccounted, Queued
<1>3. /\ front' = front /\ rear' = rear /\ len' = len
      /\ prev' = [j \in Jobs |-> IF j \in {job[w]} THEN None ELSE prev[j]]
  BY DEF FreeJob, Release
<1>4. prev' \in [Jobs -> Jobs \cup {None}]
  BY <1>3 DEF ListInv
<1>5. \A i \in 1..Len(queue) : prev'[queue[i]] = prev[queue[i]]
  BY <1>2, <1>3
<1>6. QED
  <2>1. queue = <<>> => front' = None /\ rear' = None
    BY <1>3 DEF ListInv, ListIsQueue
  <2>2. queue # <<>> => front' = queue[1] /\ rear' = queue[len] /\ prev'[rear'] = None
    BY <1>1, <1>3, <1>5 DEF ListInv, ListIsQueue
  <2>3. \A i \in 1..(len - 1) : prev'[queue[i]] = queue[i + 1]
    BY <1>1, <1>5 DEF ListInv, ListIsQueue
  <2>4. QED
    BY <1>1, <1>3, <1>4, <2>1, <2>2, <2>3 DEF ListInv, ListIsQueue

(* Every step of the linked pool keeps the list and the queue the same.      *)
LEMMA NextListInv ==
  ASSUME IInv, ListInv, [LinkedNext]_linkedVars
  PROVE  ListInv'
<1>1. ASSUME NEW j \in Jobs, AddWork(j), AllocateJob(j) PROVE ListInv'
  BY <1>1 DEF AddWork, AllocateJob, ListInv, ListIsQueue
<1>2. ASSUME JobqueuePush, Enqueue(newjob) PROVE ListInv'
  BY <1>2, PushKeepsList
<1>3. ASSUME NEW w \in Workers, Pull(w), UnlinkFront PROVE ListInv'
  BY <1>3, PullKeepsList
<1>4. ASSUME NEW w \in Workers, RunJob(w), FreeJob(job[w]) PROVE ListInv'
  BY <1>4, FreeKeepsList
<1>5. ASSUME DestroyFree, ClearList PROVE ListInv'
  <2>1. queue' = <<>>
    BY <1>5 DEF DestroyFree, JobqueueDestroy, JobqueueClear
  <2>2. front' = None /\ rear' = None /\ len' = 0
    BY <1>5 DEF ClearList
  <2>3. prev' \in [Jobs -> Jobs \cup {None}]
    <3> DEFINE freed == {PulledAt(n) : n \in 0..(len - 1)}
    <3>1. prev' = [j \in Jobs |-> IF j \in freed THEN None ELSE prev[j]]
      BY <1>5 DEF ClearList, Release
    <3> HIDE DEF freed
    <3>2. QED
      BY <3>1 DEF ListInv
  <2>4. QED
    BY <2>1, <2>2, <2>3, EmptyList
<1>6. ASSUME PoolStep, UNCHANGED listVars PROVE ListInv'
  BY <1>6, PoolStepKeepsQueue DEF listVars, ListInv, ListIsQueue
<1>7. ASSUME UNCHANGED linkedVars PROVE ListInv'
  BY <1>7 DEF linkedVars, vars, listVars, ListInv, ListIsQueue
<1>8. QED
  BY <1>1, <1>2, <1>3, <1>4, <1>5, <1>6, <1>7 DEF LinkedNext

(* The linked pool is a pool: all that is proved of Spec holds of it.        *)
THEOREM LinkedPoolIsPool == LinkedSpec => Spec
<1>1. LinkedInit => Init
  BY DEF LinkedInit
<1>2. QED
  BY <1>1, LinkedStepIsStep, PTL DEF LinkedSpec, Spec

(* front, rear, prev and len always spell the queue of the pool.             *)
THEOREM LinkedListIsQueue == LinkedSpec => []ListIsQueue
<1>1. ListInv => ListIsQueue
  BY DEF ListInv
<1>2. QED
  BY <1>1, LinkedPoolIsPool, Invariance, InitListInv, NextListInv, PTL DEF LinkedSpec

-------------------------------------------------------------------------------
(* Who owns the structs.                                                     *)

(* The n-th pull returns the n-th job of the queue: jobqueue_clear walks      *)
(* along prev to the end of the list.                                        *)
LEMMA PullsInOrder ==
  ASSUME IInv, ListInv, NEW n \in 0..(len - 1)
  PROVE  PulledAt(n) = queue[n + 1]
<1> DEFINE Law(f) == f = [i \in 0..n |-> IF i = 0 THEN front ELSE prev[f[i - 1]]]
           walk == CHOOSE f : Law(f)
           spelled == [i \in 0..n |-> queue[i + 1]]
<1>1. /\ len = Len(queue) /\ len \in Nat /\ n \in Nat /\ n < len
      /\ queue # <<>> => front = queue[1]
      /\ \A i \in 1..(len - 1) : prev[queue[i]] = queue[i + 1]
  BY QueueFacts DEF ListInv, ListIsQueue
<1>2. queue # <<>>
  BY <1>1, QueueFacts, EmptySeq
<1>3. \A i \in 1..n : i \in 1..(len - 1) /\ i - 1 \in 0..n /\ (i - 1) + 1 = i /\ i # 0
  BY <1>1
<1>4. Law(spelled)
  <2>1. ASSUME NEW i \in 0..n
        PROVE  spelled[i] = IF i = 0 THEN front ELSE prev[spelled[i - 1]]
    <3>1. CASE i = 0
      BY <1>1, <1>2, <3>1
    <3>2. CASE i # 0
      <4>1. i \in 1..n
        BY <3>2
      <4>2. spelled[i - 1] = queue[i] /\ spelled[i] = queue[i + 1]
        BY <1>3, <4>1
      <4>3. QED
        BY <1>1, <1>3, <3>2, <4>1, <4>2
    <3>3. QED
      BY <3>1, <3>2
  <2>2. QED
    BY <2>1
<1>5. Law(walk)
  <2> HIDE DEF Law
  <2>1. QED
    BY <1>4, Zenon
<1>6. PulledAt(n) = walk[n]
  BY DEF PulledAt
<1> HIDE DEF walk
<1> DEFINE T == {i \in 0..n : walk[i] = queue[i + 1]}
<1>7. 0 \in T
  BY <1>1, <1>2, <1>5
<1>8. \A i \in 1..n : i - 1 \in T => i \in T
  <2>1. SUFFICES ASSUME NEW i \in 1..n, i - 1 \in T PROVE i \in T
    OBVIOUS
  <2>2. walk[i - 1] = queue[i]
    BY <1>3, <2>1
  <2>3. walk[i] = prev[walk[i - 1]]
    BY <1>3, <1>5
  <2>4. QED
    BY <1>1, <1>3, <2>2, <2>3
<1> HIDE DEF T
<1>9. 0..n \subseteq T
  BY <1>1, <1>7, <1>8, Induct
<1>10. QED
  BY <1>1, <1>6, <1>9 DEF T

LEMMA ClearFreesQueue ==
  ASSUME IInv, ListInv
  PROVE  {PulledAt(n) : n \in 0..(len - 1)} = Queued
<1>1. len = Len(queue) /\ len \in Nat
  BY QueueFacts DEF ListInv, ListIsQueue
<1>2. \A n \in 0..(len - 1) : PulledAt(n) = queue[n + 1] /\ n + 1 \in 1..Len(queue)
  BY <1>1, PullsInOrder
<1>3. \A i \in 1..Len(queue) : i - 1 \in 0..(len - 1) /\ (i - 1) + 1 = i
  BY <1>1
<1>4. \A i \in 1..Len(queue) : PulledAt(i - 1) = queue[i]
  BY <1>2, <1>3
<1>5. QED
  BY <1>2, <1>3, <1>4 DEF Queued

(* A job is being added in "push" only.                                      *)
OwnedInv == StructsOwned /\ (opc # "push" => newjob = None)

LEMMA PoolStepKeepsJobs ==
  ASSUME TypeOK, PoolStep
  PROVE  UNCHANGED <<queue, job, newjob>> /\ (opc' # "push" => opc # "push")
BY DEF PoolStep, ThreadInit, ThreadStart, TestKeepalive, BsemWait, CountUp,
       PullLock, CountDown, ExitCount, ExitUnlock, InitReturn, InitSpin, WaitCall,
       WaitLock, WaitTestLen, WaitTestWorking, OwnerGo, DestroyCall,
       DestroyPostAll, SpuriousWakeup, Stopped, vars, Go, ownerVars, SignalIdle

LEMMA NextOwnedInv ==
  ASSUME IInv, ListInv, OwnedInv, [LinkedNext]_linkedVars
  PROVE  OwnedInv'
<1>1. ASSUME NEW j \in Jobs, AddWork(j), AllocateJob(j) PROVE OwnedInv'
  <2>1. /\ newjob = None /\ newjob' = j /\ j # None /\ opc' = "push"
        /\ UNCHANGED <<queue, job>> /\ allocated' = allocated \cup {j}
    BY <1>1, ThreadPoolAssumption DEF AddWork, AllocateJob, OwnedInv, ThreadPoolAssumption
  <2>2. QED
    BY <2>1 DEF OwnedInv, StructsOwned, Queued, Running
<1>2. ASSUME JobqueuePush, Enqueue(newjob) PROVE OwnedInv'
  <2>1. /\ queue \in Seq(Jobs) /\ newjob \in Jobs /\ newjob # None
        /\ newjob' = None /\ queue' = Append(queue, newjob)
        /\ UNCHANGED <<job, allocated>>
    BY <1>2, QueueFacts, ThreadPoolAssumption
    DEF JobqueuePush, Enqueue, ThreadPoolAssumption
  <2>2. Queued' = Queued \cup {newjob}
    <3>1. /\ Len(queue') = Len(queue) + 1 /\ queue'[Len(queue) + 1] = newjob
          /\ Len(queue) \in Nat /\ \A i \in 1..Len(queue) : queue'[i] = queue[i]
      BY <2>1
    <3>2. 1..Len(queue') = (1..Len(queue)) \cup {Len(queue) + 1}
      BY <3>1
    <3>3. QED
      BY <3>1, <3>2 DEF Queued
  <2>3. QED
    BY <2>1, <2>2 DEF OwnedInv, StructsOwned, Running
<1>3. ASSUME NEW w \in Workers, Pull(w), UnlinkFront PROVE OwnedInv'
  <2>1. UNCHANGED <<newjob, opc, allocated>>
    BY <1>3 DEF Pull, UnlinkFront, ownerVars
  <2>2. Queued' \cup Running' = Queued \cup Running
    <3>1. CASE NoJob(w)
      BY <3>1 DEF NoJob, Queued, Running
    <3>2. CASE queue # <<>> /\ TakeFront(w)
      <4>1. /\ queue' = Tail(queue) /\ job' = [job EXCEPT ![w] = queue[1]]
            /\ queue \in Seq(Jobs) /\ job \in [Workers -> Jobs \cup {None}]
            /\ pc[w] = "pull"
        BY <1>3, <3>2, QueueFacts DEF TakeFront, IInv, SharedInv, TypeOK, Pull
      <4>2. /\ Len(queue) \in Nat /\ 1 \in 1..Len(queue) /\ Len(queue') = Len(queue) - 1
            /\ \A i \in 1..Len(queue') : queue'[i] = queue[i + 1]
        BY <3>2, <4>1, EmptySeq, HeadTailProperties
      <4>3. Queued = Queued' \cup {queue[1]}
        <5>1. \A i \in 1..Len(queue') : i + 1 \in 1..Len(queue)
          BY <4>2
        <5>2. \A i \in 1..Len(queue) : i = 1 \/ (i - 1 \in 1..Len(queue') /\ (i - 1) + 1 = i)
          BY <4>2
        <5>3. \A i \in 1..Len(queue) : i = 1 \/ queue'[i - 1] = queue[i]
          BY <4>2, <5>2
        <5>4. Queued' \cup {queue[1]} \subseteq Queued
          BY <4>2, <5>1 DEF Queued
        <5>5. Queued \subseteq Queued' \cup {queue[1]}
          BY <4>2, <5>2, <5>3 DEF Queued
        <5>6. QED
          BY <5>4, <5>5
      <4>4. job[w] = None /\ queue[1] # None
        <5>1. queue[1] \in Jobs
          BY <4>1, <4>2
        <5>2. QED
          BY <4>1, <5>1, ThreadPoolAssumption DEF IInv, SharedInv, ControlInv, ThreadPoolAssumption
      <4>5. Running' = Running \cup {queue[1]}
        BY <4>1, <4>4 DEF Running
      <4>6. QED
        BY <4>3, <4>5
    <3>3. QED
      BY <1>3, <3>1, <3>2 DEF Pull
  <2>3. QED
    BY <2>1, <2>2 DEF OwnedInv, StructsOwned
<1>4. ASSUME NEW w \in Workers, RunJob(w), FreeJob(job[w]) PROVE OwnedInv'
  <2>1. /\ job' = [job EXCEPT ![w] = None] /\ UNCHANGED <<queue, newjob, opc>>
        /\ allocated' = allocated \ {job[w]} /\ pc[w] = "run"
        /\ job \in [Workers -> Jobs \cup {None}]
    BY <1>4 DEF RunJob, Go, FreeJob, Release, ownerVars, IInv, SharedInv, TypeOK
  <2>2. job[w] # None /\ job[w] \in Running
    BY <2>1 DEF IInv, SharedInv, ControlInv, Running
  <2>3. Running' = Running \ {job[w]}
    BY <2>1, <2>2 DEF Running, IInv, SharedInv, JobsAccounted
  <2>4. job[w] \notin Queued
    BY <2>2 DEF IInv, SharedInv, JobsAccounted
  <2>5. newjob # job[w]
    BY <2>2 DEF OwnedInv, IInv, SharedInv, ControlInv, JobsAccounted
  <2>6. Queued' = Queued
    BY <2>1 DEF Queued
  <2>7. QED
    BY <2>1, <2>3, <2>4, <2>5, <2>6 DEF OwnedInv, StructsOwned
<1>5. ASSUME DestroyFree, ClearList PROVE OwnedInv'
  <2>1. allocated' = allocated \ Queued
    BY <1>5, ClearFreesQueue DEF ClearList, Release
  <2>2. queue' = <<>> /\ UNCHANGED <<job, newjob>> /\ newjob = None
    BY <1>5 DEF DestroyFree, JobqueueDestroy, JobqueueClear, OwnedInv
  <2>3. Queued' = {} /\ Running' = Running
    BY <2>2 DEF Queued, Running
  <2>4. Queued \cap Running = {}
    BY DEF IInv, SharedInv, JobsAccounted
  <2>5. QED
    BY <2>1, <2>2, <2>3, <2>4 DEF OwnedInv, StructsOwned
<1>6. ASSUME PoolStep, UNCHANGED listVars PROVE OwnedInv'
  <2>1. UNCHANGED <<queue, job, newjob, allocated>> /\ (opc' # "push" => opc # "push")
    BY <1>6, PoolStepKeepsJobs DEF IInv, SharedInv, listVars
  <2>2. QED
    BY <2>1 DEF OwnedInv, StructsOwned, Queued, Running
<1>7. ASSUME UNCHANGED linkedVars PROVE OwnedInv'
  BY <1>7 DEF linkedVars, vars, listVars, ownerVars, OwnedInv, StructsOwned, Queued, Running
<1>8. QED
  BY <1>1, <1>2, <1>3, <1>4, <1>5, <1>6, <1>7 DEF LinkedNext

(* Every job struct that thpool_add_work allocates has one owner until it is *)
(* freed, for any workers and jobs: the caller, the list, or a worker.       *)
THEOREM StructsAreOwned == LinkedSpec => []StructsOwned
<1>1. LinkedInit => OwnedInv
  <2>1. SUFFICES ASSUME LinkedInit PROVE OwnedInv
    OBVIOUS
  <2>2. queue = <<>> /\ allocated = {} /\ newjob = None /\ \A w \in Workers : job[w] = None
    BY <2>1 DEF LinkedInit, Init, JobqueueInit, ListInit
  <2>3. QED
    BY <2>2 DEF OwnedInv, StructsOwned, Queued, Running
<1>2. OwnedInv => StructsOwned
  BY DEF OwnedInv
<1>3. QED
  BY <1>1, <1>2, LinkedPoolIsPool, Invariance, InitListInv, NextListInv, NextOwnedInv, PTL
  DEF LinkedSpec
-------------------------------------------------------------------------------
(* The pool under thpool_pause and thpool_resume.  A signal can suspend a    *)
(* worker anywhere, with rwmutex or thcount_lock in its hands and the        *)
(* semaphore's 1 consumed; but all it can do to the pool is to delay it.     *)

(* A step of the pool with its signals is a step of the pool, or only one of *)
(* a signal.                                                                 *)
LEMMA PauseStepIsStep == [PauseNext]_allVars => [Next]_vars
<1> SUFFICES ASSUME [PauseNext]_allVars PROVE [Next]_vars
  OBVIOUS
<1>1. ASSUME NEW w \in Workers, HoldBegin(w) \/ HoldEnd(w) PROVE UNCHANGED vars
  BY <1>1 DEF HoldBegin, HoldEnd
<1>2. ASSUME ThpoolPause \/ ThpoolResume PROVE UNCHANGED vars
  BY <1>2 DEF ThpoolPause, ThpoolResume
<1>3. ASSUME NEW w \in Workers, WorkerStep(w) PROVE Next
  BY <1>3 DEF Next
<1>4. ASSUME OwnerStep \/ SpuriousWakeup \/ Stopped \/ OwnerCall PROVE Next
  BY <1>4 DEF Next
<1>5. CASE UNCHANGED allVars
  BY <1>5 DEF allVars
<1>6. QED
  BY <1>1, <1>2, <1>3, <1>4, <1>5 DEF PauseNext

(* The pool that is paused and resumed, by a careful owner or not, is a      *)
(* pool: pausing loses no job, no wakeup of bsem_post and no return of        *)
(* thpool_wait, and all that is proved of Spec holds of it.                  *)
THEOREM PausedPoolIsPool == PauseSpec => Spec
<1>1. PauseInit => Init
  BY DEF PauseInit
<1>2. QED
  BY <1>1, PauseStepIsStep, PTL DEF PauseSpec, Spec

(* With pauses, too, every job is accounted for and none waits for a wakeup  *)
(* that nobody will give, also while a held worker has the lock of the       *)
(* queue; thpool_wait returns only when all jobs have finished.              *)
THEOREM PausesLoseNothing ==
  PauseSpec => [](JobsAccounted /\ NoLostWakeup /\ QuietWhenFreed) /\ WaitIsComplete
BY PausedPoolIsPool, NoJobLost, NoJobStranded, DestroyIsQuiet, WaitCorrect, PTL

-------------------------------------------------------------------------------
(* The pool in a program with a second one, which writes threads_keepalive   *)
(* when it pleases: workers leave their loops although their own pool is     *)
(* open, and come back to work although it is being destroyed.               *)

(* What a step of the second pool may change of this one.                    *)
OtherStep ==
  /\ threads_keepalive' \in {0, 1}
  /\ UNCHANGED <<num_threads_alive, num_threads_working, thcount_lock, rwmutex,
                 queue, has_jobs, pc, job, opc, newjob, submitted, finished>>

LEMMA SharedStep == [SharedNext]_<<vars, other>> => [Next]_vars \/ OtherStep
<1> SUFFICES ASSUME [SharedNext]_<<vars, other>> PROVE [Next]_vars \/ OtherStep
  OBVIOUS
<1>1. ASSUME OtherInit \/ OtherDestroy PROVE OtherStep
  <2>1. CASE OtherInit
    BY <2>1 DEF OtherInit, OtherStep, ownerVars, history
  <2>2. CASE OtherDestroy
    BY <2>2 DEF OtherDestroy, OtherStep, ownerVars, history
  <2>3. QED
    BY <1>1, <2>1, <2>2
<1>2. ASSUME (Next /\ UNCHANGED other) \/ UNCHANGED <<vars, other>> PROVE [Next]_vars
  BY <1>2
<1>3. QED
  BY <1>1, <1>2 DEF SharedNext

LEMMA OtherKeeps ==
  ASSUME SharedInv, OtherStep
  PROVE  SharedInv'
<1> USE DEF SharedInv, OtherStep
<1>1. TypeOK'
  BY DEF TypeOK
<1>2. CountersExact'
  BY DEF CountersExact, Alive, Working
<1>3. ControlInv' /\ JobsAccounted'
  BY DEF ControlInv, JobsAccounted, Queued, Running
<1>4. PostWakesWorker' /\ QuietWhenFreed'
  BY DEF PostWakesWorker, Asleep, QuietWhenFreed
<1>5. QED
  BY <1>1, <1>2, <1>3, <1>4

(* What of the invariant does not need the flag holds whatever the other     *)
(* pool does.                                                                *)
THEOREM SharedInvariance == SharedSpec => []SharedInv
<1>1. Init => SharedInv
  BY InitIInv DEF IInv
<1>2. SharedInv /\ [SharedNext]_<<vars, other>> => SharedInv'
  BY SharedStep, NextSharedInv, OtherKeeps
<1>3. QED
  BY <1>1, <1>2, PTL DEF SharedSpec

(* A second pool can keep jobs waiting (JobsOutliveOtherPool is refuted), but *)
(* no more: no job is lost or run twice, thpool_destroy frees the pool only  *)
(* when no worker is in its loop, thpool_wait returns only when every job    *)
(* has finished.                                                             *)
THEOREM OtherPoolLosesNothing ==
  SharedSpec => [](JobsAccounted /\ QuietWhenFreed) /\ WaitIsComplete
<1>1. SharedInv => JobsAccounted /\ QuietWhenFreed
  BY DEF SharedInv
<1>2. OtherStep => [opc = "wait_working" /\ opc' = "ready" => submitted = finished]_vars
  BY DEF OtherStep
<1>3. SharedInv /\ [SharedNext]_<<vars, other>>
        => [opc = "wait_working" /\ opc' = "ready" => submitted = finished]_vars
  BY <1>2, SharedStep, WaitStep
<1>4. QED
  BY <1>1, <1>3, SharedInvariance, PTL DEF SharedSpec, WaitIsComplete

(* With a second pool, too, every behaviour of the pool is one of JobPool,   *)
(* which promises no progress: the jobs that run are started in order, once, *)
(* and none after the pool is closed.                                        *)
THEOREM SharedPoolIsJobPool == SharedSpec => ImplementsJobPool
<1>1. OtherStep => UNCHANGED Pool!poolVars
  BY PoolStutter DEF OtherStep, Phase
<1>2. SharedInv /\ [SharedNext]_<<vars, other>> => [Pool!PoolNext]_Pool!poolVars
  BY <1>1, SharedStep, StepRefines
<1>3. QED
  BY <1>2, SharedInvariance, InitRefines, PTL
     DEF SharedSpec, ImplementsJobPool, Pool!PoolSpec
===============================================================================
