--------------------------- MODULE ThreadPoolPause ----------------------------
(***************************************************************************)
(* The pool of ThreadPool.tla with thpool_pause and thpool_resume.  Pausing  *)
(* sends SIGUSR1 to every worker; the handler thread_hold spins while the    *)
(* flag threads_on_hold, which it sets itself, is 1; resuming clears the     *)
(* flag.  A signal is delivered at any later time, wherever the worker is.   *)
(***************************************************************************)
EXTENDS ThreadPool

CONSTANTS
  MaxPauses,   \* bound on the calls of thpool_pause
  Careful      \* the owner resumes what it has paused, again while a worker is
               \* held, and makes no other call before all workers are back

ASSUME ThreadPoolPauseAssumption ==
  /\ MaxPauses \in Nat
  /\ Careful \in BOOLEAN

VARIABLES
  threads_on_hold,
  signals,     \* workers with a pending SIGUSR1
  held,        \* workers inside thread_hold
  paused,      \* the owner has paused and not yet resumed
  pauses       \* calls of thpool_pause so far

pauseVars == <<threads_on_hold, signals, held, paused, pauses>>
allVars == <<vars, pauseVars>>

(* No worker is held, and none will be before the next thpool_pause.         *)
AllBack == ~paused /\ signals = {} /\ held = {}

ThpoolPause ==
  /\ opc = "ready"
  /\ pauses < MaxPauses
  /\ Careful => AllBack
  /\ signals' = signals \cup Alive
  /\ paused' = TRUE
  /\ pauses' = pauses + 1
  /\ UNCHANGED <<vars, threads_on_hold, held>>

(* The kernel runs the handler; SIGUSR1 is blocked until the handler ends.   *)
HoldBegin(w) ==
  /\ w \in signals \ held
  /\ pc[w] # "gone"
  /\ signals' = signals \ {w}
  /\ held' = held \cup {w}
  /\ threads_on_hold' = 1
  /\ UNCHANGED <<vars, paused, pauses>>

HoldEnd(w) ==
  /\ w \in held
  /\ threads_on_hold = 0
  /\ held' = held \ {w}
  /\ UNCHANGED <<vars, threads_on_hold, signals, paused, pauses>>

ClearHold == threads_on_hold' = 0

ThpoolResume ==
  /\ opc = "ready"
  /\ Careful => paused \/ held # {}
  /\ ClearHold
  /\ paused' = FALSE
  /\ UNCHANGED <<vars, signals, held, pauses>>

PauseInit ==
  /\ Init
  /\ threads_on_hold = 0
  /\ signals = {}
  /\ held = {}
  /\ paused = FALSE
  /\ pauses = 0

PauseNext ==
  \/ \E w \in Workers :
        \/ HoldBegin(w)
        \/ HoldEnd(w)
        \/ w \notin held /\ WorkerStep(w) /\ UNCHANGED pauseVars
  \/ ThpoolPause
  \/ ThpoolResume
  \/ (OwnerStep \/ SpuriousWakeup \/ Stopped) /\ UNCHANGED pauseVars
  \/ (Careful => AllBack) /\ OwnerCall /\ UNCHANGED pauseVars

(* As in ThreadPool, and signals are delivered, the handler is scheduled and  *)
(* a careful owner resumes: once for what it has paused, and once more for    *)
(* every worker that a signal holds after that.                              *)
PauseFairness ==
  /\ \A w \in Workers :
        /\ WF_allVars(HoldBegin(w))
        /\ WF_allVars(HoldEnd(w))
        /\ WF_allVars(w \notin held /\ pc[w] # "run" /\ WorkerStep(w) /\ UNCHANGED pauseVars)
  /\ WF_allVars(OwnerStep /\ UNCHANGED pauseVars)
  /\ WF_allVars(Careful /\ ThpoolResume)

PauseSpec == PauseInit /\ [][PauseNext]_allVars /\ PauseFairness

-------------------------------------------------------------------------------
(* Every submitted job is executed unless the pool is destroyed, also when    *)
(* the wakeup of bsem_post went to a worker that was held, wherever in its   *)
(* loop the pause has found it, and when a SIGUSR1 is delivered only after    *)
(* thpool_resume has cleared threads_on_hold and sets it again for everyone:  *)
(* then one call of thpool_resume is not enough, and the careful owner makes  *)
(* another.                                                                  *)
EveryJobRuns ==
  JobsReturn =>
    \A j \in Jobs : j \in submitted ~> j \in finished \/ threads_keepalive = 0
===============================================================================
