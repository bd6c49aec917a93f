--------------------------- MODULE ThreadPoolShared ---------------------------
(***************************************************************************)
(* The pool of ThreadPool.tla in a program with a second pool.  The flag     *)
(* threads_keepalive is a static variable of thpool.c, so thpool_init and    *)
(* thpool_destroy of the other pool write the flag this pool's workers read. *)
(***************************************************************************)
EXTENDS ThreadPool

VARIABLE other   \* the other pool: "absent", "open" or "destroyed"

OtherInit ==
  /\ other = "absent"
  /\ other' = "open"
  /\ threads_keepalive' = 1
  /\ UNCHANGED <<num_threads_alive, num_threads_working, thcount_lock, rwmutex,
                 queue, has_jobs, pc, job, ownerVars, history>>

OtherDestroy ==
  /\ other = "open"
  /\ other' = "destroyed"
  /\ threads_keepalive' = 0
  /\ UNCHANGED <<num_threads_alive, num_threads_working, thcount_lock, rwmutex,
                 queue, has_jobs, pc, job, ownerVars, history>>

SharedNext ==
  \/ Next /\ UNCHANGED other
  \/ OtherInit
  \/ OtherDestroy

SharedSpec ==
  /\ Init /\ other = "absent"
  /\ [][SharedNext]_<<vars, other>>
  /\ Fairness

-------------------------------------------------------------------------------
(* thpool.h, in the example of thpool_destroy: of two pools one is destroyed *)
(* and the other stays.  A job given to a pool that its owner has not        *)
(* destroyed is executed.                                                    *)
JobsOutliveOtherPool ==
  JobsReturn =>
    \A j \in Jobs : j \in submitted ~> j \in finished \/ opc \in {"destroy", "done"}
===============================================================================
