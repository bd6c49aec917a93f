--------------------------- MODULE ConnectionTable ----------------------------
(***************************************************************************)
(* The connection table of src/sserver.c: the array connections, the counter *)
(* global_connection_id that serves as its index, and the mutex of           *)
(* new_connection.  Only the thread in start_epoll changes them.             *)
(***************************************************************************)
EXTENDS Integers

CONSTANTS
  Limit,        \* 2 << 10: the slots of connections, and the largest id
  UIntRange,    \* the number of values of unsigned int
  IndexFirst,   \* whether the compiler reads the index of the assignment in
                \* add_new_connection before it calls new_connection
  Null

ASSUME ConnectionTableAssumption ==
  /\ Limit \in Nat \ {0}
  /\ UIntRange \in Nat /\ UIntRange > Limit + 2
  /\ IndexFirst \in BOOLEAN

VARIABLES
  global_connection_id,
  connections,
  mutex_held,    \* new_connection has returned without unlocking mutex
  overrun        \* a slot outside the array has been written

tableVars == <<global_connection_id, connections, mutex_held, overrun>>

TableInit ==
  /\ global_connection_id = 0
  /\ connections = [s \in 0..Limit - 1 |-> Null]
  /\ mutex_held = FALSE
  /\ overrun = FALSE

Store(slot, entry) ==
  \/ /\ slot \in DOMAIN connections
     /\ connections' = [connections EXCEPT ![slot] = entry]
     /\ UNCHANGED overrun
  \/ /\ slot \notin DOMAIN connections
     /\ overrun' = TRUE
     /\ UNCHANGED connections

(* add_new_connection with new_connection, which counts before it locks.      *)
IncrementFault(id) == id

Increment(id) == (id + 1) % UIntRange

AddNewConnection(fd) ==
  LET id == Increment(global_connection_id)
      slot == IF IndexFirst THEN global_connection_id ELSE id
  IN
  /\ ~mutex_held
  /\ global_connection_id' = id
  /\ \/ /\ id > Limit
        /\ mutex_held' = TRUE
        /\ Store(slot, Null)
     \/ /\ id <= Limit
        /\ UNCHANGED mutex_held
        /\ Store(slot, [connection_id |-> id, listen_socket |-> fd])

(* pthread_mutex_lock never returns once mutex_held: the thread that would    *)
(* unlock the mutex is the one that waits, and has counted already.           *)
AddBlocked ==
  /\ mutex_held
  /\ global_connection_id' = Increment(global_connection_id)
  /\ UNCHANGED <<connections, mutex_held, overrun>>

(* The part of epoll_del_fd after close; its test for < 0 is never true.     *)
DecrementFault(id) == id - 2

Decrement(id) == (id - 1) % UIntRange

DropConnection ==
  /\ Store(global_connection_id, Null)
  /\ global_connection_id' = Decrement(global_connection_id)
  /\ UNCHANGED mutex_held

-------------------------------------------------------------------------------
(* The entries are those of registered descriptors, descriptors being Fds.   *)
TableTypeOK(Fds) ==
  /\ global_connection_id \in 0..UIntRange - 1
  /\ connections \in [0..Limit - 1 -> [connection_id : 0..Limit, listen_socket : Fds] \cup {Null}]
  /\ {mutex_held, overrun} \subseteq BOOLEAN

(* The connection that leaves the mutex locked brings the counter to one      *)
(* beyond the limit, and the next one, which locks the loop up, to two.       *)
CounterLimited(locked) ==
  global_connection_id <= IF locked THEN Limit + 2
                          ELSE IF mutex_held THEN Limit + 1 ELSE Limit
===============================================================================
