-------------------------------- MODULE Logger --------------------------------
(***************************************************************************)
(* The logger of src/log.c, called from every thread of the server.  A line  *)
(* is written by three calls of stdio (prefix, message, newline), each of    *)
(* them atomic on its stream, to stderr and to the stream of each callback.  *)
(* The time of an event is a pointer to the one struct tm of localtime; the  *)
(* model keeps whose time it holds.                                          *)
(*                                                                          *)
(* lock() and unlock() call the function of log_set_lock, if there is one;   *)
(* the server sets none.  The setters and log_add_callback do not take the   *)
(* lock: they are called while no thread logs.                               *)
(***************************************************************************)
EXTENDS Naturals, Sequences, FiniteSets

CONSTANTS
  Threads,
  Files,          \* streams that log_add_fp can be given, each once
  Stderr,
  None,
  MAX_CALLBACKS,
  MaxLevel,       \* LOG_FATAL
  MaxCalls        \* bound on the calls of log_log by each thread

ASSUME LoggerAssumption ==
  /\ IsFiniteSet(Threads) /\ None \notin Threads
  /\ Stderr \notin Files
  /\ {MAX_CALLBACKS, MaxLevel, MaxCalls} \subseteq Nat

VARIABLES
  lock_fn,     \* a lock function has been set
  level, quiet,
  callbacks,   \* the slots in use, in order
  holder,      \* the thread that holds the user's lock
  pc,          \* where each thread is in log_log
  slot,        \* the loop counter i of each thread; 0 for the part on stderr
  calls,       \* the calls each thread has begun
  ev,          \* of each thread's call: its level, and whether time is set
  tm,          \* the call whose time localtime has stored last
  out          \* what has been written to each stream

config == <<lock_fn, level, quiet, callbacks>>
loggerVars == <<config, holder, pc, slot, calls, ev, tm, out>>

Call(t) == <<t, calls[t]>>
Idle == \A t \in Threads : pc[t] = "idle"

Init ==
  /\ lock_fn = FALSE
  /\ level = 0
  /\ quiet = FALSE
  /\ callbacks = <<>>
  /\ holder = None
  /\ pc = [t \in Threads |-> "idle"]
  /\ slot = [t \in Threads |-> 0]
  /\ calls = [t \in Threads |-> 0]
  /\ ev = [t \in Threads |-> [level |-> 0, timed |-> FALSE]]
  /\ tm = None
  /\ out = [s \in Files \cup {Stderr} |-> <<>>]

(* log_set_lock, before the first call of log_log.                           *)
SetLock ==
  /\ \A t \in Threads : calls[t] = 0
  /\ lock_fn' = TRUE
  /\ UNCHANGED <<level, quiet, callbacks, holder, pc, slot, calls, ev, tm, out>>

SetLevel(l) ==
  /\ Idle
  /\ level' = l
  /\ UNCHANGED <<lock_fn, quiet, callbacks, holder, pc, slot, calls, ev, tm, out>>

SetQuiet(enable) ==
  /\ Idle
  /\ quiet' = enable
  /\ UNCHANGED <<lock_fn, level, callbacks, holder, pc, slot, calls, ev, tm, out>>

(* log_add_callback by log_add_fp: the first free slot, or -1.               *)
AddCallback(file, l) ==
  /\ Idle
  /\ \A k \in 1..Len(callbacks) : callbacks[k].file # file
  /\ callbacks' = IF Len(callbacks) < MAX_CALLBACKS
                  THEN Append(callbacks, [file |-> file, level |-> l])
                  ELSE callbacks
  /\ UNCHANGED <<lock_fn, level, quiet, holder, pc, slot, calls, ev, tm, out>>

-------------------------------------------------------------------------------
(* log_log.                                                                  *)

LogCall(t, l) ==
  /\ pc[t] = "idle"
  /\ calls[t] < MaxCalls
  /\ calls' = [calls EXCEPT ![t] = @ + 1]
  /\ ev' = [ev EXCEPT ![t] = [level |-> l, timed |-> FALSE]]
  /\ slot' = [slot EXCEPT ![t] = 0]
  /\ pc' = [pc EXCEPT ![t] = "lock"]
  /\ UNCHANGED <<config, holder, tm, out>>

LockFault(t) == lock_fn /\ holder' = t

Lock(t) ==
  \/ ~lock_fn /\ UNCHANGED holder
  \/ lock_fn /\ holder = None /\ holder' = t

Enter(t) ==
  /\ pc[t] = "lock"
  /\ Lock(t)
  /\ pc' = [pc EXCEPT ![t] = "slot"]
  /\ UNCHANGED <<config, slot, calls, ev, tm, out>>

(* i < MAX_CALLBACKS && L.callbacks[i].fn                                    *)
InUseFault(k) == k = 0 \/ k < Len(callbacks)

InUse(k) == k <= Len(callbacks)

Wanted(t) ==
  IF slot[t] = 0 THEN ~quiet /\ ev[t].level >= level
  ELSE ev[t].level >= callbacks[slot[t]].level

InitEventFault(t) == ev' = [ev EXCEPT ![t].timed = TRUE] /\ UNCHANGED tm

(* localtime overwrites its result for every thread.                         *)
InitEvent(t) ==
  /\ ev' = [ev EXCEPT ![t].timed = TRUE]
  /\ tm' = IF ev[t].timed THEN tm ELSE Call(t)

Slot(t) ==
  /\ pc[t] = "slot"
  /\ \/ /\ ~InUse(slot[t])
        /\ pc' = [pc EXCEPT ![t] = "unlock"]
        /\ UNCHANGED <<slot, ev, tm>>
     \/ /\ InUse(slot[t]) /\ ~Wanted(t)
        /\ slot' = [slot EXCEPT ![t] = @ + 1]
        /\ UNCHANGED <<pc, ev, tm>>
     \/ /\ InUse(slot[t]) /\ Wanted(t)
        /\ InitEvent(t)
        /\ pc' = [pc EXCEPT ![t] = "prefix"]
        /\ UNCHANGED slot
  /\ UNCHANGED <<config, holder, calls, out>>

Stream(t) == IF slot[t] = 0 THEN Stderr ELSE callbacks[slot[t]].file

Write(t, piece, time) ==
  out' = [out EXCEPT ![Stream(t)] = Append(@, [call |-> Call(t), piece |-> piece, time |-> time])]

Prefix(t) ==
  /\ pc[t] = "prefix"
  /\ Write(t, "prefix", tm)
  /\ pc' = [pc EXCEPT ![t] = "message"]
  /\ UNCHANGED <<config, holder, slot, calls, ev, tm>>

Message(t) ==
  /\ pc[t] = "message"
  /\ Write(t, "message", None)
  /\ pc' = [pc EXCEPT ![t] = "newline"]
  /\ UNCHANGED <<config, holder, slot, calls, ev, tm>>

Newline(t) ==
  /\ pc[t] = "newline"
  /\ Write(t, "newline", None)
  /\ slot' = [slot EXCEPT ![t] = @ + 1]
  /\ pc' = [pc EXCEPT ![t] = "slot"]
  /\ UNCHANGED <<config, holder, calls, ev, tm>>

Unlock(t) ==
  /\ pc[t] = "unlock"
  /\ holder' = IF lock_fn THEN None ELSE holder
  /\ pc' = [pc EXCEPT ![t] = "idle"]
  /\ UNCHANGED <<config, slot, calls, ev, tm, out>>

Next ==
  \/ SetLock
  \/ \E l \in 0..MaxLevel : SetLevel(l)
  \/ \E enable \in BOOLEAN : SetQuiet(enable)
  \/ \E file \in Files, l \in 0..MaxLevel : AddCallback(file, l)
  \/ \E t \in Threads :
       \/ \E l \in 0..MaxLevel : LogCall(t, l)
       \/ Enter(t) \/ Slot(t)
       \/ Prefix(t) \/ Message(t) \/ Newline(t)
       \/ Unlock(t)

Spec == Init /\ [][Next]_loggerVars

-------------------------------------------------------------------------------
(* With a lock function the three writes of a line are adjacent on every     *)
(* stream, whatever threads log at the same time.                            *)
LinesWhole ==
  lock_fn =>
    \A s \in DOMAIN out : \A k \in 1..Len(out[s]) :
      out[s][k].piece # "prefix" =>
        /\ k > 1
        /\ out[s][k - 1].call = out[s][k].call
        /\ out[s][k - 1].piece = IF out[s][k].piece = "message" THEN "prefix" ELSE "message"

(* With a lock function the time in a line is the time of its own call,      *)
(* although all calls share the struct tm of localtime and each reads it     *)
(* once for every stream.                                                    *)
TimeIsOwn ==
  lock_fn =>
    \A s \in DOMAIN out : \A k \in 1..Len(out[s]) :
      out[s][k].piece = "prefix" => out[s][k].time = out[s][k].call

Lines(t, s) ==
  Cardinality({k \in 1..Len(out[s]) : out[s][k].call = Call(t) /\ out[s][k].piece = "newline"})

(* With and without a lock, a call that is about to return has written one   *)
(* line to every stream whose level asks for it, and none to the others.     *)
Delivered ==
  \A t \in Threads : pc[t] = "unlock" =>
    /\ Lines(t, Stderr) = IF ~quiet /\ ev[t].level >= level THEN 1 ELSE 0
    /\ \A f \in Files :
         Lines(t, f) = IF \E k \in 1..Len(callbacks) :
                            callbacks[k].file = f /\ ev[t].level >= callbacks[k].level
                       THEN 1 ELSE 0

-------------------------------------------------------------------------------
(* Why LinesWhole and TimeIsOwn hold, for LoggerProofs.tla.                  *)
Inside == {"slot", "prefix", "message", "newline", "unlock"}
AllCalls == Threads \X Nat
Piece == [call : AllCalls, piece : {"prefix", "message", "newline"}, time : AllCalls \cup {None}]

TypeOK ==
  /\ {lock_fn, quiet} \subseteq BOOLEAN
  /\ level \in 0..MaxLevel
  /\ callbacks \in Seq([file : Files, level : 0..MaxLevel])
  /\ holder \in Threads \cup {None}
  /\ pc \in [Threads -> {"idle", "lock"} \cup Inside]
  /\ slot \in [Threads -> Nat]
  /\ calls \in [Threads -> Nat]
  /\ ev \in [Threads -> [level : 0..MaxLevel, timed : BOOLEAN]]
  /\ tm \in AllCalls \cup {None}
  /\ out \in [Files \cup {Stderr} -> Seq(Piece)]

(* A thread that writes does so to a stream there is, and has made a call.   *)
StreamExists ==
  \A t \in Threads :
    /\ pc[t] # "idle" => calls[t] > 0
    /\ pc[t] \in {"prefix", "message", "newline"} => slot[t] <= Len(callbacks)

SilentAtFirst ==
  (\A t \in Threads : calls[t] = 0) => \A s \in DOMAIN out : out[s] = <<>>

Exclusive == lock_fn => \A t \in Threads : pc[t] \in Inside => holder = t

(* What a thread has written of its line is the last thing on its stream.    *)
EndsWith(s, call, piece) ==
  /\ Len(out[s]) > 0
  /\ out[s][Len(out[s])].call = call
  /\ out[s][Len(out[s])].piece = piece

LineOpen ==
  lock_fn => \A t \in Threads :
    /\ pc[t] = "message" => EndsWith(Stream(t), Call(t), "prefix")
    /\ pc[t] = "newline" => EndsWith(Stream(t), Call(t), "message")

TimeKept ==
  lock_fn => \A t \in Threads :
    /\ pc[t] = "lock" => ~ev[t].timed
    /\ pc[t] \in Inside /\ ev[t].timed => tm = Call(t)
    /\ pc[t] = "prefix" => ev[t].timed

IInv ==
  /\ TypeOK /\ StreamExists /\ SilentAtFirst /\ Exclusive
  /\ LineOpen /\ TimeKept /\ LinesWhole /\ TimeIsOwn
===============================================================================
