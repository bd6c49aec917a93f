----------------------------- MODULE LoggerProofs -----------------------------
(***************************************************************************)
(* With a lock function the lines of log_log are whole and carry their own   *)
(* time, for any number of threads, streams, levels and calls.  The lock     *)
(* keeps all but one thread out of the part of log_log that writes and that  *)
(* calls localtime (Exclusive); so what a thread has written of its line is  *)
(* still the last thing on the stream when it writes the next piece           *)
(* (LineOpen), and the struct tm still holds its time (TimeKept).            *)
(* Locked or not, a call about to unlock has written one line to each stream *)
(* whose level lets it pass, and none to the others (Delivered).             *)
(***************************************************************************)
EXTENDS Logger, FiniteSetTheorems, TLAPS

Writing == {"prefix", "message", "newline"}

-------------------------------------------------------------------------------
(* One piece at the end of the stream of t, and nothing else.                *)
LEMMA WriteAppends ==
  ASSUME TypeOK, StreamExists, NEW t \in Threads, pc[t] \in Writing,
         NEW piece \in Writing, NEW time \in AllCalls \cup {None},
         Write(t, piece, time)
  PROVE  LET s == Stream(t)
             e == [call |-> Call(t), piece |-> piece, time |-> time]
         IN  /\ s \in DOMAIN out /\ e \in Piece
             /\ out' \in [Files \cup {Stderr} -> Seq(Piece)]
             /\ DOMAIN out' = DOMAIN out
             /\ out'[s] = Append(out[s], e)
             /\ \A r \in DOMAIN out : r # s => out'[r] = out[r]
<1> DEFINE s == Stream(t)
           e == [call |-> Call(t), piece |-> piece, time |-> time]
<1>1. s \in Files \cup {Stderr}
  <2>1. slot[t] \in Nat /\ slot[t] <= Len(callbacks)
    BY DEF TypeOK, StreamExists, Writing
  <2>2. CASE slot[t] = 0
    BY <2>2 DEF Stream
  <2>3. CASE slot[t] # 0
    <3>1. slot[t] \in 1..Len(callbacks)
      BY <2>1, <2>3 DEF TypeOK
    <3>2. callbacks[slot[t]] \in [file : Files, level : 0..MaxLevel]
      <4> DEFINE Entry == [file : Files, level : 0..MaxLevel]
      <4>1. callbacks \in Seq(Entry)
        BY DEF TypeOK
      <4> HIDE DEF Entry
      <4>2. callbacks[slot[t]] \in Entry
        BY <3>1, <4>1
      <4>3. QED
        BY <4>2 DEF Entry
    <3>3. QED
      BY <2>3, <3>2 DEF Stream
  <2>4. QED
    BY <2>2, <2>3
<1>2. Call(t) \in AllCalls
  BY DEF TypeOK, Call, AllCalls
<1>3. e \in Piece
  BY <1>2 DEF Piece, Writing
<1>4. out' = [out EXCEPT ![s] = Append(@, e)]
  BY DEF Write
<1> HIDE DEF s, e
<1>5. DOMAIN out = Files \cup {Stderr} /\ out[s] \in Seq(Piece)
  BY <1>1 DEF TypeOK
<1>6. Append(out[s], e) \in Seq(Piece)
  BY <1>3, <1>5
<1>7. out' \in [Files \cup {Stderr} -> Seq(Piece)]
  BY <1>4, <1>5, <1>6 DEF TypeOK
<1>8. out'[s] = Append(out[s], e) /\ \A r \in DOMAIN out : r # s => out'[r] = out[r]
  BY <1>1, <1>4, <1>5 DEF TypeOK
<1>9. QED
  BY <1>1, <1>3, <1>5, <1>7, <1>8 DEF s, e

(* A piece that follows what it should leaves the lines whole, the times     *)
(* right, and is what the stream then ends with.                             *)
LEMMA WriteKeepsLines ==
  ASSUME TypeOK, StreamExists, LinesWhole, TimeIsOwn,
         NEW t \in Threads, pc[t] \in Writing,
         NEW piece \in Writing, NEW time \in AllCalls \cup {None},
         Write(t, piece, time), UNCHANGED <<config, calls>>,
         lock_fn => /\ piece = "prefix" => time = Call(t)
                    /\ piece = "message" => EndsWith(Stream(t), Call(t), "prefix")
                    /\ piece = "newline" => EndsWith(Stream(t), Call(t), "message")
  PROVE  /\ LinesWhole' /\ TimeIsOwn'
         /\ EndsWith(Stream(t), Call(t), piece)' \/ slot'[t] # slot[t]
<1> DEFINE s == Stream(t)
           e == [call |-> Call(t), piece |-> piece, time |-> time]
           n == Len(out[s]) + 1
<1>1. /\ s \in DOMAIN out
      /\ DOMAIN out' = DOMAIN out
      /\ out'[s] = Append(out[s], e)
      /\ \A r \in DOMAIN out : r # s => out'[r] = out[r]
  BY WriteAppends
<1>2. out[s] \in Seq(Piece)
  BY <1>1 DEF TypeOK
<1> HIDE DEF s, e
<1>3. /\ n \in Nat /\ Len(out'[s]) = n /\ out'[s][n] = e
      /\ \A k \in 1..n - 1 : out'[s][k] = out[s][k]
  BY <1>1, <1>2
<1>4. e.call = Call(t) /\ e.piece = piece /\ e.time = time
  BY DEF e
<1>5. ASSUME lock_fn, NEW r \in DOMAIN out, NEW k \in 1..Len(out'[r])
      PROVE  /\ out'[r][k].piece # "prefix" =>
                  /\ k > 1
                  /\ out'[r][k - 1].call = out'[r][k].call
                  /\ out'[r][k - 1].piece =
                       IF out'[r][k].piece = "message" THEN "prefix" ELSE "message"
             /\ out'[r][k].piece = "prefix" => out'[r][k].time = out'[r][k].call
  <2>1. CASE r # s
    BY <1>1, <1>5, <2>1 DEF LinesWhole, TimeIsOwn
  <2>2. CASE r = s /\ k # n
    <3>1. k \in 1..Len(out[s]) /\ k \in 1..n - 1 /\ k - 1 \in 0..n - 1
      BY <1>2, <1>3, <2>2
    <3>2. out'[s][k] = out[s][k] /\ (k > 1 => out'[s][k - 1] = out[s][k - 1])
      BY <1>3, <3>1
    <3>3. QED
      BY <1>5, <2>2, <3>1, <3>2 DEF LinesWhole, TimeIsOwn
  <2>3. CASE r = s /\ k = n
    <3>1. CASE piece = "prefix"
      BY <1>3, <1>4, <1>5, <2>3, <3>1
    <3>2. CASE piece # "prefix"
      <4>1. /\ EndsWith(s, Call(t), IF piece = "message" THEN "prefix" ELSE "message")
            /\ piece \in {"message", "newline"}
        BY <1>5, <3>2 DEF s, Writing
      <4>2. n > 1 /\ n - 1 = Len(out[s]) /\ out'[s][n - 1] = out[s][n - 1]
        BY <1>2, <1>3, <4>1 DEF EndsWith
      <4>3. QED
        BY <1>3, <1>4, <2>3, <3>2, <4>1, <4>2 DEF EndsWith
    <3>3. QED
      BY <3>1, <3>2
  <2>4. QED
    BY <2>1, <2>2, <2>3
<1>6. LinesWhole' /\ TimeIsOwn'
  BY <1>1, <1>5 DEF LinesWhole, TimeIsOwn, config
<1>7. EndsWith(Stream(t), Call(t), piece)' \/ slot'[t] # slot[t]
  <2>1. SUFFICES ASSUME slot'[t] = slot[t] PROVE EndsWith(Stream(t), Call(t), piece)'
    OBVIOUS
  <2>2. Stream(t)' = s /\ Call(t)' = Call(t)
    BY <2>1 DEF Stream, Call, config, s
  <2>3. QED
    BY <1>3, <1>4, <2>2 DEF EndsWith
<1>8. QED
  BY <1>6, <1>7

-------------------------------------------------------------------------------
(* The setters: no thread is in log_log.                                     *)
LEMMA ConfigKeepsIInv ==
  ASSUME IInv, UNCHANGED <<holder, pc, slot, calls, ev, tm, out>>, Idle,
         TypeOK', lock_fn' = lock_fn \/ \A t \in Threads : calls[t] = 0
  PROVE  IInv'
<1>1. \A t \in Threads : pc'[t] = "idle"
  BY DEF Idle
<1>2. StreamExists' /\ SilentAtFirst' /\ Exclusive' /\ LineOpen' /\ TimeKept'
  BY <1>1 DEF IInv, StreamExists, SilentAtFirst, Exclusive, LineOpen, TimeKept, Inside
<1>3. LinesWhole' /\ TimeIsOwn'
  <2>1. CASE lock_fn' = lock_fn
    BY <2>1 DEF IInv, LinesWhole, TimeIsOwn
  <2>2. CASE \A t \in Threads : calls[t] = 0
    <3>1. \A s \in DOMAIN out' : out'[s] = <<>>
      BY <2>2 DEF IInv, SilentAtFirst
    <3>2. QED
      BY <3>1 DEF LinesWhole, TimeIsOwn
  <2>3. QED
    BY <2>1, <2>2
<1>4. QED
  BY <1>2, <1>3 DEF IInv

LEMMA ConfigSteps ==
  ASSUME IInv,
         \/ SetLock
         \/ \E l \in 0..MaxLevel : SetLevel(l)
         \/ \E enable \in BOOLEAN : SetQuiet(enable)
         \/ \E file \in Files, l \in 0..MaxLevel : AddCallback(file, l)
  PROVE  IInv'
<1>1. CASE SetLock
  <2>1. Idle
    BY <1>1 DEF SetLock, IInv, StreamExists, Idle
  <2>2. TypeOK'
    BY <1>1 DEF SetLock, IInv, TypeOK
  <2>3. QED
    BY <1>1, <2>1, <2>2, ConfigKeepsIInv DEF SetLock
<1>2. ASSUME NEW l \in 0..MaxLevel, SetLevel(l)
      PROVE  IInv'
  <2>1. TypeOK'
    BY <1>2 DEF SetLevel, IInv, TypeOK
  <2>2. QED
    BY <1>2, <2>1, ConfigKeepsIInv DEF SetLevel
<1>3. ASSUME NEW enable \in BOOLEAN, SetQuiet(enable)
      PROVE  IInv'
  <2>1. TypeOK'
    BY <1>3 DEF SetQuiet, IInv, TypeOK
  <2>2. QED
    BY <1>3, <2>1, ConfigKeepsIInv DEF SetQuiet
<1>4. ASSUME NEW file \in Files, NEW l \in 0..MaxLevel, AddCallback(file, l)
      PROVE  IInv'
  <2>1. callbacks' \in Seq([file : Files, level : 0..MaxLevel])
    <3> DEFINE Entry == [file : Files, level : 0..MaxLevel]
               e == [file |-> file, level |-> l]
    <3>1. callbacks \in Seq(Entry) /\ e \in Entry
      BY DEF IInv, TypeOK
    <3>2. callbacks' = Append(callbacks, e) \/ callbacks' = callbacks
      BY <1>4 DEF AddCallback
    <3> HIDE DEF Entry, e
    <3>3. callbacks' \in Seq(Entry)
      BY <3>1, <3>2
    <3>4. QED
      BY <3>3 DEF Entry
  <2>2. TypeOK'
    BY <1>4, <2>1 DEF AddCallback, IInv, TypeOK
  <2>3. QED
    BY <1>4, <2>2, ConfigKeepsIInv DEF AddCallback
<1>5. QED
  BY <1>1, <1>2, <1>3, <1>4

-------------------------------------------------------------------------------
(* The steps of log_log that write nothing.                                  *)
LEMMA LogCallStep ==
  ASSUME IInv, NEW t \in Threads, NEW l \in 0..MaxLevel, LogCall(t, l)
  PROVE  IInv'
<1>1. TypeOK'
  BY DEF IInv, TypeOK, LogCall, config
<1>2. /\ pc' = [pc EXCEPT ![t] = "lock"] /\ calls' = [calls EXCEPT ![t] = @ + 1]
      /\ ev'[t].timed = FALSE /\ calls[t] \in Nat /\ calls'[t] > 0
      /\ \A u \in Threads \ {t} :
           /\ pc'[u] = pc[u] /\ calls'[u] = calls[u]
           /\ ev'[u] = ev[u] /\ slot'[u] = slot[u]
      /\ pc'[t] = "lock"
  BY DEF IInv, TypeOK, LogCall
<1>3. UNCHANGED <<lock_fn, callbacks, holder, tm, out>>
  BY DEF LogCall, config
<1>4. \A u \in Threads \ {t} : Call(u)' = Call(u) /\ Stream(u)' = Stream(u)
  BY <1>2, <1>3 DEF Call, Stream
<1>5. StreamExists'
  BY <1>2, <1>3 DEF IInv, StreamExists
<1>6. SilentAtFirst' /\ Exclusive'
  BY <1>2, <1>3 DEF IInv, SilentAtFirst, Exclusive, Inside
<1>7. LineOpen'
  BY <1>2, <1>3, <1>4 DEF IInv, LineOpen, EndsWith
<1>8. TimeKept'
  BY <1>2, <1>3, <1>4 DEF IInv, TimeKept, Inside
<1>9. LinesWhole' /\ TimeIsOwn'
  BY <1>3 DEF IInv, LinesWhole, TimeIsOwn
<1>10. QED
  BY <1>1, <1>5, <1>6, <1>7, <1>8, <1>9 DEF IInv

(* A step of t that leaves calls and streams alone keeps what is said of the  *)
(* lines, if it does not begin to write a message or a newline.               *)
LEMMA QuietStep ==
  ASSUME IInv, NEW t \in Threads, TypeOK',
         UNCHANGED <<config, calls, out>>,
         \A u \in Threads \ {t} : pc'[u] = pc[u] /\ slot'[u] = slot[u],
         pc[t] # "idle", pc'[t] \notin {"message", "newline"},
         pc'[t] = "prefix" => slot'[t] <= Len(callbacks)
  PROVE  StreamExists' /\ SilentAtFirst' /\ LineOpen' /\ LinesWhole' /\ TimeIsOwn'
<1>1. \A u \in Threads : Call(u)' = Call(u)
  BY DEF Call
<1>2. \A u \in Threads \ {t} : Stream(u)' = Stream(u)
  BY DEF Stream, config
<1>3. StreamExists'
  BY DEF IInv, StreamExists, config
<1>4. SilentAtFirst' /\ LinesWhole' /\ TimeIsOwn'
  BY DEF IInv, SilentAtFirst, LinesWhole, TimeIsOwn, config
<1>5. LineOpen'
  BY <1>1, <1>2 DEF IInv, LineOpen, EndsWith, config
<1>6. QED
  BY <1>3, <1>4, <1>5

LEMMA EnterStep ==
  ASSUME IInv, NEW t \in Threads, Enter(t)
  PROVE  IInv'
<1>1. /\ pc[t] = "lock" /\ pc'[t] = "slot"
      /\ \A u \in Threads \ {t} : pc'[u] = pc[u]
      /\ UNCHANGED <<config, slot, calls, ev, tm, out>>
      /\ Lock(t)
  BY DEF IInv, TypeOK, Enter
<1>2. TypeOK'
  <2>1. pc' \in [Threads -> {"idle", "lock"} \cup Inside] /\ holder' \in Threads \cup {None}
    <3>1. pc \in [Threads -> {"idle", "lock"} \cup Inside] /\ holder \in Threads \cup {None}
      BY DEF IInv, TypeOK
    <3>2. pc' = [pc EXCEPT ![t] = "slot"]
      BY DEF Enter
    <3>3. QED
      BY <1>1, <3>1, <3>2 DEF Inside, Lock
  <2>2. QED
    BY <1>1, <2>1 DEF IInv, TypeOK, config
<1>3. StreamExists' /\ SilentAtFirst' /\ LineOpen' /\ LinesWhole' /\ TimeIsOwn'
  BY <1>1, <1>2, QuietStep
<1>4. Exclusive'
  BY <1>1, LoggerAssumption DEF IInv, Exclusive, Lock, config
<1>5. TimeKept'
  BY <1>1 DEF IInv, TimeKept, Call, config
<1>6. QED
  BY <1>2, <1>3, <1>4, <1>5 DEF IInv

LEMMA SlotStep ==
  ASSUME IInv, NEW t \in Threads, Slot(t)
  PROVE  IInv'
<1>1. /\ pc[t] = "slot" /\ UNCHANGED <<config, holder, calls, out>>
      /\ \A u \in Threads \ {t} : pc'[u] = pc[u] /\ slot'[u] = slot[u] /\ ev'[u] = ev[u]
      /\ pc'[t] \in {"slot", "prefix", "unlock"}
      /\ pc'[t] = "prefix" => InUse(slot[t]) /\ slot'[t] = slot[t] /\ InitEvent(t)
      /\ pc'[t] # "prefix" => ev' = ev /\ tm' = tm
  BY DEF IInv, TypeOK, Slot, InitEvent
<1>2. Call(t) \in AllCalls
  BY DEF IInv, TypeOK, Call, AllCalls
<1>3. TypeOK'
  <2>1. /\ pc' \in [Threads -> {"idle", "lock"} \cup Inside]
        /\ slot' \in [Threads -> Nat]
    <3>1. /\ pc \in [Threads -> {"idle", "lock"} \cup Inside]
          /\ slot \in [Threads -> Nat]
      BY DEF IInv, TypeOK
    <3>2. /\ pc' = pc \/ \E p \in {"prefix", "unlock"} : pc' = [pc EXCEPT ![t] = p]
          /\ slot' = slot \/ slot' = [slot EXCEPT ![t] = @ + 1]
      BY DEF Slot
    <3>3. QED
      BY <3>1, <3>2 DEF Inside
  <2>2. ev' \in [Threads -> [level : 0..MaxLevel, timed : BOOLEAN]]
    <3>1. ev \in [Threads -> [level : 0..MaxLevel, timed : BOOLEAN]]
      BY DEF IInv, TypeOK
    <3>2. ev' = ev \/ ev' = [ev EXCEPT ![t].timed = TRUE]
      BY DEF Slot, InitEvent
    <3>3. QED
      BY <3>1, <3>2
  <2>3. tm' \in AllCalls \cup {None}
    BY <1>2 DEF IInv, TypeOK, Slot, InitEvent
  <2>4. QED
    BY <1>1, <2>1, <2>2, <2>3 DEF IInv, TypeOK, config
<1>4. StreamExists' /\ SilentAtFirst' /\ LineOpen' /\ LinesWhole' /\ TimeIsOwn'
  BY <1>1, <1>3, QuietStep DEF InUse
<1>5. Exclusive'
  BY <1>1 DEF IInv, Exclusive, Inside, config
<1>6. TimeKept'
  <2>1. SUFFICES ASSUME lock_fn PROVE TimeKept'
    BY <1>1 DEF TimeKept, config
  <2>2. \A u \in Threads \ {t} : pc[u] \notin Inside
    BY <1>1, <2>1 DEF IInv, Exclusive, Inside
  <2>3. \A u \in Threads \ {t} : pc'[u] \notin Inside /\ (pc'[u] = "lock" => ~ev'[u].timed)
    BY <1>1, <2>1, <2>2 DEF IInv, TimeKept
  <2>4. CASE pc'[t] = "prefix"
    <3>1. ev'[t].timed = TRUE /\ tm' = IF ev[t].timed THEN tm ELSE Call(t)
      BY <1>1, <2>4 DEF InitEvent, IInv, TypeOK
    <3>2. ev[t].timed => tm = Call(t)
      BY <1>1, <2>1 DEF IInv, TimeKept, Inside
    <3>3. tm' = Call(t)'
      BY <1>1, <3>1, <3>2 DEF Call
    <3>4. QED
      BY <2>3, <2>4, <3>1, <3>3 DEF TimeKept, Inside
  <2>5. CASE pc'[t] # "prefix"
    <3>1. ev'[t].timed => tm' = Call(t)'
      BY <1>1, <2>1, <2>5 DEF IInv, TimeKept, Inside, Call
    <3>2. QED
      BY <1>1, <2>3, <2>5, <3>1 DEF TimeKept, Inside
  <2>6. QED
    BY <2>4, <2>5
<1>7. QED
  BY <1>3, <1>4, <1>5, <1>6 DEF IInv

LEMMA UnlockStep ==
  ASSUME IInv, NEW t \in Threads, Unlock(t)
  PROVE  IInv'
<1>1. /\ pc[t] = "unlock" /\ pc'[t] = "idle"
      /\ \A u \in Threads \ {t} : pc'[u] = pc[u]
      /\ UNCHANGED <<config, slot, calls, ev, tm, out>>
  BY DEF IInv, TypeOK, Unlock
<1>2. TypeOK'
  BY DEF IInv, TypeOK, Unlock, config
<1>3. StreamExists' /\ SilentAtFirst' /\ LineOpen' /\ LinesWhole' /\ TimeIsOwn'
  BY <1>1, <1>2, QuietStep
<1>4. Exclusive'
  BY <1>1 DEF IInv, Exclusive, Inside, config
<1>5. TimeKept'
  BY <1>1 DEF IInv, TimeKept, Inside, Call, config
<1>6. QED
  BY <1>2, <1>3, <1>4, <1>5 DEF IInv

-------------------------------------------------------------------------------
(* The steps that write.                                                     *)
LEMMA WriteStep ==
  ASSUME IInv, NEW t \in Threads, pc[t] \in Writing,
         NEW piece \in Writing, piece = pc[t],
         NEW time \in AllCalls \cup {None},
         Write(t, piece, time),
         lock_fn /\ pc[t] = "prefix" => time = Call(t),
         pc[t] = "prefix" => pc' = [pc EXCEPT ![t] = "message"] /\ slot' = slot,
         pc[t] = "message" => pc' = [pc EXCEPT ![t] = "newline"] /\ slot' = slot,
         pc[t] = "newline" => /\ pc' = [pc EXCEPT ![t] = "slot"]
                              /\ slot' = [slot EXCEPT ![t] = @ + 1],
         UNCHANGED <<config, holder, calls, ev, tm>>
  PROVE  IInv'
<1>1. /\ pc'[t] = IF pc[t] = "prefix" THEN "message"
                  ELSE IF pc[t] = "message" THEN "newline" ELSE "slot"
      /\ slot'[t] = IF pc[t] = "newline" THEN slot[t] + 1 ELSE slot[t]
      /\ \A u \in Threads \ {t} : pc'[u] = pc[u] /\ slot'[u] = slot[u]
  BY DEF IInv, TypeOK, Writing
<1>2. TypeOK'
  <2>1. pc' \in [Threads -> {"idle", "lock"} \cup Inside] /\ slot' \in [Threads -> Nat]
    <3>1. pc \in [Threads -> {"idle", "lock"} \cup Inside] /\ slot \in [Threads -> Nat]
      BY DEF IInv, TypeOK
    <3>2. QED
      BY <3>1 DEF Inside, Writing
  <2>2. out' \in [Files \cup {Stderr} -> Seq(Piece)]
    BY WriteAppends DEF IInv
  <2>3. QED
    BY <2>1, <2>2 DEF IInv, TypeOK, config
<1>3. StreamExists'
  BY <1>1 DEF IInv, StreamExists, Writing, config
<1>4. SilentAtFirst'
  BY DEF IInv, StreamExists, SilentAtFirst, Writing
<1>5. Exclusive'
  BY <1>1 DEF IInv, Exclusive, Inside, Writing, config
<1>6. TimeKept'
  BY <1>1 DEF IInv, TimeKept, Inside, Writing, Call, config
<1>7. /\ LinesWhole' /\ TimeIsOwn'
      /\ EndsWith(Stream(t), Call(t), piece)' \/ slot'[t] # slot[t]
  <2>1. /\ TypeOK /\ StreamExists /\ LinesWhole /\ TimeIsOwn
        /\ UNCHANGED <<config, calls>>
        /\ lock_fn => /\ piece = "prefix" => time = Call(t)
                      /\ piece = "message" => EndsWith(Stream(t), Call(t), "prefix")
                      /\ piece = "newline" => EndsWith(Stream(t), Call(t), "message")
    BY DEF IInv, LineOpen
  <2>2. QED
    BY <2>1, WriteKeepsLines
<1>8. LineOpen'
  <2>1. SUFFICES ASSUME lock_fn PROVE LineOpen'
    BY DEF LineOpen, config
  <2>2. \A u \in Threads \ {t} : pc[u] \notin Inside
    BY <2>1 DEF IInv, Exclusive, Inside, Writing
  <2>3. pc'[t] \in {"message", "newline"} => EndsWith(Stream(t), Call(t), piece)'
    BY <1>1, <1>7
  <2>4. \A u \in Threads \ {t} : pc'[u] \notin {"message", "newline"}
    BY <1>1, <2>2 DEF Inside
  <2>5. /\ pc'[t] = "message" => piece = "prefix"
        /\ pc'[t] = "newline" => piece = "message"
    BY <1>1
  <2>6. QED
    BY <2>3, <2>4, <2>5 DEF LineOpen
<1>9. QED
  BY <1>2, <1>3, <1>4, <1>5, <1>6, <1>7, <1>8 DEF IInv

LEMMA WriteSteps ==
  ASSUME IInv, NEW t \in Threads, Prefix(t) \/ Message(t) \/ Newline(t)
  PROVE  IInv'
<1>1. CASE Prefix(t)
  <2>1. tm \in AllCalls \cup {None} /\ (lock_fn => tm = Call(t))
    BY <1>1 DEF Prefix, IInv, TypeOK, TimeKept, Inside
  <2>2. QED
    BY <1>1, <2>1, WriteStep DEF Prefix, Writing
<1>2. CASE Message(t)
  BY <1>2, WriteStep DEF Message, Writing
<1>3. CASE Newline(t)
  BY <1>3, WriteStep DEF Newline, Writing
<1>4. QED
  BY <1>1, <1>2, <1>3

LEMMA NextIInv ==
  ASSUME IInv, [Next]_loggerVars
  PROVE  IInv'
<1>1. CASE UNCHANGED loggerVars
  BY <1>1, ZenonT(30)
  DEF loggerVars, config, IInv, TypeOK, StreamExists, SilentAtFirst, Exclusive,
      LineOpen, EndsWith, Stream, Call, TimeKept, LinesWhole, TimeIsOwn
<1>2. CASE Next
  BY <1>2, ConfigSteps, LogCallStep, EnterStep, SlotStep, WriteSteps, UnlockStep DEF Next
<1>3. QED
  BY <1>1, <1>2

-------------------------------------------------------------------------------
(* IInv of Logger holds whenever log_log is called, from any threads.        *)
THEOREM LoggerInvariance == Spec => []IInv
<1>1. ASSUME Init
      PROVE  IInv
  <2>1. TypeOK
    <3>1. {lock_fn, quiet} \subseteq BOOLEAN
      BY <1>1, Zenon DEF Init
    <3>2. callbacks \in Seq([file : Files, level : 0..MaxLevel]) /\ level \in 0..MaxLevel
      BY <1>1, LoggerAssumption DEF Init
    <3>3. /\ ev \in [Threads -> [level : 0..MaxLevel, timed : BOOLEAN]]
          /\ out \in [Files \cup {Stderr} -> Seq(Piece)]
      BY <1>1, LoggerAssumption DEF Init
    <3>4. QED
      BY <1>1, <3>1, <3>2, <3>3 DEF Init, TypeOK
  <2>2. QED
    BY <1>1, <2>1
    DEF Init, IInv, StreamExists, SilentAtFirst, Exclusive, LineOpen, TimeKept,
        LinesWhole, TimeIsOwn, Inside
<1>2. IInv /\ [Next]_loggerVars => IInv'
  BY NextIInv
<1>3. QED
  BY <1>1, <1>2, PTL DEF Spec

(* The prefix, message and newline of a line are adjacent on every stream.   *)
THEOREM LinesAreWhole == Spec => []LinesWhole
<1>1. IInv => LinesWhole
  BY DEF IInv
<1>2. QED
  BY <1>1, LoggerInvariance, PTL

(* A line never shows the time of another thread's call.                     *)
THEOREM TimesAreOwn == Spec => []TimeIsOwn
<1>1. IInv => TimeIsOwn
  BY DEF IInv
<1>2. QED
  BY <1>1, LoggerInvariance, PTL

-------------------------------------------------------------------------------
(* With and without a lock: the passes of the loop over the callbacks.        *)

StreamAt(i) == IF i = 0 THEN Stderr ELSE callbacks[i].file

WantedAt(t, i) ==
  IF i = 0 THEN ~quiet /\ ev[t].level >= level ELSE ev[t].level >= callbacks[i].level

(* A pass that is over has been for stream s, which asks for the line.       *)
Asked(t, s) ==
  \E i \in 0..Len(callbacks) : i < slot[t] /\ StreamAt(i) = s /\ WantedAt(t, i)

OnCourse(t) ==
  /\ slot[t] <= Len(callbacks) + 1
  /\ pc[t] \in Writing => WantedAt(t, slot[t])
  /\ pc[t] = "unlock" => slot[t] = Len(callbacks) + 1
  /\ \A s \in Files \cup {Stderr} : Lines(t, s) = IF Asked(t, s) THEN 1 ELSE 0

FilesOnce == \A i, k \in 1..Len(callbacks) : callbacks[i].file = callbacks[k].file => i = k

NoLaterCall ==
  \A s \in DOMAIN out : \A k \in 1..Len(out[s]) : out[s][k].call[2] <= calls[out[s][k].call[1]]

DeliveryInv ==
  FilesOnce /\ NoLaterCall /\ \A t \in Threads : pc[t] # "idle" => OnCourse(t)

(* The lines of a call among what is on a stream.                            *)
Ends(q, call) == {k \in 1..Len(q) : q[k].call = call /\ q[k].piece = "newline"}

LEMMA EndsAppend ==
  ASSUME NEW q \in Seq(Piece), NEW e \in Piece, NEW call
  PROVE  Cardinality(Ends(Append(q, e), call)) =
           IF e.call = call /\ e.piece = "newline"
           THEN Cardinality(Ends(q, call)) + 1 ELSE Cardinality(Ends(q, call))
<1> DEFINE n == Len(q)
           r == Append(q, e)
<1>1. /\ n \in Nat /\ Len(r) = n + 1 /\ r[n + 1] = e
      /\ \A k \in 1..n : r[k] = q[k]
  OBVIOUS
<1>2. Ends(r, call) = IF e.call = call /\ e.piece = "newline"
                      THEN Ends(q, call) \cup {n + 1} ELSE Ends(q, call)
  <2> HIDE DEF r
  <2>1. 1..n + 1 = 1..n \cup {n + 1}
    BY <1>1
  <2>2. QED
    BY <1>1, <2>1 DEF Ends
<1>3. IsFiniteSet(Ends(q, call)) /\ n + 1 \notin Ends(q, call)
  <2>1. IsFiniteSet(1..n) /\ Ends(q, call) \subseteq 1..n
    BY <1>1, FS_Interval DEF Ends
  <2>2. QED
    BY <1>1, <2>1, FS_Subset
<1>4. Cardinality(Ends(q, call) \cup {n + 1}) = Cardinality(Ends(q, call)) + 1
  BY <1>3, FS_AddElement
<1>5. QED
  BY <1>2, <1>4

LEMMA LinesAreEnds ==
  \A t, s : Lines(t, s) = Cardinality(Ends(out[s], Call(t)))
BY DEF Lines, Ends

(* A piece that is written ends a line of its own call, or none.             *)
LEMMA WriteCounts ==
  ASSUME TypeOK, StreamExists, NoLaterCall, NEW t \in Threads, pc[t] \in Writing,
         NEW piece \in Writing, NEW time \in AllCalls \cup {None},
         Write(t, piece, time), UNCHANGED calls
  PROVE  /\ NoLaterCall'
         /\ \A u \in Threads, s \in Files \cup {Stderr} :
              Lines(u, s)' = IF u = t /\ s = Stream(t) /\ piece = "newline"
                             THEN Lines(u, s) + 1 ELSE Lines(u, s)
<1> DEFINE S == Stream(t)
           e == [call |-> Call(t), piece |-> piece, time |-> time]
<1>1. /\ S \in DOMAIN out /\ e \in Piece /\ DOMAIN out' = DOMAIN out
      /\ DOMAIN out = Files \cup {Stderr} /\ out[S] \in Seq(Piece)
      /\ out'[S] = Append(out[S], e)
      /\ \A r \in DOMAIN out : r # S => out'[r] = out[r]
  <2>1. /\ S \in DOMAIN out /\ e \in Piece /\ DOMAIN out' = DOMAIN out
        /\ out'[S] = Append(out[S], e)
        /\ \A r \in DOMAIN out : r # S => out'[r] = out[r]
    BY WriteAppends
  <2>2. DOMAIN out = Files \cup {Stderr} /\ out[S] \in Seq(Piece)
    BY <2>1 DEF TypeOK
  <2>3. QED
    BY <2>1, <2>2
<1>2. e.call = Call(t) /\ e.piece = piece /\ calls[t] \in Nat
  BY DEF TypeOK
<1> HIDE DEF S, e
<1>3. NoLaterCall'
  <2>1. ASSUME NEW r \in DOMAIN out, NEW k \in 1..Len(out'[r])
        PROVE  out'[r][k].call[2] <= calls[out'[r][k].call[1]]
    <3>1. CASE r # S
      BY <1>1, <2>1, <3>1 DEF NoLaterCall
    <3>2. CASE r = S /\ k \in 1..Len(out[S])
      <4>1. out'[S][k] = out[S][k]
        BY <1>1, <3>2
      <4>2. QED
        BY <1>1, <3>2, <4>1 DEF NoLaterCall
    <3>3. CASE r = S /\ k = Len(out[S]) + 1
      <4>1. out'[S][k] = e
        BY <1>1, <3>3
      <4>2. QED
        BY <1>2, <3>3, <4>1 DEF Call
    <3>4. Len(out'[S]) = Len(out[S]) + 1 /\ Len(out[S]) \in Nat
      BY <1>1
    <3>5. QED
      BY <2>1, <3>1, <3>2, <3>3, <3>4
  <2>2. QED
    BY <1>1, <2>1 DEF NoLaterCall
<1>4. ASSUME NEW u \in Threads, NEW s \in Files \cup {Stderr}
      PROVE  Lines(u, s)' = IF u = t /\ s = S /\ piece = "newline"
                            THEN Lines(u, s) + 1 ELSE Lines(u, s)
  <2>1. Lines(u, s)' = Cardinality(Ends(out'[s], Call(u)))
    BY LinesAreEnds DEF Call, Lines, Ends
  <2>2. CASE s # S
    BY <1>1, <2>1, <2>2, LinesAreEnds
  <2>3. CASE s = S
    <3>1. Call(t) = Call(u) <=> u = t
      BY DEF Call
    <3>2. QED
      BY <1>1, <1>2, <2>1, <2>3, <3>1, EndsAppend, LinesAreEnds
  <2>4. QED
    BY <2>2, <2>3
<1>5. QED
  BY <1>3, <1>4 DEF S

(* A thread that neither ends a pass nor begins a call.                      *)
LEMMA StaysOnCourse ==
  ASSUME NEW u \in Threads, OnCourse(u), UNCHANGED config,
         slot'[u] = slot[u], ev'[u].level = ev[u].level,
         \A s \in Files \cup {Stderr} : Lines(u, s)' = Lines(u, s),
         pc'[u] \in Writing => pc[u] \in Writing \/ WantedAt(u, slot[u]),
         pc'[u] = "unlock" => pc[u] = "unlock" \/ slot[u] = Len(callbacks) + 1
  PROVE  OnCourse(u)'
<1>1. /\ \A i : WantedAt(u, i)' = WantedAt(u, i) /\ StreamAt(i)' = StreamAt(i)
      /\ callbacks' = callbacks
  BY DEF WantedAt, StreamAt, config
<1>2. \A s : Asked(u, s)' = Asked(u, s)
  BY <1>1 DEF Asked
<1>3. QED
  BY <1>1, <1>2 DEF OnCourse

(* The pass is over: it has been for a stream of its own.                    *)
LEMMA PassEnds ==
  ASSUME TypeOK, FilesOnce, NEW t \in Threads, OnCourse(t), UNCHANGED config,
         slot[t] <= Len(callbacks), slot'[t] = slot[t] + 1, ev'[t].level = ev[t].level,
         pc'[t] = "slot",
         \A s \in Files \cup {Stderr} :
           Lines(t, s)' = IF s = Stream(t) /\ WantedAt(t, slot[t])
                          THEN Lines(t, s) + 1 ELSE Lines(t, s)
  PROVE  OnCourse(t)'
<1> DEFINE n == slot[t]
<1>1. /\ n \in 0..Len(callbacks) /\ Len(callbacks) \in Nat /\ callbacks' = callbacks
      /\ \A i : WantedAt(t, i)' = WantedAt(t, i) /\ StreamAt(i)' = StreamAt(i)
      /\ Stream(t) = StreamAt(n)
  BY DEF WantedAt, StreamAt, Stream, config, TypeOK
<1>2. \A i \in 1..Len(callbacks) : callbacks[i].file \in Files
  <2> DEFINE Entry == [file : Files, level : 0..MaxLevel]
  <2>1. callbacks \in Seq(Entry)
    BY DEF TypeOK
  <2> HIDE DEF Entry
  <2>2. \A i \in 1..Len(callbacks) : callbacks[i] \in Entry
    BY <2>1
  <2>3. QED
    BY <2>2 DEF Entry
<1>3. \A i \in 0..Len(callbacks) : StreamAt(i) = StreamAt(n) => i = n
  BY <1>1, <1>2, LoggerAssumption DEF StreamAt, FilesOnce
<1> HIDE DEF n
<1>4. ASSUME NEW s \in Files \cup {Stderr}
      PROVE  Asked(t, s)' <=> Asked(t, s) \/ (s = StreamAt(n) /\ WantedAt(t, n))
  <2>1. \A i \in 0..Len(callbacks) : i < slot'[t] <=> i < n \/ i = n
    BY <1>1 DEF n
  <2>2. QED
    BY <1>1, <2>1 DEF Asked, n
<1>5. ~Asked(t, StreamAt(n))
  BY <1>1, <1>3 DEF Asked, n
<1>6. \A s \in Files \cup {Stderr} : Lines(t, s)' = IF Asked(t, s)' THEN 1 ELSE 0
  <2>1. TAKE s \in Files \cup {Stderr}
  <2>2. Lines(t, s) = IF Asked(t, s) THEN 1 ELSE 0
    BY DEF OnCourse
  <2>3. Lines(t, s)' = IF s = StreamAt(n) /\ WantedAt(t, n) THEN Lines(t, s) + 1 ELSE Lines(t, s)
    BY <1>1 DEF n
  <2>4. QED
    BY <1>4, <1>5, <2>2, <2>3
<1>7. slot'[t] <= Len(callbacks') + 1 /\ pc'[t] \notin Writing /\ pc'[t] # "unlock"
  BY <1>1 DEF Writing, n
<1>8. QED
  BY <1>6, <1>7 DEF OnCourse

LEMMA ConfigDelivers ==
  ASSUME IInv, DeliveryInv,
         \/ SetLock
         \/ \E l \in 0..MaxLevel : SetLevel(l)
         \/ \E enable \in BOOLEAN : SetQuiet(enable)
         \/ \E file \in Files, l \in 0..MaxLevel : AddCallback(file, l)
  PROVE  DeliveryInv'
<1>1. Idle /\ UNCHANGED <<pc, out, calls>>
  <2>1. SetLock => Idle
    BY DEF SetLock, Idle, IInv, StreamExists
  <2>2. QED
    BY <2>1 DEF SetLock, SetLevel, SetQuiet, AddCallback
<1>2. NoLaterCall' /\ \A t \in Threads : pc'[t] = "idle"
  BY <1>1 DEF DeliveryInv, NoLaterCall, Idle
<1>3. FilesOnce'
  <2>1. CASE UNCHANGED callbacks
    BY <2>1 DEF DeliveryInv, FilesOnce
  <2>2. ASSUME NEW file \in Files, NEW l \in 0..MaxLevel,
               \A k \in 1..Len(callbacks) : callbacks[k].file # file,
               callbacks' = Append(callbacks, [file |-> file, level |-> l])
        PROVE  FilesOnce'
    <3> DEFINE n == Len(callbacks)
    <3>1. /\ n \in Nat /\ Len(callbacks') = n + 1 /\ callbacks'[n + 1].file = file
          /\ \A k \in 1..n : callbacks'[k] = callbacks[k]
      BY <2>2 DEF IInv, TypeOK
    <3> HIDE DEF n
    <3>2. \A k \in 1..n + 1 : k \in 1..n \/ k = n + 1
      BY <3>1
    <3>3. \A i, k \in 1..n : callbacks[i].file = callbacks[k].file => i = k
      BY DEF DeliveryInv, FilesOnce, n
    <3>4. \A k \in 1..n : callbacks[k].file # file
      BY <2>2 DEF n
    <3>5. \A i, k \in 1..n + 1 : callbacks'[i].file = callbacks'[k].file => i = k
      BY <3>1, <3>2, <3>3, <3>4
    <3>6. QED
      BY <3>1, <3>5 DEF FilesOnce
  <2>3. QED
    BY <2>1, <2>2 DEF SetLock, SetLevel, SetQuiet, AddCallback
<1>4. QED
  BY <1>2, <1>3 DEF DeliveryInv

LEMMA LogCallDelivers ==
  ASSUME IInv, DeliveryInv, NEW t \in Threads, NEW l \in 0..MaxLevel, LogCall(t, l)
  PROVE  DeliveryInv'
<1>1. /\ UNCHANGED <<config, out>> /\ calls'[t] = calls[t] + 1 /\ calls[t] \in Nat
      /\ slot'[t] = 0 /\ pc'[t] = "lock"
      /\ calls \in [Threads -> Nat] /\ calls' = [calls EXCEPT ![t] = @ + 1]
      /\ \A u \in Threads \ {t} :
           pc'[u] = pc[u] /\ slot'[u] = slot[u] /\ ev'[u] = ev[u] /\ calls'[u] = calls[u]
      /\ out \in [Files \cup {Stderr} -> Seq(Piece)]
  BY DEF LogCall, IInv, TypeOK
<1>2. \A s \in DOMAIN out : \A k \in 1..Len(out[s]) : out[s][k].call \in Threads \X Nat
  <2>1. TAKE s \in DOMAIN out
  <2>2. TAKE k \in 1..Len(out[s])
  <2>3. out[s][k] \in Piece
    BY <1>1
  <2>4. QED
    BY <2>3 DEF Piece, AllCalls
<1>3. ASSUME NEW s \in DOMAIN out, NEW k \in 1..Len(out[s])
      PROVE  /\ out[s][k].call[2] <= calls'[out[s][k].call[1]]
             /\ out[s][k].call # <<t, calls'[t]>>
  <2>1. PICK u \in Threads, m \in Nat : out[s][k].call = <<u, m>>
    BY <1>2
  <2>2. m <= calls[u]
    BY <2>1 DEF DeliveryInv, NoLaterCall
  <2>3. calls[u] \in Nat /\ calls'[u] \in Nat /\ calls[u] <= calls'[u]
    <3>1. CASE u = t
      BY <1>1, <3>1
    <3>2. CASE u # t
      BY <1>1, <3>2
    <3>3. QED
      BY <3>1, <3>2
  <2>4. QED
    BY <1>1, <2>1, <2>2, <2>3
<1>4. NoLaterCall'
  BY <1>1, <1>3 DEF NoLaterCall
<1>5. FilesOnce'
  BY <1>1 DEF DeliveryInv, FilesOnce, config
<1>6. OnCourse(t)'
  <2>1. ASSUME NEW s \in Files \cup {Stderr} PROVE Lines(t, s)' = 0 /\ ~Asked(t, s)'
    <3>1. {k \in 1..Len(out[s]) : out[s][k].call = <<t, calls'[t]>> /\ out[s][k].piece = "newline"} = {}
      BY <1>1, <1>3, SMTT(30)
    <3>2. Lines(t, s)' = 0
      BY <1>1, <3>1, FS_EmptySet DEF Lines, Call
    <3>3. QED
      BY <1>1, <3>2 DEF Asked
  <2>2. Len(callbacks') \in Nat
    BY <1>1 DEF IInv, TypeOK, config
  <2>3. QED
    BY <1>1, <2>1, <2>2 DEF OnCourse, Writing
<1>7. ASSUME NEW u \in Threads \ {t}, pc'[u] # "idle" PROVE OnCourse(u)'
  <2>1. \A s \in Files \cup {Stderr} : Lines(u, s)' = Lines(u, s)
    BY <1>1, <1>7 DEF Lines, Call
  <2>2. OnCourse(u)
    BY <1>1, <1>7 DEF DeliveryInv
  <2>3. QED
    BY <1>1, <1>7, <2>1, <2>2, StaysOnCourse
<1>8. QED
  BY <1>4, <1>5, <1>6, <1>7 DEF DeliveryInv

(* The steps of t inside log_log, by what they do to t.                      *)
LEMMA StepDelivers ==
  ASSUME DeliveryInv, NEW t \in Threads, UNCHANGED <<config, calls>>, NoLaterCall',
         \A u \in Threads \ {t} : pc'[u] = pc[u] /\ slot'[u] = slot[u] /\ ev'[u] = ev[u],
         \A u \in Threads \ {t}, s \in Files \cup {Stderr} : Lines(u, s)' = Lines(u, s),
         pc'[t] # "idle" => OnCourse(t)'
  PROVE  DeliveryInv'
<1>1. FilesOnce'
  BY DEF DeliveryInv, FilesOnce, config
<1>2. ASSUME NEW u \in Threads \ {t}, pc'[u] # "idle" PROVE OnCourse(u)'
  <2>1. OnCourse(u)
    BY <1>2 DEF DeliveryInv
  <2>2. QED
    BY <1>2, <2>1, StaysOnCourse
<1>3. QED
  BY <1>1, <1>2 DEF DeliveryInv

LEMMA SilentStepDelivers ==
  ASSUME IInv, DeliveryInv, NEW t \in Threads, Enter(t) \/ Slot(t) \/ Unlock(t)
  PROVE  DeliveryInv'
<1>1. /\ UNCHANGED <<config, calls, out>> /\ pc[t] # "idle"
      /\ \A u \in Threads \ {t} : pc'[u] = pc[u] /\ slot'[u] = slot[u] /\ ev'[u] = ev[u]
      /\ pc'[t] \in {"slot", "prefix", "unlock", "idle"} /\ ev'[t].level = ev[t].level
      /\ pc'[t] = "prefix" => WantedAt(t, slot[t]) /\ slot'[t] = slot[t]
      /\ pc'[t] = "unlock" => slot[t] > Len(callbacks) /\ slot'[t] = slot[t]
      /\ \/ slot'[t] = slot[t]
         \/ /\ slot[t] <= Len(callbacks) /\ ~WantedAt(t, slot[t])
            /\ slot'[t] = slot[t] + 1 /\ pc'[t] = "slot"
      /\ slot[t] \in Nat /\ Len(callbacks) \in Nat
  <2>1. pc \in [Threads -> {"idle", "lock"} \cup Inside] /\ slot \in [Threads -> Nat]
        /\ ev \in [Threads -> [level : 0..MaxLevel, timed : BOOLEAN]]
        /\ Len(callbacks) \in Nat
    BY DEF IInv, TypeOK
  <2>2. CASE Enter(t)
    BY <2>1, <2>2 DEF Enter
  <2>3. CASE Slot(t)
    BY <2>1, <2>3 DEF Slot, InUse, Wanted, WantedAt, InitEvent
  <2>4. CASE Unlock(t)
    BY <2>1, <2>4 DEF Unlock
  <2>5. QED
    BY <2>2, <2>3, <2>4
<1>2. /\ \A u \in Threads, s \in Files \cup {Stderr} : Lines(u, s)' = Lines(u, s)
      /\ NoLaterCall'
  BY <1>1 DEF Lines, Call, DeliveryInv, NoLaterCall
<1>3. OnCourse(t) /\ FilesOnce /\ TypeOK
  BY <1>1 DEF DeliveryInv, IInv
<1>4. ASSUME pc'[t] # "idle" PROVE OnCourse(t)'
  <2>1. CASE slot'[t] = slot[t]
    <3>1. pc'[t] = "unlock" => slot[t] = Len(callbacks) + 1
      BY <1>1, <1>3 DEF OnCourse
    <3>2. pc'[t] \in Writing => WantedAt(t, slot[t])
      BY <1>1 DEF Writing
    <3>3. QED
      BY <1>1, <1>2, <1>3, <2>1, <3>1, <3>2, StaysOnCourse
  <2>2. CASE /\ slot[t] <= Len(callbacks) /\ ~WantedAt(t, slot[t])
             /\ slot'[t] = slot[t] + 1 /\ pc'[t] = "slot"
    BY <1>1, <1>2, <1>3, <2>2, PassEnds
  <2>3. QED
    BY <1>1, <2>1, <2>2
<1>5. QED
  BY <1>1, <1>2, <1>4, StepDelivers

LEMMA WriteDelivers ==
  ASSUME IInv, DeliveryInv, NEW t \in Threads, Prefix(t) \/ Message(t) \/ Newline(t)
  PROVE  DeliveryInv'
<1>1. /\ pc[t] \in Writing /\ UNCHANGED <<config, calls, ev>>
      /\ \A u \in Threads \ {t} : pc'[u] = pc[u] /\ slot'[u] = slot[u] /\ ev'[u] = ev[u]
      /\ TypeOK /\ StreamExists /\ FilesOnce /\ NoLaterCall /\ OnCourse(t)
      /\ slot[t] <= Len(callbacks)
  BY DEF Prefix, Message, Newline, Writing, IInv, TypeOK, DeliveryInv, StreamExists
<1>2. ASSUME Prefix(t) \/ Message(t) PROVE DeliveryInv'
  <2>1. PICK piece \in {"prefix", "message"}, time \in AllCalls \cup {None} : Write(t, piece, time)
    BY <1>1, <1>2 DEF Prefix, Message, TypeOK
  <2>2. /\ NoLaterCall'
        /\ \A u \in Threads, s \in Files \cup {Stderr} : Lines(u, s)' = Lines(u, s)
    BY <1>1, <2>1, WriteCounts DEF Writing
  <2>3. /\ slot'[t] = slot[t] /\ pc'[t] # "unlock"
    BY <1>1, <1>2 DEF Prefix, Message, TypeOK
  <2>4. OnCourse(t)'
    BY <1>1, <2>2, <2>3, StaysOnCourse
  <2>5. QED
    BY <1>1, <2>2, <2>4, StepDelivers
<1>3. ASSUME Newline(t) PROVE DeliveryInv'
  <2>1. Write(t, "newline", None) /\ slot'[t] = slot[t] + 1 /\ pc'[t] = "slot"
    BY <1>1, <1>3 DEF Newline, TypeOK
  <2>2. /\ NoLaterCall'
        /\ \A u \in Threads, s \in Files \cup {Stderr} :
             Lines(u, s)' = IF u = t /\ s = Stream(t) THEN Lines(u, s) + 1 ELSE Lines(u, s)
    BY <1>1, <2>1, WriteCounts DEF Writing
  <2>3. WantedAt(t, slot[t])
    BY <1>1 DEF OnCourse
  <2>4. OnCourse(t)'
    BY <1>1, <2>1, <2>2, <2>3, PassEnds
  <2>5. QED
    BY <1>1, <2>2, <2>4, StepDelivers
<1>4. QED
  BY <1>2, <1>3

(* Every call of log_log writes its line once to each stream that asks for   *)
(* it, and to no other, with a lock function or without.                     *)
THEOREM EveryStreamGetsLine == Spec => []Delivered
<1>1. ASSUME Init
      PROVE  DeliveryInv
  <2>1. \A s \in DOMAIN out : out[s] = <<>>
    BY <1>1 DEF Init
  <2>2. QED
    BY <1>1, <2>1 DEF Init, DeliveryInv, FilesOnce, NoLaterCall
<1>2. ASSUME IInv, DeliveryInv, [Next]_loggerVars
      PROVE  DeliveryInv'
  <2>1. CASE UNCHANGED loggerVars
    <3>1. UNCHANGED <<config, pc, slot, calls, ev, out>>
      BY <2>1 DEF loggerVars
    <3>2. FilesOnce' /\ NoLaterCall' /\ \A u \in Threads : OnCourse(u)' = OnCourse(u)
      BY <1>2, <3>1 DEF DeliveryInv, FilesOnce, NoLaterCall, OnCourse, Asked, StreamAt,
                        WantedAt, Lines, Call, config
    <3>3. QED
      BY <1>2, <3>1, <3>2 DEF DeliveryInv
  <2>2. CASE Next
    BY <1>2, <2>2, ConfigDelivers, LogCallDelivers, SilentStepDelivers, WriteDelivers DEF Next
  <2>3. QED
    BY <1>2, <2>1, <2>2
<1>3. ASSUME IInv, DeliveryInv
      PROVE  Delivered
  <2>1. SUFFICES ASSUME NEW t \in Threads, pc[t] = "unlock"
                 PROVE  /\ Lines(t, Stderr) = IF ~quiet /\ ev[t].level >= level THEN 1 ELSE 0
                        /\ \A f \in Files :
                             Lines(t, f) = IF \E k \in 1..Len(callbacks) :
                                                callbacks[k].file = f
                                                /\ ev[t].level >= callbacks[k].level
                                           THEN 1 ELSE 0
    BY DEF Delivered
  <2>2. /\ slot[t] = Len(callbacks) + 1 /\ Len(callbacks) \in Nat /\ Stderr \notin Files
        /\ \A s \in Files \cup {Stderr} : Lines(t, s) = IF Asked(t, s) THEN 1 ELSE 0
    BY <1>3, <2>1, LoggerAssumption DEF DeliveryInv, OnCourse, IInv, TypeOK
  <2>3. \A k \in 1..Len(callbacks) : callbacks[k].file \in Files
    <3> DEFINE Entry == [file : Files, level : 0..MaxLevel]
    <3>1. callbacks \in Seq(Entry)
      BY <1>3 DEF IInv, TypeOK
    <3> HIDE DEF Entry
    <3>2. \A k \in 1..Len(callbacks) : callbacks[k] \in Entry
      BY <3>1
    <3>3. QED
      BY <3>2 DEF Entry
  <2>4. Asked(t, Stderr) <=> ~quiet /\ ev[t].level >= level
    BY <2>2, <2>3 DEF Asked, StreamAt, WantedAt
  <2>5. ASSUME NEW f \in Files
        PROVE  Asked(t, f) <=> \E k \in 1..Len(callbacks) :
                                 callbacks[k].file = f /\ ev[t].level >= callbacks[k].level
    BY <2>2, <2>5 DEF Asked, StreamAt, WantedAt
  <2>6. QED
    BY <2>2, <2>4, <2>5
<1>4. QED
  BY <1>1, <1>2, <1>3, LoggerInvariance, PTL DEF Spec
===============================================================================
