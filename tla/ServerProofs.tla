----------------------------- MODULE ServerProofs -----------------------------
(***************************************************************************)
(* The server for any number of clients, descriptors, events and jobs: every *)
(* variable keeps its type, and the unsigned counter of connections never    *)
(* wraps.  The invariant is proved in four parts, for the kernel's queues,   *)
(* the loop, the jobs and the count; an action has to be looked at only for  *)
(* the parts it disturbs.                                                    *)
(*                                                                          *)
(* First what the kernel of Sockets.tla does to its ready list.  Keep is      *)
(* recursive, so what it returns takes an induction on the length of the     *)
(* sequence (Induct).                                                        *)
(***************************************************************************)
EXTENDS Server, Induction, FiniteSetTheorems

-------------------------------------------------------------------------------
(* One step of the recursion of Keep.                                        *)
Step(s, S, f, i) ==
  IF i = 0 THEN <<>>
  ELSE IF s[i] \in S THEN Append(f[i - 1], s[i]) ELSE f[i - 1]

(* What has been kept of the first n elements of s: those that are in S, and *)
(* none twice if s has none twice.                                           *)
From(s, S, n, t) ==
  /\ \A k \in 1..Len(t) : \E i \in 1..n : s[i] \in S /\ t[k] = s[i]
  /\ \A i \in 1..n : s[i] \in S => \E k \in 1..Len(t) : t[k] = s[i]
  /\ Distinct(s) => Distinct(t)

(* The functions that follow the recursion up to n.                          *)
Prefixes(E, s, S, n) ==
  {f \in [0..n -> Seq(E)] : \A i \in 0..n : f[i] = Step(s, S, f, i)}

LEMMA StepType ==
  ASSUME NEW E, NEW s \in Seq(E), NEW S, NEW f, NEW i \in 1..Len(s), f[i - 1] \in Seq(E)
  PROVE  Step(s, S, f, i) \in Seq(E)
<1>1. s[i] \in E /\ i # 0
  OBVIOUS
<1>2. QED
  BY <1>1 DEF Step

LEMMA PrefixGrows ==
  ASSUME NEW E, NEW s \in Seq(E), NEW S, NEW n \in 1..Len(s),
         Prefixes(E, s, S, n - 1) # {}
  PROVE  Prefixes(E, s, S, n) # {}
<1>1. PICK g : g \in Prefixes(E, s, S, n - 1)
  OBVIOUS
<1>2. /\ g \in [0..n - 1 -> Seq(E)] /\ g[n - 1] \in Seq(E)
      /\ \A i \in 0..n - 1 : g[i] = Step(s, S, g, i)
  BY <1>1 DEF Prefixes
<1> DEFINE e == Step(s, S, g, n)
           f == [i \in 0..n |-> IF i = n THEN e ELSE g[i]]
<1>3. e \in Seq(E)
  BY <1>2, StepType
<1> HIDE DEF e
<1>4. f \in [0..n -> Seq(E)]
  BY <1>2, <1>3
<1>5. ASSUME NEW i \in 0..n PROVE f[i] = Step(s, S, f, i)
  <2>1. CASE i = n
    <3>1. f[n] = e /\ f[n - 1] = g[n - 1]
      OBVIOUS
    <3>2. QED
      BY <2>1, <3>1 DEF e, Step
  <2>2. CASE i # n
    <3>1. i \in 0..n - 1 /\ f[i] = g[i] /\ (i # 0 => f[i - 1] = g[i - 1])
      BY <2>2
    <3>2. QED
      BY <1>2, <3>1 DEF Step
  <2>3. QED
    BY <2>1, <2>2
<1> HIDE DEF f
<1>6. f \in Prefixes(E, s, S, n)
  BY <1>4, <1>5 DEF Prefixes
<1>7. QED
  BY <1>6

(* The recursion of Keep defines a function.                                 *)
LEMMA KeepFollows ==
  ASSUME NEW E, NEW s \in Seq(E), NEW S
  PROVE  \E f \in Prefixes(E, s, S, Len(s)) : Keep(s, S) = f[Len(s)]
<1> DEFINE T == {n \in 0..Len(s) : Prefixes(E, s, S, n) # {}}
<1>1. 0 \in T
  <2> DEFINE f == [i \in 0..0 |-> <<>>]
  <2>1. f \in Prefixes(E, s, S, 0)
    BY DEF Prefixes, Step
  <2>2. QED
    BY <2>1
<1>2. ASSUME NEW n \in 1..Len(s), n - 1 \in T PROVE n \in T
  BY <1>2, PrefixGrows
<1>3. Len(s) \in Nat
  OBVIOUS
<1> HIDE DEF T
<1>4. 0..Len(s) \subseteq T
  BY <1>1, <1>2, <1>3, Induct
<1>5. PICK g : g \in Prefixes(E, s, S, Len(s))
  BY <1>3, <1>4 DEF T
<1> DEFINE Law(f) == f = [i \in 0..Len(s) |->
                            IF i = 0 THEN <<>>
                            ELSE IF s[i] \in S THEN Append(f[i - 1], s[i]) ELSE f[i - 1]]
           kept == CHOOSE f : Law(f)
<1>6. Law(g)
  BY <1>5 DEF Prefixes, Step
<1>7. Law(kept)
  <2> HIDE DEF Law
  <2>1. QED
    BY <1>6, Zenon
<1>8. Keep(s, S) = kept[Len(s)]
  BY DEF Keep
<1> HIDE DEF kept
<1>9. ASSUME NEW i \in 0..Len(s) PROVE kept[i] = Step(s, S, kept, i)
  BY <1>7 DEF Step
<1>10. kept \in [0..Len(s) -> Seq(E)]
  <2> DEFINE U == {n \in 0..Len(s) : kept[n] \in Seq(E)}
  <2>1. 0 \in U
    <3>1. 0 \in 0..Len(s) /\ Step(s, S, kept, 0) = <<>>
      BY <1>3 DEF Step
    <3>2. kept[0] = <<>>
      BY <1>9, <3>1
    <3>3. <<>> \in Seq(E)
      OBVIOUS
    <3>4. kept[0] \in Seq(E)
      BY <3>2, <3>3, Zenon
    <3>5. QED
      BY <3>1, <3>4
  <2>2. ASSUME NEW n \in 1..Len(s), n - 1 \in U PROVE n \in U
    BY <1>9, <2>2, StepType
  <2> HIDE DEF U
  <2>3. 0..Len(s) \subseteq U
    BY <2>1, <2>2, <1>3, Induct
  <2>4. \A n \in 0..Len(s) : kept[n] \in Seq(E)
    BY <2>3 DEF U
  <2>5. kept = [i \in 0..Len(s) |-> kept[i]]
    BY <1>7
  <2>6. QED
    BY <2>4, <2>5
<1>11. QED
  BY <1>8, <1>9, <1>10 DEF Prefixes

LEMMA StepFrom ==
  ASSUME NEW E, NEW s \in Seq(E), NEW S, NEW f, NEW n \in 1..Len(s),
         f[n - 1] \in Seq(E), From(s, S, n - 1, f[n - 1])
  PROVE  From(s, S, n, Step(s, S, f, n))
<1> DEFINE t == f[n - 1]
<1>1. /\ t \in Seq(E) /\ s[n] \in E /\ n # 0 /\ n \in Nat
      /\ \A k \in 1..Len(t) : \E i \in 1..n - 1 : s[i] \in S /\ t[k] = s[i]
      /\ \A i \in 1..n - 1 : s[i] \in S => \E k \in 1..Len(t) : t[k] = s[i]
      /\ Distinct(s) => Distinct(t)
  BY DEF From
<1> HIDE DEF t
<1>2. CASE s[n] \in S
  <2> DEFINE u == Append(t, s[n])
  <2>1. /\ Len(u) = Len(t) + 1 /\ u[Len(t) + 1] = s[n] /\ Len(t) \in Nat
        /\ \A k \in 1..Len(t) : u[k] = t[k]
    BY <1>1
  <2>2. Step(s, S, f, n) = u
    BY <1>1, <1>2 DEF Step, t
  <2> HIDE DEF u
  <2>3. ASSUME NEW k \in 1..Len(u) PROVE \E i \in 1..n : s[i] \in S /\ u[k] = s[i]
    <3>1. CASE k = Len(t) + 1
      BY <1>2, <2>1, <3>1
    <3>2. CASE k \in 1..Len(t)
      <4>1. PICK i \in 1..n - 1 : s[i] \in S /\ t[k] = s[i]
        BY <1>1, <3>2
      <4>2. i \in 1..n /\ u[k] = t[k]
        BY <1>1, <2>1, <3>2
      <4>3. QED
        BY <4>1, <4>2
    <3>3. QED
      BY <2>1, <3>1, <3>2
  <2>4. ASSUME Distinct(s), NEW k \in 1..Len(u), NEW l \in 1..Len(u), u[k] = u[l], k < l
        PROVE  FALSE
    <3>1. k \in 1..Len(t) /\ u[k] = t[k]
      BY <2>1, <2>4
    <3>2. PICK i \in 1..n - 1 : t[k] = s[i]
      BY <1>1, <3>1
    <3>3. CASE l = Len(t) + 1
      <4>1. s[i] = s[n]
        BY <2>1, <2>4, <3>1, <3>2, <3>3
      <4>2. i \in 1..Len(s) /\ i # n
        OBVIOUS
      <4>3. QED
        BY <2>4, <4>1, <4>2 DEF Distinct
    <3>4. CASE l \in 1..Len(t)
      <4>1. u[l] = t[l]
        BY <2>1, <3>4
      <4>2. t[k] = t[l]
        BY <2>4, <3>1, <4>1
      <4>3. QED
        BY <1>1, <2>4, <3>1, <3>4, <4>2 DEF Distinct
    <3>5. QED
      BY <2>1, <3>3, <3>4
  <2>5. Distinct(s) => Distinct(u)
    <3>1. SUFFICES ASSUME Distinct(s), NEW k \in 1..Len(u), NEW l \in 1..Len(u), u[k] = u[l]
                   PROVE  k = l
      BY DEF Distinct
    <3>2. k \in Int /\ l \in Int
      OBVIOUS
    <3>3. QED
      BY <2>4, <3>1, <3>2
  <2>6. ASSUME NEW i \in 1..n, s[i] \in S PROVE \E k \in 1..Len(u) : u[k] = s[i]
    <3>1. CASE i = n
      <4>1. Len(t) + 1 \in 1..Len(u)
        BY <2>1
      <4>2. QED
        BY <2>1, <3>1, <4>1
    <3>2. CASE i \in 1..n - 1
      <4>1. PICK k \in 1..Len(t) : t[k] = s[i]
        BY <1>1, <2>6, <3>2
      <4>2. k \in 1..Len(u) /\ u[k] = t[k]
        BY <2>1
      <4>3. QED
        BY <4>1, <4>2
    <3>3. QED
      BY <1>1, <3>1, <3>2
  <2>7. QED
    BY <2>2, <2>3, <2>5, <2>6 DEF From
<1>3. CASE s[n] \notin S
  <2>1. Step(s, S, f, n) = t
    BY <1>1, <1>3 DEF Step, t
  <2>2. \A i \in 1..n - 1 : i \in 1..n
    BY <1>1
  <2>3. \A i \in 1..n : s[i] \in S => i \in 1..n - 1
    BY <1>1, <1>3
  <2>4. QED
    BY <1>1, <2>1, <2>2, <2>3 DEF From
<1>4. QED
  BY <1>2, <1>3

(* Keep returns the elements of the sequence that are in the set, none of     *)
(* them more often than the sequence has it.                                 *)
LEMMA KeepFacts ==
  ASSUME NEW E, NEW s \in Seq(E), NEW S
  PROVE  /\ Keep(s, S) \in Seq(E)
         /\ \A k \in 1..Len(Keep(s, S)) :
              \E i \in 1..Len(s) : s[i] \in S /\ Keep(s, S)[k] = s[i]
         /\ \A i \in 1..Len(s) : s[i] \in S =>
              \E k \in 1..Len(Keep(s, S)) : Keep(s, S)[k] = s[i]
         /\ Distinct(s) => Distinct(Keep(s, S))
<1>1. PICK f \in Prefixes(E, s, S, Len(s)) : Keep(s, S) = f[Len(s)]
  BY KeepFollows
<1>2. /\ Len(s) \in Nat
      /\ \A i \in 0..Len(s) : f[i] \in Seq(E) /\ f[i] = Step(s, S, f, i)
  BY DEF Prefixes
<1> DEFINE T == {n \in 0..Len(s) : From(s, S, n, f[n])}
<1>3. 0 \in T
  <2>1. 0 \in 0..Len(s) /\ f[0] = <<>>
    BY <1>2 DEF Step
  <2>2. From(s, S, 0, <<>>)
    BY DEF From, Distinct
  <2>3. QED
    BY <2>1, <2>2
<1>4. ASSUME NEW n \in 1..Len(s), n - 1 \in T PROVE n \in T
  <2>1. n \in 0..Len(s) /\ n - 1 \in 0..Len(s) /\ f[n - 1] \in Seq(E)
    BY <1>2
  <2>2. From(s, S, n, Step(s, S, f, n))
    BY <1>4, <2>1, StepFrom
  <2>3. QED
    BY <1>2, <2>1, <2>2
<1> HIDE DEF T
<1>5. 0..Len(s) \subseteq T
  BY <1>2, <1>3, <1>4, Induct
<1>6. From(s, S, Len(s), Keep(s, S)) /\ Keep(s, S) \in Seq(E)
  BY <1>1, <1>2, <1>5 DEF T
<1>7. QED
  BY <1>6 DEF From

LEMMA KeptInOrder ==
  ASSUME NEW E, NEW s \in Seq(E), NEW S, Distinct(s)
  PROVE  /\ Keep(s, S) \in Seq(E) /\ Distinct(Keep(s, S))
         /\ \A k \in 1..Len(Keep(s, S)) :
              \E i \in 1..Len(s) : s[i] \in S /\ Keep(s, S)[k] = s[i]
BY KeepFacts

(* An element that is added is kept or not, and changes nothing before it.   *)
LEMMA KeepAppend ==
  ASSUME NEW E, NEW s \in Seq(E), NEW S, NEW e \in E
  PROVE  Keep(Append(s, e), S) =
           IF e \in S THEN Append(Keep(s, S), e) ELSE Keep(s, S)
<1> DEFINE t == Append(s, e)
           n == Len(s)
<1>1. /\ t \in Seq(E) /\ n \in Nat /\ Len(t) = n + 1 /\ t[n + 1] = e
      /\ \A i \in 1..n : t[i] = s[i]
  OBVIOUS
<1> HIDE DEF t
<1>2. PICK f \in Prefixes(E, s, S, n) : Keep(s, S) = f[n]
  BY KeepFollows
<1>3. PICK g \in Prefixes(E, t, S, n + 1) : Keep(t, S) = g[n + 1]
  BY <1>1, KeepFollows
<1>4. /\ \A i \in 0..n : f[i] = Step(s, S, f, i)
      /\ \A i \in 0..(n + 1) : g[i] = Step(t, S, g, i)
  BY <1>1, <1>2, <1>3 DEF Prefixes
<1> HIDE DEF n
<1> DEFINE T == {i \in 0..n : g[i] = f[i]}
<1>5. 0 \in T
  BY <1>1, <1>4 DEF Step
<1>6. \A i \in 1..n : i - 1 \in T => i \in T
  <2>1. SUFFICES ASSUME NEW i \in 1..n, i - 1 \in T PROVE i \in T
    OBVIOUS
  <2>2. i \in 0..n /\ i \in 0..(n + 1) /\ g[i - 1] = f[i - 1] /\ t[i] = s[i] /\ i # 0
    BY <1>1, <2>1
  <2>3. g[i] = f[i]
    BY <1>4, <2>2 DEF Step
  <2>4. QED
    BY <2>2, <2>3
<1> HIDE DEF T
<1>7. 0..n \subseteq T
  BY <1>1, <1>5, <1>6, Induct
<1>8. g[n] = f[n]
  BY <1>1, <1>7 DEF T
<1>9. g[n + 1] = IF e \in S THEN Append(g[n], e) ELSE g[n]
  <2>1. n + 1 \in 0..(n + 1) /\ n + 1 # 0 /\ (n + 1) - 1 = n
    BY <1>1
  <2>2. g[n + 1] = Step(t, S, g, n + 1)
    BY <1>4, <2>1
  <2>3. QED
    BY <1>1, <2>1, <2>2 DEF Step
<1>10. QED
  BY <1>2, <1>3, <1>8, <1>9 DEF t

-------------------------------------------------------------------------------
(* The operations of the kernel keep its variables and its queues in order.  *)

LEMMA AppendDistinct ==
  ASSUME NEW E, NEW s \in Seq(E), Distinct(s), NEW e \in E,
         \A i \in 1..Len(s) : s[i] # e
  PROVE  Append(s, e) \in Seq(E) /\ Distinct(Append(s, e))
<1> DEFINE t == Append(s, e)
<1>1. /\ t \in Seq(E) /\ Len(t) = Len(s) + 1 /\ t[Len(s) + 1] = e /\ Len(s) \in Nat
      /\ \A k \in 1..Len(s) : t[k] = s[k]
  OBVIOUS
<1> HIDE DEF t
<1>2. ASSUME NEW i \in 1..Len(t), NEW k \in 1..Len(t), t[i] = t[k] PROVE i = k
  <2>1. CASE i \in 1..Len(s) /\ k \in 1..Len(s)
    <3>1. s[i] = s[k]
      BY <1>1, <1>2, <2>1
    <3>2. QED
      BY <2>1, <3>1 DEF Distinct
  <2>2. CASE i = Len(s) + 1 /\ k \in 1..Len(s)
    BY <1>1, <1>2, <2>2
  <2>3. CASE i \in 1..Len(s) /\ k = Len(s) + 1
    BY <1>1, <1>2, <2>3
  <2>4. CASE i = Len(s) + 1 /\ k = Len(s) + 1
    BY <2>4
  <2>5. QED
    BY <1>1, <2>1, <2>2, <2>3, <2>4
<1>3. QED
  BY <1>1, <1>2 DEF Distinct, t

LEMMA TailDistinct ==
  ASSUME NEW E, NEW s \in Seq(E), s # <<>>, Distinct(s)
  PROVE  /\ Tail(s) \in Seq(E) /\ Distinct(Tail(s)) /\ Head(s) \in E
         /\ Len(Tail(s)) = Len(s) - 1 /\ Len(s) \in Nat \ {0}
         /\ \A k \in 1..Len(Tail(s)) :
              k + 1 \in 1..Len(s) /\ Tail(s)[k] = s[k + 1] /\ Tail(s)[k] # Head(s)
<1> DEFINE t == Tail(s)
<1>1. /\ t \in Seq(E) /\ Len(s) \in Nat \ {0} /\ Len(t) = Len(s) - 1
      /\ Head(s) \in E /\ Head(s) = s[1]
      /\ \A k \in 1..Len(t) : k + 1 \in 1..Len(s) /\ t[k] = s[k + 1]
  OBVIOUS
<1> HIDE DEF t
<1>2. \A k \in 1..Len(t) : t[k] # Head(s)
  <2>1. TAKE k \in 1..Len(t)
  <2>2. 1 \in 1..Len(s) /\ k + 1 \in 1..Len(s) /\ k + 1 # 1
    BY <1>1
  <2>3. QED
    BY <1>1, <2>2 DEF Distinct
<1>3. Distinct(t)
  <2>1. SUFFICES ASSUME NEW i \in 1..Len(t), NEW k \in 1..Len(t), t[i] = t[k] PROVE i = k
    BY DEF Distinct
  <2>2. s[i + 1] = s[k + 1] /\ i + 1 \in 1..Len(s) /\ k + 1 \in 1..Len(s)
    BY <1>1, <2>1
  <2>3. i + 1 = k + 1
    BY <2>2 DEF Distinct
  <2>4. QED
    BY <2>3
<1>4. QED
  BY <1>1, <1>2, <1>3 DEF t

SocketsInv == SocketsTypeOK /\ QueuesInOrder

(* A descriptor is put on the ready list unless it is there: what Wake,       *)
(* Connect and Register do to it.                                            *)
LEMMA Notify ==
  ASSUME SocketsInv, NEW fd \in Fds \cup {Listener}, fd # Listener => interest'[fd] # {},
         \A g \in Fds : interest[g] # {} => interest'[g] # {},
         ready' = IF ~InReady(fd) THEN Append(ready, fd) ELSE ready
  PROVE  /\ ready' \in Seq(Fds \cup {Listener}) /\ Distinct(ready')
         /\ \A i \in 1..Len(ready') : ready'[i] # Listener => interest'[ready'[i]] # {}
<1> DEFINE E == Fds \cup {Listener}
<1>1. /\ ready \in Seq(E) /\ Distinct(ready)
      /\ \A i \in 1..Len(ready) : ready[i] # Listener => interest[ready[i]] # {}
  BY DEF SocketsInv, SocketsTypeOK, QueuesInOrder
<1>2. \A i \in 1..Len(ready) : ready[i] # Listener => interest'[ready[i]] # {}
  <2>1. \A i \in 1..Len(ready) : ready[i] \in E
    BY <1>1
  <2>2. QED
    BY <1>1, <2>1
<1> HIDE DEF E
<1>3. CASE InReady(fd)
  BY <1>1, <1>2, <1>3 DEF E
<1>4. CASE ~InReady(fd)
  <2>1. fd \in E /\ \A i \in 1..Len(ready) : ready[i] # fd
    BY <1>4 DEF InReady, E
  <2>2. ready' = Append(ready, fd) /\ ready' \in Seq(E) /\ Distinct(ready')
    BY <1>1, <1>4, <2>1, AppendDistinct
  <2>3. \A i \in 1..Len(ready') : ready'[i] # Listener => interest'[ready'[i]] # {}
    <3>1. /\ Len(ready') = Len(ready) + 1 /\ Len(ready) \in Nat /\ ready'[Len(ready) + 1] = fd
          /\ \A i \in 1..Len(ready) : ready'[i] = ready[i]
      BY <1>1, <2>1, <2>2
    <3>2. TAKE i \in 1..Len(ready')
    <3>3. i \in 1..Len(ready) \/ i = Len(ready) + 1
      BY <3>1
    <3>4. QED
      BY <1>2, <3>1, <3>3
  <2>4. QED
    BY <2>2, <2>3 DEF E
<1>5. QED
  BY <1>3, <1>4

LEMMA WakeNotifies ==
  ASSUME SocketsInv, NEW c \in Clients, Wake(c), UNCHANGED interest
  PROVE  /\ ready' \in Seq(Fds \cup {Listener}) /\ Distinct(ready')
         /\ \A i \in 1..Len(ready') : ready'[i] # Listener => interest'[ready'[i]] # {}
<1>1. CASE Served(c) /\ interest[FdOf(c)] # {}
  <2>1. FdOf(c) \in Fds
    BY <1>1 DEF Served, FdOf
  <2>2. ready' = IF ~InReady(FdOf(c)) THEN Append(ready, FdOf(c)) ELSE ready
    BY <1>1 DEF Wake
  <2>3. QED
    BY <1>1, <2>1, <2>2, Notify
<1>2. CASE ~(Served(c) /\ interest[FdOf(c)] # {})
  <2>1. ready' = ready
    BY <1>2 DEF Wake
  <2>2. QED
    BY <2>1 DEF SocketsInv, SocketsTypeOK, QueuesInOrder
<1>3. QED
  BY <1>1, <1>2

LEMMA ConnectInOrder ==
  ASSUME SocketsAssumption, SocketsInv, NEW c \in Clients, Connect(c)
  PROVE  SocketsInv'
<1>1. /\ ready' \in Seq(Fds \cup {Listener}) /\ Distinct(ready')
      /\ \A i \in 1..Len(ready') : ready'[i] # Listener => interest'[ready'[i]] # {}
  <2>1. ready' = IF ~InReady(Listener) THEN Append(ready, Listener) ELSE ready
    BY DEF Connect
  <2>2. UNCHANGED interest
    BY DEF Connect
  <2>3. QED
    BY <2>1, <2>2, Notify
<1>2. /\ backlog \in Seq(Clients) /\ Distinct(backlog) /\ backlog' = Append(backlog, c)
      /\ \A i \in 1..Len(backlog) : backlog[i] # c /\ client[backlog[i]] # "away"
      /\ client' = [client EXCEPT ![c] = "connected"]
      /\ client \in [Clients -> {"away", "connected", "closed"}]
  BY DEF Connect, SocketsInv, SocketsTypeOK, QueuesInOrder
<1>3. backlog' \in Seq(Clients) /\ Distinct(backlog')
  BY <1>2, AppendDistinct
<1>4. \A i \in 1..Len(backlog') : client'[backlog'[i]] # "away"
  <2>1. TAKE i \in 1..Len(backlog')
  <2>2. CASE i \in 1..Len(backlog)
    <3>1. backlog'[i] = backlog[i] /\ backlog[i] \in Clients
      BY <1>2, <2>2
    <3>2. QED
      BY <1>2, <2>2, <3>1
  <2>3. CASE i = Len(backlog) + 1
    <3>1. backlog'[i] = c
      BY <1>2, <2>3
    <3>2. QED
      BY <1>2, <3>1
  <2>4. QED
    BY <1>2, <2>2, <2>3
<1>5. SocketsTypeOK'
  BY <1>1, <1>2, <1>3 DEF Connect, SocketsInv, SocketsTypeOK, Packet
<1>6. QED
  BY <1>1, <1>3, <1>4, <1>5 DEF SocketsInv, QueuesInOrder

LEMMA ClientSendInOrder ==
  ASSUME SocketsAssumption, SocketsInv, NEW c \in Clients, NEW kind \in Kinds,
         ClientSend(c, kind)
  PROVE  SocketsInv'
<1> DEFINE p == [kind |-> kind, from |-> c, n |-> Len(sent[c]) + 1]
<1>1. p \in Packet
  <2>1. Len(sent[c]) \in Nat /\ Len(sent[c]) < MaxPackets /\ MaxPackets \in Nat
    BY DEF ClientSend, SocketsInv, SocketsTypeOK, SocketsAssumption
  <2>2. QED
    BY <2>1 DEF Packet
<1>2. /\ sent' = [sent EXCEPT ![c] = Append(@, p)]
      /\ inbuf' = [inbuf EXCEPT ![c] = Append(@, p)]
      /\ Wake(c) /\ UNCHANGED <<client, backlog, sock, reset, interest, inbox>>
  BY DEF ClientSend
<1> HIDE DEF p
<1>3. sent' \in [Clients -> Seq(Packet)] /\ inbuf' \in [Clients -> Seq(Packet)]
  <2>1. Append(sent[c], p) \in Seq(Packet) /\ Append(inbuf[c], p) \in Seq(Packet)
    BY <1>1 DEF SocketsInv, SocketsTypeOK
  <2>2. QED
    BY <1>2, <2>1 DEF SocketsInv, SocketsTypeOK
<1>4. /\ ready' \in Seq(Fds \cup {Listener}) /\ Distinct(ready')
      /\ \A i \in 1..Len(ready') : ready'[i] # Listener => interest'[ready'[i]] # {}
  BY <1>2, WakeNotifies
<1>5. SocketsTypeOK'
  BY <1>2, <1>3, <1>4 DEF SocketsInv, SocketsTypeOK, Packet
<1>6. QED
  BY <1>2, <1>4, <1>5 DEF SocketsInv, QueuesInOrder

LEMMA ClientCloseInOrder ==
  ASSUME SocketsAssumption, SocketsInv, NEW c \in Clients, ClientClose(c)
  PROVE  SocketsInv'
<1>1. /\ client' = [client EXCEPT ![c] = "closed"]
      /\ Wake(c) /\ UNCHANGED <<backlog, sock, inbuf, reset, interest, sent, inbox>>
  BY DEF ClientClose
<1>2. /\ ready' \in Seq(Fds \cup {Listener}) /\ Distinct(ready')
      /\ \A i \in 1..Len(ready') : ready'[i] # Listener => interest'[ready'[i]] # {}
  BY <1>1, WakeNotifies
<1>3. \A i \in 1..Len(backlog') : client'[backlog'[i]] # "away"
  <2>1. \A i \in 1..Len(backlog) : backlog[i] \in Clients
    BY DEF SocketsInv, SocketsTypeOK
  <2>2. QED
    BY <1>1, <2>1 DEF SocketsInv, SocketsTypeOK, QueuesInOrder
<1>4. SocketsTypeOK'
  BY <1>1, <1>2 DEF SocketsInv, SocketsTypeOK, Packet
<1>5. QED
  BY <1>1, <1>2, <1>3, <1>4 DEF SocketsInv, QueuesInOrder

LEMMA AcceptInOrder ==
  ASSUME SocketsAssumption, SocketsInv, NEW fd \in Fds, Accept(fd)
  PROVE  SocketsInv'
<1>1. /\ backlog \in Seq(Clients) /\ backlog # <<>> /\ Distinct(backlog)
      /\ backlog' = Tail(backlog) /\ sock' = [sock EXCEPT ![fd] = Head(backlog)]
      /\ UNCHANGED <<client, inbuf, reset, interest, ready, sent, inbox>>
  BY DEF Accept, SocketsInv, SocketsTypeOK, QueuesInOrder
<1>2. /\ backlog' \in Seq(Clients) /\ Distinct(backlog') /\ Head(backlog) \in Clients
      /\ \A k \in 1..Len(backlog') : k + 1 \in 1..Len(backlog) /\ backlog'[k] = backlog[k + 1]
  BY <1>1, TailDistinct
<1>3. SocketsTypeOK'
  BY <1>1, <1>2 DEF SocketsInv, SocketsTypeOK, Packet
<1>4. QED
  BY <1>1, <1>2, <1>3 DEF SocketsInv, QueuesInOrder

LEMMA RegisterInOrder ==
  ASSUME SocketsAssumption, SocketsInv, NEW fd \in Fds, NEW mask \in {FirstMask, AgainMask},
         Register(fd, mask)
  PROVE  SocketsInv'
<1>1. /\ interest' = [interest EXCEPT ![fd] = mask]
      /\ ready' = IF Present(fd, mask) # {} /\ ~InReady(fd) THEN Append(ready, fd) ELSE ready
      /\ UNCHANGED <<client, backlog, sock, inbuf, reset, sent, inbox>>
  BY DEF Register
<1>2. mask # {}
  BY DEF FirstMask, AgainMask
<1>3. \A g \in Fds : interest[g] # {} => interest'[g] # {}
  BY <1>1, <1>2 DEF SocketsInv, SocketsTypeOK
<1>4. interest'[fd] # {}
  BY <1>1, <1>2 DEF SocketsInv, SocketsTypeOK
<1>5. /\ ready' \in Seq(Fds \cup {Listener}) /\ Distinct(ready')
      /\ \A i \in 1..Len(ready') : ready'[i] # Listener => interest'[ready'[i]] # {}
  <2>1. CASE Present(fd, mask) # {}
    <3>1. ready' = IF ~InReady(fd) THEN Append(ready, fd) ELSE ready
      BY <1>1, <2>1
    <3>2. QED
      BY <1>3, <1>4, <3>1, Notify
  <2>2. CASE Present(fd, mask) = {}
    <3>1. ready' = ready
      BY <1>1, <2>2
    <3>2. \A i \in 1..Len(ready) : ready[i] \in Fds \cup {Listener}
      BY DEF SocketsInv, SocketsTypeOK
    <3>3. QED
      BY <1>3, <3>1, <3>2 DEF SocketsInv, SocketsTypeOK, QueuesInOrder
  <2>3. QED
    BY <2>1, <2>2
<1>6. SocketsTypeOK'
  BY <1>1, <1>5 DEF SocketsInv, SocketsTypeOK, Packet, FirstMask, AgainMask
<1>7. QED
  BY <1>1, <1>5, <1>6 DEF SocketsInv, QueuesInOrder

LEMMA CloseFdInOrder ==
  ASSUME SocketsAssumption, SocketsInv, NEW fd \in Fds, CloseFd(fd)
  PROVE  SocketsInv'
<1> DEFINE E == Fds \cup {Listener}
<1>1. /\ ready' = Keep(ready, E \ {fd})
      /\ interest' = [interest EXCEPT ![fd] = {}]
      /\ sock' = [sock EXCEPT ![fd] = None]
      /\ UNCHANGED <<client, backlog, inbuf, reset, sent, inbox>>
  BY DEF CloseFd
<1>2. /\ ready \in Seq(E) /\ Distinct(ready)
      /\ \A i \in 1..Len(ready) : ready[i] # Listener => interest[ready[i]] # {}
  BY DEF SocketsInv, SocketsTypeOK, QueuesInOrder
<1> HIDE DEF E
<1>3. /\ ready' \in Seq(E) /\ Distinct(ready')
      /\ \A k \in 1..Len(ready') :
           \E i \in 1..Len(ready) : ready[i] \in E \ {fd} /\ ready'[k] = ready[i]
  <2> DEFINE S == E \ {fd}
             t == Keep(ready, S)
  <2> HIDE DEF S
  <2>1. /\ t \in Seq(E) /\ Distinct(t)
        /\ \A k \in 1..Len(t) : \E i \in 1..Len(ready) : ready[i] \in S /\ t[k] = ready[i]
    BY <1>2, KeptInOrder
  <2>2. ready' = t
    BY <1>1 DEF S
  <2> HIDE DEF t
  <2>3. QED
    BY <2>1, <2>2 DEF S
<1>4. \A k \in 1..Len(ready') : ready'[k] # Listener => interest'[ready'[k]] # {}
  <2>1. TAKE k \in 1..Len(ready')
  <2>2. PICK i \in 1..Len(ready) : ready[i] \in E \ {fd} /\ ready'[k] = ready[i]
    BY <1>3
  <2>3. QED
    BY <1>1, <1>2, <2>2 DEF E, SocketsInv, SocketsTypeOK
<1>5. SocketsTypeOK'
  BY <1>1, <1>3 DEF E, SocketsInv, SocketsTypeOK, Packet
<1>6. QED
  BY <1>1, <1>3, <1>4, <1>5 DEF SocketsInv, QueuesInOrder

LEMMA ReceiveInOrder ==
  ASSUME SocketsAssumption, SocketsInv, NEW fd \in Fds, NEW max \in Nat \ {0}, Receive(fd, max)
  PROVE  SocketsInv' /\ Received(fd, max) \in Seq(Packet) \ {<<>>}
<1> DEFINE c == sock[fd]
<1>1. /\ c \in Clients /\ inbuf[c] \in Seq(Packet) /\ inbuf[c] # <<>>
      /\ inbuf' = [inbuf EXCEPT ![c] = SubSeq(@, max + 1, Len(@))]
      /\ UNCHANGED <<client, backlog, sock, reset, interest, ready, sent, inbox>>
  BY DEF Receive, HasData, Open, SocketsInv, SocketsTypeOK
<1> HIDE DEF c
<1>2. SubSeq(inbuf[c], max + 1, Len(inbuf[c])) \in Seq(Packet)
  BY <1>1
<1>3. inbuf' \in [Clients -> Seq(Packet)]
  BY <1>1, <1>2 DEF SocketsInv, SocketsTypeOK
<1>4. SocketsInv'
  BY <1>1, <1>3 DEF SocketsInv, SocketsTypeOK, QueuesInOrder, Packet
<1>5. Received(fd, max) \in Seq(Packet) \ {<<>>}
  <2> DEFINE n == IF Len(inbuf[c]) < max THEN Len(inbuf[c]) ELSE max
  <2>1. n \in 1..Len(inbuf[c])
    BY <1>1
  <2>2. Received(fd, max) = SubSeq(inbuf[c], 1, n)
    BY DEF Received, c
  <2> HIDE DEF n
  <2>3. SubSeq(inbuf[c], 1, n) \in Seq(Packet) /\ Len(SubSeq(inbuf[c], 1, n)) = n
    BY <1>1, <2>1
  <2>4. QED
    BY <2>1, <2>2, <2>3
<1>6. QED
  BY <1>4, <1>5

LEMMA ReplyInOrder ==
  ASSUME SocketsAssumption, SocketsInv, NEW fd \in Fds, NEW p \in Packet, Reply(fd, p)
  PROVE  SocketsInv' /\ UNCHANGED <<client, backlog, sock, interest>>
<1> DEFINE c == sock[fd]
<1>1. CASE ~Open(fd) /\ UNCHANGED sockVars
  BY <1>1 DEF sockVars, SocketsInv, SocketsTypeOK, QueuesInOrder, Packet
<1>2. CASE /\ Open(fd) /\ client[c] = "connected"
           /\ inbox' = [inbox EXCEPT ![c] = Append(@, p)]
           /\ UNCHANGED <<client, backlog, sock, inbuf, reset, interest, ready, sent>>
  <2>1. c \in Clients
    BY <1>2 DEF Open, SocketsInv, SocketsTypeOK
  <2> HIDE DEF c
  <2>2. Append(inbox[c], p) \in Seq(Packet)
    BY <2>1 DEF SocketsInv, SocketsTypeOK
  <2>3. inbox' \in [Clients -> Seq(Packet)]
    BY <1>2, <2>2 DEF SocketsInv, SocketsTypeOK
  <2>4. QED
    BY <1>2, <2>3 DEF SocketsInv, SocketsTypeOK, QueuesInOrder, Packet
<1>3. CASE /\ Open(fd) /\ client[c] = "closed" /\ c \notin reset
           /\ reset' = reset \cup {c} /\ Wake(c)
           /\ UNCHANGED <<client, backlog, sock, inbuf, interest, sent, inbox>>
  <2>1. c \in Clients
    BY <1>3 DEF Open, SocketsInv, SocketsTypeOK
  <2> HIDE DEF c
  <2>2. /\ ready' \in Seq(Fds \cup {Listener}) /\ Distinct(ready')
        /\ \A i \in 1..Len(ready') : ready'[i] # Listener => interest'[ready'[i]] # {}
    BY <1>3, <2>1, WakeNotifies
  <2>3. SocketsTypeOK'
    BY <1>3, <2>1, <2>2 DEF SocketsInv, SocketsTypeOK, Packet
  <2>4. QED
    BY <1>3, <2>2, <2>3 DEF SocketsInv, QueuesInOrder
<1>4. QED
  BY <1>1, <1>2, <1>3 DEF Reply

(* epoll_wait takes descriptors off the ready list.                          *)
LEMMA TakeInOrder ==
  ASSUME SocketsInv, NEW S, ready' = Keep(ready, S),
         UNCHANGED <<client, backlog, sock, inbuf, reset, interest, sent, inbox>>
  PROVE  SocketsInv'
<1> DEFINE E == Fds \cup {Listener}
           t == Keep(ready, S)
<1>1. /\ ready \in Seq(E) /\ Distinct(ready)
      /\ \A i \in 1..Len(ready) : ready[i] # Listener => interest[ready[i]] # {}
  BY DEF SocketsInv, SocketsTypeOK, QueuesInOrder
<1> HIDE DEF E
<1>2. /\ t \in Seq(E) /\ Distinct(t)
      /\ \A k \in 1..Len(t) : \E i \in 1..Len(ready) : ready[i] \in S /\ t[k] = ready[i]
  BY <1>1, KeptInOrder
<1>3. ready' = t
  OBVIOUS
<1> HIDE DEF t
<1>4. \A k \in 1..Len(ready') : ready'[k] # Listener => interest'[ready'[k]] # {}
  BY <1>1, <1>2, <1>3
<1>5. QED
  BY <1>2, <1>3, <1>4 DEF E, SocketsInv, SocketsTypeOK, QueuesInOrder, Packet

(* It reports events, at most one of each descriptor, of registered ones.    *)
LEMMA ReadyEventsFacts ==
  ASSUME SocketsAssumption, SocketsInv
  PROVE  /\ ReadyEvents \in Seq(Event)
         /\ \A i, k \in 1..Len(ReadyEvents) : ReadyEvents[i].fd = ReadyEvents[k].fd => i = k
         /\ \A i \in 1..Len(ReadyEvents) :
              ReadyEvents[i].fd # Listener => interest[ReadyEvents[i].fd] # {}
<1> DEFINE E == Fds \cup {Listener}
           S == {fd \in E : EventsOf(fd) # {}}
           fds == Keep(ready, S)
           events == [i \in 1..Len(fds) |-> [fd |-> fds[i], flags |-> EventsOf(fds[i])]]
<1>1. /\ ready \in Seq(E) /\ Distinct(ready)
      /\ \A i \in 1..Len(ready) : ready[i] # Listener => interest[ready[i]] # {}
  BY DEF SocketsInv, SocketsTypeOK, QueuesInOrder
<1>2. \A fd \in E : EventsOf(fd) \subseteq {"IN", "OUT", "RDHUP", "HUP"}
  <2>1. TAKE fd \in E
  <2>2. CASE fd = Listener
    BY <2>2 DEF EventsOf
  <2>3. CASE fd # Listener
    <3>1. interest[fd] \in {{}, FirstMask, AgainMask} /\ EventsOf(fd) = Present(fd, interest[fd])
      BY <2>3 DEF EventsOf, SocketsInv, SocketsTypeOK
    <3>2. Present(fd, interest[fd]) \subseteq interest[fd] \cup {"HUP"}
      BY DEF Present
    <3>3. QED
      BY <3>1, <3>2 DEF FirstMask, AgainMask
  <2>4. QED
    BY <2>2, <2>3
<1>3. ReadyEvents = events
  BY DEF ReadyEvents
<1> HIDE DEF E, S
<1>4. /\ fds \in Seq(E) /\ Distinct(fds)
      /\ \A k \in 1..Len(fds) : \E i \in 1..Len(ready) : ready[i] \in S /\ fds[k] = ready[i]
  BY <1>1, KeptInOrder
<1> HIDE DEF fds
<1>5. \A i \in 1..Len(fds) : fds[i] \in E /\ EventsOf(fds[i]) \subseteq {"IN", "OUT", "RDHUP", "HUP"}
  BY <1>2, <1>4
<1>6. events \in Seq(Event) /\ Len(events) = Len(fds)
  <2>1. \A i \in 1..Len(fds) : [fd |-> fds[i], flags |-> EventsOf(fds[i])] \in Event
    BY <1>5 DEF Event, E
  <2>2. Len(fds) \in Nat
    BY <1>4
  <2>3. QED
    BY <2>1, <2>2
<1>7. \A i \in 1..Len(fds) : events[i].fd = fds[i]
  OBVIOUS
<1> HIDE DEF events
<1>8. \A i, k \in 1..Len(events) : events[i].fd = events[k].fd => i = k
  BY <1>4, <1>6, <1>7 DEF Distinct
<1>9. \A i \in 1..Len(events) : events[i].fd # Listener => interest[events[i].fd] # {}
  BY <1>1, <1>4, <1>6, <1>7
<1>10. QED
  BY <1>3, <1>6, <1>8, <1>9

(* It reports what is there, of every descriptor on the list that has any.   *)
LEMMA ReadyEventsReport ==
  ASSUME SocketsInv
  PROVE  /\ Len(ReadyEvents) \in Nat
         /\ \A k \in 1..Len(ReadyEvents) :
              ReadyEvents[k].flags = EventsOf(ReadyEvents[k].fd)
         /\ \A fd \in Fds \cup {Listener} : InReady(fd) /\ EventsOf(fd) # {} =>
              \E k \in 1..Len(ReadyEvents) : ReadyEvents[k].fd = fd
<1> DEFINE E == Fds \cup {Listener}
           S == {fd \in E : EventsOf(fd) # {}}
           fds == Keep(ready, S)
           events == [i \in 1..Len(fds) |-> [fd |-> fds[i], flags |-> EventsOf(fds[i])]]
<1>1. ready \in Seq(E)
  BY DEF SocketsInv, SocketsTypeOK
<1>2. ReadyEvents = events
  BY DEF ReadyEvents
<1>3. \A fd \in E : EventsOf(fd) # {} => fd \in S
  OBVIOUS
<1> HIDE DEF E, S
<1>4. /\ fds \in Seq(E)
      /\ \A i \in 1..Len(ready) : ready[i] \in S => \E k \in 1..Len(fds) : fds[k] = ready[i]
  BY <1>1, KeepFacts
<1> HIDE DEF fds
<1>5. /\ Len(events) = Len(fds) /\ Len(fds) \in Nat
      /\ \A i \in 1..Len(fds) : events[i].fd = fds[i] /\ events[i].flags = EventsOf(fds[i])
  BY <1>4
<1> HIDE DEF events
<1>6. ASSUME NEW fd \in E, InReady(fd), EventsOf(fd) # {}
      PROVE  \E k \in 1..Len(events) : events[k].fd = fd
  <2>1. PICK i \in 1..Len(ready) : ready[i] = fd
    BY <1>6 DEF InReady
  <2>2. PICK k \in 1..Len(fds) : fds[k] = fd
    BY <1>3, <1>4, <1>6, <2>1
  <2>3. QED
    BY <1>5, <2>2
<1>7. QED
  BY <1>2, <1>5, <1>6 DEF E

(* What epoll_wait leaves on the ready list stays there.                     *)
LEMMA StillReady ==
  ASSUME SocketsInv, NEW S, ready' = Keep(ready, S), NEW fd \in S, InReady(fd)
  PROVE  InReady(fd)'
<1>1. ready \in Seq(Fds \cup {Listener})
  BY DEF SocketsInv, SocketsTypeOK
<1>2. PICK i \in 1..Len(ready) : ready[i] = fd
  BY DEF InReady
<1>3. PICK k \in 1..Len(Keep(ready, S)) : Keep(ready, S)[k] = fd
  BY <1>1, <1>2, KeepFacts
<1>4. QED
  BY <1>3 DEF InReady

-------------------------------------------------------------------------------
(* The server.                                                               *)
Args == [socket_fd : Fds, packets : Seq(Packet)]

LoopInv ==
  /\ lpc \in {"wait", "event", "add", "mod", "locked"}
  /\ g_events \in Seq(Event)
  /\ new_socket \in Fds \cup {None}
  /\ \A i, k \in 1..Len(g_events) : g_events[i].fd = g_events[k].fd => i = k
  /\ EventAtHand

JobsInv ==
  /\ args \in [Jobs -> Args \cup {None}]
  /\ pending \in Seq(Jobs) /\ running \subseteq Jobs /\ finished \subseteq Jobs
  /\ Distinct(pending) /\ \A i \in 1..Len(pending) : pending[i] \notin running
  /\ ArgsKept

CountInv ==
  TableTypeOK(Fds) /\ CounterLimited(lpc = "locked") /\ CounterCovers /\ CounterCounts

LEMMA Parts ==
  IInv <=> SocketsInv /\ LoopInv /\ JobsInv /\ CountInv /\ up \in BOOLEAN
BY DEF IInv, TypeOK, NoRepeats, SocketsInv, LoopInv, JobsInv, CountInv, Args

LEMMA PartsNext ==
  SocketsInv' /\ LoopInv' /\ JobsInv' /\ CountInv' /\ up' \in BOOLEAN => IInv'
BY DEF IInv, TypeOK, NoRepeats, SocketsInv, LoopInv, JobsInv, CountInv, Args

-------------------------------------------------------------------------------
(* The connection table.                                                     *)

LEMMA StoreType ==
  ASSUME TableTypeOK(Fds), NEW slot,
         NEW entry \in [connection_id : 0..Limit, listen_socket : Fds] \cup {Null},
         Store(slot, entry)
  PROVE  /\ connections' \in [0..Limit - 1 ->
                                [connection_id : 0..Limit, listen_socket : Fds] \cup {Null}]
         /\ overrun' \in BOOLEAN
BY DEF Store, TableTypeOK

LEMMA SmallRemainder ==
  ASSUME NEW a \in Nat, NEW b \in Nat, a < b
  PROVE  a % b = a
OBVIOUS

(* add_new_connection adds one: the counter is not at its limit.             *)
LEMMA AddCounts ==
  ASSUME ConnectionTableAssumption, TableTypeOK(Fds), CounterLimited(FALSE),
         NEW fd \in Fds, AddNewConnection(fd)
  PROVE  /\ TableTypeOK(Fds)' /\ CounterLimited(FALSE)'
         /\ global_connection_id' = global_connection_id + 1
<1> DEFINE n == global_connection_id + 1
<1>1. /\ global_connection_id \in Nat /\ n \in Nat /\ n <= Limit + 1 /\ n < UIntRange
      /\ ~mutex_held /\ Limit \in Nat /\ UIntRange \in Nat
  BY DEF AddNewConnection, TableTypeOK, CounterLimited, ConnectionTableAssumption
<1>2. Increment(global_connection_id) = n
  BY <1>1, SmallRemainder DEF Increment
<1>3. global_connection_id' = n
  BY <1>2 DEF AddNewConnection
<1> HIDE DEF n
<1>4. CASE n > Limit
  <2>1. mutex_held' = TRUE /\ \E slot : Store(slot, Null)
    BY <1>1, <1>2, <1>4 DEF AddNewConnection
  <2>2. /\ connections' \in [0..Limit - 1 ->
                               [connection_id : 0..Limit, listen_socket : Fds] \cup {Null}]
        /\ overrun' \in BOOLEAN
    BY <2>1, StoreType
  <2>3. QED
    BY <1>1, <1>3, <2>1, <2>2 DEF TableTypeOK, CounterLimited, n
<1>5. CASE n <= Limit
  <2> DEFINE entry == [connection_id |-> n, listen_socket |-> fd]
  <2>1. UNCHANGED mutex_held /\ \E slot : Store(slot, entry)
    BY <1>1, <1>2, <1>5 DEF AddNewConnection
  <2>2. entry \in [connection_id : 0..Limit, listen_socket : Fds] \cup {Null}
    BY <1>1, <1>5
  <2> HIDE DEF entry
  <2>3. /\ connections' \in [0..Limit - 1 ->
                               [connection_id : 0..Limit, listen_socket : Fds] \cup {Null}]
        /\ overrun' \in BOOLEAN
    BY <2>1, <2>2, StoreType
  <2>4. QED
    BY <1>1, <1>3, <1>5, <2>1, <2>3 DEF TableTypeOK, CounterLimited, n
<1>6. n > Limit \/ n <= Limit
  BY <1>1
<1>7. QED
  BY <1>4, <1>5, <1>6, Zenon

(* It adds one, too, before it waits for the mutex.                          *)
LEMMA BlockedCounts ==
  ASSUME ConnectionTableAssumption, TableTypeOK(Fds), CounterLimited(FALSE), AddBlocked
  PROVE  /\ TableTypeOK(Fds)' /\ CounterLimited(TRUE)'
         /\ global_connection_id' = global_connection_id + 1
<1> DEFINE n == global_connection_id + 1
<1>1. /\ n \in Nat /\ n <= Limit + 2 /\ n < UIntRange
      /\ Limit \in Nat /\ UIntRange \in Nat
  BY DEF AddBlocked, TableTypeOK, CounterLimited, ConnectionTableAssumption
<1>2. global_connection_id' = n
  BY <1>1, SmallRemainder DEF Increment, AddBlocked
<1>3. QED
  BY <1>1, <1>2 DEF TableTypeOK, CounterLimited, AddBlocked

(* epoll_del_fd takes one away, if there is one.                             *)
LEMMA DropCounts ==
  ASSUME ConnectionTableAssumption, TableTypeOK(Fds), CounterLimited(FALSE),
         global_connection_id > 0, DropConnection
  PROVE  /\ TableTypeOK(Fds)' /\ CounterLimited(FALSE)'
         /\ global_connection_id' = global_connection_id - 1
<1> DEFINE n == global_connection_id - 1
<1>1. global_connection_id \in Nat /\ n \in Nat /\ n < UIntRange /\ UIntRange \in Nat
  BY DEF TableTypeOK, ConnectionTableAssumption
<1>2. global_connection_id' = n
  BY <1>1, SmallRemainder DEF DropConnection, Decrement
<1>3. /\ connections' \in [0..Limit - 1 ->
                             [connection_id : 0..Limit, listen_socket : Fds] \cup {Null}]
      /\ overrun' \in BOOLEAN
  BY StoreType DEF DropConnection
<1>4. QED
  BY <1>1, <1>2, <1>3 DEF TableTypeOK, CounterLimited, DropConnection, ConnectionTableAssumption

-------------------------------------------------------------------------------
(* The count.                                                                *)

LEMMA Finite ==
  ASSUME SocketsAssumption
  PROVE  /\ IsFiniteSet(Watched) /\ Cardinality(Watched) \in Nat
         /\ IsFiniteSet(Clients \ Newcomers) /\ Cardinality(Clients \ Newcomers) \in Nat
<1>1. Watched \subseteq Fds /\ Clients \ Newcomers \subseteq Clients
  BY DEF Watched
<1>2. IsFiniteSet(Fds) /\ IsFiniteSet(Clients)
  BY DEF SocketsAssumption
<1>3. IsFiniteSet(Watched) /\ IsFiniteSet(Clients \ Newcomers)
  BY <1>1, <1>2, FS_Subset
<1>4. QED
  BY <1>3, FS_CardinalityType

(* A step that counts nothing.                                               *)
LEMMA NothingCounted ==
  ASSUME SocketsAssumption, CountInv, UNCHANGED tableVars,
         lpc' = "locked" <=> lpc = "locked",
         Watched' \subseteq Watched, Newcomers' \subseteq Newcomers,
         lpc' = "add" => lpc = "add"
  PROVE  CountInv'
<1>1. Cardinality(Watched') <= Cardinality(Watched)
  BY Finite, FS_Subset
<1>2. Cardinality(Clients \ Newcomers) <= Cardinality((Clients \ Newcomers)')
  <2>1. Clients \ Newcomers \subseteq (Clients \ Newcomers)'
    OBVIOUS
  <2>2. IsFiniteSet((Clients \ Newcomers)')
    BY FS_Subset DEF SocketsAssumption
  <2>3. QED
    BY <2>1, <2>2, FS_Subset
<1>3. /\ TableTypeOK(Fds)' /\ CounterLimited(lpc = "locked")'
      /\ global_connection_id' = global_connection_id
  BY DEF CountInv, TableTypeOK, CounterLimited, tableVars
<1>4. /\ Cardinality(Watched) \in Nat /\ Cardinality(Watched') \in Nat
      /\ Cardinality(Clients \ Newcomers) \in Nat
      /\ Cardinality((Clients \ Newcomers)') \in Nat
      /\ global_connection_id \in Nat
  <2>1. IsFiniteSet(Watched') /\ IsFiniteSet((Clients \ Newcomers)')
    BY Finite, FS_Subset DEF SocketsAssumption
  <2>2. QED
    BY <2>1, Finite, FS_CardinalityType DEF CountInv, TableTypeOK
<1>5. CounterCovers'
  BY <1>1, <1>3, <1>4 DEF CountInv, CounterCovers
<1>6. CounterCounts'
  BY <1>2, <1>3, <1>4 DEF CountInv, CounterCounts
<1>7. QED
  BY <1>3, <1>5, <1>6 DEF CountInv

LEMMA FiniteNext ==
  ASSUME SocketsAssumption
  PROVE  /\ IsFiniteSet(Watched') /\ Cardinality(Watched') \in Nat
         /\ IsFiniteSet((Clients \ Newcomers)') /\ Cardinality((Clients \ Newcomers)') \in Nat
<1>1. Watched' \subseteq Fds /\ (Clients \ Newcomers)' \subseteq Clients
  BY DEF Watched
<1>2. IsFiniteSet(Fds) /\ IsFiniteSet(Clients)
  BY DEF SocketsAssumption
<1>3. IsFiniteSet(Watched') /\ IsFiniteSet((Clients \ Newcomers)')
  BY <1>1, <1>2, FS_Subset
<1>4. QED
  BY <1>3, FS_CardinalityType

(* A client leaves the backlog and is about to be counted.                   *)
LEMMA AboutToCount ==
  ASSUME SocketsAssumption, CountInv, UNCHANGED tableVars,
         Watched' \subseteq Watched, lpc # "add", lpc # "locked", lpc' # "locked",
         NEW c \in Newcomers, Newcomers' \subseteq Newcomers \ {c}
  PROVE  CountInv'
<1>1. Cardinality(Watched') <= Cardinality(Watched)
  BY Finite, FS_Subset
<1>2. Cardinality(Clients \ Newcomers) + 1 <= Cardinality((Clients \ Newcomers)')
  <2> DEFINE S == Clients \ Newcomers
  <2>1. c \in Clients /\ c \notin S /\ S \cup {c} \subseteq (Clients \ Newcomers)'
    BY DEF Newcomers
  <2>2. IsFiniteSet(S)
    BY Finite
  <2> HIDE DEF S
  <2>3. Cardinality(S \cup {c}) = Cardinality(S) + 1
    BY <2>1, <2>2, FS_AddElement
  <2>4. Cardinality(S \cup {c}) <= Cardinality((Clients \ Newcomers)')
    BY <2>1, FiniteNext, FS_Subset
  <2>5. QED
    BY <2>3, <2>4 DEF S
<1>3. /\ TableTypeOK(Fds)' /\ CounterLimited(lpc = "locked")'
      /\ global_connection_id' = global_connection_id
  BY DEF CountInv, TableTypeOK, CounterLimited, tableVars
<1>4. global_connection_id \in Nat
  BY DEF CountInv, TableTypeOK
<1>5. CounterCovers'
  BY <1>1, <1>3, <1>4, Finite, FiniteNext DEF CountInv, CounterCovers
<1>6. CounterCounts'
  BY <1>2, <1>3, <1>4, Finite, FiniteNext DEF CountInv, CounterCounts
<1>7. QED
  BY <1>3, <1>5, <1>6 DEF CountInv

(* It is counted, and its descriptor registered, also where the loop is then  *)
(* locked up.                                                                *)
LEMMA Counted ==
  ASSUME SocketsAssumption, ConnectionTableAssumption, CountInv, NEW fd \in Fds,
         \/ AddNewConnection(fd) /\ lpc' # "locked"
         \/ AddBlocked /\ lpc' = "locked",
         Watched' \subseteq Watched \cup {fd}, Newcomers' \subseteq Newcomers,
         lpc = "add", lpc' # "add"
  PROVE  CountInv'
<1>1. Cardinality(Watched') <= Cardinality(Watched) + 1
  <2>1. IsFiniteSet(Watched) /\ Cardinality(Watched) \in Nat
    BY Finite
  <2>2. IsFiniteSet(Watched \cup {fd}) /\ Cardinality(Watched \cup {fd}) <= Cardinality(Watched) + 1
    <3> DEFINE W == Watched
    <3> HIDE DEF W
    <3>1. IsFiniteSet(W) /\ Cardinality(W) \in Nat
      BY <2>1 DEF W
    <3>2. /\ IsFiniteSet(W \cup {fd})
          /\ Cardinality(W \cup {fd}) = IF fd \in W THEN Cardinality(W) ELSE Cardinality(W) + 1
      BY <3>1, FS_AddElement
    <3>3. Cardinality(W \cup {fd}) <= Cardinality(W) + 1
      BY <3>1, <3>2
    <3>4. QED
      BY <3>2, <3>3 DEF W
  <2>3. Cardinality(Watched') <= Cardinality(Watched \cup {fd})
    BY <2>2, FS_Subset
  <2>4. Cardinality(Watched \cup {fd}) \in Nat
    BY <2>2, FS_CardinalityType
  <2>5. QED
    BY <2>1, <2>2, <2>3, <2>4, FiniteNext
<1>2. Cardinality(Clients \ Newcomers) <= Cardinality((Clients \ Newcomers)')
  <2>1. Clients \ Newcomers \subseteq (Clients \ Newcomers)'
    OBVIOUS
  <2>2. QED
    BY <2>1, FiniteNext, FS_Subset
<1>3. /\ TableTypeOK(Fds)' /\ CounterLimited(lpc = "locked")'
      /\ global_connection_id' = global_connection_id + 1
  <2>1. TableTypeOK(Fds) /\ CounterLimited(FALSE)
    BY DEF CountInv, CounterLimited
  <2>2. CASE AddNewConnection(fd) /\ lpc' # "locked"
    BY <2>1, <2>2, AddCounts DEF CounterLimited
  <2>3. CASE AddBlocked /\ lpc' = "locked"
    BY <2>1, <2>3, BlockedCounts DEF CounterLimited
  <2>4. QED
    BY <2>2, <2>3
<1>4. global_connection_id \in Nat
  BY DEF CountInv, TableTypeOK
<1>5. CounterCovers'
  BY <1>1, <1>3, <1>4, Finite, FiniteNext DEF CountInv, CounterCovers
<1>6. CounterCounts'
  BY <1>2, <1>3, <1>4, Finite, FiniteNext DEF CountInv, CounterCounts
<1>7. QED
  BY <1>3, <1>5, <1>6 DEF CountInv

(* A hangup is counted off: what was watched is no more.                     *)
LEMMA CountedOff ==
  ASSUME SocketsAssumption, ConnectionTableAssumption, CountInv, DropConnection,
         NEW fd \in Watched, Watched' \subseteq Watched \ {fd}, Newcomers' \subseteq Newcomers,
         lpc' # "add", lpc # "locked", lpc' # "locked"
  PROVE  CountInv'
<1>1. Cardinality(Watched') <= Cardinality(Watched) - 1
  <2>1. IsFiniteSet(Watched \ {fd}) /\ Cardinality(Watched \ {fd}) = Cardinality(Watched) - 1
    BY Finite, FS_RemoveElement
  <2>2. Cardinality(Watched') <= Cardinality(Watched \ {fd})
    BY <2>1, FS_Subset
  <2>3. QED
    BY <2>1, <2>2
<1>2. Cardinality(Clients \ Newcomers) <= Cardinality((Clients \ Newcomers)')
  <2>1. Clients \ Newcomers \subseteq (Clients \ Newcomers)'
    OBVIOUS
  <2>2. QED
    BY <2>1, FiniteNext, FS_Subset
<1>3. global_connection_id \in Nat /\ global_connection_id > 0
  BY <1>1, Finite, FiniteNext DEF CountInv, TableTypeOK, CounterCovers
<1>4. /\ TableTypeOK(Fds)' /\ CounterLimited(lpc = "locked")'
      /\ global_connection_id' = global_connection_id - 1
  <2>1. TableTypeOK(Fds) /\ CounterLimited(FALSE)
    BY DEF CountInv, CounterLimited
  <2>2. QED
    BY <1>3, <2>1, DropCounts DEF CounterLimited
<1>5. CounterCovers'
  BY <1>1, <1>3, <1>4, Finite, FiniteNext DEF CountInv, CounterCovers
<1>6. CounterCounts'
  BY <1>2, <1>3, <1>4, Finite, FiniteNext DEF CountInv, CounterCounts
<1>7. QED
  BY <1>4, <1>5, <1>6 DEF CountInv

-------------------------------------------------------------------------------
(* The loop.                                                                 *)

LEMMA LoopKept ==
  ASSUME LoopInv, UNCHANGED loopVars
  PROVE  LoopInv'
BY DEF LoopInv, loopVars, EventAtHand, Current, Event

(* The event at hand is done: the others of the round remain.                *)
LEMMA NextEventKeeps ==
  ASSUME LoopInv, lpc # "wait", NextEvent, new_socket' \in Fds \cup {None}
  PROVE  /\ LoopInv' /\ lpc' # "add" /\ lpc' # "locked"
         /\ \A k \in 1..Len(g_events') :
              /\ g_events'[k].fd # Current.fd
              /\ \E i \in 1..Len(g_events) : g_events[i].fd = g_events'[k].fd
         /\ Current \in Event /\ \E i \in 1..Len(g_events) : g_events[i].fd = Current.fd
<1> DEFINE t == g_events'
<1>1. /\ g_events \in Seq(Event) /\ g_events # <<>> /\ t = Tail(g_events)
      /\ \A i, k \in 1..Len(g_events) : g_events[i].fd = g_events[k].fd => i = k
      /\ lpc' = IF Len(g_events) = 1 THEN "wait" ELSE "event"
  BY DEF LoopInv, EventAtHand, NextEvent
<1>2. /\ Current = g_events[1] /\ Current \in Event /\ 1 \in 1..Len(g_events)
      /\ t \in Seq(Event) /\ Len(t) = Len(g_events) - 1 /\ Len(g_events) \in Nat \ {0}
      /\ \A k \in 1..Len(t) : t[k] = g_events[k + 1] /\ k + 1 \in 1..Len(g_events)
  BY <1>1 DEF Current
<1> HIDE DEF t
<1>3. ASSUME NEW k \in 1..Len(t)
      PROVE  /\ t[k].fd # Current.fd
             /\ \E i \in 1..Len(g_events) : g_events[i].fd = t[k].fd
  <2>1. k + 1 # 1
    OBVIOUS
  <2>2. QED
    BY <1>1, <1>2, <2>1
<1>4. ASSUME NEW i \in 1..Len(t), NEW k \in 1..Len(t), t[i].fd = t[k].fd PROVE i = k
  <2>1. i + 1 = k + 1
    BY <1>1, <1>2, <1>4
  <2>2. QED
    BY <2>1
<1>5. lpc' = "event" => t # <<>>
  <2>1. lpc' = "event" => Len(t) # 0
    BY <1>1, <1>2
  <2>2. t = <<>> => Len(t) = 0
    OBVIOUS
  <2>3. QED
    BY <2>1, <2>2
<1>6. LoopInv' /\ lpc' # "add" /\ lpc' # "locked"
  BY <1>1, <1>2, <1>4, <1>5 DEF LoopInv, EventAtHand, t, Event
<1>7. QED
  BY <1>2, <1>3, <1>6 DEF t

LEMMA BreakLoopKeeps ==
  ASSUME LoopInv, BreakLoop, new_socket' \in Fds \cup {None}
  PROVE  LoopInv' /\ lpc' # "add" /\ lpc' # "locked" /\ Len(g_events') = 0
BY DEF LoopInv, BreakLoop, EventAtHand, Event

-------------------------------------------------------------------------------
(* The jobs.                                                                 *)

LEMMA JobsKept ==
  ASSUME JobsInv, UNCHANGED <<args, poolVars>>
  PROVE  JobsInv'
BY DEF JobsInv, poolVars, ArgsKept, Args, Packet

LEMMA EndJobKeeps ==
  ASSUME JobsInv, NEW j \in Jobs, EndJob(j)
  PROVE  JobsInv'
<1>1. /\ j \in running /\ running' = running \ {j} /\ finished' = finished \cup {j}
      /\ UNCHANGED pending /\ args' = [args EXCEPT ![j] = None]
  BY DEF EndJob, Pool!Finish
<1>2. ArgsKept'
  <2>1. SUFFICES ASSUME NEW i \in Jobs,
                        i \in running' \/ \E k \in 1..Len(pending') : pending'[k] = i
                 PROVE  args'[i] \in [socket_fd : Fds, packets : Seq(Packet) \ {<<>>}]
    BY DEF ArgsKept, Packet
  <2>2. i # j /\ (i \in running \/ \E k \in 1..Len(pending) : pending[k] = i)
    BY <1>1, <2>1 DEF JobsInv
  <2>3. args'[i] = args[i]
    BY <1>1, <2>2 DEF JobsInv
  <2>4. QED
    BY <2>2, <2>3 DEF JobsInv, ArgsKept
<1>3. QED
  BY <1>1, <1>2 DEF JobsInv, Args, Packet

LEMMA RemainingKeeps ==
  ASSUME JobsInv, NEW j \in Jobs, j \in running, Remaining(j)
  PROVE  JobsInv'
<1>1. CASE EndJob(j)
  BY <1>1, EndJobKeeps
<1>2. CASE /\ Len(Packets(j)) = 2 /\ args' = [args EXCEPT ![j].packets = Tail(@)]
           /\ UNCHANGED poolVars
  <2> DEFINE new == [args[j] EXCEPT !.packets = Tail(@)]
  <2>1. args[j] \in [socket_fd : Fds, packets : Seq(Packet) \ {<<>>}] /\ Len(args[j].packets) = 2
    BY <1>2 DEF JobsInv, ArgsKept, Packets
  <2>2. Tail(args[j].packets) \in Seq(Packet) \ {<<>>}
    <3> DEFINE s == args[j].packets
    <3>1. s \in Seq(Packet) /\ Len(s) = 2
      BY <2>1
    <3> HIDE DEF s
    <3>2. s # <<>>
      BY <3>1
    <3>3. Tail(s) \in Seq(Packet) /\ Len(Tail(s)) = 1
      BY <3>1, <3>2
    <3>4. Tail(s) # <<>>
      <4>1. \A t : t = <<>> => Len(t) = 0
        OBVIOUS
      <4>2. Len(Tail(s)) # 0
        BY <3>3
      <4>3. QED
        BY <4>1, <4>2, Zenon
    <3>5. QED
      BY <3>3, <3>4 DEF s
  <2>3. new \in [socket_fd : Fds, packets : Seq(Packet) \ {<<>>}] /\ new \in Args
    BY <2>1, <2>2 DEF Args
  <2>4. args' = [args EXCEPT ![j] = new]
    BY <1>2
  <2> HIDE DEF new
  <2>5. args' \in [Jobs -> Args \cup {None}]
    BY <2>3, <2>4 DEF JobsInv
  <2>6. ArgsKept'
    BY <1>2, <2>3, <2>4 DEF JobsInv, ArgsKept, poolVars, Packet
  <2>7. QED
    BY <1>2, <2>5, <2>6 DEF JobsInv, poolVars, Args, Packet
<1>3. QED
  BY <1>1, <1>2 DEF Remaining

(* What is behind a DIS_CONN has been taken for a short packet.              *)
ShortRest(j) ==
  /\ args' = [args EXCEPT ![j].packets = <<[Head(@) EXCEPT !.kind = "short"]>>]
  /\ UNCHANGED poolVars

LEMMA ShortRestKeeps ==
  ASSUME JobsInv, NEW j \in Jobs, j \in running, ShortRest(j), Kind(j) = "disconn"
  PROVE  JobsInv'
<1> DEFINE p == Head(args[j].packets)
           short == [p EXCEPT !.kind = "short"]
           new == [args[j] EXCEPT !.packets = <<short>>]
<1>1. args[j] \in [socket_fd : Fds, packets : Seq(Packet) \ {<<>>}]
  BY DEF JobsInv, ArgsKept
<1>2. p \in Packet /\ p.kind = "disconn"
  BY <1>1 DEF Kind, Packets
<1> HIDE DEF p
<1>3. p.kind \in Kinds
  BY <1>2 DEF Packet
<1>4. short \in Packet
  BY <1>2, <1>3 DEF Packet
<1> HIDE DEF short
<1>5. <<short>> \in Seq(Packet) \ {<<>>}
  BY <1>4
<1>6. new \in [socket_fd : Fds, packets : Seq(Packet) \ {<<>>}] /\ new \in Args
  BY <1>1, <1>5 DEF Args
<1>7. args' = [args EXCEPT ![j] = new]
  BY DEF ShortRest, short, p
<1> HIDE DEF new
<1>8. args' \in [Jobs -> Args \cup {None}]
  BY <1>6, <1>7 DEF JobsInv
<1>9. UNCHANGED poolVars
  BY DEF ShortRest
<1>10. ArgsKept'
  BY <1>6, <1>7, <1>9 DEF JobsInv, ArgsKept, poolVars, Packet
<1>11. QED
  BY <1>8, <1>9, <1>10 DEF JobsInv, poolVars, Args, Packet

LEMMA SubmitKeeps ==
  ASSUME JobsInv, NEW j \in Jobs, NEW fd \in Fds, NEW packets \in Seq(Packet) \ {<<>>},
         Submit(j, fd, packets)
  PROVE  JobsInv'
<1> DEFINE new == [socket_fd |-> fd, packets |-> packets]
<1>1. /\ j \notin running /\ \A i \in 1..Len(pending) : pending[i] # j
      /\ pending' = Append(pending, j) /\ UNCHANGED <<running, finished>>
      /\ args' = [args EXCEPT ![j] = new]
  BY DEF Submit, Pool!Submit, Pool!Accepted
<1>2. /\ pending \in Seq(Jobs) /\ Distinct(pending)
      /\ \A i \in 1..Len(pending) : pending[i] \notin running
  BY DEF JobsInv
<1>3. pending' \in Seq(Jobs) /\ Distinct(pending')
  BY <1>1, <1>2, AppendDistinct
<1>4. /\ Len(pending') = Len(pending) + 1 /\ Len(pending) \in Nat /\ pending'[Len(pending) + 1] = j
      /\ \A i \in 1..Len(pending) : pending'[i] = pending[i]
  BY <1>1, <1>2
<1>5. \A i \in 1..Len(pending') : pending'[i] \notin running'
  BY <1>1, <1>2, <1>4
<1>6. new \in [socket_fd : Fds, packets : Seq(Packet) \ {<<>>}] /\ new \in Args
  BY DEF Args
<1> HIDE DEF new
<1>7. args' \in [Jobs -> Args \cup {None}]
  BY <1>1, <1>6 DEF JobsInv
<1>8. ArgsKept'
  <2>1. SUFFICES ASSUME NEW i \in Jobs, i # j,
                        i \in running' \/ \E k \in 1..Len(pending') : pending'[k] = i
                 PROVE  args'[i] \in [socket_fd : Fds, packets : Seq(Packet) \ {<<>>}]
    BY <1>1, <1>6 DEF ArgsKept, Packet, JobsInv
  <2>2. i \in running \/ \E k \in 1..Len(pending) : pending[k] = i
    BY <1>1, <1>4, <2>1
  <2>3. args'[i] = args[i]
    BY <1>1, <2>1 DEF JobsInv
  <2>4. QED
    BY <2>2, <2>3 DEF JobsInv, ArgsKept
<1>9. QED
  BY <1>1, <1>3, <1>5, <1>7, <1>8 DEF JobsInv, Args, Packet

LEMMA StartKeeps ==
  ASSUME JobsInv, StartJob
  PROVE  JobsInv'
<1>1. /\ pending # <<>> /\ running' = running \cup {Head(pending)} /\ pending' = Tail(pending)
      /\ UNCHANGED <<finished, args>>
  BY DEF StartJob, Pool!Start
<1>2. /\ pending' \in Seq(Jobs) /\ Distinct(pending') /\ Head(pending) \in Jobs
      /\ \A k \in 1..Len(pending') :
           k + 1 \in 1..Len(pending) /\ pending'[k] = pending[k + 1] /\ pending'[k] # Head(pending)
  BY <1>1, TailDistinct DEF JobsInv
<1>3. Head(pending) = pending[1] /\ 1 \in 1..Len(pending)
  BY <1>1 DEF JobsInv
<1>4. ArgsKept'
  <2>1. SUFFICES ASSUME NEW i \in Jobs,
                        i \in running' \/ \E k \in 1..Len(pending') : pending'[k] = i
                 PROVE  args[i] \in [socket_fd : Fds, packets : Seq(Packet) \ {<<>>}]
    BY <1>1 DEF ArgsKept, Packet
  <2>2. i \in running \/ \E k \in 1..Len(pending) : pending[k] = i
    BY <1>1, <1>2, <1>3, <2>1
  <2>3. QED
    BY <2>2 DEF JobsInv, ArgsKept
<1>5. QED
  BY <1>1, <1>2, <1>4 DEF JobsInv, Args, Packet

-------------------------------------------------------------------------------
(* The actions of the loop.                                                  *)

Assumptions ==
  SocketsAssumption /\ ConnectionTableAssumption /\ ServerAssumption

LEMMA EpollWaitKeeps ==
  ASSUME Assumptions, IInv, EpollWait
  PROVE  IInv'
<1> DEFINE n == IF Len(ReadyEvents) < MaxEvents THEN Len(ReadyEvents) ELSE MaxEvents
<1>1. /\ ReadyEvents # <<>> /\ g_events' = SubSeq(ReadyEvents, 1, n)
      /\ lpc = "wait" /\ lpc' = "event"
      /\ \E S : ready' = Keep(ready, S)
      /\ UNCHANGED <<new_socket, args, poolVars, tableVars, client, backlog, sock,
                     inbuf, reset, interest, sent, inbox, up>>
  BY DEF EpollWait, At
<1>2. /\ ReadyEvents \in Seq(Event)
      /\ \A i, k \in 1..Len(ReadyEvents) : ReadyEvents[i].fd = ReadyEvents[k].fd => i = k
      /\ \A i \in 1..Len(ReadyEvents) :
           ReadyEvents[i].fd # Listener => interest[ReadyEvents[i].fd] # {}
  BY Parts, ReadyEventsFacts DEF Assumptions
<1>3. /\ n \in 1..Len(ReadyEvents) /\ Len(g_events') = n /\ g_events' \in Seq(Event)
      /\ \A i \in 1..n : i \in 1..Len(ReadyEvents) /\ g_events'[i] = ReadyEvents[i]
  <2> DEFINE r == ReadyEvents
  <2>1. r \in Seq(Event) /\ r # <<>> /\ MaxEvents \in Nat \ {0}
    BY <1>1, <1>2 DEF Assumptions, ServerAssumption
  <2> HIDE DEF r
  <2>2. Len(r) \in Nat \ {0}
    BY <2>1
  <2>3. n \in 1..Len(r)
    BY <2>1, <2>2 DEF r
  <2> HIDE DEF n
  <2>4. g_events' = SubSeq(r, 1, n)
    BY <1>1 DEF r
  <2>5. QED
    BY <2>1, <2>2, <2>3, <2>4 DEF r
<1> HIDE DEF n
<1>4. SocketsInv'
  BY <1>1, Parts, TakeInOrder
<1>5. LoopInv'
  <2>1. g_events' # <<>>
    <3>1. \A t : t = <<>> => Len(t) = 0
      OBVIOUS
    <3>2. Len(g_events') # 0
      BY <1>3
    <3>3. QED
      BY <3>1, <3>2, Zenon
  <2>2. \A i, k \in 1..Len(g_events') : g_events'[i].fd = g_events'[k].fd => i = k
    BY <1>2, <1>3
  <2>3. new_socket' \in Fds \cup {None}
    BY <1>1, Parts DEF LoopInv
  <2>4. QED
    BY <1>1, <1>3, <2>1, <2>2, <2>3 DEF LoopInv, EventAtHand, Event
<1>6. JobsInv'
  BY <1>1, Parts, JobsKept
<1>7. CountInv'
  <2>1. Watched' \subseteq Watched
    <3>1. SUFFICES ASSUME NEW fd \in Fds,
                          interest[fd] # {} \/ \E i \in 1..n : g_events'[i].fd = fd
                   PROVE  interest[fd] # {}
      BY <1>1, <1>3 DEF Watched
    <3>2. fd # Listener
      BY DEF Assumptions, SocketsAssumption
    <3>3. QED
      BY <1>2, <1>3, <3>1, <3>2
  <2>2. Newcomers' = Newcomers
    BY <1>1 DEF Newcomers
  <2>3. QED
    BY <1>1, <2>1, <2>2, Parts, NothingCounted DEF Assumptions
<1>8. QED
  BY <1>1, <1>4, <1>5, <1>6, <1>7, Parts, PartsNext

(* What does not change what is registered, only takes events from the round. *)
LEMMA EventsOnlyLeave ==
  ASSUME UNCHANGED interest,
         \A k \in 1..Len(g_events') : \E i \in 1..Len(g_events) : g_events[i].fd = g_events'[k].fd
  PROVE  Watched' \subseteq Watched
BY DEF Watched

LEMMA AcceptKeeps ==
  ASSUME Assumptions, IInv, AcceptConnection
  PROVE  IInv'
<1>1. SocketsInv /\ LoopInv /\ JobsInv /\ CountInv /\ up \in BOOLEAN
  BY Parts
<1>2. lpc = "event" /\ UNCHANGED <<args, poolVars, tableVars, up>>
  BY DEF AcceptConnection, At
<1>3. JobsInv' /\ up' \in BOOLEAN
  BY <1>1, <1>2, JobsKept
<1>4. CASE AcceptFails /\ NextEvent /\ UNCHANGED new_socket
  <2>1. UNCHANGED sockVars /\ new_socket' \in Fds \cup {None}
    BY <1>1, <1>4 DEF AcceptFails, LoopInv
  <2>2. SocketsInv'
    BY <1>1, <2>1 DEF SocketsInv, SocketsTypeOK, QueuesInOrder, sockVars, Packet
  <2>3. /\ LoopInv' /\ lpc' # "add" /\ lpc' # "locked"
        /\ \A k \in 1..Len(g_events') :
             \E i \in 1..Len(g_events) : g_events[i].fd = g_events'[k].fd
    BY <1>1, <1>2, <1>4, <2>1, NextEventKeeps
  <2>4. Watched' \subseteq Watched /\ Newcomers' = Newcomers
    BY <2>1, <2>3, EventsOnlyLeave DEF sockVars, Newcomers
  <2>5. CountInv'
    BY <1>1, <1>2, <2>3, <2>4, NothingCounted DEF Assumptions
  <2>6. QED
    BY <1>3, <2>2, <2>3, <2>5, PartsNext
<1>5. ASSUME NEW fd \in Fds, Accept(fd), new_socket' = fd, lpc' = "add", UNCHANGED g_events
      PROVE  IInv'
  <2>1. SocketsInv'
    BY <1>1, <1>5, AcceptInOrder DEF Assumptions
  <2>2. LoopInv'
    BY <1>1, <1>2, <1>5 DEF LoopInv, EventAtHand, Event
  <2>3. Watched' \subseteq Watched
    BY <1>5, EventsOnlyLeave DEF Accept
  <2>4. Head(backlog) \in Newcomers /\ Newcomers' \subseteq Newcomers \ {Head(backlog)}
    <3>1. /\ backlog # <<>> /\ backlog' = Tail(backlog) /\ UNCHANGED client
          /\ backlog \in Seq(Clients) /\ Distinct(backlog)
          /\ \A i \in 1..Len(backlog) : client[backlog[i]] # "away"
      BY <1>1, <1>5 DEF Accept, SocketsInv, SocketsTypeOK, QueuesInOrder
    <3>2. /\ Head(backlog) \in Clients
          /\ \A k \in 1..Len(backlog') :
               k + 1 \in 1..Len(backlog) /\ backlog'[k] = backlog[k + 1] /\ backlog'[k] # Head(backlog)
      BY <3>1, TailDistinct
    <3>3. Head(backlog) = backlog[1] /\ 1 \in 1..Len(backlog)
      BY <3>1
    <3>4. Head(backlog) \in Newcomers
      BY <3>2, <3>3 DEF Newcomers
    <3>5. client[Head(backlog)] # "away"
      BY <3>1, <3>3
    <3>6. QED
      BY <3>1, <3>2, <3>4, <3>5 DEF Newcomers
  <2>5. CountInv'
    BY <1>1, <1>2, <1>5, <2>3, <2>4, AboutToCount DEF Assumptions
  <2>6. QED
    BY <1>3, <2>1, <2>2, <2>5, PartsNext
<1>6. QED
  BY <1>4, <1>5 DEF AcceptConnection

(* What changes nothing of the loop and the table.                            *)
LEMMA StepBeside ==
  ASSUME Assumptions, IInv, UNCHANGED <<loopVars, tableVars>>,
         SocketsInv', JobsInv', up' \in BOOLEAN,
         \A fd \in Fds : interest'[fd] # {} => interest[fd] # {},
         Newcomers' \subseteq Newcomers
  PROVE  IInv'
<1>1. LoopInv'
  BY Parts, LoopKept
<1>2. Watched' \subseteq Watched
  BY DEF Watched, loopVars
<1>3. CountInv'
  BY <1>2, Parts, NothingCounted DEF Assumptions, loopVars
<1>4. QED
  BY <1>1, <1>3, PartsNext

LEMMA AddConnectionKeeps ==
  ASSUME Assumptions, IInv, AddConnection
  PROVE  IInv'
<1>1. SocketsInv /\ LoopInv /\ JobsInv /\ CountInv /\ up \in BOOLEAN
  BY Parts
<1>2. /\ lpc = "add" /\ new_socket \in Fds
      /\ UNCHANGED <<args, poolVars>>
  BY <1>1 DEF AddConnection, At, LoopInv, EventAtHand
<1>3. JobsInv' /\ up' \in BOOLEAN
  BY <1>1, <1>2, JobsKept DEF AddConnection
<1>4. ASSUME NextEvent, new_socket' = None
      PROVE  /\ LoopInv' /\ lpc' # "add" /\ lpc' # "locked"
             /\ \A k \in 1..Len(g_events') :
                  \E i \in 1..Len(g_events) : g_events[i].fd = g_events'[k].fd
  BY <1>1, <1>2, <1>4, NextEventKeeps
<1>5. CASE UNCHANGED <<sockVars, tableVars, loopVars>>
  <2>1. SocketsInv' /\ Newcomers' = Newcomers /\ UNCHANGED interest
    BY <1>1, <1>5 DEF SocketsInv, SocketsTypeOK, QueuesInOrder, sockVars, Packet, Newcomers
  <2>2. QED
    BY <1>3, <1>5, <2>1, StepBeside
<1>6. CASE UNCHANGED <<sockVars, tableVars>> /\ NextEvent /\ new_socket' = None
  <2>1. SocketsInv'
    BY <1>1, <1>6 DEF SocketsInv, SocketsTypeOK, QueuesInOrder, sockVars, Packet
  <2>2. Watched' \subseteq Watched /\ Newcomers' = Newcomers
    BY <1>4, <1>6, EventsOnlyLeave DEF sockVars, Newcomers
  <2>3. CountInv'
    BY <1>1, <1>2, <1>4, <1>6, <2>2, NothingCounted DEF Assumptions
  <2>4. QED
    BY <1>3, <1>4, <1>6, <2>1, <2>3, PartsNext
<1>7. CASE /\ Register(new_socket, FirstMask)
           /\ \/ AddNewConnection(new_socket) /\ NextEvent /\ new_socket' = None
              \/ AddBlocked /\ lpc' = "locked" /\ UNCHANGED <<g_events, new_socket>>
  <2>1. SocketsInv'
    BY <1>1, <1>2, <1>7, RegisterInOrder DEF Assumptions
  <2>5. /\ LoopInv' /\ lpc' # "add"
        /\ \A k \in 1..Len(g_events') :
             \E i \in 1..Len(g_events) : g_events[i].fd = g_events'[k].fd
    <3>1. CASE NextEvent /\ new_socket' = None
      BY <1>4, <3>1
    <3>2. CASE lpc' = "locked" /\ UNCHANGED <<g_events, new_socket>>
      BY <1>1, <1>2, <3>2 DEF LoopInv, EventAtHand, Event
    <3>3. QED
      BY <1>7, <3>1, <3>2
  <2>2. Watched' \subseteq Watched \cup {new_socket} /\ Newcomers' = Newcomers
    <3>1. /\ interest' = [interest EXCEPT ![new_socket] = FirstMask]
          /\ UNCHANGED <<client, backlog>>
      BY <1>7 DEF Register
    <3>2. \A fd \in Fds : fd # new_socket => interest'[fd] = interest[fd]
      BY <1>1, <3>1 DEF SocketsInv, SocketsTypeOK
    <3>3. Watched' \subseteq Watched \cup {new_socket}
      BY <2>5, <3>2 DEF Watched
    <3>4. QED
      BY <3>1, <3>3 DEF Newcomers
  <2>3. CountInv'
    <3>1. \/ AddNewConnection(new_socket) /\ lpc' # "locked"
          \/ AddBlocked /\ lpc' = "locked"
      BY <1>4, <1>7
    <3>2. QED
      BY <1>1, <1>2, <2>2, <2>5, <3>1, Counted DEF Assumptions
  <2>4. QED
    BY <1>3, <2>1, <2>3, <2>5, PartsNext
<1>8. QED
  BY <1>5, <1>6, <1>7 DEF AddConnection

(* The event at hand, where the handlers of connections begin.               *)
LEMMA AtEvent ==
  ASSUME Assumptions, LoopInv, lpc # "wait", Current.fd # Listener
  PROVE  /\ Current.fd \in Fds /\ Current.fd \in Watched
         /\ Current \in Event /\ new_socket \in Fds \cup {None}
<1>1. g_events \in Seq(Event) /\ g_events # <<>> /\ new_socket \in Fds \cup {None}
  BY DEF LoopInv, EventAtHand
<1>2. Current \in Event /\ Current = g_events[1] /\ 1 \in 1..Len(g_events)
  BY <1>1 DEF Current
<1>3. Current.fd \in Fds
  BY <1>2 DEF Event
<1>4. Current.fd \in Watched
  BY <1>2, <1>3 DEF Watched
<1>5. QED
  BY <1>1, <1>2, <1>3, <1>4

LEMMA HangupKeeps ==
  ASSUME Assumptions, IInv, Hangup
  PROVE  IInv'
<1> DEFINE fd == Current.fd
<1>1. SocketsInv /\ LoopInv /\ JobsInv /\ CountInv /\ up \in BOOLEAN
  BY Parts
<1>2. /\ lpc = "event" /\ fd # Listener /\ CloseFd(fd) /\ DropConnection /\ NextEvent
      /\ UNCHANGED <<new_socket, args, poolVars, up>>
  BY DEF Hangup, At
<1>3. fd \in Fds /\ fd \in Watched /\ new_socket' \in Fds \cup {None}
  BY <1>1, <1>2, AtEvent
<1>4. JobsInv' /\ up' \in BOOLEAN
  BY <1>1, <1>2, JobsKept
<1>5. SocketsInv'
  BY <1>1, <1>2, <1>3, CloseFdInOrder DEF Assumptions
<1>6. /\ LoopInv' /\ lpc' # "add" /\ lpc' # "locked"
      /\ \A k \in 1..Len(g_events') :
           /\ g_events'[k].fd # fd
           /\ \E i \in 1..Len(g_events) : g_events[i].fd = g_events'[k].fd
  BY <1>1, <1>2, <1>3, NextEventKeeps
<1> HIDE DEF fd
<1>7. Watched' \subseteq Watched \ {fd} /\ Newcomers' = Newcomers
  <2>1. interest' = [interest EXCEPT ![fd] = {}] /\ UNCHANGED <<client, backlog>>
    BY <1>2 DEF CloseFd
  <2>2. interest'[fd] = {} /\ \A g \in Fds : g # fd => interest'[g] = interest[g]
    BY <1>1, <1>3, <2>1 DEF SocketsInv, SocketsTypeOK
  <2>3. Watched' \subseteq Watched \ {fd}
    BY <1>6, <2>2 DEF Watched
  <2>4. QED
    BY <2>1, <2>3 DEF Newcomers
<1>8. CountInv'
  BY <1>1, <1>2, <1>3, <1>6, <1>7, CountedOff DEF Assumptions
<1>9. QED
  BY <1>4, <1>5, <1>6, <1>8, PartsNext

LEMMA RecvDataKeeps ==
  ASSUME Assumptions, IInv, RecvData
  PROVE  IInv'
<1> DEFINE fd == Current.fd
<1>1. SocketsInv /\ LoopInv /\ JobsInv /\ CountInv /\ up \in BOOLEAN
  BY Parts
<1>2. /\ lpc = "event" /\ fd # Listener /\ Receive(fd, RecvMax) /\ lpc' = "mod"
      /\ \E j \in Jobs : Submit(j, fd, Received(fd, RecvMax))
      /\ UNCHANGED <<g_events, new_socket, tableVars, up>>
  BY DEF RecvData, Readable, At
<1>3. fd \in Fds
  BY <1>1, <1>2, AtEvent
<1>4. SocketsInv' /\ Received(fd, RecvMax) \in Seq(Packet) \ {<<>>}
  <2>1. RecvMax \in Nat \ {0}
    BY DEF Assumptions, ServerAssumption
  <2>2. QED
    BY <1>1, <1>2, <1>3, <2>1, ReceiveInOrder DEF Assumptions
<1>5. LoopInv'
  BY <1>1, <1>2, <1>3 DEF LoopInv, EventAtHand, Current, Event
<1> HIDE DEF fd
<1>6. JobsInv'
  BY <1>1, <1>2, <1>3, <1>4, SubmitKeeps
<1>7. Watched' = Watched /\ Newcomers' = Newcomers
  BY <1>2 DEF Receive, Watched, Newcomers
<1>8. CountInv'
  BY <1>1, <1>2, <1>7, NothingCounted DEF Assumptions
<1>9. QED
  BY <1>1, <1>2, <1>4, <1>5, <1>6, <1>8, PartsNext

LEMMA RecvNothingKeeps ==
  ASSUME Assumptions, IInv, RecvNothing
  PROVE  IInv'
<1>1. SocketsInv /\ LoopInv /\ JobsInv /\ CountInv /\ up \in BOOLEAN
  BY Parts
<1>2. /\ lpc = "event" /\ BreakLoop
      /\ UNCHANGED <<new_socket, args, poolVars, tableVars, sockVars, up>>
  BY DEF RecvNothing, Readable, At
<1>3. SocketsInv' /\ JobsInv' /\ up' \in BOOLEAN
  BY <1>1, <1>2, JobsKept DEF SocketsInv, SocketsTypeOK, QueuesInOrder, sockVars, Packet
<1>4. LoopInv' /\ lpc' # "add" /\ lpc' # "locked" /\ Len(g_events') = 0
  <2>1. new_socket' \in Fds \cup {None}
    BY <1>1, <1>2 DEF LoopInv
  <2>2. QED
    BY <1>1, <1>2, <2>1, BreakLoopKeeps
<1>5. Watched' \subseteq Watched /\ Newcomers' = Newcomers
  BY <1>2, <1>4, EventsOnlyLeave DEF sockVars, Newcomers
<1>6. CountInv'
  BY <1>1, <1>2, <1>4, <1>5, NothingCounted DEF Assumptions
<1>7. QED
  BY <1>3, <1>4, <1>6, PartsNext

LEMMA SkipEventKeeps ==
  ASSUME Assumptions, IInv, SkipEvent
  PROVE  IInv'
<1>1. SocketsInv /\ LoopInv /\ JobsInv /\ CountInv /\ up \in BOOLEAN
  BY Parts
<1>2. /\ lpc = "event" /\ NextEvent
      /\ UNCHANGED <<new_socket, args, poolVars, tableVars, sockVars, up>>
  BY DEF SkipEvent, At
<1>3. SocketsInv' /\ JobsInv' /\ up' \in BOOLEAN
  BY <1>1, <1>2, JobsKept DEF SocketsInv, SocketsTypeOK, QueuesInOrder, sockVars, Packet
<1>4. /\ LoopInv' /\ lpc' # "add" /\ lpc' # "locked"
      /\ \A k \in 1..Len(g_events') :
           \E i \in 1..Len(g_events) : g_events[i].fd = g_events'[k].fd
  <2>1. new_socket' \in Fds \cup {None}
    BY <1>1, <1>2 DEF LoopInv
  <2>2. QED
    BY <1>1, <1>2, <2>1, NextEventKeeps
<1>5. Watched' \subseteq Watched /\ Newcomers' = Newcomers
  BY <1>2, <1>4, EventsOnlyLeave DEF sockVars, Newcomers
<1>6. CountInv'
  BY <1>1, <1>2, <1>4, <1>5, NothingCounted DEF Assumptions
<1>7. QED
  BY <1>3, <1>4, <1>6, PartsNext

LEMMA ModFdKeeps ==
  ASSUME Assumptions, IInv, ModFd
  PROVE  IInv'
<1> DEFINE fd == Current.fd
<1>1. SocketsInv /\ LoopInv /\ JobsInv /\ CountInv /\ up \in BOOLEAN
  BY Parts
<1>2. /\ lpc = "mod" /\ Rearm(fd) /\ NextEvent
      /\ UNCHANGED <<new_socket, args, poolVars, tableVars, up>>
  BY DEF ModFd, At
<1>3. fd \in Fds /\ fd \in Watched /\ new_socket' \in Fds \cup {None}
  <2>1. fd \in Fds /\ Listener \notin Fds
    BY <1>1, <1>2 DEF LoopInv, EventAtHand, Assumptions, SocketsAssumption
  <2>2. QED
    BY <1>1, <1>2, <2>1, AtEvent
<1>4. JobsInv' /\ up' \in BOOLEAN
  BY <1>1, <1>2, JobsKept
<1>5. /\ LoopInv' /\ lpc' # "add" /\ lpc' # "locked"
      /\ \A k \in 1..Len(g_events') :
           \E i \in 1..Len(g_events) : g_events[i].fd = g_events'[k].fd
  BY <1>1, <1>2, <1>3, NextEventKeeps
<1> HIDE DEF fd
<1>6. SocketsInv' /\ Watched' \subseteq Watched /\ Newcomers' = Newcomers
  <2>1. CASE UNCHANGED sockVars
    <3>1. SocketsInv'
      BY <1>1, <2>1 DEF SocketsInv, SocketsTypeOK, QueuesInOrder, sockVars, Packet
    <3>2. QED
      BY <1>5, <2>1, <3>1, EventsOnlyLeave DEF sockVars, Newcomers
  <2>2. CASE Register(fd, AgainMask)
    <3>1. SocketsInv'
      BY <1>1, <1>3, <2>2, RegisterInOrder DEF Assumptions
    <3>2. interest' = [interest EXCEPT ![fd] = AgainMask] /\ UNCHANGED <<client, backlog>>
      BY <2>2 DEF Register
    <3>3. \A g \in Fds : g # fd => interest'[g] = interest[g]
      BY <1>1, <3>2 DEF SocketsInv, SocketsTypeOK
    <3>4. Watched' \subseteq Watched
      BY <1>3, <1>5, <3>3 DEF Watched
    <3>5. QED
      BY <3>1, <3>2, <3>4 DEF Newcomers
  <2>3. QED
    BY <1>2, <2>1, <2>2 DEF Rearm
<1>7. CountInv'
  BY <1>1, <1>2, <1>5, <1>6, NothingCounted DEF Assumptions
<1>8. QED
  BY <1>4, <1>5, <1>6, <1>7, PartsNext

-------------------------------------------------------------------------------
(* The workers and the clients: the loop and the table stay as they are.      *)

LEMMA CloseOnlyLeaves ==
  ASSUME SocketsInv, NEW fd \in Fds, CloseFd(fd)
  PROVE  /\ \A g \in Fds : interest'[g] # {} => interest[g] # {}
         /\ Newcomers' = Newcomers
<1>1. interest' = [interest EXCEPT ![fd] = {}] /\ UNCHANGED <<client, backlog>>
  BY DEF CloseFd
<1>2. QED
  BY <1>1 DEF SocketsInv, SocketsTypeOK, Newcomers

(* What a worker parses is what was received on a descriptor.                *)
LEMMA RunningArgs ==
  ASSUME JobsInv, NEW j \in Jobs, j \in running
  PROVE  Fd(j) \in Fds /\ Head(Packets(j)) \in Packet
<1>1. args[j] \in [socket_fd : Fds, packets : Seq(Packet) \ {<<>>}]
  BY DEF JobsInv, ArgsKept
<1>2. QED
  BY <1>1 DEF Fd, Packets

LEMMA WorkerStepKeeps ==
  ASSUME Assumptions, IInv, WorkerStep
  PROVE  IInv'
<1>1. SocketsInv /\ LoopInv /\ JobsInv /\ CountInv /\ up \in BOOLEAN
  BY Parts
<1>2. CASE StartJob
  <2>1. UNCHANGED <<loopVars, tableVars, sockVars, up>> /\ JobsInv'
    BY <1>1, <1>2, StartKeeps DEF StartJob
  <2>2. SocketsInv' /\ Newcomers' = Newcomers
    BY <1>1, <2>1 DEF SocketsInv, SocketsTypeOK, QueuesInOrder, sockVars, Packet, Newcomers
  <2>3. QED
    BY <1>1, <2>1, <2>2, StepBeside DEF sockVars
<1>3. ASSUME NEW j \in Jobs, NotSSP(j) PROVE IInv'
  <2>1. EndJob(j) /\ UNCHANGED <<loopVars, tableVars, sockVars, up>>
    BY <1>3 DEF NotSSP
  <2>2. SocketsInv' /\ Newcomers' = Newcomers
    BY <1>1, <2>1 DEF SocketsInv, SocketsTypeOK, QueuesInOrder, sockVars, Packet, Newcomers
  <2>3. QED
    BY <1>1, <2>1, <2>2, EndJobKeeps, StepBeside DEF sockVars
<1>4. ASSUME NEW j \in Jobs, ReplyPacket(j) PROVE IInv'
  <2>1. j \in running /\ UNCHANGED <<loopVars, tableVars>>
    BY <1>4 DEF ReplyPacket, Parses
  <2>2. CASE Reply(Fd(j), Head(Packets(j))) /\ Remaining(j) /\ UNCHANGED up
    <3>1. SocketsInv' /\ UNCHANGED <<client, backlog, sock, interest>>
      BY <1>1, <2>1, <2>2, RunningArgs, ReplyInOrder DEF Assumptions
    <3>2. JobsInv'
      BY <1>1, <2>1, <2>2, RemainingKeeps
    <3>3. Newcomers' = Newcomers
      BY <3>1 DEF Newcomers
    <3>4. QED
      BY <1>1, <2>1, <2>2, <3>1, <3>2, <3>3, StepBeside
  <2>3. CASE up' = FALSE /\ UNCHANGED <<sockVars, args, poolVars>>
    <3>1. SocketsInv' /\ Newcomers' = Newcomers
      BY <1>1, <2>3 DEF SocketsInv, SocketsTypeOK, QueuesInOrder, sockVars, Packet, Newcomers
    <3>2. JobsInv'
      BY <1>1, <2>3, JobsKept
    <3>3. QED
      BY <2>1, <2>3, <3>1, <3>2, StepBeside DEF sockVars
  <2>4. QED
    BY <1>4, <2>2, <2>3 DEF ReplyPacket
<1>5. ASSUME NEW j \in Jobs, DisConn(j) PROVE IInv'
  <2>1. /\ j \in running /\ CloseFd(Fd(j)) /\ UNCHANGED <<loopVars, tableVars>>
        /\ \/ Remaining(j) \/ EndJob(j)
           \/ ShortRest(j)
        /\ up' \in BOOLEAN
        /\ Kind(j) = "disconn"
    BY <1>1, <1>5 DEF DisConn, Parses, ShortRest
  <2>2. Fd(j) \in Fds
    BY <1>1, <2>1, RunningArgs
  <2>3. SocketsInv' /\ JobsInv'
    BY <1>1, <2>1, <2>2, CloseFdInOrder, RemainingKeeps, EndJobKeeps, ShortRestKeeps
    DEF Assumptions
  <2>4. QED
    BY <1>1, <2>1, <2>2, <2>3, CloseOnlyLeaves, StepBeside
<1>6. ASSUME NEW j \in Jobs, ShortPacket(j) PROVE IInv'
  <2>1. /\ j \in running /\ EndJob(j) /\ UNCHANGED <<loopVars, tableVars, up>>
        /\ (CloseFd(Fd(j)) \/ \E fd \in Fds : CloseFd(fd)) \/ UNCHANGED sockVars
    BY <1>6 DEF ShortPacket, Parses
  <2>2. Fd(j) \in Fds
    BY <1>1, <2>1, RunningArgs
  <2>3. JobsInv'
    BY <1>1, <2>1, EndJobKeeps
  <2>4. ASSUME NEW fd \in Fds, CloseFd(fd) PROVE IInv'
    <3>1. SocketsInv'
      BY <1>1, <2>4, CloseFdInOrder DEF Assumptions
    <3>2. QED
      BY <1>1, <2>1, <2>3, <2>4, <3>1, CloseOnlyLeaves, StepBeside
  <2>5. CASE UNCHANGED sockVars
    <3>1. SocketsInv' /\ Newcomers' = Newcomers
      BY <1>1, <2>5 DEF SocketsInv, SocketsTypeOK, QueuesInOrder, sockVars, Packet, Newcomers
    <3>2. QED
      BY <1>1, <2>1, <2>3, <2>5, <3>1, StepBeside DEF sockVars
  <2>6. QED
    BY <2>1, <2>2, <2>4, <2>5
<1>7. QED
  BY <1>2, <1>3, <1>4, <1>5, <1>6 DEF WorkerStep, ParsePacket

LEMMA EnvironmentKeeps ==
  ASSUME Assumptions, IInv, Environment
  PROVE  IInv'
<1>1. SocketsInv /\ LoopInv /\ JobsInv /\ CountInv /\ up \in BOOLEAN
  BY Parts
<1>2. PICK c \in Clients :
        /\ UNCHANGED <<loopVars, args, poolVars, tableVars, up>>
        /\ Connect(c) \/ (\E kind \in Kinds : ClientSend(c, kind)) \/ ClientClose(c)
  BY DEF Environment, Alone
<1>3. JobsInv' /\ up' \in BOOLEAN
  BY <1>1, <1>2, JobsKept
<1>4. CASE Connect(c)
  <2>1. SocketsInv'
    BY <1>1, <1>4, ConnectInOrder DEF Assumptions
  <2>2. Newcomers' \subseteq Newcomers
    <3>1. /\ client[c] = "away" /\ client' = [client EXCEPT ![c] = "connected"]
          /\ backlog' = Append(backlog, c) /\ backlog \in Seq(Clients)
          /\ client \in [Clients -> {"away", "connected", "closed"}]
      BY <1>1, <1>4 DEF Connect, SocketsInv, SocketsTypeOK
    <3>2. \A i \in 1..Len(backlog') :
            backlog'[i] = c \/ \E k \in 1..Len(backlog) : backlog[k] = backlog'[i]
      <4>1. TAKE i \in 1..Len(backlog')
      <4>2. Len(backlog') = Len(backlog) + 1 /\ Len(backlog) \in Nat
        BY <3>1
      <4>3. CASE i \in 1..Len(backlog)
        BY <3>1, <4>3
      <4>4. CASE i = Len(backlog) + 1
        BY <3>1, <4>4
      <4>5. QED
        BY <4>2, <4>3, <4>4
    <3>3. QED
      BY <3>1, <3>2 DEF Newcomers
  <2>3. UNCHANGED interest
    BY <1>4 DEF Connect
  <2>4. QED
    BY <1>2, <1>3, <2>1, <2>2, <2>3, StepBeside
<1>5. ASSUME NEW kind \in Kinds, ClientSend(c, kind) PROVE IInv'
  <2>1. SocketsInv'
    BY <1>1, <1>5, ClientSendInOrder DEF Assumptions
  <2>2. UNCHANGED interest /\ Newcomers' = Newcomers
    BY <1>5 DEF ClientSend, Newcomers
  <2>3. QED
    BY <1>2, <1>3, <2>1, <2>2, StepBeside
<1>6. CASE ClientClose(c)
  <2>1. SocketsInv'
    BY <1>1, <1>6, ClientCloseInOrder DEF Assumptions
  <2>2. UNCHANGED interest /\ Newcomers' \subseteq Newcomers
    BY <1>1, <1>6 DEF ClientClose, Newcomers, SocketsInv, SocketsTypeOK
  <2>3. QED
    BY <1>2, <1>3, <2>1, <2>2, StepBeside
<1>7. QED
  BY <1>2, <1>4, <1>5, <1>6

-------------------------------------------------------------------------------
LEMMA InitInv ==
  ASSUME Assumptions, Init
  PROVE  IInv
<1>1. SocketsInv
  BY DEF Init, SocketsInit, SocketsInv, SocketsTypeOK, QueuesInOrder, Distinct
<1>2. LoopInv
  BY DEF Init, LoopInv, EventAtHand
<1>3. JobsInv
  BY DEF Init, JobsInv, ArgsKept, Distinct
<1>4. TableTypeOK(Fds) /\ CounterLimited(lpc = "locked")
  BY DEF Assumptions, ConnectionTableAssumption, Init, TableInit, TableTypeOK, CounterLimited
<1>5. CounterCovers
  <2>1. Watched = {}
    BY DEF Init, SocketsInit, Watched
  <2>2. QED
    BY <2>1, FS_EmptySet DEF CounterCovers, Init, TableInit
<1>6. CounterCounts
  BY Finite DEF Assumptions, CounterCounts, Init, TableInit
<1>7. up \in BOOLEAN
  BY DEF Init
<1>8. QED
  BY <1>1, <1>2, <1>3, <1>4, <1>5, <1>6, <1>7, Parts DEF CountInv

LEMMA NextInv ==
  ASSUME Assumptions, IInv, [Next]_serverVars
  PROVE  IInv'
<1>1. CASE LoopStep
  <2>1. CASE EpollTimeout
    <3>1. UNCHANGED serverVars
      BY <2>1 DEF EpollTimeout
    <3>2. UNCHANGED <<loopVars, tableVars, sockVars, args, poolVars, up>>
      BY <3>1 DEF serverVars
    <3>3. SocketsInv' /\ JobsInv' /\ Newcomers' = Newcomers
      BY <3>2, Parts, JobsKept
      DEF SocketsInv, SocketsTypeOK, QueuesInOrder, sockVars, Packet, Newcomers
    <3>4. QED
      BY <3>2, <3>3, Parts, StepBeside DEF sockVars
  <2>2. QED
    BY <1>1, <2>1, EpollWaitKeeps, AcceptKeeps, AddConnectionKeeps, HangupKeeps, RecvDataKeeps,
       RecvNothingKeeps, ModFdKeeps, SkipEventKeeps DEF LoopStep
<1>2. CASE WorkerStep
  BY <1>2, WorkerStepKeeps
<1>3. CASE Environment
  BY <1>3, EnvironmentKeeps
<1>4. CASE UNCHANGED serverVars
  <2>1. UNCHANGED <<loopVars, tableVars, sockVars, args, poolVars, up>>
    BY <1>4 DEF serverVars
  <2>2. SocketsInv' /\ JobsInv' /\ Newcomers' = Newcomers
    BY <2>1, Parts, JobsKept
    DEF SocketsInv, SocketsTypeOK, QueuesInOrder, sockVars, Packet, Newcomers
  <2>3. QED
    BY <2>1, <2>2, Parts, StepBeside DEF sockVars
<1>5. QED
  BY <1>1, <1>2, <1>3, <1>4 DEF Next, Halted

(* The kernel's queues have no repetition, args outlive their jobs, and the   *)
(* counter has counted each connection once, for any clients and any jobs.   *)
THEOREM ServerInvariance == Spec => []IInv
<1>1. Assumptions
  BY SocketsAssumption, ConnectionTableAssumption, ServerAssumption DEF Assumptions
<1>2. Init => IInv
  BY <1>1, InitInv
<1>3. IInv /\ [Next]_serverVars => IInv'
  BY <1>1, NextInv
<1>4. QED
  BY <1>2, <1>3, PTL DEF Spec

(* Every variable of loop, jobs, table and kernel keeps its type.            *)
THEOREM ServerTypes == Spec => []TypeOK
<1>1. IInv => TypeOK
  BY DEF IInv
<1>2. QED
  BY <1>1, ServerInvariance, PTL

(* The test for a negative global_connection_id in epoll_del_fd is never      *)
(* needed: the counter is at least the number of registered connections and  *)
(* at most the number of clients, whenever the workers close descriptors.    *)
THEOREM CounterNeverWraps == Spec => []CounterInRange
<1>1. IInv => CounterInRange
  <2>1. SUFFICES ASSUME IInv PROVE CounterInRange
    OBVIOUS
  <2>2. SocketsAssumption /\ global_connection_id \in Nat
    BY <2>1, SocketsAssumption, Parts DEF CountInv, TableTypeOK
  <2> DEFINE R == {fd \in Fds : interest[fd] # {}}
  <2>3. R \subseteq Watched /\ Clients \ Newcomers \subseteq Clients
    BY DEF Watched
  <2>4. Cardinality(R) <= Cardinality(Watched) /\ Cardinality(R) \in Nat
    BY <2>2, <2>3, Finite, FS_Subset, FS_CardinalityType
  <2>5. /\ Cardinality(Clients \ Newcomers) <= Cardinality(Clients)
        /\ Cardinality(Clients) \in Nat
    BY <2>2, <2>3, FS_Subset, FS_CardinalityType DEF SocketsAssumption
  <2>6. QED
    BY <2>1, <2>2, <2>4, <2>5, Finite, Parts DEF CounterInRange, CountInv, CounterCovers, CounterCounts
<1>2. QED
  BY <1>1, ServerInvariance, PTL
===============================================================================
