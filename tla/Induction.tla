------------------------------- MODULE Induction -------------------------------
(***************************************************************************)
(* Induction over the natural numbers for a set: what recursive functions    *)
(* return is proved with it.  It follows from the well-foundedness of <.     *)
(***************************************************************************)
EXTENDS Integers, Sequences, WellFoundedInduction, TLAPS

Less == {p \in Nat \X Nat : p[1] < p[2]}

(* A set of natural numbers has a least one.                                 *)
LEMMA LeastNumber ==
  ASSUME NEW T, T \subseteq Nat, T # {}
  PROVE  \E x \in T : \A y \in T : x <= y
<1>1. OpToRel(<, Nat) = Less
  BY Zenon DEF OpToRel, Less
<1>2. IsWellFoundedOn(Less, Nat)
  BY <1>1, NatLessThanWellFounded, Zenon
<1>3. PICK x \in T : \A y \in T : ~ (<<y, x>> \in Less)
  BY <1>2, WFMin
<1>4. ASSUME NEW y \in T, y < x PROVE FALSE
  <2>1. <<y, x>> \in Nat \X Nat /\ <<y, x>>[1] < <<y, x>>[2]
    BY <1>4
  <2>2. QED
    BY <2>1, <1>3, Zenon DEF Less
<1>5. QED
  BY <1>4

(* What holds of 0, and of each number if it holds of the one before.        *)
LEMMA Induct ==
  ASSUME NEW n \in Nat, NEW T, 0 \in T, \A i \in 1..n : i - 1 \in T => i \in T
  PROVE  0..n \subseteq T
<1>1. SUFFICES ASSUME (0..n) \ T # {} PROVE FALSE
  OBVIOUS
<1>2. (0..n) \ T \subseteq Nat
  OBVIOUS
<1>3. PICK x \in (0..n) \ T : \A y \in (0..n) \ T : x <= y
  BY <1>1, <1>2, LeastNumber
<1>4. x \in 1..n /\ x - 1 \in 0..n /\ ~ (x <= x - 1)
  BY <1>3
<1>5. QED
  BY <1>3, <1>4

(* A function that goes on from each number to the next: what a recursive    *)
(* definition on 0..n chooses satisfies its equation.                        *)
IsRun(f, n, s, G, S) ==
  f \in [0..n -> S] /\ f[0] = s /\ \A i \in 1..n : f[i] = G[i][f[i - 1]]

LEMMA Iteration ==
  ASSUME NEW S, NEW n \in Nat, NEW s \in S, NEW G \in [1..n -> [S -> S]]
  PROVE  \E f : IsRun(f, n, s, G, S)
<1> DEFINE Runs(f, m) == \A i \in 0..m : f[i] = IF i = 0 THEN s ELSE G[i][f[i - 1]]
           T == {m \in 0..n : \E f \in [0..n -> S] : Runs(f, m)}
<1>1. 0 \in T
  <2>1. [i \in 0..n |-> s] \in [0..n -> S] /\ Runs([i \in 0..n |-> s], 0)
    OBVIOUS
  <2>2. 0 \in 0..n
    OBVIOUS
  <2> HIDE DEF Runs
  <2>3. QED
    BY <2>1, <2>2
<1>2. ASSUME NEW m \in 1..n, m - 1 \in T
      PROVE  m \in T
  <2>1. PICK f \in [0..n -> S] : Runs(f, m - 1)
    BY <1>2
  <2> DEFINE g == [f EXCEPT ![m] = G[m][f[m - 1]]]
  <2>2. m \in 0..n /\ m - 1 \in 0..n /\ f[m - 1] \in S
    BY <1>2
  <2>3. G[m][f[m - 1]] \in S
    BY <2>2
  <2>4. g \in [0..n -> S] /\ g[m] = G[m][f[m - 1]] /\ \A i \in 0..(m - 1) : g[i] = f[i]
    BY <2>2, <2>3
  <2> HIDE DEF g
  <2>5. ASSUME NEW i \in 0..m
        PROVE  g[i] = IF i = 0 THEN s ELSE G[i][g[i - 1]]
    <3>1. CASE i = m
      <4>1. m - 1 \in 0..(m - 1) /\ i # 0
        BY <1>2, <3>1
      <4>2. g[m - 1] = f[m - 1]
        BY <2>4, <4>1
      <4>3. QED
        BY <2>4, <3>1, <4>1, <4>2
    <3>2. CASE i # m
      <4>1. i \in 0..(m - 1) /\ (i # 0 => i - 1 \in 0..(m - 1))
        BY <3>2
      <4>2. f[i] = IF i = 0 THEN s ELSE G[i][f[i - 1]]
        BY <2>1, <4>1
      <4>3. g[i] = f[i] /\ (i # 0 => g[i - 1] = f[i - 1])
        BY <2>4, <4>1
      <4>4. QED
        BY <4>2, <4>3
    <3>3. QED
      BY <3>1, <3>2
  <2>6. Runs(g, m)
    BY <2>5
  <2>7. QED
    BY <2>2, <2>4, <2>6
<1> HIDE DEF T
<1>3. 0..n \subseteq T
  BY <1>1, <1>2, Induct
<1>4. PICK f \in [0..n -> S] : Runs(f, n)
  BY <1>3 DEF T
<1>5. \A i \in 1..n : i \in 0..n /\ i # 0
  OBVIOUS
<1>6. IsRun(f, n, s, G, S)
  BY <1>4, <1>5 DEF IsRun
<1>7. QED
  BY <1>6

(* sums[i] is the sum of the first i sizes.                                  *)
IsSum(sums, size, n) ==
  /\ sums \in [0..n -> Nat]
  /\ \A i \in 0..n : sums[i] = IF i = 0 THEN 0 ELSE sums[i - 1] + size[i]

(* joined[i] is the concatenation of the first i parts.                      *)
IsJoin(joined, part, n) ==
  \A i \in 1..n : joined[i] = IF i = 1 THEN part[i] ELSE joined[i - 1] \o part[i]

(* A text made of n parts, each of which begins where those before it end.   *)
HasParts(text, part, ends, n, S) ==
  /\ text \in Seq(S)
  /\ Len(text) = ends[n]
  /\ \A k \in 1..n : \A j \in 1..Len(part[k]) : text[ends[k - 1] + j] = part[k][j]

LEMMA SumFacts ==
  ASSUME NEW n \in Nat, NEW sums, NEW size, IsSum(sums, size, n)
  PROVE  /\ sums[0] = 0
         /\ \A i \in 0..n : sums[i] \in Nat
         /\ \A i \in 1..n : sums[i] = sums[i - 1] + size[i]
<1>1. 0 \in 0..n /\ \A i \in 1..n : i \in 0..n /\ i # 0
  OBVIOUS
<1>2. QED
  BY <1>1 DEF IsSum

(* The running sums of a sequence of numbers exist: what a recursive         *)
(* definition of them chooses satisfies its equation.                        *)
LEMMA RunningSum ==
  ASSUME NEW n \in Nat, NEW size, \A i \in 1..n : size[i] \in Nat
  PROVE  \E sums : IsSum(sums, size, n)
<1> DEFINE G == [i \in 1..n |-> [x \in Nat |-> x + size[i]]]
<1>1. G \in [1..n -> [Nat -> Nat]] /\ 0 \in Nat
  OBVIOUS
<1>2. \A i \in 0..n : i # 0 => i \in 1..n /\ i - 1 \in 0..n
  OBVIOUS
<1>3. \A i \in 1..n, x \in Nat : G[i][x] = x + size[i]
  OBVIOUS
<1> HIDE DEF G
<1>4. PICK f : IsRun(f, n, 0, G, Nat)
  BY <1>1, Iteration
<1>5. IsSum(f, size, n)
  BY <1>2, <1>3, <1>4 DEF IsSum, IsRun
<1>6. QED
  BY <1>5

(* And so do the concatenations of the first parts of a text.                *)
LEMMA RunningConcat ==
  ASSUME NEW S, NEW n \in Nat \ {0}, NEW part, \A i \in 1..n : part[i] \in Seq(S)
  PROVE  \E joined : joined \in [1..n -> Seq(S)] /\ IsJoin(joined, part, n)
<1> DEFINE Joins(f, m) == \A i \in 1..m : f[i] = IF i = 1 THEN part[i] ELSE f[i - 1] \o part[i]
           T == {m \in 0..n : \E f \in [1..n -> Seq(S)] : Joins(f, m)}
<1>1. 0 \in T
  <2>1. [i \in 1..n |-> part[i]] \in [1..n -> Seq(S)] /\ Joins([i \in 1..n |-> part[i]], 0)
    OBVIOUS
  <2>2. 0 \in 0..n
    OBVIOUS
  <2> HIDE DEF Joins
  <2>3. QED
    BY <2>1, <2>2
<1>2. ASSUME NEW m \in 1..n, m - 1 \in T
      PROVE  m \in T
  <2>1. PICK f \in [1..n -> Seq(S)] : Joins(f, m - 1)
    BY <1>2
  <2> DEFINE next == IF m = 1 THEN part[m] ELSE f[m - 1] \o part[m]
             g == [f EXCEPT ![m] = next]
  <2>2. m \in 1..n /\ m \in 0..n /\ (m # 1 => m - 1 \in 1..n) /\ part[m] \in Seq(S)
    BY <1>2
  <2>3. m # 1 => f[m - 1] \in Seq(S)
    BY <2>2
  <2>4. next \in Seq(S)
    BY <2>2, <2>3
  <2> HIDE DEF next
  <2>5. g \in [1..n -> Seq(S)] /\ g[m] = next /\ \A i \in 1..(m - 1) : g[i] = f[i]
    BY <2>2, <2>4
  <2>6. ASSUME NEW i \in 1..m
        PROVE  g[i] = IF i = 1 THEN part[i] ELSE g[i - 1] \o part[i]
    <3>1. CASE i = m
      <4>1. m # 1 => m - 1 \in 1..(m - 1)
        BY <2>2
      <4>2. m # 1 => g[m - 1] = f[m - 1]
        BY <2>5, <4>1
      <4>3. QED
        BY <2>5, <3>1, <4>2 DEF next
    <3>2. CASE i # m
      <4>1. i \in 1..(m - 1) /\ (i # 1 => i - 1 \in 1..(m - 1))
        BY <3>2
      <4>2. f[i] = IF i = 1 THEN part[i] ELSE f[i - 1] \o part[i]
        BY <2>1, <4>1
      <4>3. g[i] = f[i] /\ (i # 1 => g[i - 1] = f[i - 1])
        BY <2>5, <4>1
      <4>4. QED
        BY <4>2, <4>3
    <3>3. QED
      BY <3>1, <3>2
  <2>7. Joins(g, m)
    BY <2>6
  <2>8. QED
    BY <2>2, <2>5, <2>7
<1> HIDE DEF T
<1>3. 0..n \subseteq T
  BY <1>1, <1>2, Induct
<1>4. n \in T
  BY <1>3
<1>5. QED
  BY <1>4 DEF T, IsJoin

(* Running sums grow.                                                        *)
LEMMA SumsGrow ==
  ASSUME NEW n \in Nat, NEW size, \A i \in 1..n : size[i] \in Nat,
         NEW ends, IsSum(ends, size, n),
         NEW k \in 0..n, NEW m \in k..n
  PROVE  ends[k] <= ends[m]
<1> DEFINE T == {i \in 0..n : k <= i => ends[k] <= ends[i]}
<1>0. \A i \in 0..n : ends[i] \in Nat
  BY DEF IsSum
<1>1. 0 \in T
  BY <1>0
<1>2. ASSUME NEW i \in 1..n, i - 1 \in T
      PROVE  i \in T
  <2>1. /\ i \in 0..n /\ i - 1 \in 0..n /\ ends[i] = ends[i - 1] + size[i]
        /\ size[i] \in Nat
    BY DEF IsSum
  <2>2. ends[i] \in Nat /\ ends[i - 1] \in Nat /\ ends[k] \in Nat
    BY <1>0, <2>1
  <2>3. CASE k = i
    BY <2>1, <2>2, <2>3
  <2>4. CASE k # i
    BY <1>2, <2>1, <2>2, <2>4
  <2>5. QED
    BY <2>3, <2>4
<1> HIDE DEF T
<1>3. 0..n \subseteq T
  BY <1>1, <1>2, Induct
<1>4. m \in T
  BY <1>3
<1>5. QED
  BY <1>4 DEF T

(* Where the parts are in their concatenation: each begins where those       *)
(* before it end.                                                            *)
LEMMA JoinAt ==
  ASSUME NEW S, NEW n \in Nat \ {0}, NEW part, \A i \in 1..n : part[i] \in Seq(S),
         NEW joined, IsJoin(joined, part, n),
         NEW size, \A i \in 1..n : size[i] = Len(part[i]),
         NEW ends, IsSum(ends, size, n)
  PROVE  HasParts(joined[n], part, ends, n, S)
<1> DEFINE At(i) == /\ joined[i] \in Seq(S)
                    /\ Len(joined[i]) = ends[i]
                    /\ \A k \in 1..i : \A j \in 1..Len(part[k]) :
                         joined[i][ends[k - 1] + j] = part[k][j]
           T == {i \in 0..n : i = 0 \/ At(i)}
<1>1. \A i \in 1..n : size[i] = Len(part[i]) /\ size[i] \in Nat
  OBVIOUS
<1>2. ASSUME NEW k \in 0..n, NEW m \in k..n
      PROVE  ends[k] <= ends[m]
  BY <1>1, SumsGrow
<1>3. 0 \in T
  OBVIOUS
<1>4. ASSUME NEW k \in 1..n
      PROVE  /\ ends[k] = ends[k - 1] + Len(part[k])
             /\ ends[k] \in Nat /\ ends[k - 1] \in Nat /\ Len(part[k]) \in Nat
             /\ k = 1 => ends[k - 1] = 0
  <2>1. k \in 0..n /\ k - 1 \in 0..n /\ k # 0 /\ 0 \in 0..n /\ 1 - 1 = 0
    OBVIOUS
  <2>2. QED
    BY <1>1, <2>1 DEF IsSum
<1>5. ASSUME NEW i \in 1..n, i - 1 \in T
      PROVE  i \in T
  <2>1. i \in 0..n /\ part[i] \in Seq(S)
    OBVIOUS
  <2>2. CASE i = 1
    <3>1. joined[i] = part[i]
      BY <2>2 DEF IsJoin
    <3>2. ends[i - 1] = 0 /\ ends[i] = Len(part[i]) /\ Len(part[i]) \in Nat
      BY <1>4, <2>2
    <3>3. \A k \in 1..i : k = i
      BY <2>2
    <3>4. \A j \in 1..Len(part[i]) : joined[i][ends[i - 1] + j] = part[i][j]
      BY <3>1, <3>2
    <3>5. At(i)
      BY <2>1, <3>1, <3>2, <3>3, <3>4
    <3>6. QED
      BY <2>1, <3>5
  <2>3. CASE i # 1
    <3> DEFINE before == joined[i - 1]
    <3>0. joined[i] = before \o part[i]
      BY <2>3 DEF IsJoin
    <3>1. joined[i] = before \o part[i] /\ At(i - 1)
      <4> HIDE DEF At, before
      <4>1. i - 1 # 0
        BY <2>3
      <4>2. QED
        BY <1>5, <3>0, <4>1
    <3>2. before \in Seq(S) /\ Len(before) = ends[i - 1] /\ Len(before) \in Nat
      BY <3>1
    <3>3. \A k \in 1..(i - 1) : \A j \in 1..Len(part[k]) : before[ends[k - 1] + j] = part[k][j]
      BY <3>1
    <3> HIDE DEF before, At, T
    <3>4. /\ joined[i] \in Seq(S)
          /\ Len(joined[i]) = Len(before) + Len(part[i])
          /\ \A x \in 1..Len(before) : joined[i][x] = before[x]
          /\ \A x \in 1..Len(part[i]) : joined[i][Len(before) + x] = part[i][x]
      <4> DEFINE now == part[i]
      <4>1. before \in Seq(S) /\ now \in Seq(S) /\ joined[i] = before \o now
        BY <2>1, <3>1, <3>2
      <4> HIDE DEF now
      <4> DEFINE both == before \o now
      <4>2. /\ both \in Seq(S) /\ Len(both) = Len(before) + Len(now)
            /\ \A x \in 1..Len(before) : both[x] = before[x]
            /\ \A x \in 1..Len(now) : both[Len(before) + x] = now[x]
        BY <4>1
      <4> HIDE DEF both
      <4>3. QED
        BY <4>1, <4>2, Zenon DEF both, now
    <3>5. Len(joined[i]) = ends[i]
      BY <1>4, <3>2, <3>4
    <3>6. ASSUME NEW k \in 1..i, NEW j \in 1..Len(part[k])
          PROVE  joined[i][ends[k - 1] + j] = part[k][j]
      <4>1. CASE k = i
        BY <3>2, <3>4, <4>1
      <4>2. CASE k # i
        <5>1. k \in 1..(i - 1) /\ k \in 1..n /\ i - 1 \in k..n /\ k \in 0..n
          BY <4>2
        <5>2. ends[k] = ends[k - 1] + Len(part[k]) /\ ends[k - 1] \in Nat
              /\ ends[k] \in Nat /\ Len(part[k]) \in Nat
          BY <1>4, <5>1
        <5>3. ends[k] <= Len(before)
          BY <1>2, <3>2, <5>1
        <5>4. ends[k - 1] + j \in 1..Len(before)
          BY <3>2, <5>2, <5>3
        <5>5. QED
          BY <3>3, <3>4, <5>1, <5>4
      <4>3. QED
        BY <4>1, <4>2
    <3>7. QED
      BY <2>1, <3>4, <3>5, <3>6 DEF At, T
  <2>4. QED
    BY <2>2, <2>3
<1> HIDE DEF T
<1>6. 0..n \subseteq T
  BY <1>3, <1>5, Induct
<1>7. At(n)
  BY <1>6 DEF T
<1>8. QED
  BY <1>7 DEF HasParts
===============================================================================
