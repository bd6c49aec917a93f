---------------------------- MODULE CJsonCallsProofs ---------------------------
(***************************************************************************)
(* Every call of a program in CJson.tla is one of those on lists: for it     *)
(* the calls that make many items, cJSON_Duplicate, cJSON_Parse and          *)
(* cJSON_CreateIntArray, are one step, whether memory lasts or not.          *)
(*                                                                          *)
(* A recursive function of the model is chosen, so each has a lemma that     *)
(* says that there is one that satisfies its equation (CopyRuns, FillRuns,   *)
(* ReadRuns, MembersRuns, DuplicateRuns, ParseRuns), with a named operator   *)
(* for the equation; what it returns follows by induction (Induct).  Along   *)
(* each loop the heap is well formed and differs from the one before the     *)
(* call only in memory that was free (Builds, Spares), and in it an item is  *)
(* open: it gets members, which begin alone (NewKeeps) and are linked behind *)
(* the last one (LinkKeeps, NextBegins).                                     *)
(*                                                                          *)
(* At the end, that a duplicate says what its item says: Same compares two   *)
(* items in two heaps to every depth, which is what stays the same (Stays)   *)
(* while more is made, and a copy mirrors its item member by member          *)
(* (Mirrors, MirrorNext).                                                    *)
(***************************************************************************)
EXTENDS CJson, CJsonProofs

(* What a call makes out of free memory; it leaves the rest as it was, but   *)
(* for the item c when it fills that one.                                    *)
Spares(h, g, c) ==
  \A x \in Cells :
    x = c \/ IF x \in Live(g) \ Live(h) THEN h[x] = Free /\ ~g[x].ref ELSE g[x] = h[x]

Builds(h, g) == Spares(h, g, 0)

Unshown(h, a) == \A r \in Live(h) \ Owners(h) : h[r].of # a

LEMMA BuildsFacts ==
  ASSUME NEW h, NEW g, Builds(h, g)
  PROVE  /\ Live(h) \subseteq Live(g)
         /\ \A x \in Live(h) : g[x] = h[x]
         /\ \A x \in Live(g) \ Live(h) : h[x] = Free /\ x \in Owners(g)
         /\ Owners(g) = Owners(h) \cup (Live(g) \ Live(h))
         /\ \A a : Unshown(h, a) => Unshown(g, a)
<1>1. \A x \in Cells : IF x \in Live(g) \ Live(h) THEN h[x] = Free /\ ~g[x].ref ELSE g[x] = h[x]
  BY SomeItems DEF Builds, Spares, Cells
<1>2. \A x \in Live(h) : g[x] = h[x] /\ x \in Cells
  BY <1>1, ZeroIsNoCell
<1>3. Live(h) \subseteq Live(g)
  BY <1>2 DEF Live
<1>4. \A x \in Live(g) \ Live(h) : h[x] = Free /\ x \in Owners(g)
  BY <1>1, ZeroIsNoCell DEF Owners
<1>5. Owners(g) = Owners(h) \cup (Live(g) \ Live(h))
  BY <1>2, <1>3, <1>4 DEF Owners
<1>6. \A a : Unshown(h, a) => Unshown(g, a)
  BY <1>2, <1>3, <1>5 DEF Unshown
<1>7. QED
  BY <1>2, <1>3, <1>4, <1>5, <1>6

(* One after another.                                                        *)
LEMMA SparesOn ==
  ASSUME NEW h, NEW g, NEW k, NEW c, NEW d, Spares(h, g, c), Spares(g, k, d),
         d # c => d \notin Live(h) /\ (d = 0 \/ d \in Live(g) \cap Owners(k))
  PROVE  Spares(h, k, c)
<1> SUFFICES ASSUME NEW x \in Cells, x # c
             PROVE  IF x \in Live(k) \ Live(h) THEN h[x] = Free /\ ~k[x].ref ELSE k[x] = h[x]
  BY DEF Spares
<1>1. IF x \in Live(g) \ Live(h) THEN h[x] = Free /\ ~g[x].ref ELSE g[x] = h[x]
  BY DEF Spares
<1>2. CASE x = d
  <2>1. x \in Live(g) /\ x \in Live(k) /\ ~k[x].ref /\ x \notin Live(h)
    BY <1>2, SomeItems DEF Owners, Cells
  <2>2. QED
    BY <1>1, <2>1
<1>3. CASE x # d
  <2>1. IF x \in Live(k) \ Live(g) THEN g[x] = Free /\ ~k[x].ref ELSE k[x] = g[x]
    BY <1>3 DEF Spares
  <2>2. CASE x \in Live(k) \ Live(g)
    <3>1. h[x] = Free
      BY <1>1, <2>1, <2>2
    <3>2. x \notin Live(h)
      BY <3>1 DEF Live
    <3>3. QED
      BY <2>1, <2>2, <3>1, <3>2
  <2>3. CASE x \notin Live(k) \ Live(g)
    <3>1. k[x] = g[x] /\ (x \in Live(k) <=> x \in Live(g))
      BY <2>1, <2>3 DEF Live
    <3>2. QED
      BY <1>1, <3>1
  <2>4. QED
    BY <2>2, <2>3
<1>4. QED
  BY <1>2, <1>3

LEMMA BuildsOn ==
  ASSUME NEW h, NEW g, NEW k, Builds(h, g), Builds(g, k)
  PROVE  Builds(h, k)
BY SparesOn DEF Builds

(* What has been built is in one item, apart from all that was there, and    *)
(* deleting the item gives back the heap before.                             *)
LEMMA BuiltLeads ==
  ASSUME NEW h, NEW H, WellFormed(h, H), NEW g, NEW c, WellFormed(g, H \cup {c}),
         c \notin Live(h), Builds(h, g), NEW new, new = Live(g) \ Live(h)
  PROVE  /\ \A x \in Live(h), y \in Live(g) : Leads(g, x, y) => y \in Live(h)
         /\ \A x \in new, y \in Live(g) : Leads(g, x, y) => y \in new
<1>1. /\ Live(h) \subseteq Live(g) /\ \A x \in Live(h) : g[x] = h[x]
      /\ Owners(g) = Owners(h) \cup new /\ Owners(h) \subseteq Live(h)
  BY BuildsFacts DEF Owners
<1>2. Points(h) /\ 0 \notin Live(g) /\ H \subseteq Live(h) /\ Kept(h, H)
  BY Links, ZeroIsNoCell DEF WellFormed
<1>3. ASSUME NEW x \in Live(h), NEW y \in Live(g), Leads(g, x, y)
      PROVE  y \in Live(h)
  BY <1>1, <1>2, <1>3 DEF Leads, Points
<1>4. ASSUME NEW x \in new, NEW y \in Live(h), Leads(g, x, y)
      PROVE  FALSE
  <2>1. y \notin H \cup {c} /\ \A z \in Live(g) : Leads(g, z, y) => z = x
    BY <1>1, <1>4, OneLeads
  <2> DEFINE S == Live(h) \ {y}
  <2>2. S \in SUBSET Live(h) /\ H \subseteq S
    BY <1>2, <2>1
  <2>3. ASSUME NEW z \in S, NEW w \in Live(h), Leads(h, z, w) PROVE w \in S
    <3>1. Leads(g, z, w)
      BY <1>1, <2>3 DEF Leads
    <3>2. QED
      BY <1>1, <2>1, <3>1
  <2> HIDE DEF S
  <2>4. Live(h) \subseteq S
    BY <1>2, <2>2, <2>3, KeptIsAll
  <2>5. QED
    BY <2>4 DEF S
<1>5. QED
  BY <1>3, <1>4

LEMMA BuiltAlone ==
  ASSUME NEW h, NEW H, WellFormed(h, H), NEW g, NEW c, WellFormed(g, H \cup {c}),
         c \notin Live(h), Builds(h, g)
  PROVE  Deleted(g, c) = Live(g) \ Live(h) /\ Delete(g, c) = h
<1> DEFINE new == Live(g) \ Live(h)
<1>1. /\ \A x \in Live(h), y \in Live(g) : Leads(g, x, y) => y \in Live(h)
      /\ \A x \in new, y \in Live(g) : Leads(g, x, y) => y \in new
  BY BuiltLeads
<1>2. /\ Points(g) /\ H \cup {c} \subseteq Live(g) /\ c \in new /\ c \in Live(g)
      /\ H \subseteq Live(h) /\ Live(h) \subseteq Live(g) /\ new \subseteq Live(g)
  BY Links, BuildsFacts
<1>3. Deleted(g, c) \subseteq new
  <2> HIDE DEF new
  <2>1. ClosedUnder(g, new, Owners(g))
    BY <1>1, <1>2 DEF ClosedUnder, Leads, Points
  <2>2. QED
    BY <1>2, <2>1, WalkIsLeast DEF Deleted
<1>4. new \subseteq Deleted(g, c)
  <2> DEFINE S == Live(h) \cup Deleted(g, c)
  <2>1. S \in SUBSET Live(g) /\ H \cup {c} \subseteq S
    BY <1>2, DeletedFacts
  <2>2. ASSUME NEW x \in S, NEW y \in Live(g), Leads(g, x, y) PROVE y \in S
    BY <1>1, <1>2, <2>2, DeletedFacts
  <2>3. Kept(g, H \cup {c})
    BY DEF WellFormed
  <2> HIDE DEF S
  <2>4. Live(g) \subseteq S
    BY <1>2, <2>1, <2>2, <2>3, KeptIsAll
  <2>5. QED
    BY <2>4 DEF S
<1>5. Deleted(g, c) = new
  BY <1>3, <1>4
<1>6. h = [x \in Cells |-> h[x]]
  BY WellFormedIs, HeapParts
<1>7. \A x \in Cells : (IF x \in new THEN Free ELSE g[x]) = h[x]
  BY SomeItems DEF Builds, Spares, Cells
<1>8. Delete(g, c) = [x \in Cells |-> IF x \in new THEN Free ELSE g[x]]
  BY <1>5 DEF Delete
<1>9. QED
  BY <1>5, <1>6, <1>7, <1>8

(* What has been built is well formed by itself.                             *)
LEMMA BuiltIsGraft ==
  ASSUME NEW h, NEW H, WellFormed(h, H), NEW g, NEW c, WellFormed(g, H \cup {c}),
         c \notin Live(h), Builds(h, g),
         NEW k, k = [x \in Cells |-> IF x \in Live(g) \ Live(h) THEN g[x] ELSE Free]
  PROVE  WellFormed(k, {c})
<1> DEFINE new == Live(g) \ Live(h)
<1>1. /\ \A x \in Live(h), y \in Live(g) : Leads(g, x, y) => y \in Live(h)
      /\ \A x \in new, y \in Live(g) : Leads(g, x, y) => y \in new
  BY BuiltLeads
<1>2. /\ g \in Heaps /\ Neat(g, H \cup {c}) /\ Apart(g, H \cup {c})
      /\ Live(g) \subseteq Cells /\ 0 \notin Live(g)
      /\ new \subseteq Owners(g) /\ new \subseteq Cells /\ new \subseteq Live(g)
  BY WellFormedIs, ZeroIsNoCell, BuildsFacts
<1>3. c \in new
  BY <1>2 DEF Neat
<1>4. k = [x \in Cells |-> IF x \in new THEN g[x] ELSE Free]
  OBVIOUS
<1>5. /\ \A x \in new : k[x] = g[x]
      /\ \A x \in Cells \ new : k[x] = Free
      /\ k = [x \in Cells |-> k[x]]
  <2> HIDE DEF new
  <2>1. QED
    BY <1>2, <1>4
<1> HIDE DEF new
<1>6. k \in Heaps /\ Live(k) = new
  <2>1. \A x \in new : k[x] \in Struct
    BY <1>2, <1>5, HeapParts
  <2>2. \A x \in Cells \ new : k[x] \in {Free, Taken}
    BY <1>5
  <2>3. QED
    BY <1>2, <1>5, <2>1, <2>2, HeapIs
<1>7. Owners(k) = new
  BY <1>2, <1>5, <1>6 DEF Owners
<1>8. ASSUME NEW x \in new
      PROVE  /\ g[x].next \in new \cup {0} /\ g[x].child \in new \cup {0}
             /\ g[x].prev \in new \cup {0}
  <2>1. g[x].next \in new \cup {0} /\ g[x].child \in new \cup {0}
    BY <1>1, <1>2 DEF Leads, Neat, Points
  <2>2. ASSUME g[x].prev # 0 PROVE g[x].prev \in new
    <3>1. g[x].prev \in Live(g) /\ g[g[x].prev].next = x
      BY <1>2, <2>2 DEF Neat
    <3>2. Leads(g, g[x].prev, x) /\ x \in Live(g) /\ x \notin Live(h)
      BY <1>2, <3>1 DEF Leads, new
    <3>3. g[x].prev \notin Live(h)
      BY <1>1, <3>2
    <3>4. QED
      BY <3>1, <3>3 DEF new
  <2>3. QED
    BY <2>1, <2>2
<1>9. Neat(k, {c})
  <2>1. Points(k)
    BY <1>5, <1>6, <1>8 DEF Points
  <2>2. ASSUME NEW x \in new
        PROVE  /\ k[x].next # 0 => k[k[x].next].prev = x
               /\ k[x].prev # 0 => k[k[x].prev].next = x
               /\ k[x].child # 0 => k[k[x].child].prev = 0
               /\ x \in {c} => k[x].next = 0 /\ k[x].prev = 0
    <3>1. /\ g[x].next # 0 => g[g[x].next].prev = x
          /\ g[x].prev # 0 => g[g[x].prev].next = x
          /\ g[x].child # 0 => g[g[x].child].prev = 0
          /\ x \in {c} => g[x].next = 0 /\ g[x].prev = 0
      BY <1>2 DEF Neat
    <3>2. QED
      BY <1>5, <1>8, <3>1, ZenonT(30)
  <2>3. \A x \in new : k[x].prev \in new \cup {0}
    BY <1>5, <1>8
  <2>4. QED
    BY <1>3, <1>6, <2>1, <2>2, <2>3 DEF Neat
<1>10. Apart(k, {c})
  <2>1. \A x, y \in new : k[x].child = k[y].child /\ k[x].child # 0 => x = y
    BY <1>2, <1>5 DEF Apart
  <2>2. \A x \in new : k[x].child \notin {c}
    BY <1>2, <1>5 DEF Apart
  <2>3. QED
    BY <1>6, <1>7, <2>1, <2>2 DEF Apart
<1>11. Reached(k, {c})
  <2> SUFFICES ASSUME NEW S \in SUBSET new, c \in S,
                      \A x \in S, y \in new : Leads(k, x, y) => y \in S
               PROVE  new \subseteq S
    BY <1>6 DEF Reached
  <2>1. \A x \in S, y \in new : Leads(g, x, y) => Leads(k, x, y)
    BY <1>2, <1>5, <1>7 DEF Leads
  <2>2. ClosedUnder(g, S, Owners(g))
    BY <1>1, <1>2, <1>8, <2>1 DEF ClosedUnder, Leads
  <2>3. Deleted(g, c) \subseteq S
    BY <1>2, <2>2, WalkIsLeast DEF Deleted
  <2>4. QED
    BY <2>3, BuiltAlone DEF new
<1>12. QED
  BY <1>6, <1>9, <1>10, <1>11, IsWellFormed

(* An item of a program that has just been made.                             *)
IsNew(h, g, n, s) == g = [x \in Cells |-> IF x = n THEN s ELSE h[x]]

Plain(s) == s \in Struct /\ ~s.ref /\ s.next = 0 /\ s.prev = 0 /\ s.child = 0

LEMMA NewFacts ==
  ASSUME NEW h \in Heaps, NEW n \in Unused(h), NEW s, Plain(s), NEW g, IsNew(h, g, n, s)
  PROVE  /\ g \in Heaps /\ Live(g) = Live(h) \cup {n} /\ n \in Cells \ Live(h) /\ g[n] = s
         /\ \A x \in Live(h) : g[x] = h[x]
         /\ Builds(h, g)
<1>1. n \in Cells /\ n \notin Live(h) /\ h[n] = Free /\ Live(h) \subseteq Cells
  BY ZeroIsNoCell DEF Unused, Live
<1>2. g = [x \in Cells |-> g[x]] /\ g[n] = s /\ \A x \in Cells : x # n => g[x] = h[x]
  BY <1>1 DEF IsNew
<1>3. g \in Heaps /\ Live(g) = Live(h) \cup {n}
  <2> DEFINE L == Live(h) \cup {n}
  <2>1. L \in SUBSET Cells
    BY <1>1
  <2>2. \A x \in L : g[x] \in Struct
    BY <1>1, <1>2, HeapParts DEF Plain
  <2>3. \A x \in Cells \ L : g[x] \in {Free, Taken}
    BY <1>2, HeapParts
  <2> HIDE DEF L
  <2>4. g \in Heaps /\ Live(g) = L
    BY <1>2, <2>1, <2>2, <2>3, HeapIs
  <2>5. QED
    BY <2>4 DEF L
<1>4. \A x \in Live(h) : g[x] = h[x]
  BY <1>1, <1>2
<1>5. Builds(h, g)
  BY <1>1, <1>2, <1>3 DEF Builds, Spares, Plain
<1>6. QED
  BY <1>1, <1>2, <1>3, <1>4, <1>5

Added(h, H, g, n, s) ==
  /\ WellFormed(g, H \cup {n}) /\ Builds(h, g) /\ Deleted(g, n) = {n}
  /\ Live(g) = Live(h) \cup {n} /\ n \in Cells \ Live(h) /\ g[n] = s
  /\ Unshown(g, n)

LEMMA NewKeeps ==
  ASSUME NEW h, NEW H, WellFormed(h, H), NEW n \in Unused(h), NEW s, Plain(s),
         NEW g, IsNew(h, g, n, s)
  PROVE  Added(h, H, g, n, s)
<1>1. h \in Heaps /\ Neat(h, H) /\ Apart(h, H)
  BY WellFormedIs
<1>2. /\ g \in Heaps /\ Live(g) = Live(h) \cup {n} /\ n \in Cells \ Live(h) /\ g[n] = s
      /\ \A x \in Live(h) : g[x] = h[x]
      /\ Builds(h, g)
  BY <1>1, NewFacts
<1> DEFINE new == {n}
           k == [x \in Cells |-> IF x \in new THEN g[x] ELSE Free]
<1>3. new = Live(g) \ Live(h) /\ \A x \in Cells : x \in new \/ g[x] = h[x]
  BY <1>2 DEF IsNew
<1>4. WellFormed(k, {n})
  <2>1. /\ k = [x \in Cells |-> k[x]] /\ k[n] = s
        /\ \A x \in Cells \ {n} : k[x] = Free
    BY <1>2
  <2> HIDE DEF k
  <2>2. k \in Heaps /\ Live(k) = {n}
    <3>1. \A x \in {n} : k[x] \in Struct
      BY <2>1 DEF Plain
    <3>2. \A x \in Cells \ {n} : k[x] \in {Free, Taken}
      BY <2>1
    <3>3. {n} \in SUBSET Cells
      BY <1>2
    <3>4. QED
      BY <2>1, <3>1, <3>2, <3>3, HeapIs
  <2>3. Neat(k, {n})
    BY <2>1, <2>2 DEF Neat, Points, Plain
  <2>4. Apart(k, {n})
    <3>1. Owners(k) = {n}
      BY <2>1, <2>2 DEF Owners, Plain
    <3>2. n # 0
      BY <1>2, SomeItems DEF Cells
    <3>3. QED
      BY <2>1, <2>2, <3>1, <3>2 DEF Apart, Plain
  <2>5. Reached(k, {n})
    BY <2>2 DEF Reached
  <2>6. QED
    BY <2>2, <2>3, <2>4, <2>5, IsWellFormed
<1> HIDE DEF new, k
<1>5. WellFormed(g, H \cup {n})
  <2>1. k = [x \in Cells |-> IF x \in new THEN g[x] ELSE Free]
    BY DEF k
  <2>2. QED
    BY <1>2, <1>3, <1>4, <2>1, GraftKeeps, SMTT(30)
<1>6. Deleted(g, n) = {n}
  BY <1>2, <1>3, <1>5, BuiltAlone DEF new
<1>7. Unshown(g, n)
  <2>1. Unshown(h, n)
    BY <1>1, <1>2 DEF Unshown, Apart, Owners
  <2>2. QED
    BY <1>2, <2>1, BuildsFacts
<1>8. QED
  BY <1>2, <1>5, <1>6, <1>7 DEF Added

(* Links and data of the items of S change, and nothing else.                *)
Touches(h, g, S) ==
  /\ g \in Heaps /\ Live(g) = Live(h) /\ Owners(g) = Owners(h)
  /\ \A x \in Live(h) : g[x].of = h[x].of
  /\ \A x \in Cells \ S : g[x] = h[x]

LEMMA SparesTouch ==
  ASSUME NEW h, NEW g, NEW k, NEW c, Spares(h, g, c), NEW S, Touches(g, k, S),
         \A x \in S : x = c \/ x = 0 \/ x \in Live(g) \ Live(h)
  PROVE  Spares(h, k, c)
<1> SUFFICES ASSUME NEW x \in Cells, x # c
             PROVE  IF x \in Live(k) \ Live(h) THEN h[x] = Free /\ ~k[x].ref ELSE k[x] = h[x]
  BY DEF Spares
<1>1. IF x \in Live(g) \ Live(h) THEN h[x] = Free /\ ~g[x].ref ELSE g[x] = h[x]
  BY DEF Spares
<1>2. CASE x \in S
  <2>1. x # 0
    BY SomeItems DEF Cells
  <2>2. x \in Live(g) \ Live(h)
    BY <1>2, <2>1
  <2>3. x \in Owners(k) /\ x \in Live(k)
    BY <1>1, <2>2 DEF Touches, Owners
  <2>4. QED
    BY <1>1, <2>2, <2>3 DEF Owners
<1>3. CASE x \notin S
  <2>1. k[x] = g[x] /\ Live(k) = Live(g)
    BY <1>3 DEF Touches
  <2>2. QED
    BY <1>1, <2>1
<1>4. QED
  BY <1>2, <1>3

LEMMA TouchUnshown ==
  ASSUME NEW h, NEW g, NEW S, Touches(h, g, S), NEW a, Unshown(h, a)
  PROVE  Unshown(g, a)
BY DEF Touches, Unshown

(* The list of a is being made, and has last as its last item.               *)
Open(h, H, a, last) ==
  /\ a \in Owners(h) /\ Unshown(h, a)
  /\ IF last = 0 THEN h[a].child = 0 ELSE last \in Live(h) \ H /\ h[last].next = 0

LEMMA NextTouches ==
  ASSUME NEW h \in Heaps, NEW p \in Live(h), NEW c \in Live(h), p # c, NEW g, g = Suffix(h, p, c)
  PROVE  Touches(h, g, {p, c})
<1>1. NextAdded(h, g, p, c)
  BY AddNext
<1>2. h = [x \in Cells |-> h[x]]
  BY HeapParts
<1>3. \A x \in Cells \ {p, c} : g[x] = h[x]
  BY <1>2 DEF Suffix
<1>4. QED
  BY <1>1, <1>3 DEF Touches, NextAdded

LEMMA LinkFacts ==
  ASSUME NEW h \in Heaps, NEW a \in Live(h), NEW last \in Live(h) \cup {0}, NEW c \in Live(h),
         c # last, NEW g, g = Link(h, a, last, c)
  PROVE  /\ last = 0 => FirstAdded(h, g, a, c)
         /\ last # 0 => NextAdded(h, g, last, c)
         /\ Touches(h, g, {a, last, c})
<1>1. h = [x \in Cells |-> h[x]]
  BY HeapParts
<1>2. CASE last = 0
  <2> DEFINE k == [h EXCEPT ![a].child = c]
  <2>1. g = k
    BY <1>2 DEF Link
  <2>2. FirstAdded(h, k, a, c)
    BY AddFirst
  <2>3. \A x \in Cells : x # a => k[x] = h[x]
    BY <1>1
  <2> HIDE DEF k
  <2>4. QED
    BY <1>2, <2>1, <2>2, <2>3 DEF Touches, FirstAdded
<1>3. CASE last # 0
  <2> DEFINE k == Suffix(h, last, c)
  <2>1. g = k
    BY <1>3 DEF Link
  <2>2. NextAdded(h, k, last, c) /\ Touches(h, k, {last, c})
    BY <1>3, AddNext, NextTouches
  <2> HIDE DEF k
  <2>3. QED
    BY <1>3, <2>1, <2>2 DEF Touches
<1>4. QED
  BY <1>2, <1>3

LEMMA LinkKeeps ==
  ASSUME NEW h, NEW H, WellFormed(h, H), NEW a, NEW last, Open(h, H, a, last), NEW c \in H,
         {a, last} \cap Deleted(h, c) = {}, NEW g, g = Link(h, a, last, c)
  PROVE  /\ WellFormed(g, H \ {c}) /\ Open(g, H \ {c}, a, c) /\ Touches(h, g, {a, last, c})
<1>1. /\ h \in Heaps /\ c \in Live(h) /\ h[c].next = 0 /\ a \in Live(h) /\ last \in Live(h) \cup {0}
      /\ c \in Deleted(h, c) /\ c # 0
  BY WellFormedIs, DeletedFacts, ZeroIsNoCell DEF Neat, Open, Owners
<1>2. c # a /\ c # last
  BY <1>1
<1>3. /\ last = 0 => FirstAdded(h, g, a, c)
      /\ last # 0 => NextAdded(h, g, last, c)
      /\ Touches(h, g, {a, last, c})
  BY <1>1, <1>2, LinkFacts
<1>4. WellFormed(g, H \ {c})
  <2>1. CASE last = 0
    <3>1. a \in Owners(h) /\ h[a].child = 0 /\ \A r \in Live(h) \ Owners(h) : h[r].of # a
      BY <2>1 DEF Open, Unshown
    <3>2. QED
      BY <1>3, <2>1, <3>1, LinkFirstKeeps
  <2>2. CASE last # 0
    <3>1. last \in Live(h) \ H /\ h[last].next = 0
      BY <2>2 DEF Open
    <3>2. QED
      BY <1>3, <2>2, <3>1, LinkNextKeeps
  <2>3. QED
    BY <2>1, <2>2
<1>5. g[c].next = 0 /\ c \in Live(g)
  <2>1. CASE last = 0
    BY <1>1, <1>3, <2>1 DEF FirstAdded
  <2>2. CASE last # 0
    BY <1>1, <1>2, <1>3, <2>2 DEF NextAdded
  <2>3. QED
    BY <2>1, <2>2
<1>6. a \in Owners(g) /\ Unshown(g, a)
  BY <1>3, TouchUnshown DEF Open, Touches
<1>7. QED
  BY <1>1, <1>3, <1>4, <1>5, <1>6 DEF Open

(* cJSON_Duplicate gives an item of new memory, or nothing and the heap as    *)
(* it was.                                                                   *)
Copied(h, H, d) ==
  IF d.item = 0 THEN d.heap = h
  ELSE d.item \in Unused(h) /\ WellFormed(d.heap, H \cup {d.item}) /\ Builds(h, d.heap)

Duplicates(duplicate) ==
  \A h, H, c : WellFormed(h, H) /\ c \in Live(h) => Copied(h, H, duplicate[[heap |-> h, item |-> c]])

(* An item n is being made, with a list of which last is the last item.      *)
Building(h, H, n, g, last) ==
  /\ WellFormed(g, H \cup {n}) /\ Builds(h, g)
  /\ Open(g, H \cup {n}, n, last) /\ last \notin Live(h)

Copying(h, H, n, m) ==
  IF m.item = 0 THEN m.heap = h ELSE m.item = n /\ Building(h, H, n, m.heap, m.last)

LEMMA UnusedIs ==
  ASSUME NEW h, NEW n \in Unused(h)
  PROVE  n \in Cells /\ n # 0 /\ n \notin Live(h)
BY SomeItems DEF Unused, Live, Cells

LEMMA NewMember ==
  ASSUME NEW h, NEW H, WellFormed(h, H), NEW n \in Unused(h), NEW b, NEW last,
         Building(h, H, n, b, last), NEW c \in Unused(b), NEW e,
         WellFormed(e, (H \cup {n}) \cup {c}), Builds(b, e), NEW g, g = Link(e, n, last, c)
  PROVE  /\ Building(h, H, n, g, c)
         /\ Touches(e, g, {n, last, c}) /\ {n, c} \subseteq Live(e) /\ last \in Live(e) \cup {0}
<1> DEFINE G == H \cup {n}
<1>1. /\ WellFormed(b, G) /\ Builds(h, b) /\ Open(b, G, n, last) /\ last \notin Live(h)
  BY DEF Building
<1>2. /\ n \in Live(b) /\ Live(h) \subseteq Live(b) /\ G \subseteq Live(b)
      /\ n \notin Live(h) /\ n # 0
  BY <1>1, BuildsFacts, Links, UnusedIs
<1>3. c \notin Live(b) /\ c \notin Live(h)
  BY <1>2, UnusedIs
<1>4. Deleted(e, c) = Live(e) \ Live(b)
  BY <1>1, <1>3, BuiltAlone
<1>5. Live(b) \subseteq Live(e) /\ c \in Live(e) /\ n \in Live(e) \ Live(h)
  BY <1>2, BuildsFacts, Links
<1>6. Open(e, G \cup {c}, n, last)
  <2>1. n \in Owners(e) /\ Unshown(e, n)
    BY <1>1, BuildsFacts DEF Open
  <2>2. e[n] = b[n] /\ \A x \in Live(b) : e[x] = b[x]
    BY <1>2, BuildsFacts
  <2>3. QED
    BY <1>1, <1>3, <1>5, <2>1, <2>2 DEF Open
<1>7. {n, last} \cap Deleted(e, c) = {}
  BY <1>1, <1>2, <1>4, ZeroIsNoCell DEF Open
<1>8. (G \cup {c}) \ {c} = G /\ c \in G \cup {c} /\ WellFormed(e, G \cup {c})
  BY <1>2, <1>3
<1> HIDE DEF G
<1>9. WellFormed(g, G) /\ Open(g, G, n, c) /\ Touches(e, g, {n, last, c})
  <2>1. /\ WellFormed(g, (G \cup {c}) \ {c}) /\ Open(g, (G \cup {c}) \ {c}, n, c)
        /\ Touches(e, g, {n, last, c})
    BY <1>6, <1>7, <1>8, LinkKeeps
  <2>2. QED
    BY <1>8, <2>1
<1>10. last = 0 \/ last \in Live(e) \ Live(h)
  BY <1>1, <1>5 DEF Open
<1>11. Builds(h, g)
  <2>1. Builds(h, e)
    BY <1>1, BuildsOn
  <2>2. QED
    BY <1>3, <1>5, <1>9, <1>10, <2>1, SparesTouch DEF Builds
<1>12. QED
  BY <1>3, <1>5, <1>9, <1>10, <1>11 DEF Building, G

LEMMA CopyNext ==
  ASSUME NEW h, NEW H, WellFormed(h, H), NEW n \in Unused(h), NEW c \in Live(h),
         NEW duplicate, Duplicates(duplicate), NEW m, Copying(h, H, n, m),
         NEW r, r = CopyMember(m, c, duplicate)
  PROVE  Copying(h, H, n, r)
<1> DEFINE d == duplicate[[heap |-> m.heap, item |-> c]]
           G == H \cup {n}
           failed == Failed(Delete(d.heap, m.item))
           g == Link(d.heap, m.item, m.last, d.item)
           linked == [heap |-> g, item |-> m.item, last |-> d.item]
<1>1. r = IF m.item = 0 THEN m ELSE IF d.item = 0 THEN failed ELSE linked
  BY Zenon DEF CopyMember
<1>2. /\ failed.heap = Delete(d.heap, m.item) /\ failed.item = 0
      /\ linked.heap = g /\ linked.item = m.item /\ linked.last = d.item
  BY DEF Failed
<1>3. n \in Cells /\ n # 0 /\ n \notin Live(h)
  BY UnusedIs
<1> HIDE DEF d, failed, linked
<1>4. CASE m.item = 0
  BY <1>1, <1>4
<1>5. CASE m.item # 0
  <2>1. m.item = n /\ Building(h, H, n, m.heap, m.last)
    BY <1>5 DEF Copying
  <2>2. WellFormed(m.heap, G) /\ Builds(h, m.heap) /\ c \in Live(m.heap)
    BY <2>1, BuildsFacts DEF Building
  <2>3. Copied(m.heap, G, d)
    BY <2>2 DEF Duplicates, d
  <2>4. CASE d.item = 0
    <3> DEFINE b == m.heap
    <3>1. r = failed /\ d.heap = b /\ WellFormed(b, H \cup {n}) /\ Builds(h, b)
      BY <1>1, <1>5, <2>2, <2>3, <2>4 DEF Copied
    <3> HIDE DEF b
    <3>2. Delete(b, n) = h
      BY <1>3, <3>1, BuiltAlone
    <3>3. r.item = 0 /\ r.heap = h
      BY <1>2, <2>1, <3>1, <3>2
    <3>4. QED
      BY <3>3 DEF Copying
  <2>5. CASE d.item # 0
    <3>1. /\ r = linked /\ d.item \in Unused(m.heap) /\ WellFormed(d.heap, G \cup {d.item})
          /\ Builds(m.heap, d.heap)
      BY <1>1, <1>5, <2>3, <2>5 DEF Copied
    <3>2. g = Link(d.heap, n, m.last, d.item)
      BY <2>1
    <3> HIDE DEF g
    <3>3. Building(h, H, n, g, d.item)
      BY <2>1, <3>1, <3>2, NewMember
    <3>4. r.item = n /\ r.heap = g /\ r.last = d.item
      BY <1>2, <2>1, <3>1
    <3>5. QED
      BY <1>3, <3>3, <3>4 DEF Copying
  <2>6. QED
    BY <2>4, <2>5
<1>6. QED
  BY <1>4, <1>5

LEMMA FreshIs ==
  /\ Fresh \in Struct /\ Plain(Fresh)
  /\ Fresh.ref = FALSE /\ Fresh.next = 0 /\ Fresh.prev = 0 /\ Fresh.child = 0
<1>1. /\ Fresh.kind = "false" /\ Fresh.value = <<>> /\ Fresh.string = NoName
      /\ Fresh.ref = FALSE /\ Fresh.next = 0 /\ Fresh.prev = 0 /\ Fresh.child = 0
  BY DEF Fresh
<1>2. "false" \in Kinds /\ <<>> \in Texts /\ 0 \in Pointers
  BY DEF Kinds, Words, Texts, Pointers
<1>3. Fresh \in Struct
  BY <1>2 DEF Struct, Fresh
<1>4. QED
  BY <1>1, <1>3 DEF Plain

LEMMA CopyIsNew ==
  ASSUME NEW h \in Heaps, NEW c \in Live(h), NEW n \in Unused(h)
  PROVE  \E s : Plain(s) /\ IsNew(h, Copy(h, c, n), n, s)
<1> DEFINE s == [Fresh EXCEPT !.kind = h[c].kind, !.value = h[c].value, !.string = h[c].string]
<1>1. h[c] \in Struct /\ h = [x \in Cells |-> h[x]] /\ n \in Cells
  BY HeapParts, UnusedIs
<1>2. /\ Fresh \in Struct /\ Fresh.ref = FALSE
      /\ Fresh.next = 0 /\ Fresh.prev = 0 /\ Fresh.child = 0
  BY FreshIs
<1>3. h[c].kind \in Kinds /\ h[c].value \in Texts /\ h[c].string \in Texts \cup {NoName}
  BY <1>1 DEF Struct
<1>4. Plain(s)
  BY <1>2, <1>3 DEF Plain, Struct
<1>5. Copy(h, c, n) = [h EXCEPT ![n] = s]
  BY DEF Copy
<1> HIDE DEF s
<1>6. IsNew(h, Copy(h, c, n), n, s)
  BY <1>1, <1>5 DEF IsNew
<1>7. QED
  BY <1>4, <1>6

CopyRun(copied, h, c, n, duplicate) ==
  /\ CopyAll(h, c, n, duplicate) = copied[Len(Chain(h, c))]
  /\ copied[0] = [heap |-> Copy(h, c, n), item |-> n, last |-> 0]
  /\ \A k \in 1..Len(Chain(h, c)) :
       copied[k] = CopyMember(copied[k - 1], Chain(h, c)[k], duplicate)

LEMMA CopyRuns ==
  ASSUME NEW h, NEW c, NEW n, NEW duplicate, Len(Chain(h, c)) \in Nat
  PROVE  \E copied : CopyRun(copied, h, c, n, duplicate)
<1> DEFINE len == Len(Chain(h, c))
<1>0. len \in Nat
  OBVIOUS
<1> HIDE DEF len
<1> DEFINE first == [heap |-> Copy(h, c, n), item |-> n, last |-> 0]
           items == Chain(h, c)
           Next1(f, m) == [k \in 0..m |-> IF k = 0 THEN first
                                          ELSE CopyMember(f[k - 1], items[k], duplicate)]
           T == {m \in 0..len : \E f : f = Next1(f, m)}
           copied == CHOOSE f : f = Next1(f, len)
<1>1. 0 \in T
  <2> DEFINE f == [k \in 0..0 |-> first]
  <2>1. f = Next1(f, 0)
    OBVIOUS
  <2> HIDE DEF f, Next1
  <2>2. QED
    BY <1>0, <2>1
<1>2. ASSUME NEW m \in 1..len, m - 1 \in T PROVE m \in T
  <2>1. PICK f : f = Next1(f, m - 1)
    BY <1>2
  <2> DEFINE g == Next1(f, m)
  <2>2. ASSUME NEW k \in 0..(m - 1) PROVE g[k] = f[k]
    <3> HIDE DEF first, items
    <3>1. QED
      BY <2>1
  <2>3. \A k \in 1..m : k - 1 \in 0..(m - 1)
    BY <1>2
  <2>4. ASSUME NEW k \in 0..m
        PROVE  g[k] = IF k = 0 THEN first ELSE CopyMember(g[k - 1], items[k], duplicate)
    <3>1. g[k] = IF k = 0 THEN first ELSE CopyMember(f[k - 1], items[k], duplicate)
      OBVIOUS
    <3> HIDE DEF g, first, items
    <3>2. k # 0 => g[k - 1] = f[k - 1]
      BY <2>2, <2>3
    <3>3. QED
      BY <3>1, <3>2
  <2>5. g = [k \in 0..m |-> g[k]]
    OBVIOUS
  <2>6. g = Next1(g, m)
    <3> HIDE DEF g, first, items
    <3>1. QED
      BY <2>4, <2>5
  <2> HIDE DEF Next1, g
  <2>7. QED
    BY <1>2, <2>6
<1>3. len \in T
  <2> HIDE DEF T
  <2>1. 0..len \subseteq T
    BY <1>0, <1>1, <1>2, Induct
  <2>2. QED
    BY <1>0, <2>1
<1>4. copied = Next1(copied, len)
  <2> HIDE DEF Next1
  <2>1. QED
    BY <1>3, Zenon
<1>5. CopyAll(h, c, n, duplicate) = copied[len]
  BY Zenon DEF CopyAll, len
<1> HIDE DEF copied, first, items
<1>6. copied[0] = first
  BY <1>0, <1>4
<1>7. \A k \in 1..len : copied[k] = CopyMember(copied[k - 1], items[k], duplicate)
  BY <1>0, <1>4
<1>8. QED
  BY <1>5, <1>6, <1>7 DEF first, items, len, CopyRun

LEMMA CopyAllKeeps ==
  ASSUME NEW h, NEW H, WellFormed(h, H), NEW c \in Live(h), NEW n \in Unused(h),
         NEW duplicate, Duplicates(duplicate), NEW d, d = CopyAll(h, c, n, duplicate)
  PROVE  Copied(h, H, d)
<1> DEFINE len == Len(Chain(h, c))
<1>1. h \in Heaps /\ len \in Nat /\ \A k \in 1..len : Chain(h, c)[k] \in Live(h)
  BY WellFormedIs, ChainFacts, Zenon
<1> HIDE DEF len
<1>9. PICK copied : CopyRun(copied, h, c, n, duplicate)
  BY <1>1, CopyRuns DEF len
<1>2. /\ CopyAll(h, c, n, duplicate) = copied[len]
      /\ copied[0] = [heap |-> Copy(h, c, n), item |-> n, last |-> 0]
      /\ \A k \in 1..len : copied[k] = CopyMember(copied[k - 1], Chain(h, c)[k], duplicate)
  BY <1>9 DEF CopyRun, len
<1> DEFINE T == {k \in 0..len : Copying(h, H, n, copied[k])}
<1>3. 0 \in T
  <2> DEFINE g == Copy(h, c, n)
  <2>1. PICK s : Plain(s) /\ IsNew(h, g, n, s)
    BY <1>1, CopyIsNew
  <2>2. copied[0].heap = g /\ copied[0].item = n /\ copied[0].last = 0
    BY <1>2
  <2> HIDE DEF g
  <2>3. /\ WellFormed(g, H \cup {n}) /\ Builds(h, g) /\ Unshown(g, n) /\ g[n] = s
        /\ n \in Live(g) /\ n # 0 /\ 0 \notin Live(h)
    <3>1. Added(h, H, g, n, s)
      BY <2>1, NewKeeps
    <3>2. QED
      BY <3>1, UnusedIs, ZeroIsNoCell DEF Added
  <2>4. Open(g, H \cup {n}, n, 0)
    BY <2>1, <2>3 DEF Open, Owners, Plain
  <2>5. Copying(h, H, n, copied[0])
    BY <2>2, <2>3, <2>4 DEF Copying, Building
  <2>6. QED
    BY <1>1, <2>5
<1>4. ASSUME NEW k \in 1..len, k - 1 \in T PROVE k \in T
  <2>1. Copying(h, H, n, copied[k - 1]) /\ k \in 0..len
    BY <1>1, <1>4
  <2>2. copied[k] = CopyMember(copied[k - 1], Chain(h, c)[k], duplicate)
    BY <1>2
  <2>3. Chain(h, c)[k] \in Live(h)
    BY <1>1
  <2>4. Copying(h, H, n, copied[k])
    BY <2>1, <2>2, <2>3, CopyNext, Zenon
  <2>5. QED
    BY <2>1, <2>4
<1>5. len \in T
  <2> HIDE DEF T
  <2>1. 0..len \subseteq T
    BY <1>1, <1>3, <1>4, Induct
  <2>2. QED
    BY <1>1, <2>1
<1>6. Copying(h, H, n, d)
  BY <1>2, <1>5
<1>7. QED
  BY <1>6, UnusedIs DEF Copying, Building, Copied

DuplicateRun(duplicate, h, c) ==
  /\ Duplicate(h, c, TRUE) = duplicate[NumItems][[heap |-> h, item |-> c]]
  /\ \A k \in 0..NumItems, g \in Heaps, i \in Cells :
       duplicate[k][[heap |-> g, item |-> i]] =
         IF k = 0 \/ Malloc(g) = 0 THEN Failed(g)
         ELSE CopyAll(g, i, Malloc(g), duplicate[k - 1])

LEMMA DuplicateRuns == \A h, c : \E duplicate : DuplicateRun(duplicate, h, c)
<1> SUFFICES ASSUME NEW h, NEW c
             PROVE  \E duplicate : DuplicateRun(duplicate, h, c)
  OBVIOUS
<1> DEFINE Level(k, f) == [m \in [heap : Heaps, item : Cells] |->
                             IF k = 0 \/ Malloc(m.heap) = 0 THEN Failed(m.heap)
                             ELSE CopyAll(m.heap, m.item, Malloc(m.heap), f[k - 1])]
           Levels(f, n) == [k \in 0..n |-> Level(k, f)]
           T == {n \in 0..NumItems : \E f : f = Levels(f, n)}
           duplicate == CHOOSE f : f = Levels(f, NumItems)
<1>1. 0 \in T
  <2> DEFINE f == [k \in 0..0 |-> [m \in [heap : Heaps, item : Cells] |-> Failed(m.heap)]]
  <2>1. f = Levels(f, 0)
    OBVIOUS
  <2>2. 0 \in 0..NumItems
    BY SomeItems
  <2> HIDE DEF f, Levels
  <2>3. QED
    BY <2>1, <2>2
<1>2. ASSUME NEW n \in 1..NumItems, n - 1 \in T PROVE n \in T
  <2>1. PICK f : f = Levels(f, n - 1)
    BY <1>2
  <2> DEFINE g == Levels(f, n)
  <2>2. \A k \in 1..n : k - 1 \in 0..(n - 1)
    BY <1>2
  <2>3. ASSUME NEW k \in 0..n PROVE Level(k, f) = Level(k, g)
    <3>1. CASE k = 0
      BY <3>1
    <3>2. CASE k # 0
      <4>1. k \in 1..n /\ k - 1 \in 0..(n - 1) /\ k - 1 \in 0..n
        BY <2>2, <3>2
      <4> HIDE DEF Level
      <4>2. g[k - 1] = f[k - 1]
        BY <2>1, <4>1
      <4> HIDE DEF g
      <4>3. QED
        BY <4>2 DEF Level
    <3>3. QED
      BY <3>1, <3>2
  <2>4. g = Levels(g, n)
    <3> HIDE DEF Level
    <3>1. g = [k \in 0..n |-> Level(k, f)]
      OBVIOUS
    <3> HIDE DEF g
    <3>2. QED
      BY <2>3, <3>1
  <2> HIDE DEF Levels, g
  <2>5. n \in 0..NumItems
    BY <1>2, SomeItems
  <2>6. QED
    BY <2>4, <2>5
<1>3. NumItems \in T
  <2> HIDE DEF T
  <2>1. 0..NumItems \subseteq T
    BY <1>1, <1>2, Induct, SomeItems
  <2>2. QED
    BY <2>1, SomeItems
<1>4. duplicate = Levels(duplicate, NumItems)
  <2> HIDE DEF Levels
  <2>1. QED
    BY <1>3, Zenon
<1>5. Duplicate(h, c, TRUE) = duplicate[NumItems][[heap |-> h, item |-> c]]
  BY Zenon DEF Duplicate
<1> HIDE DEF duplicate
<1>6. ASSUME NEW k \in 0..NumItems, NEW g \in Heaps, NEW i \in Cells
      PROVE  duplicate[k][[heap |-> g, item |-> i]] =
               IF k = 0 \/ Malloc(g) = 0 THEN Failed(g)
               ELSE CopyAll(g, i, Malloc(g), duplicate[k - 1])
  <2>1. duplicate[k] = Level(k, duplicate)
    <3> HIDE DEF Level
    <3>1. QED
      BY <1>4
  <2> DEFINE m == [heap |-> g, item |-> i]
  <2>2. m \in [heap : Heaps, item : Cells] /\ m.heap = g /\ m.item = i
    OBVIOUS
  <2> HIDE DEF m
  <2>3. Level(k, duplicate)[m] =
          IF k = 0 \/ Malloc(m.heap) = 0 THEN Failed(m.heap)
          ELSE CopyAll(m.heap, m.item, Malloc(m.heap), duplicate[k - 1])
    BY <2>2, Zenon
  <2>4. QED
    BY <2>1, <2>2, <2>3, Zenon DEF m
<1>7. QED
  BY <1>5, <1>6 DEF DuplicateRun

LEMMA FailedKeeps == \A h, H : Copied(h, H, Failed(h))
BY DEF Copied, Failed

LEMMA DuplicateKeeps ==
  ASSUME NEW h, NEW H, WellFormed(h, H), NEW c \in Live(h), NEW recurse \in BOOLEAN,
         NEW d, d = Duplicate(h, c, recurse)
  PROVE  Copied(h, H, d)
<1>1. CASE recurse
  <2>1. PICK duplicate : DuplicateRun(duplicate, h, c)
    BY DuplicateRuns
  <2> DEFINE T == {k \in 0..NumItems : Duplicates(duplicate[k])}
  <2>2. ASSUME NEW k \in 0..NumItems, k # 0 => Duplicates(duplicate[k - 1]),
               NEW g, NEW G, WellFormed(g, G), NEW i \in Live(g)
        PROVE  Copied(g, G, duplicate[k][[heap |-> g, item |-> i]])
    <3>1. g \in Heaps /\ i \in Cells
      BY <2>2, WellFormedIs, ZeroIsNoCell
    <3> DEFINE r == duplicate[k][[heap |-> g, item |-> i]]
    <3>2. r = IF k = 0 \/ Malloc(g) = 0 THEN Failed(g)
              ELSE CopyAll(g, i, Malloc(g), duplicate[k - 1])
      BY <2>1, <3>1 DEF DuplicateRun
    <3> HIDE DEF r
    <3>3. CASE k = 0 \/ Malloc(g) = 0
      BY <3>2, <3>3, FailedKeeps DEF r
    <3>4. CASE k # 0 /\ Malloc(g) # 0
      <4>1. r = CopyAll(g, i, Malloc(g), duplicate[k - 1]) /\ Malloc(g) \in Unused(g)
            /\ Duplicates(duplicate[k - 1])
        BY <2>2, <3>2, <3>4, MallocFacts
      <4>2. Copied(g, G, r)
        BY <2>2, <4>1, CopyAllKeeps, Zenon
      <4>3. QED
        BY <4>2 DEF r
    <3>5. QED
      BY <3>3, <3>4
  <2>3. 0 \in T
    <3>1. 0 \in 0..NumItems
      BY SomeItems
    <3>2. QED
      BY <2>2, <3>1 DEF Duplicates
  <2>4. ASSUME NEW k \in 1..NumItems, k - 1 \in T PROVE k \in T
    <3>1. k \in 0..NumItems /\ Duplicates(duplicate[k - 1])
      BY <2>4, SomeItems
    <3>2. Duplicates(duplicate[k])
      BY <2>2, <3>1 DEF Duplicates
    <3>3. QED
      BY <3>1, <3>2
  <2>5. NumItems \in T
    <3> HIDE DEF T
    <3>1. 0..NumItems \subseteq T
      BY <2>3, <2>4, Induct, SomeItems
    <3>2. QED
      BY <3>1, SomeItems
  <2>6. d = duplicate[NumItems][[heap |-> h, item |-> c]]
    BY <1>1, <2>1 DEF DuplicateRun
  <2>7. QED
    BY <2>5, <2>6 DEF Duplicates
<1>2. CASE ~recurse
  <2> DEFINE n == Malloc(h)
             g == Copy(h, c, n)
             copy == [heap |-> g, item |-> n, last |-> 0]
  <2>1. d = IF n = 0 THEN Failed(h) ELSE copy
    BY <1>2, Zenon DEF Duplicate
  <2>2. copy.heap = g /\ copy.item = n
    OBVIOUS
  <2> HIDE DEF copy
  <2>3. CASE n = 0
    BY <2>1, <2>3, FailedKeeps
  <2>4. CASE n # 0
    <3>1. n \in Unused(h) /\ h \in Heaps
      BY <2>4, MallocFacts, WellFormedIs
    <3>2. PICK s : Plain(s) /\ IsNew(h, g, n, s)
      BY <3>1, CopyIsNew
    <3> HIDE DEF g, n
    <3>3. WellFormed(g, H \cup {n}) /\ Builds(h, g)
      BY <3>1, <3>2, NewKeeps DEF Added
    <3>4. d.item = n /\ d.heap = g
      BY <2>1, <2>2, <2>4
    <3>5. QED
      BY <2>4, <3>1, <3>3, <3>4 DEF Copied
  <2>5. QED
    BY <2>3, <2>4
<1>3. QED
  BY <1>1, <1>2

(* An array of count items is made if there is memory for them.              *)
LEMMA MallocWorks ==
  ASSUME NEW h, Unused(h) # {}
  PROVE  Malloc(h) \in Unused(h)
<1>1. Unused(h) \subseteq Nat
  BY SomeItems DEF Unused, Cells
<1>2. \E c \in Unused(h) : \A d \in Unused(h) : c <= d
  BY <1>1, LeastNumber
<1>3. QED
  BY <1>2 DEF Malloc

LEMMA UnusedCount ==
  ASSUME NEW h
  PROVE  /\ Cardinality(Unused(h)) \in Nat
         /\ Cardinality(Unused(h)) > 0 => Unused(h) # {}
         /\ \A n \in Unused(h) : Cardinality(Unused(h) \ {n}) = Cardinality(Unused(h)) - 1
<1>1. IsFiniteSet(Cells) /\ Unused(h) \subseteq Cells
  BY FS_Interval, SomeItems DEF Cells, Unused
<1>2. IsFiniteSet(Unused(h))
  BY <1>1, FS_Subset
<1>3. QED
  BY <1>2, FS_CardinalityType, FS_EmptySet, FS_RemoveElement

LEMMA UnusedTouched ==
  ASSUME NEW h, NEW g, NEW S, Touches(h, g, S), S \subseteq Live(h) \cup {0}
  PROVE  Unused(g) = Unused(h)
<1> SUFFICES ASSUME NEW x \in Cells PROVE g[x] = Free <=> h[x] = Free
  BY DEF Unused
<1>1. CASE x \in S
  <2>1. x \in Live(h) /\ x \in Live(g)
    BY <1>1, SomeItems DEF Cells, Touches
  <2>2. QED
    BY <2>1 DEF Live
<1>2. CASE x \notin S
  BY <1>2 DEF Touches
<1>3. QED
  BY <1>1, <1>2

StringItem(v) == [Fresh EXCEPT !.kind = "string", !.value = v]

LEMMA StringItemIs ==
  ASSUME NEW v \in Texts
  PROVE  Plain(StringItem(v))
<1>1. /\ Fresh \in Struct /\ Fresh.ref = FALSE
      /\ Fresh.next = 0 /\ Fresh.prev = 0 /\ Fresh.child = 0
  BY FreshIs
<1>2. "string" \in Kinds
  BY DEF Kinds
<1>3. QED
  BY <1>1, <1>2 DEF Plain, Struct, StringItem

Filling(h, H, a, room, m) ==
  Building(h, H, a, m.heap, m.last) /\ Cardinality(Unused(m.heap)) >= room

LEMMA FillNext ==
  ASSUME NEW h, NEW H, WellFormed(h, H), NEW a \in Unused(h), NEW v \in Texts,
         NEW room \in Nat \ {0}, NEW m, Filling(h, H, a, room, m), NEW r, r = AddNew(m, a, v)
  PROVE  Filling(h, H, a, room - 1, r)
<1> DEFINE b == m.heap
           n == Malloc(b)
           s == StringItem(v)
           e == [b EXCEPT ![n] = s]
           g == Link(e, a, m.last, n)
<1>1. r.heap = g /\ r.last = n
  BY DEF AddNew, StringItem
<1>2. /\ Building(h, H, a, b, m.last) /\ Cardinality(Unused(b)) >= room
      /\ WellFormed(b, H \cup {a}) /\ b \in Heaps
  BY WellFormedIs DEF Filling, Building
<1>3. Plain(s)
  BY StringItemIs
<1> HIDE DEF b, s
<1>4. n \in Unused(b)
  BY <1>2, UnusedCount, MallocWorks
<1> HIDE DEF n
<1>5. IsNew(b, e, n, s)
  BY <1>2, HeapParts DEF IsNew
<1> HIDE DEF e
<1>6. /\ WellFormed(e, (H \cup {a}) \cup {n}) /\ Builds(b, e) /\ n \in Cells \ Live(b)
      /\ e[n] = s /\ Live(e) = Live(b) \cup {n}
  <2>1. Added(b, H \cup {a}, e, n, s)
    BY <1>2, <1>3, <1>4, <1>5, NewKeeps
  <2>2. QED
    BY <2>1 DEF Added
<1> DEFINE last == m.last
<1>7. g = Link(e, a, last, n) /\ Building(h, H, a, b, last)
  BY <1>2
<1> HIDE DEF g, last
<1>8. /\ Building(h, H, a, g, n)
      /\ Touches(e, g, {a, last, n}) /\ {a, n} \subseteq Live(e) /\ last \in Live(e) \cup {0}
  BY <1>4, <1>6, <1>7, NewMember
<1>9. Unused(g) = Unused(e)
  BY <1>8, UnusedTouched
<1>10. Unused(e) = Unused(b) \ {n}
  <2>1. \A x \in Cells : x # n => e[x] = b[x]
    BY <1>5 DEF IsNew
  <2>2. n \in Live(e)
    BY <1>6
  <2>3. QED
    BY <2>1, <2>2 DEF Unused, Live
<1>11. Cardinality(Unused(g)) >= room - 1
  BY <1>2, <1>4, <1>9, <1>10, UnusedCount
<1>12. QED
  BY <1>1, <1>8, <1>11 DEF Filling

FillRun(filled, h, a, count, v) ==
  /\ FillArray(h, a, count, v) = filled[count].heap
  /\ filled[0] = [heap |-> h, last |-> 0]
  /\ \A k \in 1..count : filled[k] = AddNew(filled[k - 1], a, v)

LEMMA FillRuns ==
  ASSUME NEW h, NEW a, NEW count \in Nat, NEW v
  PROVE  \E filled : FillRun(filled, h, a, count, v)
<1> DEFINE first == [heap |-> h, last |-> 0]
           Next1(f, m) == [k \in 0..m |-> IF k = 0 THEN first ELSE AddNew(f[k - 1], a, v)]
           T == {m \in 0..count : \E f : f = Next1(f, m)}
           filled == CHOOSE f : f = Next1(f, count)
<1>1. 0 \in T
  <2> DEFINE f == [k \in 0..0 |-> first]
  <2>1. f = Next1(f, 0)
    OBVIOUS
  <2> HIDE DEF f, Next1
  <2>2. QED
    BY <2>1
<1>2. ASSUME NEW m \in 1..count, m - 1 \in T PROVE m \in T
  <2>1. PICK f : f = Next1(f, m - 1)
    BY <1>2
  <2> DEFINE g == Next1(f, m)
  <2>2. ASSUME NEW k \in 0..(m - 1) PROVE g[k] = f[k]
    <3> HIDE DEF first
    <3>1. QED
      BY <2>1
  <2>3. \A k \in 1..m : k - 1 \in 0..(m - 1)
    BY <1>2
  <2>4. ASSUME NEW k \in 0..m
        PROVE  g[k] = IF k = 0 THEN first ELSE AddNew(g[k - 1], a, v)
    <3>1. g[k] = IF k = 0 THEN first ELSE AddNew(f[k - 1], a, v)
      OBVIOUS
    <3> HIDE DEF g, first
    <3>2. k # 0 => g[k - 1] = f[k - 1]
      BY <2>2, <2>3
    <3>3. QED
      BY <3>1, <3>2
  <2>5. g = [k \in 0..m |-> g[k]]
    OBVIOUS
  <2>6. g = Next1(g, m)
    <3> HIDE DEF g, first
    <3>1. QED
      BY <2>4, <2>5
  <2> HIDE DEF Next1, g
  <2>7. QED
    BY <1>2, <2>6
<1>3. count \in T
  <2> HIDE DEF T
  <2>1. 0..count \subseteq T
    BY <1>1, <1>2, Induct
  <2>2. QED
    BY <2>1
<1>4. filled = Next1(filled, count)
  <2> HIDE DEF Next1
  <2>1. QED
    BY <1>3, Zenon
<1>5. FillArray(h, a, count, v) = filled[count].heap
  BY Zenon DEF FillArray
<1> HIDE DEF filled, first
<1>6. filled[0] = first
  BY <1>4
<1>7. \A k \in 1..count : filled[k] = AddNew(filled[k - 1], a, v)
  BY <1>4
<1>8. QED
  BY <1>5, <1>6, <1>7 DEF first, FillRun

LEMMA FillKeeps ==
  ASSUME NEW h, NEW H, WellFormed(h, H), NEW a \in Unused(h), NEW s, Plain(s),
         NEW b, IsNew(h, b, a, s), NEW count \in Nat, Cardinality(Unused(h)) > count,
         NEW v \in Texts, NEW g, g = FillArray(b, a, count, v)
  PROVE  WellFormed(g, H \cup {a}) /\ Builds(h, g)
<1>1. PICK filled : FillRun(filled, b, a, count, v)
  BY FillRuns
<1> DEFINE T == {k \in 0..count : Filling(h, H, a, count - k, filled[k])}
<1>2. 0 \in T
  <2>1. filled[0].heap = b /\ filled[0].last = 0
    BY <1>1 DEF FillRun
  <2>2. /\ WellFormed(b, H \cup {a}) /\ Builds(h, b) /\ Unshown(b, a) /\ b[a] = s
        /\ a \in Live(b) /\ 0 \notin Live(h) /\ a \notin Live(h)
    <3>1. Added(h, H, b, a, s)
      BY NewKeeps
    <3>2. QED
      BY <3>1, ZeroIsNoCell DEF Added
  <2>3. Open(b, H \cup {a}, a, 0)
    BY <2>2 DEF Open, Owners, Plain
  <2>4. Unused(b) = Unused(h) \ {a}
    <3>1. \A x \in Cells : x # a => b[x] = h[x]
      BY DEF IsNew
    <3>2. QED
      BY <2>2, <3>1 DEF Unused, Live
  <2>5. Cardinality(Unused(b)) >= count
    BY <2>4, UnusedCount
  <2>6. Filling(h, H, a, count - 0, filled[0])
    BY <2>1, <2>2, <2>3, <2>5 DEF Filling, Building
  <2>7. QED
    BY <2>6
<1>3. ASSUME NEW k \in 1..count, k - 1 \in T PROVE k \in T
  <2> DEFINE room == count - (k - 1)
  <2>1. Filling(h, H, a, room, filled[k - 1]) /\ k \in 0..count
    BY <1>3
  <2>2. room \in Nat \ {0} /\ room - 1 = count - k
    BY <1>3
  <2>3. filled[k] = AddNew(filled[k - 1], a, v)
    BY <1>1 DEF FillRun
  <2> HIDE DEF room
  <2>4. Filling(h, H, a, room - 1, filled[k])
    BY <2>1, <2>2, <2>3, FillNext, Zenon
  <2>5. QED
    BY <2>1, <2>2, <2>4
<1>4. count \in T
  <2> HIDE DEF T
  <2>1. 0..count \subseteq T
    BY <1>2, <1>3, Induct
  <2>2. QED
    BY <2>1
<1>5. Filling(h, H, a, count - count, filled[count])
  BY <1>4
<1>6. QED
  BY <1>1, <1>5 DEF Filling, Building, FillRun

(* Parsing: where it goes on in a text, and what it reads of a string.  A     *)
(* text that ends in a backslash is none that can be parsed.                 *)
Parsable(s) == s \in Seq(Chars) /\ (Len(s) > 0 => s[Len(s)] # "\\")

LEMMA SkipIs ==
  ASSUME NEW s, Len(s) \in Nat, NEW i \in Nat
  PROVE  Skip(s, i) \in Nat
<1> DEFINE T == {j \in i..(i + Len(s)) : At(s, j) \notin White}
<1>1. T # {}
  <2>1. CASE i = 0
    <3>1. At(s, 0) = "NUL"
      BY DEF At
    <3>2. "NUL" \notin White
      BY DEF White
    <3>3. 0 \in i..(i + Len(s))
      BY <2>1
    <3>4. 0 \in T
      BY <3>1, <3>2, <3>3
    <3>5. QED
      BY <3>4
  <2>2. CASE i # 0
    <3> DEFINE j == i + Len(s)
    <3>1. j \notin 1..Len(s) /\ j \in i..j
      BY <2>2
    <3>2. At(s, j) = "NUL"
      BY <3>1 DEF At
    <3>3. j \in T
      BY <3>1, <3>2 DEF White
    <3>4. QED
      BY <3>3
  <2>3. QED
    BY <2>1, <2>2
<1>2. PICK j \in T : \A y \in T : j <= y
  <2>1. T \subseteq Nat
    OBVIOUS
  <2> HIDE DEF T
  <2>2. QED
    BY <1>1, <2>1, LeastNumber
<1>3. j \in i..(i + Len(s)) /\ At(s, j) \notin White
  OBVIOUS
<1>4. ASSUME NEW k \in i..(j - 1) PROVE At(s, k) \in White
  <2>1. k \in i..(i + Len(s)) /\ ~ j <= k
    BY <1>3
  <2>2. QED
    BY <1>2, <2>1
<1>5. Skip(s, i) \in i..(i + Len(s))
  BY <1>3, <1>4, Zenon DEF Skip
<1>6. QED
  BY <1>5

Readings == [out : Seq(Chars), pos : Nat]

LEMMA ReadCharIs ==
  ASSUME NEW s, Parsable(s), NEW u \in Readings
  PROVE  ReadChar(s, u) \in Readings
<1> DEFINE ch == At(s, u.pos)
           escaped == At(s, u.pos + 1)
           char == IF escaped = "n" THEN "\n" ELSE escaped
<1>1. u.out \in Seq(Chars) /\ u.pos \in Nat /\ Len(s) \in Nat /\ s \in Seq(Chars)
  BY DEF Readings, Parsable
<1>2. ch # "NUL" => u.pos \in 1..Len(s) /\ ch \in Chars /\ ch = s[u.pos]
  BY <1>1 DEF At
<1>3. ch = "\\" => char \in Chars
  <2>1. SUFFICES ASSUME ch = "\\" PROVE char \in Chars
    OBVIOUS
  <2>2. u.pos \in 1..Len(s) /\ s[u.pos] = "\\"
    BY <1>2, <2>1
  <2>3. u.pos # Len(s)
    BY <2>2 DEF Parsable
  <2>4. u.pos + 1 \in 1..Len(s)
    BY <2>2, <2>3, <1>1
  <2>5. escaped \in Chars
    BY <1>1, <2>4 DEF At
  <2>6. QED
    BY <2>5, CharsAre
<1>4. ReadChar(s, u) =
        IF ch \in {"NUL", "\""} THEN u
        ELSE IF ch = "\\" THEN [out |-> Append(u.out, char), pos |-> u.pos + 2]
        ELSE [out |-> Append(u.out, ch), pos |-> u.pos + 1]
  BY Zenon DEF ReadChar
<1> HIDE DEF ch, char
<1>5. CASE ch \in {"NUL", "\""}
  BY <1>4, <1>5
<1>6. CASE ch = "\\"
  <2>1. char \in Chars /\ Append(u.out, char) \in Seq(Chars)
    BY <1>1, <1>3, <1>6
  <2>2. ReadChar(s, u) = [out |-> Append(u.out, char), pos |-> u.pos + 2]
    BY <1>4, <1>6
  <2>3. u.pos + 2 \in Nat
    BY <1>1
  <2>4. QED
    BY <2>1, <2>2, <2>3 DEF Readings
<1>7. CASE ch \notin {"NUL", "\"", "\\"}
  <2>0. ch \in Chars
    BY <1>2, <1>7
  <2>1. Append(u.out, ch) \in Seq(Chars)
    BY <1>1, <2>0
  <2>2. ReadChar(s, u) = [out |-> Append(u.out, ch), pos |-> u.pos + 1]
    BY <1>4, <1>7
  <2>3. u.pos + 1 \in Nat
    BY <1>1
  <2>4. QED
    BY <2>1, <2>2, <2>3 DEF Readings
<1>8. QED
  BY <1>5, <1>6, <1>7

ReadRun(read, s, i) ==
  /\ Unescape(s, i) = read[Len(s)]
  /\ read[0] = [out |-> <<>>, pos |-> i]
  /\ \A k \in 1..Len(s) : read[k] = ReadChar(s, read[k - 1])

LEMMA ReadRuns ==
  ASSUME NEW s, Len(s) \in Nat, NEW i
  PROVE  \E read : ReadRun(read, s, i)
<1> DEFINE len == Len(s)
           first == [out |-> <<>>, pos |-> i]
           Next1(f, m) == [k \in 0..m |-> IF k = 0 THEN first ELSE ReadChar(s, f[k - 1])]
           T == {m \in 0..len : \E f : f = Next1(f, m)}
           read == CHOOSE f : f = Next1(f, len)
<1>0. len \in Nat
  OBVIOUS
<1>5. Unescape(s, i) = read[len]
  BY Zenon DEF Unescape
<1> HIDE DEF len
<1>1. 0 \in T
  <2> DEFINE f == [k \in 0..0 |-> first]
  <2>1. f = Next1(f, 0)
    OBVIOUS
  <2> HIDE DEF f, Next1
  <2>2. QED
    BY <1>0, <2>1
<1>2. ASSUME NEW m \in 1..len, m - 1 \in T PROVE m \in T
  <2>1. PICK f : f = Next1(f, m - 1)
    BY <1>2
  <2> DEFINE g == Next1(f, m)
  <2>2. ASSUME NEW k \in 0..(m - 1) PROVE g[k] = f[k]
    <3> HIDE DEF first
    <3>1. QED
      BY <2>1
  <2>3. \A k \in 1..m : k - 1 \in 0..(m - 1)
    BY <1>2
  <2>4. ASSUME NEW k \in 0..m
        PROVE  g[k] = IF k = 0 THEN first ELSE ReadChar(s, g[k - 1])
    <3>1. g[k] = IF k = 0 THEN first ELSE ReadChar(s, f[k - 1])
      OBVIOUS
    <3> HIDE DEF g, first
    <3>2. k # 0 => g[k - 1] = f[k - 1]
      BY <2>2, <2>3
    <3>3. QED
      BY <3>1, <3>2
  <2>5. g = [k \in 0..m |-> g[k]]
    OBVIOUS
  <2>6. g = Next1(g, m)
    <3> HIDE DEF g, first
    <3>1. QED
      BY <2>4, <2>5
  <2> HIDE DEF Next1, g
  <2>7. QED
    BY <1>0, <1>2, <2>6
<1>3. len \in T
  <2> HIDE DEF T
  <2>1. 0..len \subseteq T
    BY <1>0, <1>1, <1>2, Induct
  <2>2. QED
    BY <1>0, <2>1
<1>4. read = Next1(read, len)
  <2> HIDE DEF Next1
  <2>1. QED
    BY <1>3, Zenon
<1> HIDE DEF read, first
<1>6. read[0] = first
  BY <1>0, <1>4
<1>7. \A k \in 1..len : read[k] = ReadChar(s, read[k - 1])
  BY <1>0, <1>4
<1>8. QED
  BY <1>5, <1>6, <1>7 DEF first, ReadRun, len

LEMMA UnescapeIs ==
  ASSUME NEW s, Parsable(s), NEW i \in Nat
  PROVE  Unescape(s, i) \in Readings
<1> DEFINE len == Len(s)
<1>0. len \in Nat
  BY DEF Parsable
<1>1. PICK read : ReadRun(read, s, i)
  BY <1>0, ReadRuns
<1>2. /\ Unescape(s, i) = read[len] /\ read[0] = [out |-> <<>>, pos |-> i]
      /\ \A k \in 1..len : read[k] = ReadChar(s, read[k - 1])
  BY <1>1 DEF ReadRun
<1> HIDE DEF len
<1> DEFINE T == {k \in 0..len : read[k] \in Readings}
<1>3. 0 \in T
  <2>1. <<>> \in Seq(Chars)
    OBVIOUS
  <2>2. [out |-> <<>>, pos |-> i] \in Readings
    BY <2>1 DEF Readings
  <2>3. read[0] \in Readings
    BY <1>2, <2>2
  <2>4. QED
    BY <1>0, <2>3
<1>4. ASSUME NEW k \in 1..len, k - 1 \in T PROVE k \in T
  <2>1. read[k - 1] \in Readings /\ k \in 0..len
    BY <1>0, <1>4
  <2>2. read[k] = ReadChar(s, read[k - 1])
    BY <1>2
  <2>3. read[k] \in Readings
    BY <2>1, <2>2, ReadCharIs
  <2>4. QED
    BY <2>1, <2>3
<1>5. len \in T
  <2> HIDE DEF T
  <2>1. 0..len \subseteq T
    BY <1>0, <1>3, <1>4, Induct
  <2>2. QED
    BY <1>0, <2>1
<1>6. QED
  BY <1>2, <1>5

(* An item that a parser fills: the item of a value that has none yet, and    *)
(* no reference shows.                                                       *)
Blank(h, H, c) ==
  WellFormed(h, H) /\ c \in Owners(h) /\ h[c].child = 0 /\ Unshown(h, c)

Fills(h, g, c) ==
  Spares(h, g, c) /\ c \in Owners(h) /\ c \in Owners(g) /\ g[c].next = h[c].next

Filled(h, H, c, v) == WellFormed(v.heap, H) /\ Fills(h, v.heap, c) /\ v.pos \in Nat

Parses(parse) ==
  \A m \in Places : \A H :
    Blank(m.heap, H, m.item) => Filled(m.heap, H, m.item, parse[m])

(* Only data of the item changes.                                            *)
Retold(h, g, c) == SameLinks(h, g) /\ \A x \in Cells \ {c} : g[x] = h[x]

Reads(m, r) == r \in Places /\ r.item = m.item /\ Retold(m.heap, r.heap, m.item)

LEMMA OwnerIs ==
  ASSUME NEW h, NEW c \in Owners(h)
  PROVE  c \in Live(h) /\ c \in Cells /\ c # 0 /\ ~h[c].ref
BY ZeroIsNoCell DEF Owners

LEMMA RetoldIs ==
  ASSUME NEW h \in Heaps, NEW c \in Live(h), NEW s \in Struct,
         s.ref = h[c].ref, s.next = h[c].next, s.prev = h[c].prev,
         s.child = h[c].child, s.of = h[c].of, NEW g, IsNew(h, g, c, s)
  PROVE  Retold(h, g, c)
<1>1. /\ Live(h) \subseteq Cells /\ \A x \in Live(h) : h[x] \in Struct
      /\ \A x \in Cells \ Live(h) : h[x] \in {Free, Taken}
  BY HeapParts, ZeroIsNoCell
<1>2. /\ g = [x \in Cells |-> g[x]] /\ g[c] = s
      /\ \A x \in Cells \ {c} : g[x] = h[x]
  BY <1>1 DEF IsNew
<1>3. g \in Heaps /\ Live(g) = Live(h)
  <2>1. \A x \in Live(h) : g[x] \in Struct
    BY <1>1, <1>2
  <2>2. \A x \in Cells \ Live(h) : g[x] \in {Free, Taken}
    BY <1>1, <1>2
  <2>3. QED
    BY <1>1, <1>2, <2>1, <2>2, HeapIs
<1>4. \A x \in Live(h) : /\ g[x].next = h[x].next /\ g[x].prev = h[x].prev
                         /\ g[x].child = h[x].child /\ g[x].of = h[x].of
                         /\ g[x].ref = h[x].ref
  BY <1>1, <1>2
<1>5. Owners(g) = Owners(h)
  BY <1>3, <1>4 DEF Owners
<1>6. QED
  BY <1>2, <1>3, <1>4, <1>5 DEF Retold, SameLinks

LEMMA RetoldFacts ==
  ASSUME NEW h, NEW H, NEW c, Blank(h, H, c), NEW g, Retold(h, g, c)
  PROVE  Blank(g, H, c) /\ Fills(h, g, c)
<1>1. /\ c \in Owners(h) /\ c \in Live(h) /\ WellFormed(h, H) /\ SameLinks(h, g)
      /\ Live(g) = Live(h) /\ Owners(g) = Owners(h)
      /\ g[c].child = 0 /\ g[c].next = h[c].next
      /\ \A x \in Live(h) : g[x].of = h[x].of
  BY OwnerIs DEF Blank, Retold, SameLinks
<1>2. WellFormed(g, H)
  BY <1>1, SameLinksKeep
<1>3. Unshown(g, c)
  BY <1>1 DEF Unshown, Blank
<1>4. Spares(h, g, c)
  BY <1>1 DEF Spares, Retold
<1>5. QED
  BY <1>1, <1>2, <1>3, <1>4 DEF Blank, Fills

LEMMA ReadFilled ==
  ASSUME NEW m, NEW H, Blank(m.heap, H, m.item), NEW r, Reads(m, r)
  PROVE  Filled(m.heap, H, m.item, r) /\ Blank(r.heap, H, r.item)
<1> DEFINE h == m.heap
           g == r.heap
           c == m.item
<1>1. Blank(h, H, c) /\ Retold(h, g, c) /\ r.item = c /\ r.pos \in Nat
  BY DEF Reads, Places
<1> HIDE DEF h, g, c
<1>2. Blank(g, H, c) /\ Fills(h, g, c)
  BY <1>1, RetoldFacts
<1>3. QED
  BY <1>1, <1>2 DEF Filled, Blank, h, g, c

LEMMA FillsOn ==
  ASSUME NEW h, NEW g, NEW k, NEW c, NEW d, Fills(h, g, c), Fills(g, k, d),
         d # c => d \notin Live(h)
  PROVE  Fills(h, k, c)
<1>1. /\ Spares(h, g, c) /\ Spares(g, k, d) /\ c \in Owners(h) /\ c \in Owners(g)
      /\ d \in Owners(k) /\ d \in Live(g) /\ c \in Live(g) /\ c \in Cells
      /\ g[c].next = h[c].next
  BY OwnerIs DEF Fills
<1>2. Spares(h, k, c)
  BY <1>1, SparesOn
<1>3. CASE d = c
  BY <1>1, <1>2, <1>3 DEF Fills
<1>4. CASE d # c
  <2>1. k[c] = g[c]
    BY <1>1, <1>4 DEF Spares
  <2>2. c \in Owners(k)
    BY <1>1, <2>1 DEF Owners, Live
  <2>3. QED
    BY <1>1, <1>2, <2>1, <2>2 DEF Fills
<1>5. QED
  BY <1>3, <1>4

LEMMA FailReads ==
  ASSUME NEW m \in Places, NEW H, Blank(m.heap, H, m.item)
  PROVE  Reads(m, Fail(m))
<1>1. /\ Fail(m) \in Places /\ Fail(m).heap = m.heap /\ Fail(m).item = m.item
  BY DEF Fail, Places
<1>2. SameLinks(m.heap, m.heap)
  BY DEF SameLinks, Places
<1>3. QED
  BY <1>1, <1>2 DEF Reads, Retold

LEMMA ReadsOn ==
  ASSUME NEW m, NEW r, NEW t, Reads(m, r), Reads(r, t)
  PROVE  Reads(m, t)
BY DEF Reads, Retold, SameLinks

(* The three ways in which a parser changes data of an item.                 *)
LEMMA TellKind ==
  ASSUME NEW h, NEW H, NEW c, Blank(h, H, c), NEW kind \in Kinds,
         NEW g, g = [h EXCEPT ![c].kind = kind]
  PROVE  Retold(h, g, c)
<1> DEFINE s == [h[c] EXCEPT !.kind = kind]
<1>1. h \in Heaps /\ c \in Live(h) /\ h = [x \in Cells |-> h[x]] /\ h[c] \in Struct /\ c \in Cells
  BY WellFormedIs, HeapParts, OwnerIs DEF Blank
<1>2. IsNew(h, g, c, s)
  BY <1>1 DEF IsNew
<1>3. /\ s \in Struct /\ s.ref = h[c].ref /\ s.next = h[c].next /\ s.prev = h[c].prev
      /\ s.child = h[c].child /\ s.of = h[c].of
  BY <1>1 DEF Struct
<1> HIDE DEF s
<1>4. QED
  BY <1>1, <1>2, <1>3, RetoldIs

Told(h, g, c, v) == Retold(h, g, c) /\ g[c].value = v

LEMMA TellString ==
  ASSUME NEW h, NEW H, NEW c, Blank(h, H, c), NEW kind \in Kinds, NEW v \in Texts,
         NEW g, g = [h EXCEPT ![c].kind = kind, ![c].value = v]
  PROVE  Told(h, g, c, v)
<1> DEFINE s == [h[c] EXCEPT !.kind = kind, !.value = v]
<1>1. h \in Heaps /\ c \in Live(h) /\ h = [x \in Cells |-> h[x]] /\ h[c] \in Struct /\ c \in Cells
  BY WellFormedIs, HeapParts, OwnerIs DEF Blank
<1>2. IsNew(h, g, c, s)
  BY <1>1 DEF IsNew
<1>3. /\ s \in Struct /\ s.ref = h[c].ref /\ s.next = h[c].next /\ s.prev = h[c].prev
      /\ s.child = h[c].child /\ s.of = h[c].of
  BY <1>1 DEF Struct
<1>4. s.value = v
  BY <1>1 DEF Struct
<1> HIDE DEF s
<1>5. g[c] = s
  BY <1>1, <1>2 DEF IsNew
<1>6. QED
  BY <1>1, <1>2, <1>3, <1>4, <1>5, RetoldIs DEF Told

LEMMA TellName ==
  ASSUME NEW h, NEW H, NEW c, Blank(h, H, c), NEW n \in Texts, NEW v \in Texts,
         NEW g, g = [h EXCEPT ![c].string = n, ![c].value = v]
  PROVE  Retold(h, g, c)
<1> DEFINE s == [h[c] EXCEPT !.string = n, !.value = v]
<1>1. h \in Heaps /\ c \in Live(h) /\ h = [x \in Cells |-> h[x]] /\ h[c] \in Struct /\ c \in Cells
  BY WellFormedIs, HeapParts, OwnerIs DEF Blank
<1>2. IsNew(h, g, c, s)
  BY <1>1 DEF IsNew
<1>3. /\ s \in Struct /\ s.ref = h[c].ref /\ s.next = h[c].next /\ s.prev = h[c].prev
      /\ s.child = h[c].child /\ s.of = h[c].of
  BY <1>1 DEF Struct
<1> HIDE DEF s
<1>4. QED
  BY <1>1, <1>2, <1>3, RetoldIs

LEMMA ReadsIs ==
  ASSUME NEW m \in Places, NEW g, Retold(m.heap, g, m.item), NEW pos \in Nat,
         NEW r, r = [heap |-> g, item |-> m.item, pos |-> pos]
  PROVE  Reads(m, r)
BY DEF Reads, Retold, SameLinks, Places

LEMMA ParseStringReads ==
  ASSUME NEW m \in Places, NEW H, Blank(m.heap, H, m.item), NEW s, Parsable(s),
         NEW r, r = ParseString(m, s)
  PROVE  Reads(m, r) /\ (r.pos # 0 => r.heap[r.item].value \in Texts)
<1> DEFINE h == m.heap
           c == m.item
           u == Unescape(s, m.pos + 1)
           pos == IF At(s, u.pos) = "\"" THEN u.pos + 1 ELSE u.pos
           v == u.out
           kind == "string"
           g == [h EXCEPT ![c].kind = kind, ![c].value = v]
           t == [heap |-> g, item |-> c, pos |-> pos]
<1>1. r = IF At(s, m.pos) # "\"" THEN Fail(m) ELSE t
  BY Zenon DEF ParseString
<1>2. Blank(h, H, c) /\ m.pos + 1 \in Nat
  BY DEF Places
<1>3. u \in Readings
  BY <1>2, UnescapeIs
<1>4. v \in Texts /\ pos \in Nat
  <2>1. u.out \in Seq(Chars) /\ u.pos \in Nat
    BY <1>3 DEF Readings
  <2>2. u.pos + 1 \in Nat
    BY <2>1
  <2> HIDE DEF u
  <2>3. QED
    BY <2>1, <2>2 DEF Texts
<1>5. kind \in Kinds
  BY DEF Kinds
<1> HIDE DEF u, v, kind, pos, h, c
<1>6. Retold(h, g, c) /\ g[c].value = v
  <2>1. Told(h, g, c, v)
    BY <1>2, <1>4, <1>5, TellString
  <2>2. QED
    BY <2>1 DEF Told
<1>7. t.heap = g /\ t.item = c /\ t = [heap |-> g, item |-> c, pos |-> pos]
  OBVIOUS
<1> HIDE DEF g, t
<1>8. Reads(m, t)
  BY <1>4, <1>6, <1>7, ReadsIs DEF h, c
<1>9. CASE At(s, m.pos) # "\""
  <2>1. r = Fail(m)
    BY <1>1, <1>9
  <2>2. r.pos = 0
    BY <2>1 DEF Fail, Places
  <2>3. QED
    BY <2>1, <2>2, FailReads
<1>10. CASE At(s, m.pos) = "\""
  BY <1>1, <1>4, <1>6, <1>7, <1>8, <1>10
<1>11. QED
  BY <1>9, <1>10

LEMMA ParseNameReads ==
  ASSUME NEW m \in Places, NEW H, Blank(m.heap, H, m.item), NEW s, Parsable(s),
         NEW r, r = ParseName(m, s)
  PROVE  Reads(m, r)
<1> DEFINE name == ParseString(m, s)
           h == name.heap
           c == m.item
           p == Skip(s, name.pos)
           pos == IF At(s, p) = ":" THEN Skip(s, p + 1) ELSE 0
           v == h[c].value
           g == [h EXCEPT ![c].string = v, ![c].value = <<>>]
           t == [heap |-> g, item |-> c, pos |-> pos]
<1>1. r = IF name.pos = 0 THEN name ELSE t
  BY Zenon DEF ParseName, Named
<1>2. Reads(m, name) /\ (name.pos # 0 => name.heap[name.item].value \in Texts)
  BY ParseStringReads
<1> HIDE DEF name
<1>3. name \in Places /\ name.item = c /\ name.pos \in Nat /\ Blank(h, H, c)
  <2>1. Blank(name.heap, H, name.item)
    BY <1>2, ReadFilled
  <2>2. QED
    BY <1>2, <2>1 DEF Reads, Places
<1>4. CASE name.pos = 0
  BY <1>1, <1>2, <1>4
<1>5. CASE name.pos # 0
  <2>1. v \in Texts /\ <<>> \in Texts
    BY <1>2, <1>3, <1>5 DEF Texts
  <2>2. Len(s) \in Nat
    BY DEF Parsable
  <2>3. p \in Nat
    BY <1>3, <2>2, SkipIs
  <2>4. p + 1 \in Nat
    BY <2>3
  <2>5. pos \in Nat
    BY <2>2, <2>4, SkipIs
  <2>6. r = t
    BY <1>1, <1>5
  <2> HIDE DEF pos, p, v, h
  <2>7. Retold(h, g, c)
    BY <1>3, <2>1, TellName
  <2> HIDE DEF g
  <2>8. Reads(name, t)
    BY <1>3, <2>5, <2>7, ReadsIs DEF h
  <2>9. QED
    BY <1>2, <2>6, <2>8, ReadsOn
<1>6. QED
  BY <1>4, <1>5

(* The list of c is being parsed, and the item of m is its last member; it    *)
(* began in the heap h.                                                      *)
InList(h, H, c, m) ==
  /\ m \in Places /\ WellFormed(m.heap, H) /\ Fills(h, m.heap, c)
  /\ m.item \in Live(m.heap) \ Live(h) /\ m.item \notin H /\ m.heap[m.item].next = 0

(* The member has no value yet.                                              *)
Begun(h, H, c, m) == InList(h, H, c, m) /\ Blank(m.heap, H, m.item)

LEMMA ParseMemberKeeps ==
  ASSUME NEW h, NEW H, NEW c, NEW m, Begun(h, H, c, m), NEW s, Parsable(s), NEW kind,
         NEW parse, Parses(parse), NEW r, r = ParseMember(m, s, kind, parse)
  PROVE  InList(h, H, c, r)
<1> DEFINE t == IF kind = "object" THEN ParseName(m, s) ELSE m
           v == parse[t]
           b == m.heap
           n == m.item
           g == v.heap
           pos == Skip(s, v.pos)
<1>1. r = [heap |-> g, item |-> n, pos |-> pos]
  BY Zenon DEF ParseMember, Past
<1>2. /\ m \in Places /\ Blank(b, H, n) /\ Fills(h, b, c)
      /\ n \in Live(b) \ Live(h) /\ n \notin H /\ b[n].next = 0
  BY DEF Begun, InList
<1>3. Reads(m, t)
  <2>1. CASE kind = "object"
    BY <1>2, <2>1, ParseNameReads
  <2>2. CASE kind # "object"
    <3>1. SameLinks(b, b)
      BY <1>2 DEF SameLinks, Places
    <3>2. QED
      BY <1>2, <2>2, <3>1 DEF Reads, Retold
  <2>3. QED
    BY <2>1, <2>2
<1> HIDE DEF t
<1>4. /\ t \in Places /\ t.item = n /\ Blank(t.heap, H, n) /\ Fills(b, t.heap, n)
  <2>1. Filled(b, H, n, t) /\ Blank(t.heap, H, t.item)
    BY <1>2, <1>3, ReadFilled
  <2>2. QED
    BY <1>3, <2>1 DEF Reads, Filled
<1>5. Filled(t.heap, H, n, v)
  BY <1>4 DEF Parses
<1> HIDE DEF v
<1>6. WellFormed(g, H) /\ Fills(t.heap, g, n) /\ v.pos \in Nat
  BY <1>5 DEF Filled
<1> DEFINE a == t.heap
<1>7. Fills(b, a, n) /\ Fills(a, g, n) /\ n # c /\ n \notin Live(h) /\ n \in Cells
  <2>1. c \in Live(h) /\ n \in Owners(b)
    BY <1>2, OwnerIs DEF Fills, Blank
  <2>2. QED
    BY <1>2, <1>4, <1>6, <2>1, OwnerIs
<1> HIDE DEF a, b, g, n
<1>8. Fills(b, g, n)
  BY <1>7, FillsOn
<1>9. Fills(h, g, c)
  BY <1>2, <1>7, <1>8, FillsOn
<1>10. n \in Live(g) /\ g[n].next = 0 /\ g \in Heaps
  BY <1>2, <1>6, <1>8, OwnerIs, WellFormedIs DEF Fills
<1>11. pos \in Nat
  <2>1. Len(s) \in Nat
    BY DEF Parsable
  <2>2. QED
    BY <1>6, <2>1, SkipIs
<1> HIDE DEF pos
<1>12. r \in Places /\ r.heap = g /\ r.item = n
  BY <1>1, <1>7, <1>10, <1>11 DEF Places
<1>13. QED
  BY <1>2, <1>6, <1>7, <1>9, <1>10, <1>12 DEF InList

(* A new item becomes the next member.                                       *)
LEMMA NextBegins ==
  ASSUME NEW h, NEW H, NEW c, NEW m, InList(h, H, c, m), NEW n \in Unused(m.heap),
         NEW pos \in Nat, NEW g, g = Suffix(NewItem(m.heap, n), m.item, n)
  PROVE  Begun(h, H, c, [heap |-> g, item |-> n, pos |-> pos])
<1> DEFINE b == m.heap
           p == m.item
           e == NewItem(b, n)
           r == [heap |-> g, item |-> n, pos |-> pos]
<1>1. /\ WellFormed(b, H) /\ b \in Heaps /\ Fills(h, b, c)
      /\ p \in Live(b) \ Live(h) /\ p \notin H /\ b[p].next = 0
  BY WellFormedIs DEF InList
<1>2. n \in Unused(b) /\ g = Suffix(e, p, n)
  OBVIOUS
<1>3. r.heap = g /\ r.item = n /\ r.pos = pos /\ r = [heap |-> g, item |-> n, pos |-> pos]
  OBVIOUS
<1> HIDE DEF b, p, r
<1>4. Plain(Fresh) /\ Fresh.next = 0 /\ Fresh.child = 0
  BY FreshIs
<1>5. IsNew(b, e, n, Fresh)
  BY <1>1, HeapParts DEF IsNew, NewItem
<1> HIDE DEF e
<1>6. /\ WellFormed(e, H \cup {n}) /\ Builds(b, e) /\ Deleted(e, n) = {n} /\ Unshown(e, n)
      /\ Live(e) = Live(b) \cup {n} /\ n \in Cells \ Live(b) /\ e[n] = Fresh
  <2>1. Added(b, H, e, n, Fresh)
    BY <1>1, <1>2, <1>4, <1>5, NewKeeps
  <2>2. QED
    BY <2>1 DEF Added
<1>7. /\ p \in Live(e) /\ n \in Live(e) /\ p # n /\ e \in Heaps /\ p \in Live(e) \ (H \cup {n})
      /\ p \notin Deleted(e, n)
  BY <1>1, <1>6, WellFormedIs
<1>8. e[p].next = 0
  <2>1. e[p] = b[p]
    BY <1>1, <1>6, BuildsFacts
  <2>2. QED
    BY <1>1, <2>1
<1>9. NextAdded(e, g, p, n)
  BY <1>2, <1>7, AddNext
<1>10. Touches(e, g, {p, n})
  BY <1>2, <1>7, NextTouches
<1>11. WellFormed(g, (H \cup {n}) \ {n})
  <2> DEFINE G == H \cup {n}
  <2>1. WellFormed(e, G) /\ n \in G /\ p \in Live(e) \ G
    BY <1>6, <1>7
  <2> HIDE DEF G
  <2>2. WellFormed(g, G \ {n})
    BY <1>7, <1>8, <1>9, <2>1, LinkNextKeeps
  <2>3. QED
    BY <2>2 DEF G
<1>12. n \notin H /\ n \notin Live(h)
  <2>1. H \subseteq Live(b)
    BY <1>1, Links
  <2>2. n \notin Live(h)
    <3>0. c \in Owners(b)
      BY <1>1 DEF Fills
    <3>1. b[n] = Free /\ n # c
      BY <1>2, <1>6, <3>0, OwnerIs DEF Unused
    <3>2. h[n] = b[n]
      BY <1>1, <1>6, <3>1 DEF Fills, Spares
    <3>3. QED
      BY <3>1, <3>2 DEF Live
  <2>3. QED
    BY <1>6, <2>1, <2>2
<1>13. (H \cup {n}) \ {n} = H
  BY <1>12
<1>14. WellFormed(g, H) /\ g \in Heaps
  BY <1>11, <1>13, WellFormedIs
<1>15. /\ g[n].next = 0 /\ g[n].child = 0 /\ n \in Live(g) /\ n \in Owners(g)
  <2>1. g[n].next = e[n].next /\ g[n].child = e[n].child
    BY <1>7, <1>9 DEF NextAdded
  <2>2. n \in Owners(e)
    BY <1>4, <1>6, <1>7 DEF Owners, Plain
  <2>3. QED
    BY <1>4, <1>6, <1>9, <2>1, <2>2 DEF NextAdded, Owners
<1>16. Unshown(g, n)
  BY <1>6, <1>10, TouchUnshown
<1>17. Fills(h, g, c)
  <2>1. Spares(h, b, c) /\ Spares(b, e, 0) /\ c \in Owners(h) /\ c \in Owners(b)
        /\ b[c].next = h[c].next /\ c \in Live(h) /\ c \in Live(b) /\ c \in Cells /\ 0 \notin Live(h)
    BY <1>1, <1>6, OwnerIs, ZeroIsNoCell DEF Fills, Builds
  <2>2. Spares(h, e, c)
    BY <2>1, SparesOn
  <2>3. \A x \in {p, n} : x = c \/ x = 0 \/ x \in Live(e) \ Live(h)
    BY <1>1, <1>7, <1>12
  <2>4. Spares(h, g, c)
    BY <1>10, <2>2, <2>3, SparesTouch
  <2>5. c # p /\ c # n
    BY <1>1, <1>12, <2>1
  <2>6. g[c] = e[c]
    BY <1>10, <2>1, <2>5 DEF Touches
  <2>7. e[c] = b[c]
    BY <1>6, <2>1, BuildsFacts
  <2>8. c \in Owners(g)
    BY <2>1, <2>6, <2>7 DEF Owners, Live
  <2>9. QED
    BY <2>1, <2>4, <2>6, <2>7, <2>8 DEF Fills
<1>18. r \in Places
  BY <1>3, <1>6, <1>14 DEF Places
<1>19. InList(h, H, c, r)
  BY <1>3, <1>12, <1>14, <1>15, <1>17, <1>18 DEF InList
<1>20. Blank(r.heap, H, r.item)
  BY <1>3, <1>14, <1>15, <1>16 DEF Blank
<1>21. QED
  BY <1>3, <1>19, <1>20 DEF Begun

LEMMA NextMemberKeeps ==
  ASSUME NEW h, NEW H, NEW c, NEW m, InList(h, H, c, m), NEW s, Parsable(s), NEW kind,
         NEW parse, Parses(parse), NEW r, r = NextMember(m, s, kind, parse)
  PROVE  InList(h, H, c, r)
<1> DEFINE n == Malloc(m.heap)
           g == Suffix(NewItem(m.heap, n), m.item, n)
           pos == Skip(s, m.pos + 1)
           t == [heap |-> g, item |-> n, pos |-> pos]
<1>1. r = IF At(s, m.pos) # "," THEN m
          ELSE IF n = 0 THEN Fail(m)
          ELSE ParseMember(t, s, kind, parse)
  BY Zenon DEF NextMember
<1>2. m \in Places
  BY DEF InList
<1>3. InList(h, H, c, Fail(m))
  <2>1. Fail(m) \in Places /\ Fail(m).heap = m.heap /\ Fail(m).item = m.item
    BY <1>2 DEF Fail, Places
  <2>2. QED
    BY <2>1 DEF InList
<1>4. CASE At(s, m.pos) = "," /\ n # 0
  <2>1. n \in Unused(m.heap)
    BY <1>4, MallocFacts
  <2>2. pos \in Nat
    <3>1. Len(s) \in Nat /\ m.pos + 1 \in Nat
      BY <1>2 DEF Parsable, Places
    <3> DEFINE i == m.pos + 1
    <3> HIDE DEF i
    <3>2. Skip(s, i) \in Nat
      BY <3>1, SkipIs DEF i
    <3>3. QED
      BY <3>2 DEF i
  <2> HIDE DEF n, pos
  <2>3. Begun(h, H, c, t)
    BY <2>1, <2>2, NextBegins
  <2>4. r = ParseMember(t, s, kind, parse)
    BY <1>1, <1>4 DEF n
  <2> HIDE DEF t
  <2>5. QED
    BY <2>3, <2>4, ParseMemberKeeps
<1>5. QED
  BY <1>1, <1>3, <1>4

MembersRun(member, m, s, kind, parse) ==
  /\ ParseMembers(m, s, kind, parse) = member[NumItems]
  /\ member[0] = ParseMember(m, s, kind, parse)
  /\ \A k \in 1..NumItems : member[k] = NextMember(member[k - 1], s, kind, parse)

LEMMA MembersRuns == \A m, s, kind, parse : \E member : MembersRun(member, m, s, kind, parse)
<1> SUFFICES ASSUME NEW m, NEW s, NEW kind, NEW parse
             PROVE  \E member : MembersRun(member, m, s, kind, parse)
  OBVIOUS
<1> DEFINE first == ParseMember(m, s, kind, parse)
           Next1(f, n) == [k \in 0..n |-> IF k = 0 THEN first ELSE NextMember(f[k - 1], s, kind, parse)]
           T == {n \in 0..NumItems : \E f : f = Next1(f, n)}
           member == CHOOSE f : f = Next1(f, NumItems)
<1>0. NumItems \in Nat
  BY SomeItems
<1>1. 0 \in T
  <2> DEFINE f == [k \in 0..0 |-> first]
  <2>1. f = Next1(f, 0)
    OBVIOUS
  <2> HIDE DEF f, Next1
  <2>2. QED
    BY <1>0, <2>1
<1>2. ASSUME NEW n \in 1..NumItems, n - 1 \in T PROVE n \in T
  <2>1. PICK f : f = Next1(f, n - 1)
    BY <1>2
  <2> DEFINE g == Next1(f, n)
  <2>2. ASSUME NEW k \in 0..(n - 1) PROVE g[k] = f[k]
    <3> HIDE DEF first
    <3>1. QED
      BY <2>1
  <2>3. \A k \in 1..n : k - 1 \in 0..(n - 1)
    BY <1>2
  <2>4. ASSUME NEW k \in 0..n
        PROVE  g[k] = IF k = 0 THEN first ELSE NextMember(g[k - 1], s, kind, parse)
    <3>1. g[k] = IF k = 0 THEN first ELSE NextMember(f[k - 1], s, kind, parse)
      OBVIOUS
    <3> HIDE DEF g, first
    <3>2. k # 0 => g[k - 1] = f[k - 1]
      BY <2>2, <2>3
    <3>3. QED
      BY <3>1, <3>2
  <2>5. g = [k \in 0..n |-> g[k]]
    OBVIOUS
  <2>6. g = Next1(g, n)
    <3> HIDE DEF g, first
    <3>1. QED
      BY <2>4, <2>5
  <2> HIDE DEF Next1, g
  <2>7. QED
    BY <1>0, <1>2, <2>6
<1>3. NumItems \in T
  <2> HIDE DEF T
  <2>1. 0..NumItems \subseteq T
    BY <1>0, <1>1, <1>2, Induct
  <2>2. QED
    BY <1>0, <2>1
<1>4. member = Next1(member, NumItems)
  <2> HIDE DEF Next1
  <2>1. QED
    BY <1>3, Zenon
<1>5. ParseMembers(m, s, kind, parse) = member[NumItems]
  BY Zenon DEF ParseMembers
<1> HIDE DEF member, first
<1>6. member[0] = first
  BY <1>0, <1>4
<1>7. \A k \in 1..NumItems : member[k] = NextMember(member[k - 1], s, kind, parse)
  BY <1>0, <1>4
<1>8. QED
  BY <1>5, <1>6, <1>7 DEF first, MembersRun

LEMMA ParseMembersKeeps ==
  ASSUME NEW h, NEW H, NEW c, NEW m, Begun(h, H, c, m), NEW s, Parsable(s), NEW kind,
         NEW parse, Parses(parse), NEW r, r = ParseMembers(m, s, kind, parse)
  PROVE  InList(h, H, c, r)
<1>1. PICK member : MembersRun(member, m, s, kind, parse)
  BY MembersRuns
<1>2. /\ r = member[NumItems] /\ member[0] = ParseMember(m, s, kind, parse)
      /\ \A k \in 1..NumItems : member[k] = NextMember(member[k - 1], s, kind, parse)
  BY <1>1 DEF MembersRun
<1>0. NumItems \in Nat
  BY SomeItems
<1> DEFINE T == {k \in 0..NumItems : InList(h, H, c, member[k])}
<1>3. 0 \in T
  <2>1. InList(h, H, c, member[0])
    BY <1>2, ParseMemberKeeps
  <2>2. QED
    BY <1>0, <2>1
<1>4. ASSUME NEW k \in 1..NumItems, k - 1 \in T PROVE k \in T
  <2>1. InList(h, H, c, member[k - 1]) /\ k \in 0..NumItems
    BY <1>0, <1>4
  <2>2. member[k] = NextMember(member[k - 1], s, kind, parse)
    BY <1>2
  <2>3. InList(h, H, c, member[k])
    BY <2>1, <2>2, NextMemberKeeps, Zenon
  <2>4. QED
    BY <2>1, <2>3
<1>5. NumItems \in T
  <2> HIDE DEF T
  <2>1. 0..NumItems \subseteq T
    BY <1>0, <1>3, <1>4, Induct
  <2>2. QED
    BY <1>0, <2>1
<1>6. QED
  BY <1>2, <1>5

(* The first member: a new item becomes the list of c.                       *)
LEMMA FirstBegins ==
  ASSUME NEW h, NEW H, NEW c, Blank(h, H, c), NEW b, Retold(h, b, c), NEW n \in Unused(b),
         NEW pos \in Nat, NEW g, g = [NewItem(b, n) EXCEPT ![c].child = n]
  PROVE  Begun(h, H, c, [heap |-> g, item |-> n, pos |-> pos])
<1> DEFINE e == NewItem(b, n)
           r == [heap |-> g, item |-> n, pos |-> pos]
<1>1. Blank(b, H, c) /\ Fills(h, b, c)
  BY RetoldFacts
<1>2. /\ WellFormed(b, H) /\ b \in Heaps /\ c \in Owners(b) /\ b[c].child = 0 /\ Unshown(b, c)
      /\ Live(b) = Live(h)
  BY <1>1, WellFormedIs DEF Blank, Retold, SameLinks
<1>3. /\ r.heap = g /\ r.item = n /\ r.pos = pos /\ r = [heap |-> g, item |-> n, pos |-> pos]
      /\ g = [e EXCEPT ![c].child = n]
  OBVIOUS
<1> HIDE DEF r
<1>4. Plain(Fresh) /\ Fresh.next = 0 /\ Fresh.child = 0
  BY FreshIs
<1>5. IsNew(b, e, n, Fresh)
  BY <1>2, HeapParts DEF IsNew, NewItem
<1> HIDE DEF e
<1>6. /\ WellFormed(e, H \cup {n}) /\ Builds(b, e) /\ Deleted(e, n) = {n} /\ Unshown(e, n)
      /\ Live(e) = Live(b) \cup {n} /\ n \in Cells \ Live(b) /\ e[n] = Fresh
  <2>1. Added(b, H, e, n, Fresh)
    BY <1>2, <1>4, <1>5, NewKeeps
  <2>2. QED
    BY <2>1 DEF Added
<1>7. /\ c \in Live(b) /\ c \in Cells /\ c # 0 /\ c # n /\ n \in Live(e) /\ e \in Heaps
      /\ e[c] = b[c] /\ c \in Live(e) /\ c \in Owners(e) /\ Unshown(e, c) /\ n # 0
  <2>1. c \in Live(b) /\ c \in Cells /\ c # 0
    BY <1>2, OwnerIs
  <2>2. e[c] = b[c] /\ c \in Owners(e) /\ Unshown(e, c)
    BY <1>2, <1>6, <2>1, BuildsFacts
  <2>3. n # 0
    BY <1>6, ZeroIsNoCell
  <2>4. QED
    BY <1>6, <2>1, <2>2, <2>3, WellFormedIs
<1>8. FirstAdded(e, g, c, n)
  BY <1>3, <1>7, AddFirst
<1>9. Touches(e, g, {c, 0, n})
  <2> DEFINE last == 0
  <2>1. g = Link(e, c, last, n)
    BY <1>3 DEF Link
  <2>2. last \in Live(e) \cup {0} /\ n # last
    BY <1>7
  <2> HIDE DEF last
  <2>3. Touches(e, g, {c, last, n})
    BY <1>7, <2>1, <2>2, LinkFacts
  <2>4. QED
    BY <2>3 DEF last
<1>10. WellFormed(g, H) /\ n \notin H /\ g \in Heaps
  <2> DEFINE G == H \cup {n}
  <2>1. WellFormed(e, G) /\ n \in G /\ e[c].child = 0 /\ c \notin Deleted(e, n)
    BY <1>2, <1>6, <1>7
  <2>2. \A x \in Live(e) \ Owners(e) : e[x].of # c
    BY <1>7 DEF Unshown
  <2>3. n \notin H
    BY <1>2, <1>6, Links
  <2>4. G \ {n} = H
    BY <2>3
  <2> HIDE DEF G
  <2>5. WellFormed(g, G \ {n})
    BY <1>7, <1>8, <2>1, <2>2, LinkFirstKeeps
  <2>6. QED
    BY <2>3, <2>4, <2>5, WellFormedIs
<1>11. /\ g[n].next = 0 /\ g[n].child = 0 /\ n \in Live(g) /\ n \in Owners(g)
       /\ g[c].next = e[c].next /\ c \in Owners(g)
  <2>1. g[n].next = e[n].next /\ g[n].child = e[n].child /\ g[c].next = e[c].next
    BY <1>7, <1>8 DEF FirstAdded
  <2>2. n \in Owners(e)
    BY <1>4, <1>6, <1>7 DEF Owners, Plain
  <2>3. QED
    BY <1>4, <1>6, <1>7, <1>8, <2>1, <2>2 DEF FirstAdded, Owners
<1>12. Unshown(g, n)
  BY <1>6, <1>9, TouchUnshown
<1>13. Fills(h, g, c)
  <2>1. Spares(h, b, c) /\ Spares(b, e, 0) /\ c \in Owners(h)
        /\ b[c].next = h[c].next /\ 0 \notin Live(h)
    BY <1>1, <1>6, ZeroIsNoCell DEF Fills, Builds
  <2>2. Spares(h, e, c)
    BY <2>1, SparesOn
  <2>3. \A x \in {c, 0, n} : x = c \/ x = 0 \/ x \in Live(e) \ Live(h)
    BY <1>2, <1>6
  <2>4. Spares(h, g, c)
    BY <1>9, <2>2, <2>3, SparesTouch
  <2>5. QED
    BY <1>7, <1>11, <2>1, <2>4 DEF Fills
<1>14. r \in Places
  BY <1>3, <1>6, <1>10 DEF Places
<1>15. InList(h, H, c, r)
  BY <1>2, <1>3, <1>6, <1>10, <1>11, <1>13, <1>14 DEF InList
<1>16. Blank(r.heap, H, r.item)
  BY <1>3, <1>10, <1>11, <1>12 DEF Blank
<1>17. QED
  BY <1>3, <1>15, <1>16 DEF Begun

LEMMA ParseListKeeps ==
  ASSUME NEW m \in Places, NEW H, Blank(m.heap, H, m.item), NEW s, Parsable(s),
         NEW kind \in {"array", "object"}, NEW parse, Parses(parse),
         NEW r, r = ParseList(m, s, kind, parse)
  PROVE  Filled(m.heap, H, m.item, r)
<1> DEFINE h == m.heap
           c == m.item
           p == Skip(s, m.pos + 1)
           typed == [h EXCEPT ![c].kind = kind]
           n == Malloc(h)
           g == [NewItem(typed, n) EXCEPT ![c].child = n]
           first == [heap |-> g, item |-> n, pos |-> p]
           last == ParseMembers(first, s, kind, parse)
           pos == IF At(s, last.pos) = Close(kind) THEN last.pos + 1 ELSE 0
           closed == [heap |-> typed, item |-> c, pos |-> p + 1]
           short == [heap |-> typed, item |-> c, pos |-> 0]
           done == [heap |-> last.heap, item |-> c, pos |-> pos]
<1>1. r = IF At(s, p) = Close(kind) THEN closed ELSE IF n = 0 THEN short ELSE done
  BY Zenon DEF ParseList, Closed
<1>2. Blank(h, H, c) /\ m.pos + 1 \in Nat /\ Len(s) \in Nat
  BY DEF Places, Parsable
<1>3. p \in Nat
  <2> DEFINE i == m.pos + 1
  <2>1. i \in Nat
    BY <1>2
  <2> HIDE DEF i
  <2>2. Skip(s, i) \in Nat
    BY <1>2, <2>1, SkipIs
  <2>3. QED
    BY <2>2 DEF i
<1>4. kind \in Kinds
  BY DEF Kinds
<1> HIDE DEF h, c, p, last, pos
<1>5. Retold(h, typed, c)
  BY <1>2, <1>4, TellKind
<1> HIDE DEF typed
<1>6. Fills(h, typed, c) /\ WellFormed(typed, H)
  BY <1>2, <1>5, RetoldFacts DEF Blank
<1>7. Filled(h, H, c, closed) /\ Filled(h, H, c, short)
  BY <1>3, <1>6 DEF Filled
<1>8. CASE n # 0
  <2>1. Unused(typed) = Unused(h)
    <3>1. c \in Live(h) /\ c \in Live(typed) /\ \A x \in Cells \ {c} : typed[x] = h[x]
      BY <1>2, <1>5, OwnerIs DEF Blank, Retold, SameLinks
    <3>2. QED
      BY <3>1 DEF Unused, Live
  <2>2. n \in Unused(typed)
    BY <1>8, <2>1, MallocFacts
  <2> HIDE DEF n
  <2>3. Begun(h, H, c, first)
    BY <1>2, <1>3, <1>5, <2>2, FirstBegins
  <2> HIDE DEF first
  <2>4. InList(h, H, c, last)
    BY <2>3, ParseMembersKeeps DEF last
  <2>5. WellFormed(last.heap, H) /\ Fills(h, last.heap, c) /\ last.pos \in Nat
    BY <2>4 DEF InList, Places
  <2>6. pos \in Nat
    BY <2>5 DEF pos
  <2>7. Filled(h, H, c, done)
    BY <2>5, <2>6 DEF Filled
  <2>8. QED
    BY <1>1, <1>7, <1>8, <2>7 DEF h, c, n
<1>9. QED
  BY <1>1, <1>7, <1>8 DEF h, c

LEMMA ParseValueKeeps ==
  ASSUME NEW m \in Places, NEW H, Blank(m.heap, H, m.item), NEW s, Parsable(s),
         NEW parse, Parses(parse), NEW r, r = ParseValue(m, s, parse)
  PROVE  Filled(m.heap, H, m.item, r)
<1> DEFINE ch == At(s, m.pos)
           h == m.heap
           c == m.item
           g == [h EXCEPT ![c].kind = ch]
           word == [heap |-> g, item |-> c, pos |-> m.pos + 1]
<1>1. \/ ch \in Words /\ r = word
      \/ r = ParseString(m, s)
      \/ r = ParseList(m, s, "array", parse)
      \/ r = ParseList(m, s, "object", parse)
      \/ r = Fail(m)
  <2> HIDE DEF word, ch
  <2>1. r = CASE ch \in Words -> word
              [] ch = "\"" -> ParseString(m, s)
              [] ch = "[" -> ParseList(m, s, "array", parse)
              [] ch = "{" -> ParseList(m, s, "object", parse)
              [] OTHER -> Fail(m)
    BY Zenon DEF ParseValue, word, ch, g, h, c
  <2>2. QED
    BY <2>1
<1> HIDE DEF ch
<1>2. CASE ch \in Words /\ r = word
  <2>1. ch \in Kinds /\ Blank(h, H, c) /\ m.pos + 1 \in Nat
    BY <1>2 DEF Kinds, Places
  <2> HIDE DEF h, c
  <2>2. Retold(h, g, c)
    BY <2>1, TellKind
  <2> HIDE DEF g
  <2>3. Fills(h, g, c) /\ WellFormed(g, H)
    BY <2>1, <2>2, RetoldFacts DEF Blank
  <2>4. r.heap = g /\ r.pos = m.pos + 1
    BY <1>2
  <2>5. Filled(h, H, c, r)
    BY <2>1, <2>3, <2>4 DEF Filled
  <2>6. QED
    BY <2>5 DEF h, c
<1> HIDE DEF word
<1>3. CASE r = ParseString(m, s)
  BY <1>3, ParseStringReads, ReadFilled
<1>4. CASE r = ParseList(m, s, "array", parse)
  <2> DEFINE kind == "array"
  <2>1. kind \in {"array", "object"} /\ r = ParseList(m, s, kind, parse)
    BY <1>4
  <2> HIDE DEF kind
  <2>2. QED
    BY <2>1, ParseListKeeps
<1>5. CASE r = ParseList(m, s, "object", parse)
  <2> DEFINE kind == "object"
  <2>1. kind \in {"array", "object"} /\ r = ParseList(m, s, kind, parse)
    BY <1>5
  <2> HIDE DEF kind
  <2>2. QED
    BY <2>1, ParseListKeeps
<1>6. CASE r = Fail(m)
  BY <1>6, FailReads, ReadFilled
<1>7. QED
  BY <1>1, <1>2, <1>3, <1>4, <1>5, <1>6

(* The parsers of values within each other.                                  *)
Parser(parse, s) ==
  \A k \in 0..NumItems, m \in Places :
    parse[k][m] = IF k = 0 THEN Fail(m) ELSE ParseValue(m, s, parse[k - 1])

ParseRun(parse, h, s, to_end) ==
  LET c == Malloc(h)
      v == parse[NumItems][[heap |-> NewItem(h, c), item |-> c, pos |-> Skip(s, 1)]]
  IN  Parse(h, s, to_end) =
        IF c = 0 THEN [heap |-> h, item |-> 0]
        ELSE IF v.pos = 0 \/ (to_end /\ At(s, Skip(s, v.pos)) # "NUL")
        THEN [heap |-> Drop(v.heap, c), item |-> 0]
        ELSE [heap |-> v.heap, item |-> c]

LEMMA ParseRuns ==
  \A h, s, to_end : \E parse : Parser(parse, s) /\ ParseRun(parse, h, s, to_end)
<1> SUFFICES ASSUME NEW h, NEW s, NEW to_end
             PROVE  \E parse : Parser(parse, s) /\ ParseRun(parse, h, s, to_end)
  OBVIOUS
<1> DEFINE Level(k, f) == [m \in Places |-> IF k = 0 THEN Fail(m) ELSE ParseValue(m, s, f[k - 1])]
           Levels(f, n) == [k \in 0..n |-> Level(k, f)]
           T == {n \in 0..NumItems : \E f : f = Levels(f, n)}
           parse == CHOOSE f : f = Levels(f, NumItems)
<1>1. 0 \in T
  <2> DEFINE f == [k \in 0..0 |-> [m \in Places |-> Fail(m)]]
  <2>1. f = Levels(f, 0)
    OBVIOUS
  <2>2. 0 \in 0..NumItems
    BY SomeItems
  <2> HIDE DEF f, Levels
  <2>3. QED
    BY <2>1, <2>2
<1>2. ASSUME NEW n \in 1..NumItems, n - 1 \in T PROVE n \in T
  <2>1. PICK f : f = Levels(f, n - 1)
    BY <1>2
  <2> DEFINE g == Levels(f, n)
  <2>2. \A k \in 1..n : k - 1 \in 0..(n - 1)
    BY <1>2
  <2>3. ASSUME NEW k \in 0..n PROVE Level(k, f) = Level(k, g)
    <3>1. CASE k = 0
      BY <3>1
    <3>2. CASE k # 0
      <4>1. k \in 1..n /\ k - 1 \in 0..(n - 1) /\ k - 1 \in 0..n
        BY <2>2, <3>2
      <4> HIDE DEF Level
      <4>2. g[k - 1] = f[k - 1]
        BY <2>1, <4>1
      <4> HIDE DEF g
      <4>3. QED
        BY <4>2 DEF Level
    <3>3. QED
      BY <3>1, <3>2
  <2>4. g = Levels(g, n)
    <3> HIDE DEF Level
    <3>1. g = [k \in 0..n |-> Level(k, f)]
      OBVIOUS
    <3> HIDE DEF g
    <3>2. QED
      BY <2>3, <3>1
  <2> HIDE DEF Levels, g
  <2>5. n \in 0..NumItems
    BY <1>2, SomeItems
  <2>6. QED
    BY <2>4, <2>5
<1>3. NumItems \in T
  <2> HIDE DEF T
  <2>1. 0..NumItems \subseteq T
    BY <1>1, <1>2, Induct, SomeItems
  <2>2. QED
    BY <2>1, SomeItems
<1>4. parse = Levels(parse, NumItems)
  <2> HIDE DEF Levels
  <2>1. QED
    BY <1>3, Zenon
<1>5. ParseRun(parse, h, s, to_end)
  BY Zenon DEF Parse, Parsed, ParseRun
<1> HIDE DEF parse
<1>6. ASSUME NEW k \in 0..NumItems, NEW m \in Places
      PROVE  parse[k][m] = IF k = 0 THEN Fail(m) ELSE ParseValue(m, s, parse[k - 1])
  <2>1. parse[k] = Level(k, parse)
    <3> HIDE DEF Level
    <3>1. QED
      BY <1>4
  <2>2. Level(k, parse)[m] = IF k = 0 THEN Fail(m) ELSE ParseValue(m, s, parse[k - 1])
    BY Zenon
  <2>3. QED
    BY <2>1, <2>2, Zenon
<1>7. Parser(parse, s)
  BY <1>6 DEF Parser
<1>8. QED
  BY <1>5, <1>7

LEMMA ParserParses ==
  ASSUME NEW s, Parsable(s), NEW parse, Parser(parse, s)
  PROVE  Parses(parse[NumItems])
<1> DEFINE T == {k \in 0..NumItems : Parses(parse[k])}
<1>0. NumItems \in Nat
  BY SomeItems
<1>1. ASSUME NEW k \in 0..NumItems, k # 0 => Parses(parse[k - 1]),
             NEW m \in Places, NEW H, Blank(m.heap, H, m.item)
      PROVE  Filled(m.heap, H, m.item, parse[k][m])
  <2> DEFINE r == parse[k][m]
  <2>1. r = IF k = 0 THEN Fail(m) ELSE ParseValue(m, s, parse[k - 1])
    BY DEF Parser
  <2> HIDE DEF r
  <2>2. CASE k = 0
    <3>1. Reads(m, r)
      BY <1>1, <2>1, <2>2, FailReads
    <3>2. Filled(m.heap, H, m.item, r)
      BY <1>1, <3>1, ReadFilled
    <3>3. QED
      BY <3>2 DEF r
  <2>3. CASE k # 0
    <3>1. r = ParseValue(m, s, parse[k - 1]) /\ Parses(parse[k - 1])
      BY <1>1, <2>1, <2>3
    <3>2. Filled(m.heap, H, m.item, r)
      BY <1>1, <3>1, ParseValueKeeps, Zenon
    <3>3. QED
      BY <3>2 DEF r
  <2>4. QED
    BY <2>2, <2>3
<1>2. 0 \in T
  <2>1. 0 \in 0..NumItems
    BY <1>0
  <2>2. Parses(parse[0])
    BY <1>1, <2>1 DEF Parses
  <2>3. QED
    BY <2>1, <2>2
<1>3. ASSUME NEW k \in 1..NumItems, k - 1 \in T PROVE k \in T
  <2>1. k \in 0..NumItems /\ Parses(parse[k - 1])
    BY <1>0, <1>3
  <2>2. Parses(parse[k])
    BY <1>1, <2>1 DEF Parses
  <2>3. QED
    BY <2>1, <2>2
<1>4. NumItems \in T
  <2> HIDE DEF T
  <2>1. 0..NumItems \subseteq T
    BY <1>0, <1>2, <1>3, Induct
  <2>2. QED
    BY <1>0, <2>1
<1>5. QED
  BY <1>4

(* cJSON_Parse gives an item of new memory, or nothing, with everything that  *)
(* it had made deleted again.                                                *)
LEMMA ParseKeeps ==
  ASSUME NEW h, NEW H, WellFormed(h, H), NEW s, Parsable(s), NEW to_end \in BOOLEAN,
         NEW d, d = Parse(h, s, to_end)
  PROVE  Copied(h, H, d)
<1>1. PICK parse : Parser(parse, s) /\ ParseRun(parse, h, s, to_end)
  BY ParseRuns
<1> DEFINE c == Malloc(h)
           g == NewItem(h, c)
           m == [heap |-> g, item |-> c, pos |-> Skip(s, 1)]
           v == parse[NumItems][m]
           k == v.heap
           none == [heap |-> h, item |-> 0]
           dropped == [heap |-> Drop(k, c), item |-> 0]
           parsed == [heap |-> k, item |-> c]
<1>2. (d = none /\ c = 0) \/ (c # 0 /\ (d = dropped \/ d = parsed))
  <2>1. d = IF c = 0 THEN none
            ELSE IF v.pos = 0 \/ (to_end /\ At(s, Skip(s, v.pos)) # "NUL")
            THEN dropped ELSE parsed
    BY <1>1, Zenon DEF ParseRun
  <2> HIDE DEF none, dropped, parsed, c, v
  <2>2. QED
    BY <2>1
<1>3. CASE d = none /\ c = 0
  <2>1. d.item = 0 /\ d.heap = h
    BY <1>3
  <2>2. QED
    BY <2>1 DEF Copied
<1>4. CASE c # 0 /\ (d = dropped \/ d = parsed)
  <2>1. /\ none.item = 0 /\ dropped.item = 0 /\ dropped.heap = Delete(k, c)
        /\ parsed.item = c /\ parsed.heap = k
    BY DEF Drop
  <2> HIDE DEF dropped, parsed, none
  <2>2. m.heap = g /\ m.item = c /\ m.pos = Skip(s, 1) /\ m = [heap |-> g, item |-> c, pos |-> Skip(s, 1)]
    OBVIOUS
  <2> HIDE DEF m
  <2>3. c \in Unused(h) /\ h \in Heaps
    BY <1>4, MallocFacts, WellFormedIs
  <2> HIDE DEF c
  <2>4. Plain(Fresh) /\ Fresh.next = 0 /\ Fresh.child = 0
    BY FreshIs
  <2>5. IsNew(h, g, c, Fresh)
    BY <2>3, HeapParts DEF IsNew, NewItem
  <2> HIDE DEF g
  <2>6. /\ WellFormed(g, H \cup {c}) /\ Builds(h, g) /\ Unshown(g, c)
        /\ Live(g) = Live(h) \cup {c} /\ c \in Cells \ Live(h) /\ g[c] = Fresh
    <3>1. Added(h, H, g, c, Fresh)
      BY <2>3, <2>4, <2>5, NewKeeps
    <3>2. QED
      BY <3>1 DEF Added
  <2>7. c \in Owners(g)
    BY <2>4, <2>6 DEF Owners, Plain
  <2>8. m \in Places /\ Blank(m.heap, H \cup {c}, m.item)
    <3>1. Len(s) \in Nat
      BY DEF Parsable
    <3>2. Skip(s, 1) \in Nat
      BY <3>1, SkipIs
    <3>3. Blank(g, H \cup {c}, c)
      BY <2>4, <2>6, <2>7 DEF Blank
    <3>4. g \in Heaps
      BY <2>6, WellFormedIs
    <3>5. QED
      BY <2>2, <2>6, <3>2, <3>3, <3>4 DEF Places
  <2>9. Filled(g, H \cup {c}, c, v)
    <3>1. Parses(parse[NumItems])
      BY <1>1, ParserParses
    <3>2. QED
      BY <2>2, <2>8, <3>1 DEF Parses
  <2>10. WellFormed(k, H \cup {c}) /\ Fills(g, k, c)
    BY <2>9 DEF Filled
  <2> HIDE DEF k, v
  <2>11. Builds(h, k)
    <3>1. Spares(h, g, 0) /\ Spares(g, k, c) /\ c \notin Live(h) /\ c \in Live(g) \cap Owners(k)
      BY <2>6, <2>7, <2>10, OwnerIs DEF Fills, Builds
    <3>2. Spares(h, k, 0)
      BY <3>1, SparesOn
    <3>3. QED
      BY <3>2 DEF Builds
  <2>12. Delete(k, c) = h
    BY <2>6, <2>10, <2>11, BuiltAlone
  <2>13. CASE d = dropped
    BY <2>1, <2>12, <2>13 DEF Copied
  <2>14. CASE d = parsed
    BY <1>4, <2>1, <2>3, <2>10, <2>11, <2>14 DEF Copied
  <2>15. QED
    BY <1>4, <2>13, <2>14
<1>5. QED
  BY <1>2, <1>3, <1>4

-------------------------------------------------------------------------------
(* The calls of a program, as calls of CJsonLists.tla.                       *)
LEMMA BuiltIsStep ==
  ASSUME IInv, NEW c \in Unused(heap), WellFormed(heap', held \cup {c}), Builds(heap, heap'),
         held' = held \cup {c}
  PROVE  Graft(c)
<1> DEFINE g == heap'
           new == Live(g) \ Live(heap)
           k == [x \in Cells |-> IF x \in new THEN g[x] ELSE Free]
<1>1. /\ WellFormed(heap, held) /\ WellFormed(g, held \cup {c}) /\ g \in Heaps
      /\ c \notin Live(heap) /\ Builds(heap, g)
  BY WellFormedIs, UnusedIs DEF IInv
<1>2. \A x \in Cells : IF x \in new THEN ~g[x].ref ELSE g[x] = heap[x]
  BY <1>1, SomeItems DEF Builds, Spares, Cells
<1>3. WellFormed(k, {c})
  <2> HIDE DEF g
  <2>1. k = [x \in Cells |-> IF x \in Live(g) \ Live(heap) THEN g[x] ELSE Free]
    OBVIOUS
  <2> HIDE DEF k
  <2>2. QED
    BY <1>1, <2>1, BuiltIsGraft
<1>4. QED
  BY <1>1, <1>2, <1>3, Zenon DEF Graft

LEMMA CopiedIsStep ==
  ASSUME IInv, NEW d, Copied(heap, held, d), heap' = d.heap,
         held' = held \cup ({d.item} \ {0}), jsonVars' # jsonVars
  PROVE  ListNext
<1> DEFINE c == d.item
<1>1. CASE c = 0
  <2>1. heap' = heap /\ held' = held
    BY <1>1 DEF Copied
  <2>2. QED
    BY <2>1 DEF jsonVars
<1>2. CASE c # 0
  <2>1. /\ c \in Unused(heap) /\ WellFormed(heap', held \cup {c}) /\ Builds(heap, heap')
        /\ held' = held \cup {c}
    BY <1>2 DEF Copied
  <2> HIDE DEF c
  <2>2. Graft(c) /\ c \in Cells
    BY <2>1, BuiltIsStep, UnusedIs
  <2>3. QED
    BY <2>2, Zenon DEF ListNext
<1>3. QED
  BY <1>1, <1>2

(* A created item.                                                           *)
LEMMA CreateIsStep ==
  ASSUME IInv, NEW kind \in Kinds, NEW v \in Texts, Create(kind, v), jsonVars' # jsonVars
  PROVE  ListNext
<1> DEFINE c == Malloc(heap)
           s == [Fresh EXCEPT !.kind = kind, !.value = v]
           g == heap'
<1>1. /\ c # 0 /\ held' = held \cup {c}
      /\ g = [NewItem(heap, c) EXCEPT ![c].kind = kind, ![c].value = v]
  BY Zenon DEF Create
<1>2. WellFormed(heap, held) /\ heap \in Heaps
  BY WellFormedIs DEF IInv
<1>3. Plain(s)
  <2>1. /\ Fresh \in Struct /\ Fresh.ref = FALSE
        /\ Fresh.next = 0 /\ Fresh.prev = 0 /\ Fresh.child = 0
    BY FreshIs
  <2>2. QED
    BY <2>1 DEF Plain, Struct
<1>4. c \in Unused(heap)
  BY <1>1, MallocFacts
<1>5. IsNew(heap, g, c, s)
  <2> HIDE DEF c
  <2>1. c \in Cells /\ heap = [x \in Cells |-> heap[x]]
    BY <1>2, <1>4, UnusedIs, HeapParts
  <2>2. QED
    BY <1>1, <2>1 DEF IsNew, NewItem
<1> HIDE DEF c, s, g
<1>6. WellFormed(g, held \cup {c}) /\ Builds(heap, g)
  <2>1. Added(heap, held, g, c, s)
    BY <1>2, <1>3, <1>4, <1>5, NewKeeps
  <2>2. QED
    BY <2>1 DEF Added
<1>7. Graft(c) /\ c \in Cells
  BY <1>1, <1>4, <1>6, BuiltIsStep, UnusedIs DEF g
<1>8. QED
  BY <1>7, Zenon DEF ListNext

LEMMA CreateListIsStep ==
  ASSUME IInv, NEW count \in Nat, NEW v \in Texts, CreateListOf(count, v), jsonVars' # jsonVars
  PROVE  ListNext
<1> DEFINE a == Malloc(heap)
           kind == "array"
           s == [Fresh EXCEPT !.kind = kind]
           b == [NewItem(heap, a) EXCEPT ![a].kind = kind]
           g == heap'
           room == Cardinality(Unused(heap))
           made == IF room > count THEN count ELSE 0
<1>1. /\ room > 0 /\ held' = held \cup {a} /\ g = FillArray(b, a, made, v)
      /\ made \in Nat /\ room > made
  <2>1. /\ room > 0 /\ held' = held \cup {a} /\ g = FillArray(b, a, made, v)
    BY Zenon DEF CreateListOf
  <2> HIDE DEF room
  <2>2. made \in Nat /\ room > made
    BY <2>1
  <2>3. QED
    BY <2>1, <2>2
<1> HIDE DEF made
<1>2. WellFormed(heap, held) /\ heap \in Heaps
  BY WellFormedIs DEF IInv
<1>3. kind \in Kinds
  BY DEF Kinds
<1> HIDE DEF kind
<1>4. Plain(s)
  <2>1. /\ Fresh \in Struct /\ Fresh.ref = FALSE
        /\ Fresh.next = 0 /\ Fresh.prev = 0 /\ Fresh.child = 0
    BY FreshIs
  <2>2. QED
    BY <1>3, <2>1 DEF Plain, Struct
<1>5. a \in Unused(heap)
  BY <1>1, UnusedCount, MallocWorks
<1>6. IsNew(heap, b, a, s)
  <2> HIDE DEF a
  <2>1. a \in Cells /\ heap = [x \in Cells |-> heap[x]]
    BY <1>2, <1>5, UnusedIs, HeapParts
  <2>2. QED
    BY <2>1 DEF IsNew, NewItem
<1> HIDE DEF a, s, b, g
<1>7. WellFormed(g, held \cup {a}) /\ Builds(heap, g)
  BY <1>1, <1>2, <1>4, <1>5, <1>6, FillKeeps
<1>8. Graft(a) /\ a \in Cells
  BY <1>1, <1>5, <1>7, BuiltIsStep, UnusedIs DEF g
<1>9. QED
  BY <1>8, Zenon DEF ListNext

LEMMA DuplicateIsStep ==
  ASSUME IInv, NEW i \in Live(heap), NEW recurse \in BOOLEAN, DuplicateItem(i, recurse),
         jsonVars' # jsonVars
  PROVE  ListNext
<1> DEFINE d == Duplicate(heap, i, recurse)
<1>1. heap' = d.heap /\ held' = held \cup ({d.item} \ {0})
  BY Zenon DEF DuplicateItem, Gives
<1>2. Copied(heap, held, d)
  BY DuplicateKeeps DEF IInv
<1> HIDE DEF d
<1>3. QED
  BY <1>1, <1>2, CopiedIsStep

LEMMA ParseIsStep ==
  ASSUME IInv, NEW c \in held, ParseText(c), jsonVars' # jsonVars
  PROVE  ListNext
<1> DEFINE text == Render(heap, c, 0, TRUE).text
           full == Append(text, "n")
           room == IF Len(full) < MaxText THEN Len(full) ELSE MaxText
<1>1. PICK n \in 0..room, to_end \in BOOLEAN :
        /\ n > 0 => full[n] # "\\"
        /\ heap' = Parse(heap, SubSeq(full, 1, n), to_end).heap
        /\ held' = held \cup ({Parse(heap, SubSeq(full, 1, n), to_end).item} \ {0})
  BY Zenon DEF ParseText, Gives
<1>2. c \in Live(heap) /\ WellFormed(heap, held)
  BY Links DEF IInv
<1>3. full \in Seq(Chars)
  <2> DEFINE p == Render(heap, c, 0, TRUE)
  <2>1. Fits(p)
    BY <1>2, RenderFits
  <2> HIDE DEF p
  <2>2. p.text \in Seq(Chars)
    BY <2>1 DEF Fits
  <2>3. "n" \in Chars
    BY CharsAre
  <2>4. text \in Seq(Chars)
    BY <2>2 DEF p
  <2> HIDE DEF text
  <2>5. QED
    BY <2>3, <2>4
<1> HIDE DEF full
<1>4. n \in Nat /\ n <= Len(full)
  BY <1>1, <1>3, CJsonAssumption
<1> DEFINE s == SubSeq(full, 1, n)
           d == Parse(heap, s, to_end)
<1>5. s \in Seq(Chars) /\ Len(s) = n /\ (n > 0 => s[n] = full[n])
  BY <1>3, <1>4
<1>6. heap' = d.heap /\ held' = held \cup ({d.item} \ {0})
  BY <1>1
<1> HIDE DEF s
<1>7. Parsable(s)
  BY <1>1, <1>4, <1>5 DEF Parsable
<1>8. Copied(heap, held, d)
  BY <1>2, <1>7, ParseKeeps
<1> HIDE DEF d
<1>9. QED
  BY <1>6, <1>8, CopiedIsStep

(* Which member an index or a name finds: one of the list.                   *)
LEMMA ByIndexIsStep ==
  ASSUME IInv, NEW a \in Arrays \cup Objects, CallByIndex(a), jsonVars' # jsonVars
  PROVE  ListNext
<1> DEFINE s == Chain(heap, a)
<1>1. a \in Live(heap) /\ WellFormed(heap, held)
  BY DEF Arrays, Objects, IInv
<1>2. \A k \in 1..Len(s) : s[k] \in Members(heap, a)
  BY <1>1, ChainFacts, Zenon
<1>3. PICK k \in 1..Len(s) : \/ DetachItem(a, s[k])
                             \/ DeleteItemFrom(a, s[k])
                             \/ \E n \in held : ReplaceItemInArray(a, s[k], n)
  BY Zenon DEF CallByIndex
<1> DEFINE c == s[k]
<1>4. c \in Members(heap, a)
  BY <1>2
<1>5. CallOn(a, c)
  BY <1>3, Zenon DEF CallOn
<1> HIDE DEF c
<1>6. QED
  BY <1>4, <1>5, Zenon DEF ListNext

LEMMA ByNameIsStep ==
  ASSUME IInv, NEW o \in Objects, CallByName(o), jsonVars' # jsonVars
  PROVE  ListNext
<1>1. o \in Live(heap) /\ WellFormed(heap, held)
  BY DEF Objects, IInv
<1>2. PICK name \in Names :
        /\ ObjectItem(heap, o, name) # 0
        /\ \/ DetachItem(o, ObjectItem(heap, o, name))
           \/ DeleteItemFrom(o, ObjectItem(heap, o, name))
           \/ \E n \in held : ReplaceItemInObject(o, ObjectItem(heap, o, name), name, n)
  BY Zenon DEF CallByName
<1> DEFINE c == ObjectItem(heap, o, name)
           items == Chain(heap, o)
           found == {k \in 1..Len(items) : SameName(heap[items[k]].string, name)}
           k == CHOOSE k \in found : \A j \in found : k <= j
<1>3. Len(items) \in Nat /\ \A j \in 1..Len(items) : items[j] \in Members(heap, o)
  BY <1>1, ChainFacts, Zenon
<1>4. c = IF found = {} THEN 0 ELSE items[k]
  BY Zenon DEF ObjectItem
<1>5. c # 0 /\ CallOn(o, c)
  BY <1>2, Zenon DEF CallOn
<1>6. found \subseteq 1..Len(items) /\ found \subseteq Nat
  OBVIOUS
<1> HIDE DEF c, items, found
<1>7. k \in found
  <2>1. found # {}
    BY <1>4, <1>5
  <2>2. \E x \in found : \A y \in found : x <= y
    BY <1>6, <2>1, LeastNumber
  <2>3. QED
    BY <2>2
<1> HIDE DEF k
<1>8. c \in Members(heap, o)
  BY <1>3, <1>4, <1>5, <1>6, <1>7
<1>9. QED
  BY <1>5, <1>8, Zenon DEF ListNext

LEMMA CallIsListStep ==
  ASSUME IInv, Next
  PROVE  ListNext
<1>1. jsonVars' # jsonVars
  BY Zenon DEF Next
<1>2. CASE CreateItem
  <2>1. PICK p \in Running : \/ \E kind \in p.kinds : Create(kind, <<>>)
                             \/ \E v \in p.values : Create("string", v)
    BY <1>2, Zenon DEF CreateItem
  <2>2. p \in Programs
    BY DEF Running
  <2>3. p.kinds \subseteq Kinds /\ p.values \subseteq Texts
    <3>1. p.kinds \subseteq {"null", "array", "object"} /\ p.values \subseteq Texts
      BY <2>2, CJsonAssumption
    <3>2. QED
      BY <3>1 DEF Kinds, Words
  <2>4. ASSUME NEW kind \in p.kinds, Create(kind, <<>>) PROVE ListNext
    <3> DEFINE v == <<>>
    <3>1. v \in Texts
      BY DEF Texts
    <3>2. Create(kind, v) /\ kind \in Kinds
      BY <2>3, <2>4
    <3> HIDE DEF v
    <3>3. QED
      BY <1>1, <3>1, <3>2, CreateIsStep
  <2>5. ASSUME NEW v \in p.values, Create("string", v) PROVE ListNext
    <3> DEFINE kind == "string"
    <3>1. kind \in Kinds
      BY DEF Kinds
    <3>2. Create(kind, v) /\ v \in Texts
      BY <2>3, <2>5
    <3> HIDE DEF kind
    <3>3. QED
      BY <1>1, <3>1, <3>2, CreateIsStep
  <2>6. QED
    BY <2>1, <2>4, <2>5
<1>3. CASE \E p \in Running, count \in 1..2 : \E v \in p.values : CreateListOf(count, v)
  <2>1. PICK p \in Running, count \in 1..2 : \E v \in p.values : CreateListOf(count, v)
    BY <1>3, Zenon
  <2>2. PICK v \in p.values : CreateListOf(count, v)
    BY <2>1, Zenon
  <2>3. p \in Programs
    BY DEF Running
  <2>4. v \in Texts /\ count \in Nat
    BY <2>3, CJsonAssumption
  <2>5. QED
    BY <1>1, <2>2, <2>4, CreateListIsStep
<1>4. CASE \E a \in Arrays, c \in held : AddItemToArray(a, c)
  BY <1>1, <1>4, Zenon DEF ListNext
<1>5. CASE \E o \in Objects, n \in Names, c \in held : AddItemToObject(o, n, c)
  BY <1>1, <1>5, Zenon DEF ListNext
<1>6. CASE \E a \in Arrays \cup Objects, i \in Live(heap) : AddReference(a, i)
  BY <1>1, <1>6, Zenon DEF ListNext
<1>7. CASE \E a \in Arrays \cup Objects : CallByIndex(a)
  BY <1>1, <1>7, ByIndexIsStep
<1>8. CASE \E o \in Objects : CallByName(o)
  <2>1. \A o \in Objects : o \in Arrays \cup Objects
    OBVIOUS
  <2>2. QED
    BY <1>1, <1>8, <2>1, ByNameIsStep
<1>9. CASE \E c \in held : DeleteItem(c)
  BY <1>1, <1>9, Zenon DEF ListNext
<1>10. CASE \E i \in Live(heap), recurse \in BOOLEAN : DuplicateItem(i, recurse)
  BY <1>1, <1>10, DuplicateIsStep
<1>11. CASE \E c \in held : ParseText(c)
  BY <1>1, <1>11, ParseIsStep
<1>12. QED
  BY <1>2, <1>3, <1>4, <1>5, <1>6, <1>7, <1>8, <1>9, <1>10, <1>11, Zenon DEF Next

LEMMA InitIsListInit ==
  ASSUME Init
  PROVE  ListInit
BY DEF Init, ListInit

(* Whatever a program creates, parses and duplicates, whether memory is short *)
(* on the way or not, is one call on lists: what is new is in one item, apart *)
(* from all that was there, and if the call fails nothing of it is left.     *)
THEOREM CallsAreListCalls == Spec => ListSpec
<1>1. Init => ListInit
  BY InitIsListInit
<1>2. Init => IInv
  BY InitIsListInit, InitIInv
<1>3. IInv /\ [Next]_jsonVars => [ListNext]_jsonVars
  BY CallIsListStep
<1>4. IInv /\ [ListNext]_jsonVars => IInv'
  BY NextIInv
<1>5. QED
  BY <1>1, <1>2, <1>3, <1>4, PTL DEF Spec, ListSpec

(* So in every program all items stay linked and are owned once, every text  *)
(* fits into its buffer, and what a program sees is the forest.              *)
THEOREM ProgramsAreSafe ==
  Spec => [](LinksConsistent /\ OwnedOnce /\ TextFits) /\ ImplementsForest
<1>1. ListSpec => []TextFits
  BY TextsFit, PTL
<1>2. QED
  BY <1>1, CallsAreListCalls, LinksStayConsistent, ItemsOwnedOnce, ListsAreForest, PTL

-------------------------------------------------------------------------------
(* What an item says n levels deep, from what its members say one level less. *)
SaysAt(h, n, meaning, d) ==
  [kind |-> h[d].kind, value |-> h[d].value,
   members |-> [k \in 1..Len(Chain(h, d)) |->
     [name |-> IF h[d].kind = "object" THEN h[Chain(h, d)[k]].string ELSE NoName,
      says |-> IF n = 0 THEN <<>> ELSE meaning[n - 1][Chain(h, d)[k]]]]]

MeaningRun(meaning, h) ==
  \A n \in 0..NumItems, d \in Live(h) : meaning[n][d] = SaysAt(h, n, meaning, d)

LEMMA MeaningRuns ==
  \A h : \E meaning : /\ MeaningRun(meaning, h)
                      /\ \A c : Meaning(h, c) = meaning[NumItems][c]
<1> SUFFICES ASSUME NEW h
             PROVE  \E meaning : /\ MeaningRun(meaning, h)
                                 /\ \A c : Meaning(h, c) = meaning[NumItems][c]
  OBVIOUS
<1> DEFINE Level(n, f) == [d \in Live(h) |-> SaysAt(h, n, f, d)]
           Levels(f, m) == [n \in 0..m |-> Level(n, f)]
           T == {m \in 0..NumItems : \E f : f = Levels(f, m)}
           meaning == CHOOSE f : f = Levels(f, NumItems)
<1>0. ASSUME NEW n, NEW f, NEW g, n = 0 \/ f[n - 1] = g[n - 1]
      PROVE  Level(n, f) = Level(n, g)
  BY <1>0 DEF SaysAt
<1>1. 0 \in T
  <2> DEFINE f == [n \in 0..0 |-> Level(0, <<>>)]
  <2>1. \A n \in 0..0 : n = 0
    OBVIOUS
  <2>2. \A n \in 0..0 : Level(n, f) = Level(0, <<>>)
    <3> HIDE DEF Level
    <3>1. Level(0, f) = Level(0, <<>>)
      BY <1>0
    <3>2. QED
      BY <2>1, <3>1
  <2>3. f = Levels(f, 0)
    <3> HIDE DEF Level
    <3>1. Levels(f, 0) = [n \in 0..0 |-> Level(0, <<>>)]
      BY <2>2
    <3>2. QED
      BY <3>1
  <2>4. 0 \in 0..NumItems
    BY SomeItems
  <2> HIDE DEF f, Levels
  <2>5. QED
    BY <2>3, <2>4
<1>2. ASSUME NEW m \in 1..NumItems, m - 1 \in T PROVE m \in T
  <2>1. PICK f : f = Levels(f, m - 1)
    BY <1>2
  <2> DEFINE g == Levels(f, m)
  <2>2. \A n \in 1..m : n - 1 \in 0..(m - 1) /\ n - 1 \in 0..m
    BY <1>2
  <2>3. ASSUME NEW n \in 0..m PROVE Level(n, f) = Level(n, g)
    <3>1. CASE n = 0
      <4> HIDE DEF Level
      <4>1. QED
        BY <1>0, <3>1
    <3>2. CASE n # 0
      <4>1. n \in 1..m
        BY <3>2
      <4> HIDE DEF Level
      <4>2. g[n - 1] = f[n - 1]
        BY <2>1, <2>2, <4>1
      <4> HIDE DEF g
      <4>3. QED
        BY <1>0, <4>2
    <3>3. QED
      BY <3>1, <3>2
  <2>4. g = Levels(g, m)
    <3> HIDE DEF Level
    <3>1. g = [n \in 0..m |-> Level(n, f)]
      OBVIOUS
    <3> HIDE DEF g
    <3>2. QED
      BY <2>3, <3>1
  <2> HIDE DEF Levels, g
  <2>5. m \in 0..NumItems
    BY <1>2, SomeItems
  <2>6. QED
    BY <2>4, <2>5
<1>3. NumItems \in T
  <2> HIDE DEF T
  <2>1. 0..NumItems \subseteq T
    BY <1>1, <1>2, Induct, SomeItems
  <2>2. QED
    BY <2>1, SomeItems
<1>4. meaning = Levels(meaning, NumItems)
  <2> HIDE DEF Levels
  <2>1. QED
    BY <1>3, Zenon
<1>5. \A c : Meaning(h, c) = meaning[NumItems][c]
  BY Zenon DEF Meaning, SaysAt
<1> HIDE DEF meaning
<1>6. MeaningRun(meaning, h)
  <2>1. ASSUME NEW n \in 0..NumItems, NEW d \in Live(h)
        PROVE  meaning[n][d] = SaysAt(h, n, meaning, d)
    <3>1. meaning[n] = Level(n, meaning)
      <4> HIDE DEF Level
      <4>1. QED
        BY <1>4
    <3>2. QED
      BY <3>1
  <2>2. QED
    BY <2>1 DEF MeaningRun
<1>7. QED
  BY <1>5, <1>6

(* x in the heap h says the same as y in g, however deep one looks.          *)
Same(h, x, g, y) ==
  \A a, b : MeaningRun(a, h) /\ MeaningRun(b, g) => \A n \in 0..NumItems : a[n][x] = b[n][y]

Twins(h, x, g, y) == Same(h, x, g, y) /\ g[y].string = h[x].string

LEMMA SameMeaning ==
  ASSUME NEW h, NEW x, NEW g, NEW y, Same(h, x, g, y)
  PROVE  Meaning(g, y) = Meaning(h, x)
<1>1. PICK a : MeaningRun(a, h) /\ Meaning(h, x) = a[NumItems][x]
  BY MeaningRuns
<1>2. PICK b : MeaningRun(b, g) /\ Meaning(g, y) = b[NumItems][y]
  BY MeaningRuns
<1>3. NumItems \in 0..NumItems
  BY SomeItems
<1>4. QED
  BY <1>1, <1>2, <1>3 DEF Same

LEMMA TwinsOn ==
  ASSUME NEW h, NEW x, NEW g, NEW y, NEW k, NEW z, Twins(h, x, g, y), Twins(g, y, k, z)
  PROVE  Twins(h, x, k, z)
<1>1. PICK b : MeaningRun(b, g)
  BY MeaningRuns
<1>2. Same(h, x, k, z)
  BY <1>1 DEF Twins, Same
<1>3. QED
  BY <1>2 DEF Twins

(* Items whose data and lists stay, with all that is in them.                *)
Stays(h, g, S) ==
  /\ S \subseteq Live(h) /\ S \subseteq Live(g)
  /\ \A x \in S : /\ SameData(h, g, x) /\ Chain(g, x) = Chain(h, x)
                  /\ \A k \in 1..Len(Chain(h, x)) : Chain(h, x)[k] \in S

LEMMA StaysSame ==
  ASSUME NEW h, NEW g, NEW S, Stays(h, g, S)
  PROVE  \A x \in S : Twins(h, x, g, x)
<1>1. SUFFICES ASSUME NEW a, NEW b, MeaningRun(a, h), MeaningRun(b, g)
               PROVE  \A x \in S, n \in 0..NumItems : a[n][x] = b[n][x]
  BY DEF Twins, Same, Stays, SameData
<1> DEFINE T == {n \in 0..NumItems : \A x \in S : a[n][x] = b[n][x]}
<1>2. ASSUME NEW n \in 0..NumItems, n = 0 \/ n - 1 \in T, NEW x \in S
      PROVE  a[n][x] = b[n][x]
  <2> DEFINE s == Chain(h, x)
             fs == [k \in 1..Len(s) |->
                      [name |-> IF h[x].kind = "object" THEN h[s[k]].string ELSE NoName,
                       says |-> IF n = 0 THEN <<>> ELSE a[n - 1][s[k]]]]
             gs == [k \in 1..Len(s) |->
                      [name |-> IF g[x].kind = "object" THEN g[s[k]].string ELSE NoName,
                       says |-> IF n = 0 THEN <<>> ELSE b[n - 1][s[k]]]]
  <2>1. /\ x \in Live(h) /\ x \in Live(g) /\ Chain(g, x) = s
        /\ g[x].kind = h[x].kind /\ g[x].value = h[x].value
    BY DEF Stays, SameData
  <2>2. a[n][x] = [kind |-> h[x].kind, value |-> h[x].value, members |-> fs]
    BY <1>1, <2>1, Zenon DEF MeaningRun, SaysAt
  <2>3. b[n][x] = [kind |-> g[x].kind, value |-> g[x].value, members |-> gs]
    <3>1. b[n][x] = SaysAt(g, n, b, x)
      BY <1>1, <2>1 DEF MeaningRun
    <3> HIDE DEF s
    <3>2. QED
      BY <2>1, <3>1 DEF SaysAt
  <2>4. ASSUME NEW k \in 1..Len(s)
        PROVE  g[s[k]].string = h[s[k]].string /\ (n = 0 \/ a[n - 1][s[k]] = b[n - 1][s[k]])
    <3>1. s[k] \in S
      BY DEF Stays
    <3> HIDE DEF s
    <3>2. QED
      BY <1>2, <3>1 DEF Stays, SameData
  <2> HIDE DEF s
  <2>5. fs = gs
    BY <2>1, <2>4
  <2> HIDE DEF fs, gs
  <2>6. QED
    BY <2>1, <2>2, <2>3, <2>5
<1>3. 0 \in T
  <2>1. 0 \in 0..NumItems
    BY SomeItems
  <2>2. QED
    BY <1>2, <2>1
<1>4. ASSUME NEW n \in 1..NumItems, n - 1 \in T PROVE n \in T
  <2>1. n \in 0..NumItems
    BY SomeItems
  <2>2. QED
    BY <1>2, <1>4, <2>1
<1> HIDE DEF T
<1>5. 0..NumItems \subseteq T
  BY <1>3, <1>4, Induct, SomeItems
<1>6. QED
  BY <1>5 DEF T

(* n is like c in h, and has a copy of each of its first k members.          *)
Mirrors(h, c, g, n, k) ==
  /\ g[n].kind = h[c].kind /\ g[n].value = h[c].value /\ g[n].string = h[c].string
  /\ Len(Chain(g, n)) = k
  /\ \A j \in 1..k : Twins(h, Chain(h, c)[j], g, Chain(g, n)[j])

LEMMA MirrorSame ==
  ASSUME NEW h, NEW c \in Live(h), NEW g, NEW n \in Live(g),
         Mirrors(h, c, g, n, Len(Chain(h, c)))
  PROVE  Twins(h, c, g, n)
<1>1. SUFFICES ASSUME NEW a, NEW b, MeaningRun(a, h), MeaningRun(b, g), NEW i \in 0..NumItems
               PROVE  a[i][c] = b[i][n]
  BY DEF Twins, Same, Mirrors
<1> DEFINE s == Chain(h, c)
           t == Chain(g, n)
           fs == [k \in 1..Len(s) |->
                    [name |-> IF h[c].kind = "object" THEN h[s[k]].string ELSE NoName,
                     says |-> IF i = 0 THEN <<>> ELSE a[i - 1][s[k]]]]
           gs == [k \in 1..Len(t) |->
                    [name |-> IF g[n].kind = "object" THEN g[t[k]].string ELSE NoName,
                     says |-> IF i = 0 THEN <<>> ELSE b[i - 1][t[k]]]]
<1>2. a[i][c] = [kind |-> h[c].kind, value |-> h[c].value, members |-> fs]
  BY <1>1, Zenon DEF MeaningRun, SaysAt
<1>3. b[i][n] = [kind |-> g[n].kind, value |-> g[n].value, members |-> gs]
  BY <1>1, Zenon DEF MeaningRun, SaysAt
<1>4. /\ g[n].kind = h[c].kind /\ g[n].value = h[c].value /\ Len(t) = Len(s)
      /\ \A j \in 1..Len(s) : Twins(h, s[j], g, t[j])
  BY DEF Mirrors
<1>5. i = 0 \/ i - 1 \in 0..NumItems
  BY SomeItems
<1> HIDE DEF s, t
<1>6. ASSUME NEW j \in 1..Len(s)
      PROVE  g[t[j]].string = h[s[j]].string /\ (i = 0 \/ a[i - 1][s[j]] = b[i - 1][t[j]])
  BY <1>1, <1>4, <1>5 DEF Twins, Same
<1>7. fs = gs
  BY <1>4, <1>6
<1> HIDE DEF fs, gs
<1>8. QED
  BY <1>2, <1>3, <1>4, <1>7

LEMMA BuildsStay ==
  ASSUME NEW h, NEW H, WellFormed(h, H), NEW g, NEW G, WellFormed(g, G), Builds(h, g)
  PROVE  Stays(h, g, Live(h))
<1>1. Live(h) \subseteq Live(g) /\ \A x \in Live(h) : g[x] = h[x]
  BY BuildsFacts
<1>2. ASSUME NEW x \in Live(h)
      PROVE  /\ SameData(h, g, x) /\ Chain(g, x) = Chain(h, x)
             /\ \A k \in 1..Len(Chain(h, x)) : Chain(h, x)[k] \in Live(h)
  <2>1. \A y \in Members(h, x) : y \in Live(h)
    BY MemberFacts
  <2>2. \A y \in Members(h, x) : y \in Live(g) /\ g[y].next = h[y].next
    BY <1>1, <2>1
  <2>3. x \in Live(g) /\ g[x] = h[x]
    BY <1>1
  <2>4. Chain(g, x) = Chain(h, x)
    BY <2>2, <2>3, ChainSame
  <2>5. \A k \in 1..Len(Chain(h, x)) : Chain(h, x)[k] \in Live(h)
    BY ChainFacts, Zenon
  <2>6. QED
    BY <2>3, <2>4, <2>5 DEF SameData
<1>3. QED
  BY <1>1, <1>2 DEF Stays

(* Nothing else is in the list of an item that the program holds.            *)
LEMMA RelistedStays ==
  ASSUME NEW h, NEW H, WellFormed(h, H), NEW n \in H, NEW g, NEW t, Relisted(h, g, n, t)
  PROVE  Stays(h, g, Live(h) \ {n})
<1> DEFINE S == Live(h) \ {n}
<1>1. S \subseteq Live(h) /\ S \subseteq Live(g)
  BY DEF Relisted
<1>2. ASSUME NEW x \in S
      PROVE  /\ SameData(h, g, x) /\ Chain(g, x) = Chain(h, x)
             /\ \A k \in 1..Len(Chain(h, x)) : Chain(h, x)[k] \in S
  <2>1. SameData(h, g, x) /\ Chain(g, x) = Chain(h, x)
    BY DEF Relisted
  <2>2. n \notin Members(h, x)
    BY MemberFacts
  <2> DEFINE s == Chain(h, x)
  <2>3. \A k \in 1..Len(s) : s[k] \in Members(h, x) /\ s[k] \in Live(h)
    BY ChainFacts, Zenon
  <2> HIDE DEF s
  <2>4. \A k \in 1..Len(s) : s[k] \in S
    BY <2>2, <2>3
  <2>5. QED
    BY <2>1, <2>4 DEF s
<1> HIDE DEF S
<1>3. Stays(h, g, S)
  BY <1>1, <1>2 DEF Stays
<1>4. QED
  BY <1>3 DEF S

(* cJSON_Duplicate appends where cJSON_AddItemToArray does.                  *)
LEMMA LinkIsAdd ==
  ASSUME NEW h, NEW H, WellFormed(h, H), NEW a \in Live(h), NEW s, s = Chain(h, a),
         NEW last, last = IF Len(s) = 0 THEN 0 ELSE s[Len(s)], NEW c
  PROVE  Link(h, a, last, c) = AddItem(h, a, c)
<1>1. /\ Len(s) \in Nat
      /\ \A k \in 1..Len(s) : s[k] \in Members(h, a) /\ s[k] \in Live(h) /\ s[k] # 0
      /\ \A x \in Members(h, a) : \E k \in 1..Len(s) : s[k] = x
      /\ Len(s) = 0 => h[a].child = 0
      /\ Len(s) # 0 => h[s[Len(s)]].next = 0
      /\ Len(s) # 0 => s[1] = h[a].child
  <2>1. Len(s) \in Nat
    BY ChainFacts
  <2>4. \A k \in 1..Len(s) : s[k] \in Members(h, a) /\ s[k] \in Live(h) /\ s[k] # 0
    BY ChainFacts
  <2>5. \A x \in Members(h, a) : \E k \in 1..Len(s) : s[k] = x
    BY ChainFacts
  <2>6. \A k \in 1..Len(s) : s[k] = IF k = 1 THEN h[a].child ELSE h[s[k - 1]].next
    BY ChainFacts
  <2>7. (Len(s) = 0 => h[a].child = 0) /\ (Len(s) # 0 => h[s[Len(s)]].next = 0)
    BY ChainFacts
  <2>2. Len(s) # 0 => 1 \in 1..Len(s)
    BY <2>1
  <2>3. QED
    BY <2>1, <2>2, <2>4, <2>5, <2>6, <2>7
<1>2. \A k \in 0..Len(s) : After(h, a, s, k) = IF k = Len(s) THEN 0 ELSE s[k + 1]
  BY ListingAfter, SMTT(30)
<1>3. CASE Len(s) = 0
  BY <1>1, <1>3 DEF Link, AddItem
<1>4. CASE Len(s) # 0
  <2>1. Len(s) \in 1..Len(s) /\ 1 \in 1..Len(s)
    BY <1>1, <1>4
  <2>2. last = s[Len(s)] /\ last # 0 /\ h[a].child # 0 /\ last \in Members(h, a) /\ h[last].next = 0
    BY <1>1, <1>4, <2>1
  <2>3. ASSUME NEW x \in Members(h, a), h[x].next = 0 PROVE x = last
    <3>1. PICK k \in 1..Len(s) : s[k] = x
      BY <1>1
    <3>2. k # 0 /\ k \in 0..Len(s) /\ (k # Len(s) => k + 1 \in 1..Len(s))
      BY <1>1
    <3>3. After(h, a, s, k) = 0
      BY <2>3, <3>1, <3>2 DEF After
    <3>4. k = Len(s)
      BY <1>1, <1>2, <3>2, <3>3
    <3>5. QED
      BY <1>4, <2>2, <3>1, <3>4
  <2>4. (CHOOSE x \in Members(h, a) : h[x].next = 0) = last
    BY <2>2, <2>3
  <2>5. QED
    BY <2>2, <2>4 DEF Link, AddItem
<1>5. QED
  BY <1>3, <1>4

(* The next copy, d, is linked behind the last one.                          *)
LEMMA MirrorNext ==
  ASSUME NEW h, NEW H, WellFormed(h, H), NEW n \in Unused(h), NEW b, NEW last,
         Building(h, H, n, b, last), NEW c \in Live(h), NEW k \in 1..Len(Chain(h, c)),
         Mirrors(h, c, b, n, k - 1), last = IF k = 1 THEN 0 ELSE Chain(b, n)[k - 1],
         NEW d \in Unused(b), NEW e, WellFormed(e, (H \cup {n}) \cup {d}), Builds(b, e),
         Twins(b, Chain(h, c)[k], e, d), NEW g, g = Link(e, n, last, d)
  PROVE  Mirrors(h, c, g, n, k) /\ Chain(g, n)[k] = d
<1> DEFINE G == (H \cup {n}) \cup {d}
           s == Chain(h, c)
           t == Chain(b, n)
           u == Append(t, d)
<1>1. /\ WellFormed(b, H \cup {n}) /\ Builds(h, b) /\ Open(b, H \cup {n}, n, last)
      /\ n \in Live(b) /\ n \notin Live(h)
  BY Links, UnusedIs DEF Building
<1>2. d \notin Live(b) /\ n # d
  BY <1>1, UnusedIs
<1>3. /\ Stays(b, e, Live(b)) /\ Stays(h, b, Live(h))
  BY <1>1, BuildsStay
<1>4. Deleted(e, d) = Live(e) \ Live(b)
  BY <1>1, <1>2, BuiltAlone
<1>5. n \in Owners(e) /\ Unshown(e, n) /\ Unreferred(e, {n}) /\ n \in Live(e)
  <2>1. n \in Owners(e) /\ Unshown(e, n)
    BY <1>1, BuildsFacts DEF Open
  <2>2. QED
    BY <2>1 DEF Unshown, Unreferred, Owners
<1>6. Chain(e, n) = t /\ SameData(b, e, n)
  BY <1>1, <1>3 DEF Stays
<1>7. /\ t \in Seq(Live(b)) /\ Len(t) = k - 1 /\ k - 1 \in Nat
      /\ \A j \in 1..(k - 1) : t[j] \in Live(b) /\ t[j] # n
  <2>1. Len(t) = k - 1 /\ k - 1 \in Nat
    BY DEF Mirrors
  <2>2. t \in Seq(Live(b)) /\ \A j \in 1..Len(t) : t[j] \in Members(b, n) /\ t[j] \in Live(b)
    BY <1>1, ChainFacts, Zenon
  <2>3. n \notin Members(b, n)
    BY <1>1, MemberFacts
  <2> HIDE DEF t
  <2>4. QED
    BY <2>1, <2>2, <2>3
<1>8. \A j \in 1..Len(s) : s[j] \in Live(h)
  BY ChainFacts, Zenon
<1>9. Mirrors(h, c, b, n, k - 1)
  OBVIOUS
<1>10. last = IF Len(t) = 0 THEN 0 ELSE t[Len(t)]
  BY <1>7
<1>11. WellFormed(e, G) /\ n \in G /\ d \in G /\ n \notin Deleted(e, d)
  BY <1>1, <1>4
<1> HIDE DEF G, t, s
<1>12. Link(e, n, last, d) = AddItem(e, n, d)
  BY <1>5, <1>6, <1>10, <1>11, LinkIsAdd
<1>13. Relisted(e, g, n, Append(Chain(e, n), d))
  BY <1>5, <1>11, <1>12, AddChains
<1>14. Stays(e, g, Live(e) \ {n})
  BY <1>11, <1>13, RelistedStays
<1>15. Chain(g, n) = u /\ SameData(e, g, n)
  BY <1>5, <1>6, <1>13 DEF Relisted
<1>16. Len(u) = k /\ u[k] = d /\ \A j \in 1..(k - 1) : u[j] = t[j]
  BY <1>7
<1> HIDE DEF u
<1>17. g[n].kind = h[c].kind /\ g[n].value = h[c].value /\ g[n].string = h[c].string
  BY <1>6, <1>9, <1>15 DEF SameData, Mirrors
<1>18. ASSUME NEW j \in 1..(k - 1) PROVE Twins(h, s[j], g, u[j])
  <2>1. Twins(h, s[j], b, t[j])
    BY <1>9 DEF Mirrors, s, t
  <2>2. Twins(b, t[j], e, t[j])
    BY <1>3, <1>7, StaysSame
  <2>3. t[j] \in Live(e) \ {n}
    BY <1>3, <1>7 DEF Stays
  <2>4. Twins(e, t[j], g, t[j])
    BY <1>14, <2>3, StaysSame
  <2>5. u[j] = t[j]
    BY <1>16
  <2>6. QED
    BY <2>1, <2>2, <2>4, <2>5, TwinsOn
<1>19. Twins(h, s[k], g, u[k])
  <2>1. k \in 1..Len(s)
    BY DEF s
  <2>2. Twins(h, s[k], b, s[k])
    BY <1>3, <1>8, <2>1, StaysSame
  <2>3. d \in Live(e) \ {n}
    BY <1>2, <1>11, Links
  <2>4. Twins(e, d, g, d)
    BY <1>14, <2>3, StaysSame
  <2>5. Twins(b, s[k], e, d)
    BY DEF s
  <2>6. QED
    BY <1>16, <2>2, <2>4, <2>5, TwinsOn
<1>20. ASSUME NEW j \in 1..k PROVE Twins(h, s[j], g, u[j])
  <2>1. j = k \/ j \in 1..(k - 1)
    OBVIOUS
  <2>2. QED
    BY <1>18, <1>19, <2>1
<1>21. Mirrors(h, c, g, n, k)
  BY <1>15, <1>16, <1>17, <1>20 DEF Mirrors, s
<1>22. QED
  BY <1>15, <1>16, <1>21

(* The copies of the first k members of c are made.                          *)
Progress(h, c, n, m, k) ==
  m.item # 0 => /\ Mirrors(h, c, m.heap, n, k)
                /\ m.last = IF k = 0 THEN 0 ELSE Chain(m.heap, n)[k]

CopyOf(h, c, d) == d.item # 0 => Twins(h, c, d.heap, d.item)

TwinDuplicates(duplicate) ==
  \A h, H, c : WellFormed(h, H) /\ c \in Live(h) => CopyOf(h, c, duplicate[[heap |-> h, item |-> c]])

LEMMA CopyNextMirrors ==
  ASSUME NEW h, NEW H, WellFormed(h, H), NEW n \in Unused(h), NEW c \in Live(h),
         NEW duplicate, Duplicates(duplicate), TwinDuplicates(duplicate),
         NEW m, Copying(h, H, n, m), NEW k \in 1..Len(Chain(h, c)), Progress(h, c, n, m, k - 1),
         NEW r, r = CopyMember(m, Chain(h, c)[k], duplicate)
  PROVE  Progress(h, c, n, r, k)
<1> DEFINE i == Chain(h, c)[k]
           d == duplicate[[heap |-> m.heap, item |-> i]]
           G == H \cup {n}
           failed == Failed(Delete(d.heap, m.item))
           g == Link(d.heap, m.item, m.last, d.item)
           linked == [heap |-> g, item |-> m.item, last |-> d.item]
<1>1. r = IF m.item = 0 THEN m ELSE IF d.item = 0 THEN failed ELSE linked
  BY Zenon DEF CopyMember
<1>2. /\ failed.item = 0
      /\ linked.heap = g /\ linked.item = m.item /\ linked.last = d.item
  BY DEF Failed
<1>3. i \in Live(h)
  BY ChainFacts, Zenon
<1> HIDE DEF d, failed, linked
<1>4. CASE r.item = 0
  BY <1>4 DEF Progress
<1>5. CASE r.item # 0
  <2>1. m.item # 0 /\ d.item # 0 /\ r = linked
    BY <1>1, <1>2, <1>5
  <2>2. m.item = n /\ Building(h, H, n, m.heap, m.last)
    BY <2>1 DEF Copying
  <2>3. WellFormed(m.heap, G) /\ Builds(h, m.heap) /\ i \in Live(m.heap)
    BY <1>3, <2>2, BuildsFacts DEF Building
  <2>4. Copied(m.heap, G, d) /\ CopyOf(m.heap, i, d)
    BY <2>3 DEF Duplicates, TwinDuplicates, d
  <2>5. /\ d.item \in Unused(m.heap) /\ WellFormed(d.heap, G \cup {d.item})
        /\ Builds(m.heap, d.heap) /\ Twins(m.heap, i, d.heap, d.item)
    BY <2>1, <2>4 DEF Copied, CopyOf
  <2>6. k - 1 = 0 <=> k = 1
    OBVIOUS
  <2>7. /\ Mirrors(h, c, m.heap, n, k - 1)
        /\ m.last = IF k = 1 THEN 0 ELSE Chain(m.heap, n)[k - 1]
    BY <2>1, <2>6 DEF Progress
  <2>8. g = Link(d.heap, n, m.last, d.item)
    BY <2>2
  <2> DEFINE b == m.heap
             e == d.heap
             last == m.last
             x == d.item
  <2>9. /\ Building(h, H, n, b, last) /\ x \in Unused(b) /\ Builds(b, e)
        /\ WellFormed(e, (H \cup {n}) \cup {x}) /\ Twins(b, Chain(h, c)[k], e, x)
        /\ Mirrors(h, c, b, n, k - 1) /\ last = IF k = 1 THEN 0 ELSE Chain(b, n)[k - 1]
        /\ g = Link(e, n, last, x)
    BY <2>2, <2>5, <2>7, <2>8
  <2> HIDE DEF g, b, e, last, x
  <2>10. Mirrors(h, c, g, n, k) /\ Chain(g, n)[k] = x
    BY <2>9, MirrorNext
  <2>11. r.heap = g /\ r.last = x /\ k # 0
    BY <1>2, <2>1 DEF x
  <2>12. QED
    BY <2>10, <2>11 DEF Progress
<1>6. QED
  BY <1>4, <1>5

LEMMA CopyBegins ==
  ASSUME NEW h, NEW H, WellFormed(h, H), NEW c \in Live(h), NEW n \in Unused(h),
         NEW g, g = Copy(h, c, n), NEW G, WellFormed(g, G), n \in Live(g), g[n].child = 0
  PROVE  Mirrors(h, c, g, n, 0)
<1>1. h = [x \in Cells |-> h[x]] /\ n \in Cells
  BY WellFormedIs, HeapParts, UnusedIs
<1>2. g[n].kind = h[c].kind /\ g[n].value = h[c].value /\ g[n].string = h[c].string
  <2> DEFINE s == [Fresh EXCEPT !.kind = h[c].kind, !.value = h[c].value, !.string = h[c].string]
  <2>1. s.kind = h[c].kind /\ s.value = h[c].value /\ s.string = h[c].string
    BY DEF Fresh
  <2>2. g = [h EXCEPT ![n] = s]
    BY DEF Copy
  <2> HIDE DEF s
  <2>3. QED
    BY <1>1, <2>1, <2>2
<1> DEFINE t == Chain(g, n)
<1>3. Len(t) \in Nat
  BY ChainFacts
<1>4. \A k \in 1..Len(t) : t[k] # 0
  BY ChainFacts
<1>5. \A k \in 1..Len(t) : t[k] = IF k = 1 THEN g[n].child ELSE g[t[k - 1]].next
  BY ChainFacts
<1> HIDE DEF t
<1>6. Len(t) # 0 => 1 \in 1..Len(t)
  BY <1>3
<1>7. Len(t) = 0
  BY <1>4, <1>5, <1>6
<1>8. \A j : j \notin 1..0
  OBVIOUS
<1>9. QED
  BY <1>2, <1>7, <1>8 DEF Mirrors, t

LEMMA CopyAllTwins ==
  ASSUME NEW h, NEW H, WellFormed(h, H), NEW c \in Live(h), NEW n \in Unused(h),
         NEW duplicate, Duplicates(duplicate), TwinDuplicates(duplicate),
         NEW d, d = CopyAll(h, c, n, duplicate)
  PROVE  CopyOf(h, c, d)
<1> DEFINE len == Len(Chain(h, c))
<1>1. h \in Heaps /\ len \in Nat /\ \A k \in 1..len : Chain(h, c)[k] \in Live(h)
  BY WellFormedIs, ChainFacts, Zenon
<1> HIDE DEF len
<1>9. PICK copied : CopyRun(copied, h, c, n, duplicate)
  BY <1>1, CopyRuns DEF len
<1>2. /\ CopyAll(h, c, n, duplicate) = copied[len]
      /\ copied[0] = [heap |-> Copy(h, c, n), item |-> n, last |-> 0]
      /\ \A k \in 1..len : copied[k] = CopyMember(copied[k - 1], Chain(h, c)[k], duplicate)
  BY <1>9 DEF CopyRun, len
<1> DEFINE T == {k \in 0..len : Copying(h, H, n, copied[k]) /\ Progress(h, c, n, copied[k], k)}
<1>3. 0 \in T
  <2> DEFINE g == Copy(h, c, n)
  <2>1. PICK s : Plain(s) /\ IsNew(h, g, n, s)
    BY <1>1, CopyIsNew
  <2>2. copied[0].heap = g /\ copied[0].item = n /\ copied[0].last = 0
    BY <1>2
  <2>3. g = Copy(h, c, n)
    OBVIOUS
  <2> HIDE DEF g
  <2>4. /\ WellFormed(g, H \cup {n}) /\ Builds(h, g) /\ Unshown(g, n) /\ g[n] = s
        /\ n \in Live(g) /\ n # 0 /\ 0 \notin Live(h)
    <3>1. Added(h, H, g, n, s)
      BY <2>1, NewKeeps
    <3>2. QED
      BY <3>1, UnusedIs, ZeroIsNoCell DEF Added
  <2>5. g[n].child = 0
    BY <2>1, <2>4 DEF Plain
  <2>6. Open(g, H \cup {n}, n, 0)
    BY <2>1, <2>4 DEF Open, Owners, Plain
  <2>7. Copying(h, H, n, copied[0])
    BY <2>2, <2>4, <2>6 DEF Copying, Building
  <2>8. Mirrors(h, c, g, n, 0)
    BY <2>3, <2>4, <2>5, CopyBegins
  <2>9. Progress(h, c, n, copied[0], 0)
    BY <2>2, <2>8 DEF Progress
  <2>10. QED
    BY <1>1, <2>7, <2>9
<1>4. ASSUME NEW k \in 1..len, k - 1 \in T PROVE k \in T
  <2>1. /\ Copying(h, H, n, copied[k - 1]) /\ Progress(h, c, n, copied[k - 1], k - 1)
        /\ k \in 0..len
    BY <1>1, <1>4
  <2>2. copied[k] = CopyMember(copied[k - 1], Chain(h, c)[k], duplicate)
    BY <1>2
  <2>3. Chain(h, c)[k] \in Live(h) /\ k \in 1..Len(Chain(h, c))
    BY <1>1 DEF len
  <2>4. Copying(h, H, n, copied[k])
    BY <2>1, <2>2, <2>3, CopyNext, Zenon
  <2>5. Progress(h, c, n, copied[k], k)
    BY <2>1, <2>2, <2>3, CopyNextMirrors, Zenon
  <2>6. QED
    BY <2>1, <2>4, <2>5
<1>5. len \in T
  <2> HIDE DEF T
  <2>1. 0..len \subseteq T
    BY <1>1, <1>3, <1>4, Induct
  <2>2. QED
    BY <1>1, <2>1
<1>6. Copying(h, H, n, d) /\ Progress(h, c, n, d, len)
  BY <1>2, <1>5
<1>7. SUFFICES ASSUME d.item # 0 PROVE Twins(h, c, d.heap, d.item)
  BY DEF CopyOf
<1>8. d.item = n /\ n \in Live(d.heap) /\ Mirrors(h, c, d.heap, n, Len(Chain(h, c)))
  BY <1>6, <1>7, Links DEF Copying, Progress, Building, len
<1>10. QED
  BY <1>8, MirrorSame

LEMMA DuplicateTwins ==
  ASSUME NEW h, NEW H, WellFormed(h, H), NEW c \in Live(h), NEW d, d = Duplicate(h, c, TRUE)
  PROVE  CopyOf(h, c, d)
<1>1. PICK duplicate : DuplicateRun(duplicate, h, c)
  BY DuplicateRuns
<1> DEFINE Good(f) == Duplicates(f) /\ TwinDuplicates(f)
           T == {k \in 0..NumItems : Good(duplicate[k])}
<1>2. ASSUME NEW k \in 0..NumItems, k # 0 => Good(duplicate[k - 1]),
             NEW g, NEW G, WellFormed(g, G), NEW i \in Live(g)
      PROVE  /\ Copied(g, G, duplicate[k][[heap |-> g, item |-> i]])
             /\ CopyOf(g, i, duplicate[k][[heap |-> g, item |-> i]])
  <2>1. g \in Heaps /\ i \in Cells
    BY <1>2, WellFormedIs, ZeroIsNoCell
  <2> DEFINE r == duplicate[k][[heap |-> g, item |-> i]]
  <2>2. r = IF k = 0 \/ Malloc(g) = 0 THEN Failed(g)
            ELSE CopyAll(g, i, Malloc(g), duplicate[k - 1])
    BY <1>1, <2>1 DEF DuplicateRun
  <2> HIDE DEF r
  <2>3. CASE k = 0 \/ Malloc(g) = 0
    <3>1. r = Failed(g)
      BY <2>2, <2>3
    <3>2. Copied(g, G, r) /\ r.item = 0
      BY <3>1, FailedKeeps DEF Failed
    <3>3. QED
      BY <3>2 DEF r, CopyOf
  <2>4. CASE k # 0 /\ Malloc(g) # 0
    <3>1. r = CopyAll(g, i, Malloc(g), duplicate[k - 1]) /\ Malloc(g) \in Unused(g)
          /\ Duplicates(duplicate[k - 1]) /\ TwinDuplicates(duplicate[k - 1])
      BY <1>2, <2>2, <2>4, MallocFacts
    <3>2. Copied(g, G, r)
      BY <1>2, <3>1, CopyAllKeeps, Zenon
    <3>3. CopyOf(g, i, r)
      BY <1>2, <3>1, CopyAllTwins, Zenon
    <3>4. QED
      BY <3>2, <3>3 DEF r
  <2>5. QED
    BY <2>3, <2>4
<1>3. 0 \in T
  <2>1. 0 \in 0..NumItems
    BY SomeItems
  <2>2. QED
    BY <1>2, <2>1 DEF Duplicates, TwinDuplicates
<1>4. ASSUME NEW k \in 1..NumItems, k - 1 \in T PROVE k \in T
  <2>1. k \in 0..NumItems /\ Good(duplicate[k - 1])
    BY <1>4, SomeItems
  <2>2. Good(duplicate[k])
    BY <1>2, <2>1 DEF Duplicates, TwinDuplicates
  <2>3. QED
    BY <2>1, <2>2
<1>5. NumItems \in T
  <2> HIDE DEF T
  <2>1. 0..NumItems \subseteq T
    BY <1>3, <1>4, Induct, SomeItems
  <2>2. QED
    BY <2>1, SomeItems
<1>6. d = duplicate[NumItems][[heap |-> h, item |-> c]]
  BY <1>1 DEF DuplicateRun
<1>7. QED
  BY <1>5, <1>6 DEF TwinDuplicates

DuplicateStep(i) ==
  /\ \A c \in Live(heap) : heap'[c] = heap[c]
  /\ \/ Live(heap)' = Live(heap) /\ UNCHANGED held
     \/ \E c \in Unused(heap) :
          /\ held' = held \cup {c}
          /\ Meaning(heap', c) = Meaning(heap, i)
          /\ Deleted(heap', c) = Live(heap)' \ Live(heap)
          /\ \A d \in Deleted(heap', c) : ~heap'[d].ref

LEMMA DuplicateSteps ==
  ASSUME IInv, NEW i \in Live(heap), DuplicateItem(i, TRUE)
  PROVE  DuplicateStep(i)
<1> DEFINE d == Duplicate(heap, i, TRUE)
<1>1. heap' = d.heap /\ held' = held \cup ({d.item} \ {0})
  BY Zenon DEF DuplicateItem, Gives
<1>2. WellFormed(heap, held)
  BY DEF IInv
<1>3. Copied(heap, held, d)
  BY <1>2, DuplicateKeeps
<1>4. CopyOf(heap, i, d)
  BY <1>2, DuplicateTwins
<1> HIDE DEF d
<1>5. CASE d.item = 0
  <2>1. heap' = heap /\ held' = held
    BY <1>1, <1>3, <1>5 DEF Copied
  <2>2. QED
    BY <2>1 DEF DuplicateStep
<1>6. CASE d.item # 0
  <2> DEFINE c == d.item
  <2>1. /\ c \in Unused(heap) /\ WellFormed(heap', held \cup {c}) /\ Builds(heap, heap')
        /\ held' = held \cup {c}
    BY <1>1, <1>3, <1>6 DEF Copied
  <2>2. Twins(heap, i, heap', c)
    BY <1>1, <1>4, <1>6 DEF CopyOf
  <2> HIDE DEF c
  <2>3. Meaning(heap', c) = Meaning(heap, i)
    BY <2>2, SameMeaning DEF Twins
  <2>4. c \notin Live(heap)
    BY <2>1, UnusedIs
  <2>5. Deleted(heap', c) = Live(heap') \ Live(heap)
    BY <1>2, <2>1, <2>4, BuiltAlone
  <2>6. (\A x \in Live(heap) : heap'[x] = heap[x])
        /\ \A x \in Live(heap') \ Live(heap) : x \in Owners(heap')
    BY <2>1, BuildsFacts
  <2>7. \A x \in Deleted(heap', c) : ~heap'[x].ref
    BY <2>5, <2>6 DEF Owners
  <2>8. QED
    BY <2>1, <2>3, <2>5, <2>6, <2>7 DEF DuplicateStep
<1>7. QED
  BY <1>5, <1>6

(* A duplicate says what the item says, in memory that was free, with no     *)
(* reference in it and nothing else touched; without memory for all of it    *)
(* nothing of it is left.                                                    *)
THEOREM DuplicatesAreIdentical == Spec => DuplicateIsIdentical
<1>1. ASSUME IInv
      PROVE  [\A i \in Live(heap) : DuplicateItem(i, TRUE) => DuplicateStep(i)]_jsonVars
  BY <1>1, DuplicateSteps
<1>2. Spec => []IInv
  BY CallsAreListCalls, ListInvariance, PTL
<1>3. Spec => [][\A i \in Live(heap) : DuplicateItem(i, TRUE) => DuplicateStep(i)]_jsonVars
  BY <1>1, <1>2, PTL
<1>4. QED
  BY <1>3 DEF DuplicateIsIdentical, DuplicateStep
===============================================================================
