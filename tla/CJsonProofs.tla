------------------------------ MODULE CJsonProofs -----------------------------
(***************************************************************************)
(* The items of CJsonLists.tla stay well formed, in a memory of any size and *)
(* for any names: IInv is inductive, and implies that the links are          *)
(* consistent and that every item is owned once.                             *)
(*                                                                          *)
(* A walk is the least set that nothing leads out of.  So what is proved of  *)
(* cJSON_Delete and of the lists is proved by naming a set and showing that  *)
(* it is not left; no induction along a list is needed.  Each call has a     *)
(* lemma that says which links it changes (AddFirst, AddNext, DetachFacts,   *)
(* SwapFacts, PlaceFacts, ...) and one that says that it keeps a heap well   *)
(* formed (AddKeeps, DetachKeeps, SwapKeeps, DeleteKeeps, GraftKeeps, ...).  *)
(*                                                                          *)
(* Then the lists implement JsonForest.tla.  Chain is the one sequence that  *)
(* follows the links of a well-formed list (ChainIs), so each operator on    *)
(* the heap has a lemma that says what it does to the sequences (AddForest,  *)
(* RenameForest, DetachForest, SwapForest, DeleteForest, ReferenceForest,    *)
(* GraftForest); what cJSON_Delete reaches is the family that the forest     *)
(* discards (FamilyIs); and each call is one step of the forest (the lemmas  *)
(* whose names say which).                                                   *)
(***************************************************************************)
EXTENDS CJsonLists, Induction, FiniteSetTheorems, SequenceTheorems, TLAPS

(* An item leads to y: it deletes y when it is deleted.                      *)
Leads(h, x, y) == h[x].next = y \/ (x \in Owners(h) /\ h[x].child = y)

Points(h) == \A x \in Live(h) : h[x].next \in Live(h) \cup {0} /\ h[x].child \in Live(h) \cup {0}

-------------------------------------------------------------------------------
LEMMA SomeItems == NumItems \in Nat \ {0}
BY CJsonItemsAssumption

(* What a walk reaches is the least set that it does not leave.              *)
LEMMA ZeroIsNoCell == \A h : Live(h) \subseteq Cells /\ 0 \notin Cells /\ 0 \notin Live(h)
BY SomeItems DEF Live, Cells

LEMMA WalkIsLeast ==
  ASSUME NEW h, NEW c, NEW down
  PROVE  /\ Walked(h, c, down) \subseteq Live(h)
         /\ \A S \in SUBSET Live(h) :
              c \in S \cup {0} /\ ClosedUnder(h, S, down) => Walked(h, c, down) \subseteq S
BY DEF Walked

LEMMA WalkIsClosed ==
  ASSUME NEW h, NEW c \in Live(h) \cup {0}, NEW down, Points(h)
  PROVE  /\ c \in Walked(h, c, down) \cup {0}
         /\ ClosedUnder(h, Walked(h, c, down), down)
<1> DEFINE W == Walked(h, c, down)
           Walk(S) == S \in SUBSET Live(h) /\ c \in S \cup {0} /\ ClosedUnder(h, S, down)
<1>1. \A x : x \in W <=> x \in Live(h) /\ \A S : Walk(S) => x \in S
  BY DEF Walked
<1>2. c \in W \cup {0}
  BY <1>1
<1>3. ASSUME NEW x \in W
      PROVE  /\ h[x].next \in W \cup {0}
             /\ x \in down => h[x].child \in W \cup {0}
  <2>1. x \in Live(h) /\ h[x].next \in Live(h) \cup {0} /\ h[x].child \in Live(h) \cup {0}
    BY <1>1 DEF Points
  <2>2. ASSUME NEW S, Walk(S)
        PROVE  /\ h[x].next \in S \cup {0}
               /\ x \in down => h[x].child \in S \cup {0}
    BY <1>1, <2>2 DEF ClosedUnder
  <2> HIDE DEF W, Walk
  <2>3. h[x].next \in W \cup {0}
    BY <1>1, <2>1, <2>2
  <2>4. x \in down => h[x].child \in W \cup {0}
    BY <1>1, <2>1, <2>2
  <2>5. QED
    BY <2>3, <2>4
<1>4. ClosedUnder(h, W, down)
  BY <1>3 DEF ClosedUnder
<1>5. QED
  BY <1>2, <1>4

(* Whatever is reached, but the start, is reached from something.            *)
LEMMA WalkComesFrom ==
  ASSUME NEW h, NEW c \in Live(h) \cup {0}, NEW down, Points(h),
         NEW y \in Walked(h, c, down), y # c
  PROVE  \E x \in Walked(h, c, down) : h[x].next = y \/ (x \in down /\ h[x].child = y)
<1> DEFINE W == Walked(h, c, down)
<1>1. SUFFICES ASSUME \A x \in W : h[x].next # y /\ (x \in down => h[x].child # y)
               PROVE  FALSE
  OBVIOUS
<1>2. W \subseteq Live(h) /\ c \in W \cup {0} /\ ClosedUnder(h, W, down)
  BY WalkIsLeast, WalkIsClosed
<1> HIDE DEF W
<1>3. ClosedUnder(h, W \ {y}, down)
  BY <1>1, <1>2 DEF ClosedUnder
<1>4. W \ {y} \in SUBSET Live(h) /\ c \in (W \ {y}) \cup {0}
  BY <1>2
<1>5. W \subseteq W \ {y}
  BY <1>3, <1>4, WalkIsLeast DEF W
<1>6. QED
  BY <1>5 DEF W

(* Walks in two heaps with the same links are the same.                      *)
LEMMA SameWalk ==
  ASSUME NEW h, NEW g, Live(g) = Live(h),
         \A x \in Live(h) : g[x].next = h[x].next /\ g[x].child = h[x].child,
         NEW c, NEW down
  PROVE  Walked(g, c, down) = Walked(h, c, down)
<1>1. \A S \in SUBSET Live(h) : ClosedUnder(g, S, down) <=> ClosedUnder(h, S, down)
  BY DEF ClosedUnder
<1>2. QED
  BY <1>1 DEF Walked

-------------------------------------------------------------------------------
(* The links of a well-formed heap, one by one.                              *)
LEMMA Links ==
  ASSUME NEW h, NEW H, WellFormed(h, H)
  PROVE  /\ Points(h) /\ H \subseteq Live(h)
         /\ \A x \in Live(h) :
              /\ h[x].prev \in Live(h) \cup {0}
              /\ h[x].next # 0 => h[h[x].next].prev = x
              /\ h[x].prev # 0 => h[h[x].prev].next = x
              /\ h[x].child # 0 => h[h[x].child].prev = 0
              /\ x \in H => h[x].next = 0 /\ h[x].prev = 0
         /\ \A x, y \in Owners(h) : h[x].child = h[y].child /\ h[x].child # 0 => x = y
         /\ \A x \in Live(h) : h[x].child \notin H
         /\ \A r \in Live(h) \ Owners(h) :
              h[r].of \in Owners(h) /\ h[r].child = h[h[r].of].child
<1>1. Linked(h, H) /\ Listed(h, H)
  BY DEF WellFormed
<1>2. \A x \in Live(h) : {h[x].next, h[x].prev, h[x].child} \subseteq Live(h) \cup {0}
  BY <1>1 DEF Linked
<1>3. \A x \in Live(h) : h[x].child \notin H
  BY <1>1 DEF Listed
<1>4. QED
  BY <1>1, <1>2, <1>3 DEF Points, Linked, Listed

(* Only one item leads to another, and none to one that the program holds.   *)
LEMMA OneLeads ==
  ASSUME NEW h, NEW H, WellFormed(h, H), NEW x \in Live(h), NEW y \in Live(h),
         Leads(h, x, y)
  PROVE  /\ y \notin H
         /\ \A z \in Live(h) : Leads(h, z, y) => z = x
<1>1. y # 0 /\ x # 0
  BY ZeroIsNoCell
<1>2. y \notin H
  BY <1>1, Links DEF Leads, Owners
<1>3. ASSUME NEW z \in Live(h), Leads(h, z, y)
      PROVE  z = x
  <2>1. z # 0
    BY ZeroIsNoCell
  <2>2. h[x].next = y => h[y].prev = x
    BY <1>1, Links
  <2>3. h[z].next = y => h[y].prev = z
    BY <1>1, Links
  <2>4. h[x].child = y \/ h[z].child = y => h[y].prev = 0
    BY <1>1, Links
  <2>5. x \in Owners(h) /\ z \in Owners(h) /\ h[x].child = y /\ h[z].child = y => z = x
    BY <1>1, Links
  <2>6. QED
    BY <1>1, <1>3, <2>1, <2>2, <2>3, <2>4, <2>5 DEF Leads
<1>4. QED
  BY <1>2, <1>3

(* What leads into what an item deletes is deleted with it, unless it leads  *)
(* to the item.                                                              *)
LEMMA LeadsFromInside ==
  ASSUME NEW h, NEW H, WellFormed(h, H), NEW c \in Live(h), NEW x \in Live(h),
         NEW y \in Deleted(h, c), y # c, Leads(h, x, y)
  PROVE  x \in Deleted(h, c)
<1>1. Points(h)
  BY Links
<1>2. PICK z \in Deleted(h, c) : Leads(h, z, y)
  BY <1>1, WalkComesFrom DEF Deleted, Leads
<1>3. z \in Live(h) /\ y \in Live(h)
  BY <1>2, WalkIsLeast DEF Deleted
<1>4. QED
  BY <1>2, <1>3, OneLeads

(* What an item deletes, as a set.                                           *)
LEMMA DeletedFacts ==
  ASSUME NEW h, NEW H, WellFormed(h, H), NEW c \in Live(h)
  PROVE  /\ c \in Deleted(h, c) /\ Deleted(h, c) \subseteq Live(h)
         /\ \A x \in Deleted(h, c), y \in Live(h) : Leads(h, x, y) => y \in Deleted(h, c)
         /\ \A d \in H : d # c => d \notin Deleted(h, c)
<1>1. Points(h) /\ c # 0
  BY Links, ZeroIsNoCell
<1>2. c \in Deleted(h, c) /\ ClosedUnder(h, Deleted(h, c), Owners(h))
  BY <1>1, WalkIsClosed DEF Deleted
<1>3. Deleted(h, c) \subseteq Live(h)
  BY WalkIsLeast DEF Deleted
<1>4. ASSUME NEW x \in Deleted(h, c), NEW y \in Live(h), Leads(h, x, y)
      PROVE  y \in Deleted(h, c)
  <2>1. y # 0
    BY ZeroIsNoCell
  <2>2. QED
    BY <1>2, <1>4, <2>1 DEF ClosedUnder, Leads
<1>5. ASSUME NEW d \in H, d # c, d \in Deleted(h, c)
      PROVE  FALSE
  <2>1. PICK z \in Deleted(h, c) : Leads(h, z, d)
    BY <1>1, <1>5, WalkComesFrom DEF Deleted, Leads
  <2>2. QED
    BY <1>3, <1>5, <2>1, OneLeads
<1>6. QED
  BY <1>2, <1>3, <1>4, <1>5

(* A set with the items the program holds, that no walk leaves, is all.      *)
LEMMA KeptIsAll ==
  ASSUME NEW h, NEW H, Kept(h, H), NEW S \in SUBSET Live(h), H \subseteq S,
         \A x \in S, y \in Live(h) : Leads(h, x, y) => y \in S,
         Points(h)
  PROVE  Live(h) \subseteq S
<1>1. ClosedUnder(h, S, Owners(h))
  BY DEF ClosedUnder, Leads, Points
<1>2. \A c \in H : Deleted(h, c) \subseteq S
  BY <1>1, WalkIsLeast DEF Deleted
<1>3. QED
  BY <1>2 DEF Kept

(* No item is in itself.                                                     *)
LEMMA NoCycle ==
  ASSUME NEW h, NEW H, WellFormed(h, H), NEW c \in Live(h), NEW x \in Deleted(h, c),
         Leads(h, x, c)
  PROVE  FALSE
<1> DEFINE S == Live(h) \ Deleted(h, c)
<1>1. x \in Live(h) /\ c \in Deleted(h, c)
  BY DeletedFacts
<1>2. H \subseteq S
  <2>1. H \subseteq Live(h)
    BY Links
  <2>2. c \notin H
    BY <1>1, OneLeads
  <2>3. QED
    BY <2>1, <2>2, DeletedFacts
<1>3. ASSUME NEW z \in S, NEW y \in Live(h), Leads(h, z, y), y \notin S
      PROVE  FALSE
  <2>1. y \in Deleted(h, c) /\ z \in Live(h) /\ z \notin Deleted(h, c)
    BY <1>3
  <2>2. CASE y = c
    BY <1>1, <1>3, <2>1, <2>2, OneLeads
  <2>3. CASE y # c
    BY <1>3, <2>1, <2>3, LeadsFromInside
  <2>4. QED
    BY <2>2, <2>3
<1>4. Live(h) \subseteq S
  <2>1. Kept(h, H) /\ Points(h)
    BY Links DEF WellFormed
  <2>2. S \in SUBSET Live(h)
    OBVIOUS
  <2> HIDE DEF S
  <2>3. QED
    BY <1>2, <1>3, <2>1, <2>2, KeptIsAll
<1>5. QED
  BY <1>1, <1>4

(* Nothing is in two of the items that the program holds.                    *)
LEMMA FamiliesDisjoint ==
  ASSUME NEW h, NEW H, WellFormed(h, H), NEW c \in H, NEW d \in H, c # d
  PROVE  Deleted(h, c) \cap Deleted(h, d) = {}
<1> DEFINE S == Deleted(h, c) \ Deleted(h, d)
<1>1. c \in Live(h) /\ d \in Live(h) /\ Points(h)
  BY Links
<1>2. S \in SUBSET Live(h) /\ c \in S
  BY <1>1, DeletedFacts
<1>3. ASSUME NEW x \in S, NEW y \in Live(h), Leads(h, x, y)
      PROVE  y \in S
  <2>1. x \in Live(h) /\ x \in Deleted(h, c) /\ x \notin Deleted(h, d)
    BY <1>1, DeletedFacts
  <2>2. y \in Deleted(h, c)
    BY <1>1, <1>3, <2>1, DeletedFacts
  <2>3. y # d
    BY <1>1, <1>3, <2>1, OneLeads
  <2>4. y \notin Deleted(h, d)
    BY <1>1, <1>3, <2>1, <2>3, LeadsFromInside
  <2>5. QED
    BY <2>2, <2>4
<1> HIDE DEF S
<1>4. ClosedUnder(h, S, Owners(h))
  BY <1>1, <1>2, <1>3 DEF ClosedUnder, Leads, Points
<1>5. Deleted(h, c) \subseteq S
  BY <1>2, <1>4, WalkIsLeast DEF Deleted
<1>6. QED
  BY <1>5 DEF S

(* The list of an owner.                                                     *)
LEMMA MemberFacts ==
  ASSUME NEW h, NEW H, WellFormed(h, H), NEW a \in Live(h)
  PROVE  /\ Members(h, a) \subseteq Live(h) \ H
         /\ h[a].child # 0 => h[a].child \in Members(h, a)
         /\ \A x \in Members(h, a) : h[x].next # 0 => h[x].next \in Members(h, a)
         /\ \A y \in Members(h, a) : y = h[a].child \/ \E x \in Members(h, a) : h[x].next = y
<1>1. Points(h) /\ h[a].child \in Live(h) \cup {0}
  BY Links DEF Points
<1>2. /\ h[a].child \in Members(h, a) \cup {0}
      /\ ClosedUnder(h, Members(h, a), {})
  BY <1>1, WalkIsClosed DEF Members
<1>3. Members(h, a) \subseteq Live(h)
  BY WalkIsLeast DEF Members
<1>4. ASSUME NEW y \in Members(h, a), y # h[a].child
      PROVE  \E x \in Members(h, a) : h[x].next = y
  <2> DEFINE none == {}
             start == h[a].child
  <2>1. y \in Walked(h, start, none) /\ y # start /\ start \in Live(h) \cup {0}
    BY <1>1, <1>4 DEF Members
  <2> HIDE DEF none, start
  <2>2. PICK x \in Walked(h, start, none) : h[x].next = y \/ (x \in none /\ h[x].child = y)
    BY <1>1, <2>1, WalkComesFrom
  <2>3. x \in Members(h, a)
    BY DEF Members, none, start
  <2>4. QED
    BY <2>2, <2>3 DEF none
<1>5. ASSUME NEW y \in Members(h, a) PROVE y \notin H
  <2>1. CASE y = h[a].child
    BY <2>1, Links
  <2>2. CASE y # h[a].child
    <3>1. PICK x \in Members(h, a) : h[x].next = y
      BY <1>4, <2>2
    <3>2. Leads(h, x, y) /\ x \in Live(h) /\ y \in Live(h)
      BY <1>3, <3>1 DEF Leads
    <3>3. QED
      BY <3>2, OneLeads
  <2>3. QED
    BY <2>1, <2>2
<1>6. QED
  BY <1>2, <1>3, <1>4, <1>5 DEF ClosedUnder

LEMMA MembersDisjoint ==
  ASSUME NEW h, NEW H, WellFormed(h, H), NEW a \in Owners(h), NEW b \in Owners(h), a # b
  PROVE  Members(h, a) \cap Members(h, b) = {}
<1> DEFINE S == Members(h, a) \ Members(h, b)
<1>1. a \in Live(h) /\ b \in Live(h) /\ Points(h)
  BY Links DEF Owners
<1>2. h[a].child \in S \cup {0}
  <2>1. SUFFICES ASSUME h[a].child # 0, h[a].child \in Members(h, b) PROVE FALSE
    BY <1>1, MemberFacts
  <2>2. h[a].child # h[b].child /\ h[h[a].child].prev = 0
    BY <1>1, <2>1, Links
  <2>3. PICK x \in Members(h, b) : h[x].next = h[a].child
    BY <1>1, <2>1, <2>2, MemberFacts
  <2>4. x \in Live(h) /\ x # 0
    BY <1>1, MemberFacts, ZeroIsNoCell
  <2>5. h[h[a].child].prev = x
    BY <2>1, <2>3, <2>4, Links
  <2>6. QED
    BY <2>2, <2>4, <2>5
<1>3. ASSUME NEW x \in S, h[x].next # 0 PROVE h[x].next \in S
  <2> DEFINE y == h[x].next
  <2>1. x \in Live(h) /\ x # 0 /\ y \in Members(h, a) /\ h[y].prev = x
    BY <1>1, <1>3, MemberFacts, ZeroIsNoCell, Links
  <2>2. y # h[b].child
    BY <1>1, <1>3, <2>1, Links
  <2>3. ASSUME y \in Members(h, b) PROVE FALSE
    <3>1. PICK z \in Members(h, b) : h[z].next = y
      BY <1>1, <2>2, <2>3, MemberFacts
    <3>2. z \in Live(h)
      BY <1>1, MemberFacts
    <3>3. h[y].prev = z
      BY <1>3, <3>1, <3>2, Links
    <3>4. QED
      BY <2>1, <3>3
  <2>4. QED
    BY <2>1, <2>3
<1>4. S \in SUBSET Live(h)
  BY <1>1, MemberFacts
<1> HIDE DEF S
<1>5. ClosedUnder(h, S, {})
  BY <1>3 DEF ClosedUnder
<1>6. Members(h, a) \subseteq S
  BY <1>2, <1>4, <1>5, WalkIsLeast DEF Members
<1>7. QED
  BY <1>6 DEF S

(* A list ends: if every member had a next one, two would have the same,     *)
(* because the head is the next of none.                                     *)
LEMMA LastExists ==
  ASSUME NEW h, NEW H, WellFormed(h, H), NEW a \in Live(h), h[a].child # 0
  PROVE  \E last \in Members(h, a) : h[last].next = 0
<1> DEFINE M == Members(h, a)
           head == h[a].child
           f == [x \in M |-> h[x].next]
<1>1. SUFFICES ASSUME \A x \in M : h[x].next # 0 PROVE FALSE
  OBVIOUS
<1>2. M \subseteq Live(h) /\ head \in M /\ \A x \in M : h[x].next \in M
  BY <1>1, MemberFacts
<1>3. ASSUME NEW x \in M PROVE h[x].next # head /\ h[h[x].next].prev = x
  <2>1. x \in Live(h) /\ x # 0 /\ h[head].prev = 0
    BY <1>2, ZeroIsNoCell, Links
  <2>2. h[h[x].next].prev = x
    BY <1>1, <2>1, Links
  <2>3. QED
    BY <2>1, <2>2
<1>4. f \in [M -> M \ {head}]
  BY <1>2, <1>3
<1>5. IsFiniteSet(M) /\ IsFiniteSet(M \ {head})
  <2>1. IsFiniteSet(Cells)
    BY FS_Interval, SomeItems DEF Cells
  <2>2. M \subseteq Cells
    BY <1>2, ZeroIsNoCell
  <2>3. QED
    BY <2>1, <2>2, FS_Subset
<1>6. Cardinality(M \ {head}) < Cardinality(M)
  <2>1. Cardinality(M \ {head}) = Cardinality(M) - 1
    BY <1>2, <1>5, FS_RemoveElement
  <2>2. Cardinality(M) \in Nat
    BY <1>5, FS_CardinalityType
  <2>3. QED
    BY <2>1, <2>2
<1>7. \E x, y \in M : x # y /\ f[x] = f[y]
  <2> HIDE DEF M, f, head
  <2>1. QED
    BY <1>4, <1>5, <1>6, FS_PigeonHole
<1>8. QED
  BY <1>3, <1>7

(* An owner that c does not delete has its list outside of what c deletes.   *)
LEMMA ListOutside ==
  ASSUME NEW h, NEW H, WellFormed(h, H), NEW a \in Owners(h), NEW c \in H,
         a \notin Deleted(h, c)
  PROVE  Members(h, a) \cap Deleted(h, c) = {}
<1> DEFINE S == Members(h, a) \ Deleted(h, c)
<1>1. a \in Live(h) /\ c \in Live(h) /\ Points(h)
  BY Links DEF Owners
<1>2. S \in SUBSET Live(h)
  BY <1>1, MemberFacts
<1>3. ASSUME NEW x \in Live(h), x \notin Deleted(h, c), NEW y \in Live(h), Leads(h, x, y)
      PROVE  y \notin Deleted(h, c)
  <2>1. y # c
    BY <1>3, OneLeads
  <2>2. QED
    BY <1>1, <1>3, <2>1, LeadsFromInside
<1>4. h[a].child \in S \cup {0}
  <2>1. SUFFICES ASSUME h[a].child # 0 PROVE h[a].child \notin Deleted(h, c)
    BY <1>1, MemberFacts
  <2>2. h[a].child \in Live(h) /\ Leads(h, a, h[a].child)
    BY <1>1, <2>1 DEF Points, Leads
  <2>3. QED
    BY <1>1, <1>3, <2>2
<1>5. ASSUME NEW x \in S, h[x].next # 0 PROVE h[x].next \in S
  <2>1. x \in Live(h) /\ h[x].next \in Members(h, a) /\ h[x].next \in Live(h)
    BY <1>1, <1>5, MemberFacts
  <2>2. Leads(h, x, h[x].next)
    BY DEF Leads
  <2>3. QED
    BY <1>3, <2>1, <2>2
<1> HIDE DEF S
<1>6. ClosedUnder(h, S, {})
  BY <1>5 DEF ClosedUnder
<1>7. Members(h, a) \subseteq S
  BY <1>2, <1>4, <1>6, WalkIsLeast DEF Members
<1>8. QED
  BY <1>7 DEF S

-------------------------------------------------------------------------------
(* A heap with consistent links is one whose every item is in any set with   *)
(* the items the program holds that nothing leads out of.                    *)
Reached(h, H) ==
  \A S \in SUBSET Live(h) :
    H \subseteq S /\ (\A x \in S, y \in Live(h) : Leads(h, x, y) => y \in S)
      => Live(h) \subseteq S

Neat(h, H) ==
  /\ Points(h) /\ H \subseteq Live(h)
  /\ \A x \in Live(h) :
       /\ h[x].prev \in Live(h) \cup {0}
       /\ h[x].next # 0 => h[h[x].next].prev = x
       /\ h[x].prev # 0 => h[h[x].prev].next = x
       /\ h[x].child # 0 => h[h[x].child].prev = 0
       /\ x \in H => h[x].next = 0 /\ h[x].prev = 0

Apart(h, H) ==
  /\ \A x, y \in Owners(h) : h[x].child = h[y].child /\ h[x].child # 0 => x = y
  /\ \A x \in Owners(h) : h[x].child \notin H
  /\ \A r \in Live(h) \ Owners(h) :
       h[r].of \in Owners(h) /\ h[r].child = h[h[r].of].child

LEMMA IsWellFormed ==
  ASSUME NEW h \in Heaps, NEW H, Neat(h, H), Apart(h, H), Reached(h, H)
  PROVE  WellFormed(h, H)
<1>1. Linked(h, H)
  <2>1. \A x \in Live(h) : {h[x].next, h[x].prev, h[x].child} \subseteq Live(h) \cup {0}
    BY DEF Neat, Points
  <2>2. QED
    BY <2>1 DEF Neat, Linked
<1>2. Listed(h, H)
  BY DEF Apart, Listed
<1>3. Kept(h, H)
  <2> DEFINE S == UNION {Deleted(h, c) : c \in H}
  <2>1. \A c \in H : c \in Live(h) /\ c # 0
    BY ZeroIsNoCell DEF Neat
  <2>2. ASSUME NEW c \in H
        PROVE  /\ c \in Deleted(h, c) /\ Deleted(h, c) \subseteq Live(h)
               /\ ClosedUnder(h, Deleted(h, c), Owners(h))
    BY <2>1, WalkIsLeast, WalkIsClosed DEF Deleted, Neat
  <2>3. S \in SUBSET Live(h) /\ H \subseteq S
    BY <2>2
  <2>4. ASSUME NEW x \in S, NEW y \in Live(h), Leads(h, x, y) PROVE y \in S
    <3>1. PICK c \in H : x \in Deleted(h, c)
      OBVIOUS
    <3>2. y # 0
      BY ZeroIsNoCell
    <3>3. y \in Deleted(h, c)
      BY <2>2, <2>4, <3>1, <3>2 DEF ClosedUnder, Leads
    <3>4. QED
      BY <3>3
  <2> HIDE DEF S
  <2>5. Live(h) \subseteq S
    BY <2>3, <2>4 DEF Reached
  <2>6. QED
    BY <2>3, <2>5 DEF Kept, S
<1>4. QED
  BY <1>1, <1>2, <1>3 DEF WellFormed

LEMMA WellFormedIs ==
  ASSUME NEW h, NEW H, WellFormed(h, H)
  PROVE  h \in Heaps /\ Neat(h, H) /\ Apart(h, H) /\ Reached(h, H)
<1>1. Points(h) /\ Kept(h, H) /\ h \in Heaps
  BY Links DEF WellFormed
<1>2. Neat(h, H)
  BY Links DEF Neat
<1>3. Apart(h, H)
  BY Links DEF Apart, Owners
<1>4. ASSUME NEW S \in SUBSET Live(h), H \subseteq S,
             \A x \in S, y \in Live(h) : Leads(h, x, y) => y \in S
      PROVE  Live(h) \subseteq S
  BY <1>1, <1>4, KeptIsAll
<1>5. QED
  BY <1>1, <1>2, <1>3, <1>4 DEF Reached

(* What is in use in a heap, and what is not.                                *)
LEMMA HeapParts ==
  ASSUME NEW h \in Heaps
  PROVE  /\ h = [x \in Cells |-> h[x]]
         /\ \A x \in Live(h) : h[x] \in Struct
         /\ \A x \in Cells \ Live(h) : h[x] \in {Free, Taken}
BY DEF Heaps, Live

LEMMA HeapIs ==
  ASSUME NEW g, g = [x \in Cells |-> g[x]], NEW L \in SUBSET Cells,
         \A x \in L : g[x] \in Struct,
         \A x \in Cells \ L : g[x] \in {Free, Taken}
  PROVE  g \in Heaps /\ Live(g) = L
<1>1. \A s \in Struct : s.kind \in Kinds
  BY DEF Struct
<1>2. Free.kind \notin Kinds /\ Taken.kind \notin Kinds
  BY DEF Free, Taken, Kinds, Words
<1>3. \A x \in L : g[x] \notin {Free, Taken}
  BY <1>1, <1>2
<1>4. QED
  BY <1>3 DEF Heaps, Live

-------------------------------------------------------------------------------
(* AddItem, where the list is empty and where it has a last member.          *)
FirstAdded(h, g, a, c) ==
  /\ g \in Heaps /\ Live(g) = Live(h) /\ Owners(g) = Owners(h)
  /\ \A x \in Live(h) :
       /\ g[x].next = h[x].next /\ g[x].prev = h[x].prev /\ g[x].of = h[x].of
       /\ g[x].child = IF x = a THEN c ELSE h[x].child

NextAdded(h, g, p, c) ==
  /\ g \in Heaps /\ Live(g) = Live(h) /\ Owners(g) = Owners(h)
  /\ \A x \in Live(h) :
       /\ g[x].child = h[x].child /\ g[x].of = h[x].of
       /\ g[x].next = IF x = p THEN c ELSE h[x].next
       /\ g[x].prev = IF x = c THEN p ELSE h[x].prev

LEMMA AddFirst ==
  ASSUME NEW h \in Heaps, NEW a \in Live(h), NEW c \in Live(h),
         NEW g, g = [h EXCEPT ![a].child = c]
  PROVE  FirstAdded(h, g, a, c)
<1>1. Live(h) \subseteq Cells /\ h = [x \in Cells |-> h[x]]
  BY ZeroIsNoCell, HeapParts
<1>2. g = [x \in Cells |-> g[x]]
  BY <1>1
<1>3. \A x \in Cells : x # a => g[x] = h[x]
  BY <1>1
<1>4. g[a] = [h[a] EXCEPT !.child = c]
  BY <1>1
<1>5. h[a] \in Struct /\ c \in Pointers
  BY <1>1, HeapParts DEF Pointers
<1>6. /\ g[a] \in Struct /\ g[a].child = c /\ g[a].ref = h[a].ref
      /\ g[a].next = h[a].next /\ g[a].prev = h[a].prev /\ g[a].of = h[a].of
  BY <1>4, <1>5 DEF Struct
<1>7. \A x \in Live(h) : g[x] \in Struct
  BY <1>1, <1>3, <1>6, HeapParts
<1>8. \A x \in Cells \ Live(h) : g[x] \in {Free, Taken}
  BY <1>3, HeapParts
<1>9. g \in Heaps /\ Live(g) = Live(h)
  BY <1>1, <1>2, <1>7, <1>8, HeapIs
<1>10. Owners(g) = Owners(h)
  BY <1>1, <1>3, <1>6, <1>9 DEF Owners
<1>11. QED
  BY <1>1, <1>3, <1>6, <1>9, <1>10 DEF FirstAdded

LEMMA AddNext ==
  ASSUME NEW h \in Heaps, NEW p \in Live(h), NEW c \in Live(h), p # c,
         NEW g, g = Suffix(h, p, c)
  PROVE  NextAdded(h, g, p, c)
<1>1. Live(h) \subseteq Cells /\ h = [x \in Cells |-> h[x]]
  BY ZeroIsNoCell, HeapParts
<1>2. g = [x \in Cells |-> g[x]]
  BY <1>1 DEF Suffix
<1>3. \A x \in Cells : x # p /\ x # c => g[x] = h[x]
  BY <1>1 DEF Suffix
<1>4. g[p] = [h[p] EXCEPT !.next = c] /\ g[c] = [h[c] EXCEPT !.prev = p]
  BY <1>1 DEF Suffix
<1>5. h[p] \in Struct /\ h[c] \in Struct /\ c \in Pointers /\ p \in Pointers
  BY <1>1, HeapParts DEF Pointers
<1>6. /\ g[p] \in Struct /\ g[p].next = c /\ g[p].ref = h[p].ref
      /\ g[p].child = h[p].child /\ g[p].prev = h[p].prev /\ g[p].of = h[p].of
  BY <1>4, <1>5 DEF Struct
<1>7. /\ g[c] \in Struct /\ g[c].prev = p /\ g[c].ref = h[c].ref
      /\ g[c].child = h[c].child /\ g[c].next = h[c].next /\ g[c].of = h[c].of
  BY <1>4, <1>5 DEF Struct
<1>8. \A x \in Live(h) : g[x] \in Struct
  BY <1>1, <1>3, <1>6, <1>7, HeapParts
<1>9. \A x \in Cells \ Live(h) : g[x] \in {Free, Taken}
  BY <1>3, HeapParts
<1>10. g \in Heaps /\ Live(g) = Live(h)
  BY <1>1, <1>2, <1>8, <1>9, HeapIs
<1>11. Owners(g) = Owners(h)
  BY <1>1, <1>3, <1>6, <1>7, <1>10 DEF Owners
<1>12. QED
  BY <1>1, <1>3, <1>6, <1>7, <1>10, <1>11 DEF NextAdded

(* An item that the program held is still in one when another leads to it.   *)
LEMMA ReachedByNewLink ==
  ASSUME NEW h, NEW H, WellFormed(h, H), NEW c \in H, NEW g, Live(g) = Live(h),
         \A x, y \in Live(h) : Leads(h, x, y) => Leads(g, x, y),
         NEW p \in Live(h), p \notin Deleted(h, c), Leads(g, p, c)
  PROVE  Reached(g, H \ {c})
<1> SUFFICES ASSUME NEW S \in SUBSET Live(g), H \ {c} \subseteq S,
                    \A x \in S, y \in Live(g) : Leads(g, x, y) => y \in S
             PROVE  Live(g) \subseteq S
  BY DEF Reached
<1> DEFINE T == S \cup Deleted(h, c)
<1>1. c \in Live(h) /\ Reached(h, H)
  BY WellFormedIs DEF Neat
<1>2. T \in SUBSET Live(h) /\ H \subseteq T
  BY <1>1, DeletedFacts
<1>3. ASSUME NEW x \in T, NEW y \in Live(h), Leads(h, x, y) PROVE y \in T
  <2>1. CASE x \in S
    BY <1>3, <2>1
  <2>2. CASE x \in Deleted(h, c)
    BY <1>1, <1>3, <2>2, DeletedFacts
  <2>3. QED
    BY <2>1, <2>2
<1>4. Live(h) \subseteq T
  <2> HIDE DEF T
  <2>1. QED
    BY <1>1, <1>2, <1>3 DEF Reached
<1>5. p \in S
  BY <1>4
<1>6. c \in S
  BY <1>1, <1>5
<1>7. H \subseteq S /\ \A x \in S, y \in Live(h) : Leads(h, x, y) => y \in S
  BY <1>6
<1>8. QED
  BY <1>1, <1>7 DEF Reached

LEMMA LinkFirstKeeps ==
  ASSUME NEW h, NEW H, WellFormed(h, H), NEW a \in Owners(h), NEW c \in H, h[a].child = 0,
         a \notin Deleted(h, c), \A r \in Live(h) \ Owners(h) : h[r].of # a,
         NEW g, FirstAdded(h, g, a, c)
  PROVE  WellFormed(g, H \ {c})
<1>1. /\ h \in Heaps /\ a \in Live(h) /\ c \in Live(h) /\ c # 0 /\ H \subseteq Live(h)
      /\ h[c].next = 0 /\ h[c].prev = 0
  BY WellFormedIs, ZeroIsNoCell DEF Neat, Owners
<1>2. Neat(g, H \ {c})
  <2>1. Neat(h, H)
    BY WellFormedIs
  <2>2. Points(g)
    BY <1>1, <2>1 DEF Neat, Points, FirstAdded
  <2>3. QED
    BY <1>1, <2>1, <2>2 DEF Neat, Points, FirstAdded
<1>3. Apart(g, H \ {c})
  <2>1. Apart(h, H)
    BY WellFormedIs
  <2>2. \A x, y \in Owners(g) : g[x].child = g[y].child /\ g[x].child # 0 => x = y
    BY <1>1, <2>1 DEF Apart, Owners, FirstAdded
  <2>3. \A x \in Owners(g) : g[x].child \notin H \ {c}
    BY <1>1, <2>1 DEF Apart, Owners, FirstAdded
  <2>4. ASSUME NEW r \in Live(g) \ Owners(g)
        PROVE  g[r].of \in Owners(g) /\ g[r].child = g[g[r].of].child
    <3>1. r # a /\ h[r].of # a /\ h[r].of \in Owners(h) /\ h[r].of \in Live(h)
          /\ r \in Live(h) /\ h[r].child = h[h[r].of].child
      BY <2>1, <2>4 DEF Apart, Owners, FirstAdded
    <3>2. QED
      BY <3>1 DEF FirstAdded
  <2>5. QED
    BY <2>2, <2>3, <2>4 DEF Apart
<1>4. Reached(g, H \ {c})
  <2>1. \A x, y \in Live(h) : Leads(h, x, y) => Leads(g, x, y)
    BY ZeroIsNoCell DEF Leads, FirstAdded
  <2>2. Leads(g, a, c)
    BY <1>1 DEF Leads, FirstAdded
  <2>3. QED
    BY <1>1, <2>1, <2>2, ReachedByNewLink DEF FirstAdded
<1>5. QED
  BY <1>2, <1>3, <1>4, IsWellFormed DEF FirstAdded

LEMMA LinkNextKeeps ==
  ASSUME NEW h, NEW H, WellFormed(h, H), NEW p \in Live(h) \ H, NEW c \in H, h[p].next = 0,
         p \notin Deleted(h, c), NEW g, NextAdded(h, g, p, c)
  PROVE  WellFormed(g, H \ {c})
<1>1. /\ h \in Heaps /\ c \in Live(h) /\ c # 0 /\ H \subseteq Live(h)
      /\ h[c].next = 0 /\ h[c].prev = 0
  BY WellFormedIs, ZeroIsNoCell DEF Neat, Owners
<1>2. p # c /\ p # 0
  BY <1>1, DeletedFacts, ZeroIsNoCell
<1>3. Neat(h, H) /\ Apart(h, H)
  BY WellFormedIs
<1>4. Neat(g, H \ {c})
  <2>1. Points(g)
    BY <1>1, <1>3 DEF Neat, Points, NextAdded
  <2>2. ASSUME NEW x \in Live(h)
        PROVE  /\ g[x].prev \in Live(h) \cup {0}
               /\ g[x].next # 0 => g[g[x].next].prev = x
               /\ g[x].prev # 0 => g[g[x].prev].next = x
               /\ x \in H \ {c} => g[x].next = 0 /\ g[x].prev = 0
    <3>1. /\ h[x].prev \in Live(h) \cup {0} /\ h[x].next \in Live(h) \cup {0}
          /\ h[x].next # 0 => h[h[x].next].prev = x
          /\ h[x].prev # 0 => h[h[x].prev].next = x
          /\ x \in H => h[x].next = 0 /\ h[x].prev = 0
          /\ x # 0
      BY <1>3, ZeroIsNoCell DEF Neat, Points
    <3>2. h[x].next # c /\ h[x].prev # p
      BY <1>1, <1>2, <3>1
    <3>3. x = p => g[x].next = c /\ g[x].prev = h[x].prev
      BY <1>2 DEF NextAdded
    <3>4. x = c => g[x].next = h[x].next /\ g[x].prev = p
      BY <1>2 DEF NextAdded
    <3>5. x # p /\ x # c => g[x].next = h[x].next /\ g[x].prev = h[x].prev
      BY DEF NextAdded
    <3>6. g[x].prev \in Live(h) \cup {0}
      BY <1>2, <3>1, <3>3, <3>4, <3>5
    <3>7. g[x].next # 0 => g[g[x].next].prev = x
      BY <1>1, <1>2, <3>1, <3>2, <3>3, <3>4, <3>5 DEF NextAdded
    <3>8. g[x].prev # 0 => g[g[x].prev].next = x
      BY <1>1, <1>2, <3>1, <3>2, <3>3, <3>4, <3>5 DEF NextAdded
    <3>9. x \in H \ {c} => g[x].next = 0 /\ g[x].prev = 0
      BY <1>2, <3>1, <3>3, <3>4, <3>5
    <3>10. QED
      BY <3>6, <3>7, <3>8, <3>9
  <2>3. ASSUME NEW x \in Live(h), g[x].child # 0
        PROVE  g[g[x].child].prev = 0
    <3>1. h[x].child # c
      BY <1>1, Links
    <3>2. QED
      BY <1>3, <2>3, <3>1 DEF Neat, Points, NextAdded
  <2>4. QED
    BY <1>1, <2>1, <2>2, <2>3 DEF Neat, NextAdded
<1>5. Apart(g, H \ {c})
  BY <1>3 DEF Apart, Owners, NextAdded
<1>6. Reached(g, H \ {c})
  <2>1. \A x, y \in Live(h) : Leads(h, x, y) => Leads(g, x, y)
    BY ZeroIsNoCell DEF Leads, NextAdded
  <2>2. Leads(g, p, c)
    BY <1>2 DEF Leads, NextAdded
  <2>3. QED
    BY <1>1, <1>2, <2>1, <2>2, ReachedByNewLink DEF NextAdded
<1>7. QED
  BY <1>4, <1>5, <1>6, IsWellFormed DEF NextAdded

LEMMA AddKeeps ==
  ASSUME NEW h, NEW H, WellFormed(h, H), NEW a \in Owners(h), NEW c \in H,
         a \notin Deleted(h, c), \A r \in Live(h) \ Owners(h) : h[r].of # a
  PROVE  WellFormed(AddItem(h, a, c), H \ {c})
<1>1. CASE h[a].child = 0
  <2> DEFINE g == [h EXCEPT ![a].child = c]
  <2>1. AddItem(h, a, c) = g
    BY <1>1 DEF AddItem
  <2> HIDE DEF g
  <2>2. FirstAdded(h, g, a, c)
    BY AddFirst, WellFormedIs DEF g, Neat, Owners
  <2>3. QED
    BY <1>1, <2>1, <2>2, LinkFirstKeeps
<1>2. CASE h[a].child # 0
  <2> DEFINE p == CHOOSE last \in Members(h, a) : h[last].next = 0
             g == Suffix(h, p, c)
  <2>1. p \in Members(h, a) /\ h[p].next = 0
    BY <1>2, LastExists DEF Owners
  <2>2. AddItem(h, a, c) = g
    BY <1>2 DEF AddItem
  <2> HIDE DEF p, g
  <2>3. p \in Live(h) \ H /\ p \notin Deleted(h, c)
    BY <2>1, MemberFacts, ListOutside DEF Owners
  <2>4. c \in Live(h) /\ c # p /\ h \in Heaps
    BY <2>3, WellFormedIs DEF Neat
  <2>5. NextAdded(h, g, p, c)
    BY <2>3, <2>4, AddNext DEF g
  <2>6. QED
    BY <2>1, <2>2, <2>3, <2>5, LinkNextKeeps
<1>3. QED
  BY <1>1, <1>2

-------------------------------------------------------------------------------
(* Another name changes no link.                                             *)
SameLinks(h, g) ==
  /\ g \in Heaps /\ Live(g) = Live(h) /\ Owners(g) = Owners(h)
  /\ \A x \in Live(h) :
       /\ g[x].next = h[x].next /\ g[x].prev = h[x].prev
       /\ g[x].child = h[x].child /\ g[x].of = h[x].of

LEMMA RenameFacts ==
  ASSUME NEW h \in Heaps, NEW c \in Live(h), NEW n \in Texts
  PROVE  SameLinks(h, [h EXCEPT ![c].string = n])
<1> DEFINE g == [h EXCEPT ![c].string = n]
<1>1. Live(h) \subseteq Cells /\ h = [x \in Cells |-> h[x]]
  BY ZeroIsNoCell, HeapParts
<1>2. /\ g = [x \in Cells |-> g[x]]
      /\ \A x \in Cells : x # c => g[x] = h[x]
      /\ g[c] = [h[c] EXCEPT !.string = n]
  BY <1>1
<1> HIDE DEF g
<1>3. h[c] \in Struct
  BY HeapParts
<1>4. /\ g[c] \in Struct /\ g[c].ref = h[c].ref /\ g[c].child = h[c].child
      /\ g[c].next = h[c].next /\ g[c].prev = h[c].prev /\ g[c].of = h[c].of
  BY <1>2, <1>3 DEF Struct
<1>5. \A x \in Live(h) : g[x] \in Struct
  BY <1>1, <1>2, <1>4, HeapParts
<1>6. \A x \in Cells \ Live(h) : g[x] \in {Free, Taken}
  BY <1>2, HeapParts
<1>7. g \in Heaps /\ Live(g) = Live(h)
  BY <1>1, <1>2, <1>5, <1>6, HeapIs
<1>8. Owners(g) = Owners(h)
  BY <1>1, <1>2, <1>4, <1>7 DEF Owners
<1>9. SameLinks(h, g)
  BY <1>1, <1>2, <1>4, <1>7, <1>8 DEF SameLinks
<1>10. QED
  BY <1>9 DEF g

LEMMA SameLinksKeep ==
  ASSUME NEW h, NEW H, WellFormed(h, H), NEW g, SameLinks(h, g)
  PROVE  /\ WellFormed(g, H)
         /\ \A c : Deleted(g, c) = Deleted(h, c)
         /\ \A a \in Live(h) : Members(g, a) = Members(h, a)
<1>1. /\ g \in Heaps /\ Live(g) = Live(h) /\ Owners(g) = Owners(h)
      /\ \A x \in Live(h) :
           /\ g[x].next = h[x].next /\ g[x].prev = h[x].prev
           /\ g[x].child = h[x].child /\ g[x].of = h[x].of
  BY DEF SameLinks
<1>2. Neat(h, H) /\ Apart(h, H) /\ Reached(h, H)
  BY WellFormedIs
<1>3. Neat(g, H)
  <2>1. Points(g)
    BY <1>1, <1>2 DEF Neat, Points
  <2>2. QED
    BY <1>1, <1>2, <2>1 DEF Neat, Points
<1>4. Apart(g, H)
  BY <1>1, <1>2 DEF Apart, Owners
<1>5. Reached(g, H)
  <2>1. \A x, y \in Live(h) : Leads(h, x, y) <=> Leads(g, x, y)
    BY <1>1 DEF Leads
  <2>2. QED
    BY <1>1, <1>2, <2>1 DEF Reached
<1>6. \A c, down : Walked(g, c, down) = Walked(h, c, down)
  BY <1>1, SameWalk
<1>7. WellFormed(g, H)
  BY <1>1, <1>3, <1>4, <1>5, IsWellFormed
<1>8. \A c : Deleted(g, c) = Deleted(h, c)
  BY <1>1, <1>6 DEF Deleted
<1>9. \A a \in Live(h) : Members(g, a) = Members(h, a)
  BY <1>1, <1>6 DEF Members
<1>10. QED
  BY <1>7, <1>8, <1>9

-------------------------------------------------------------------------------
(* What a reader of an item comes to has in it all that the item deletes.    *)
LEMMA DeletedIsShown ==
  ASSUME NEW h, NEW H, WellFormed(h, H), NEW c \in H
  PROVE  Deleted(h, c) \subseteq Shown(h, c)
<1> DEFINE W == Walked(h, h[c].child, Live(h))
           S == {c} \cup W
<1>1. c \in Live(h) /\ Points(h) /\ h[c].next = 0 /\ h[c].child \in Live(h) \cup {0}
  BY WellFormedIs DEF Neat, Points
<1>2. /\ W \subseteq Live(h) /\ h[c].child \in W \cup {0}
      /\ \A x \in W : h[x].next \in W \cup {0} /\ h[x].child \in W \cup {0}
  <2>1. W \subseteq Live(h)
    BY WalkIsLeast
  <2>2. h[c].child \in W \cup {0} /\ ClosedUnder(h, W, Live(h))
    BY <1>1, WalkIsClosed
  <2> HIDE DEF W
  <2>3. QED
    BY <2>1, <2>2 DEF ClosedUnder
<1>3. S = Shown(h, c)
  BY DEF Shown
<1>4. S \in SUBSET Live(h) /\ c \in S
  BY <1>1, <1>2
<1>5. ClosedUnder(h, S, Owners(h))
  <2> HIDE DEF W
  <2>1. QED
    BY <1>1, <1>2 DEF ClosedUnder
<1> HIDE DEF S
<1>6. Deleted(h, c) \subseteq S
  BY <1>4, <1>5, WalkIsLeast DEF Deleted
<1>7. QED
  BY <1>3, <1>6

LEMMA ReferenceKeeps ==
  ASSUME NEW h, NEW H, WellFormed(h, H), NEW i \in Live(h), NEW r \in Unused(h),
         NEW g, g = Reference(h, i, r)
  PROVE  /\ WellFormed(g, H \cup {r}) /\ Deleted(g, r) = {r}
         /\ Live(g) = Live(h) \cup {r} /\ Owners(g) = Owners(h)
         /\ \A x \in Live(h) : g[x] = h[x]
         /\ g[r].of = IF h[i].ref THEN h[i].of ELSE i
<1>1. /\ h \in Heaps /\ Neat(h, H) /\ Apart(h, H) /\ Reached(h, H)
      /\ r \in Cells /\ r \notin Live(h) /\ r # 0 /\ Live(h) \subseteq Cells
  BY WellFormedIs, ZeroIsNoCell DEF Unused, Live
<1>2. h = [x \in Cells |-> h[x]] /\ h[i] \in Struct
  BY <1>1, HeapParts
<1>3. /\ g = [x \in Cells |-> g[x]]
      /\ \A x \in Cells : x # r => g[x] = h[x]
      /\ g[r] = [h[i] EXCEPT !.string = NoName, !.ref = TRUE, !.next = 0, !.prev = 0,
                             !.of = IF h[i].ref THEN h[i].of ELSE i]
  BY <1>1, <1>2 DEF Reference
<1>4. h[i].of \in Pointers /\ i \in Pointers /\ h[i].child \in Pointers
  BY <1>1, <1>2 DEF Struct, Pointers
<1>5. 0 \in Pointers
  BY DEF Pointers
<1>6. /\ g[r].ref = TRUE /\ g[r].next = 0 /\ g[r].prev = 0
      /\ g[r].child = h[i].child /\ g[r].of = IF h[i].ref THEN h[i].of ELSE i
  BY <1>2, <1>3 DEF Struct
<1>7. g[r] \in Struct
  <2>1. (IF h[i].ref THEN h[i].of ELSE i) \in Pointers
    BY <1>4
  <2>2. QED
    BY <1>2, <1>3, <1>5, <2>1 DEF Struct
<1>8. g \in Heaps /\ Live(g) = Live(h) \cup {r}
  <2> DEFINE L == Live(h) \cup {r}
  <2>1. L \in SUBSET Cells
    BY <1>1
  <2>2. \A x \in L : g[x] \in Struct
    BY <1>1, <1>3, <1>7, HeapParts
  <2>3. \A x \in Cells \ L : g[x] \in {Free, Taken}
    BY <1>1, <1>3, HeapParts
  <2> HIDE DEF L
  <2>4. g \in Heaps /\ Live(g) = L
    BY <1>3, <2>1, <2>2, <2>3, HeapIs
  <2>5. QED
    BY <2>4 DEF L
<1>9. \A x \in Live(h) : g[x] = h[x] /\ x # r
  BY <1>1, <1>3
<1>10. Owners(g) = Owners(h)
  BY <1>6, <1>8, <1>9 DEF Owners
<1>11. Neat(g, H \cup {r})
  <2>1. h[i].child \in Live(h) \cup {0}
    BY <1>1 DEF Neat, Points
  <2>2. Points(g)
    BY <1>1, <1>6, <1>8, <1>9, <2>1 DEF Neat, Points
  <2>3. ASSUME NEW x \in Live(h)
        PROVE  /\ g[x].prev \in Live(g) \cup {0}
               /\ g[x].next # 0 => g[g[x].next].prev = x
               /\ g[x].prev # 0 => g[g[x].prev].next = x
               /\ g[x].child # 0 => g[g[x].child].prev = 0
               /\ x \in H \cup {r} => g[x].next = 0 /\ g[x].prev = 0
    BY <1>1, <1>8, <1>9 DEF Neat, Points
  <2>4. g[r].child # 0 => g[g[r].child].prev = 0
    BY <1>1, <1>6, <1>9, <2>1 DEF Neat
  <2>5. H \cup {r} \subseteq Live(g)
    BY <1>1, <1>8 DEF Neat
  <2>6. QED
    BY <1>6, <1>8, <2>2, <2>3, <2>4, <2>5 DEF Neat
<1>12. Apart(g, H \cup {r})
  <2>1. \A x \in Owners(h) : x \in Live(h)
    BY DEF Owners
  <2>2. \A x, y \in Owners(g) : g[x].child = g[y].child /\ g[x].child # 0 => x = y
    BY <1>1, <1>9, <1>10, <2>1 DEF Apart
  <2>3. \A x \in Owners(g) : g[x].child \notin H \cup {r}
    BY <1>1, <1>9, <1>10, <2>1 DEF Apart, Neat, Points
  <2>4. \A x \in Live(h) \ Owners(h) :
          g[x].of \in Owners(g) /\ g[x].child = g[g[x].of].child
    BY <1>1, <1>9, <1>10, <2>1 DEF Apart
  <2>5. g[r].of \in Owners(g) /\ g[r].child = g[g[r].of].child
    <3>1. CASE h[i].ref
      <4>1. i \in Live(h) \ Owners(h)
        BY <3>1 DEF Owners
      <4>2. g[r].of = h[i].of /\ h[i].of \in Owners(h) /\ h[i].child = h[h[i].of].child
        BY <1>1, <1>6, <3>1, <4>1 DEF Apart
      <4>3. QED
        BY <1>6, <1>9, <1>10, <2>1, <4>2
    <3>2. CASE ~h[i].ref
      <4>1. i \in Owners(h) /\ g[r].of = i
        BY <1>6, <3>2 DEF Owners
      <4>2. QED
        BY <1>6, <1>9, <1>10, <4>1
    <3>3. QED
      BY <3>1, <3>2
  <2>6. \A x \in Live(g) \ Owners(g) :
          g[x].of \in Owners(g) /\ g[x].child = g[g[x].of].child
    BY <1>8, <1>10, <2>4, <2>5
  <2>7. QED
    BY <2>2, <2>3, <2>6 DEF Apart
<1>13. Reached(g, H \cup {r})
  <2> SUFFICES ASSUME NEW S \in SUBSET Live(g), H \cup {r} \subseteq S,
                      \A x \in S, y \in Live(g) : Leads(g, x, y) => y \in S
               PROVE  Live(g) \subseteq S
    BY DEF Reached
  <2> DEFINE T == S \cap Live(h)
  <2>1. T \in SUBSET Live(h) /\ H \subseteq T
    BY <1>1 DEF Neat
  <2>2. ASSUME NEW x \in T, NEW y \in Live(h), Leads(h, x, y) PROVE y \in T
    <3>1. Leads(g, x, y) /\ y \in Live(g) /\ x \in S
      BY <1>8, <1>9, <1>10, <2>2 DEF Leads
    <3>2. QED
      BY <3>1
  <2> HIDE DEF T
  <2>3. Live(h) \subseteq T
    BY <1>1, <2>1, <2>2 DEF Reached
  <2>4. QED
    BY <1>8, <2>3 DEF T
<1>14. Deleted(g, r) = {r}
  <2>1. {r} \in SUBSET Live(g) /\ r \in {r} \cup {0} /\ ClosedUnder(g, {r}, Owners(g))
    BY <1>6, <1>8 DEF ClosedUnder, Owners
  <2>2. Deleted(g, r) \subseteq {r}
    BY <2>1, WalkIsLeast DEF Deleted
  <2>3. r \in Deleted(g, r)
    BY <1>1, <1>8, <1>11, WalkIsClosed DEF Deleted, Neat
  <2>4. QED
    BY <2>2, <2>3
<1>15. WellFormed(g, H \cup {r})
  BY <1>8, <1>11, <1>12, <1>13, IsWellFormed
<1>16. QED
  BY <1>6, <1>8, <1>9, <1>10, <1>14, <1>15

-------------------------------------------------------------------------------
(* Where a member of a list stands.                                          *)
Before(h, a, c) == IF h[c].prev = 0 THEN a ELSE h[c].prev

LEMMA MembersDeleted ==
  ASSUME NEW h, NEW H, WellFormed(h, H), NEW a \in Owners(h)
  PROVE  Members(h, a) \subseteq Deleted(h, a)
<1>1. a \in Live(h) /\ Points(h) /\ h[a].child \in Live(h) \cup {0}
  BY WellFormedIs DEF Neat, Points, Owners
<1>2. /\ a \in Deleted(h, a) /\ Deleted(h, a) \in SUBSET Live(h)
      /\ ClosedUnder(h, Deleted(h, a), Owners(h))
  BY <1>1, WalkIsLeast, WalkIsClosed, ZeroIsNoCell DEF Deleted
<1>3. h[a].child \in Deleted(h, a) \cup {0} /\ ClosedUnder(h, Deleted(h, a), {})
  BY <1>2 DEF ClosedUnder
<1>4. QED
  BY <1>2, <1>3, WalkIsLeast DEF Members

LEMMA MemberPlace ==
  ASSUME NEW h, NEW H, WellFormed(h, H), NEW a \in Owners(h), NEW c \in Members(h, a)
  PROVE  /\ a \in Live(h) /\ c \in Live(h) /\ c \notin H /\ a # c
         /\ h[c].prev = 0 <=> h[a].child = c
         /\ h[c].prev # 0 => h[c].prev \in Live(h) /\ h[h[c].prev].next = c
         /\ h[c].next # 0 => h[c].next \in Live(h) /\ h[h[c].next].prev = c
         /\ Before(h, a, c) \in Live(h) /\ Before(h, a, c) \notin Deleted(h, c)
         /\ Leads(h, Before(h, a, c), c)
         /\ c # h[c].prev /\ c # h[c].next
         /\ h[c].prev # 0 => h[c].prev # h[c].next
<1>1. /\ a \in Live(h) /\ c \in Live(h) /\ c \notin H /\ c # 0
      /\ c = h[a].child \/ \E x \in Members(h, a) : h[x].next = c
  BY MemberFacts, ZeroIsNoCell DEF Owners
<1>2. Neat(h, H)
  BY WellFormedIs
<1>3. /\ h[c].prev # 0 => h[c].prev \in Live(h) /\ h[h[c].prev].next = c
      /\ h[c].next # 0 => h[c].next \in Live(h) /\ h[h[c].next].prev = c
      /\ h[a].child = c => h[c].prev = 0
  BY <1>1, <1>2 DEF Neat, Points
<1>4. ASSUME h[a].child # c
      PROVE  h[c].prev \in Members(h, a) /\ h[c].prev # 0
  <2>1. PICK x \in Members(h, a) : h[x].next = c
    BY <1>1, <1>4
  <2>2. x \in Live(h) /\ x # 0
    BY <1>1, MemberFacts, ZeroIsNoCell
  <2>3. h[c].prev = x
    BY <1>1, <1>2, <2>1, <2>2 DEF Neat
  <2>4. QED
    BY <2>1, <2>2, <2>3
<1>5. h[c].prev = 0 <=> h[a].child = c
  BY <1>3, <1>4
<1>6. Before(h, a, c) \in Live(h) /\ Leads(h, Before(h, a, c), c)
  BY <1>1, <1>3, <1>5 DEF Before, Leads
<1>7. Before(h, a, c) \notin Deleted(h, c)
  BY <1>1, <1>6, NoCycle
<1>8. c \in Deleted(h, c) /\ (h[c].next # 0 => h[c].next \in Deleted(h, c))
  BY <1>1, <1>3, DeletedFacts DEF Leads
<1>9. a # c
  <2>1. SUFFICES ASSUME a = c PROVE FALSE
    OBVIOUS
  <2>2. CASE h[c].prev = 0
    BY <1>7, <1>8, <2>1, <2>2 DEF Before
  <2>3. CASE h[c].prev # 0
    <3>1. h[c].prev \in Deleted(h, c)
      BY <1>4, <1>5, <2>1, <2>3, MembersDeleted
    <3>2. QED
      BY <1>7, <2>3, <3>1 DEF Before
  <2>4. QED
    BY <2>2, <2>3
<1>10. /\ c # h[c].prev /\ c # h[c].next
       /\ h[c].prev # 0 => h[c].prev # h[c].next
  <2>1. c # h[c].prev
    BY <1>1, <1>7, <1>8 DEF Before
  <2>2. h[c].prev # 0 => h[c].prev # h[c].next
    BY <1>7, <1>8 DEF Before
  <2>3. c # h[c].next
    BY <1>1, <1>3, <2>1
  <2>4. QED
    BY <2>1, <2>2, <2>3
<1>11. QED
  BY <1>1, <1>3, <1>5, <1>6, <1>7, <1>9, <1>10

(* Nothing but the owner of the list has its head for a child.               *)
LEMMA OneHead ==
  ASSUME NEW h, NEW H, WellFormed(h, H), NEW a \in Owners(h), NEW c \in Members(h, a),
         Unreferred(h, {a}), NEW x \in Live(h), h[x].child = c
  PROVE  x = a /\ h[c].prev = 0
<1>1. c # 0 /\ Neat(h, H) /\ Apart(h, H)
  BY MemberPlace, WellFormedIs, ZeroIsNoCell
<1>2. h[c].prev = 0
  BY <1>1 DEF Neat
<1>3. h[a].child = c
  BY <1>2, MemberPlace
<1>4. CASE x \in Owners(h)
  BY <1>1, <1>2, <1>3, <1>4 DEF Apart
<1>5. CASE x \notin Owners(h)
  <2>1. h[x].of \in Owners(h) /\ h[h[x].of].child = c
    BY <1>1, <1>5 DEF Apart
  <2>2. h[x].of = a
    BY <1>1, <1>3, <2>1 DEF Apart
  <2>3. x # a /\ h[x].ref
    BY <1>5 DEF Owners
  <2>4. QED
    BY <2>2, <2>3 DEF Unreferred
<1>6. QED
  BY <1>4, <1>5

(* When c is taken out of a list, and what leads to it leads to what was     *)
(* after it, everything is still in an item that the program holds: in N     *)
(* is what may come to it another way.                                       *)
LEMMA ReachedWithout ==
  ASSUME NEW h, NEW H, WellFormed(h, H), NEW c \in Live(h), NEW p \in Live(h),
         p \notin Deleted(h, c), Leads(h, p, c),
         NEW N \in SUBSET Live(h), p \notin N,
         \A x \in N, y \in Live(h) : Leads(h, x, y) => y \in N,
         NEW g, Live(g) = Live(h),
         \A x, y \in Live(h) : Leads(h, x, y) /\ x # c /\ y # c => Leads(g, x, y),
         NEW G, c \in G, H \subseteq G \cup N,
         \A S \in SUBSET Live(h) :
           G \subseteq S /\ p \in S /\ (\A x \in S, y \in Live(h) : Leads(g, x, y) => y \in S)
             => H \subseteq S /\ \A y \in Live(h) : Leads(h, c, y) => y \in S
  PROVE  Reached(g, G)
<1> SUFFICES ASSUME NEW S \in SUBSET Live(g), G \subseteq S,
                    \A x \in S, y \in Live(g) : Leads(g, x, y) => y \in S
             PROVE  Live(g) \subseteq S
  BY DEF Reached
<1> DEFINE Z == Deleted(h, c)
           T == S \cup Z \cup N
<1>1. /\ Reached(h, H)
      /\ c \in Z /\ Z \subseteq Live(h)
      /\ \A x \in Z, y \in Live(h) : Leads(h, x, y) => y \in Z
  BY WellFormedIs, DeletedFacts
<1> HIDE DEF Z
<1>2. T \in SUBSET Live(h) /\ H \subseteq T
  BY <1>1
<1>3. ASSUME NEW x \in T, NEW y \in Live(h), Leads(h, x, y) PROVE y \in T
  <2>1. CASE x \in Z \/ y = c
    BY <1>1, <1>3, <2>1
  <2>2. CASE x \in N
    BY <1>3, <2>2
  <2>3. CASE x \in S /\ x # c /\ y # c
    <3>1. Leads(g, x, y)
      BY <1>3, <2>3
    <3>2. QED
      BY <2>3, <3>1
  <2>4. QED
    BY <1>1, <1>3, <2>1, <2>2, <2>3
<1>4. Live(h) \subseteq T
  <2> HIDE DEF T
  <2>1. QED
    BY <1>1, <1>2, <1>3 DEF Reached
<1>5. p \in S
  BY <1>4 DEF Z
<1>6. H \subseteq S /\ \A y \in Live(h) : Leads(h, c, y) => y \in S
  BY <1>5
<1>7. ASSUME NEW x \in S, NEW y \in Live(h), Leads(h, x, y) PROVE y \in S
  <2>1. CASE x = c \/ y = c
    BY <1>6, <1>7, <2>1
  <2>2. CASE x # c /\ y # c
    <3>1. Leads(g, x, y)
      BY <1>7, <2>2
    <3>2. QED
      BY <3>1
  <2>3. QED
    BY <2>1, <2>2
<1>8. QED
  BY <1>1, <1>6, <1>7 DEF Reached

-------------------------------------------------------------------------------
(* DetachItem and Swap, link by link.                                        *)
AroundIs(h, g, a, c, left, right) ==
  /\ g \in Heaps /\ Live(g) = Live(h) /\ Owners(g) = Owners(h)
  /\ \A x \in Live(h) :
       /\ g[x].of = h[x].of
       /\ g[x].next = IF x = h[c].prev THEN right ELSE h[x].next
       /\ g[x].prev = IF x = h[c].next THEN left ELSE h[x].prev
       /\ g[x].child = IF x = a /\ h[x].child = c THEN right ELSE h[x].child

LEMMA AroundFacts ==
  ASSUME NEW h \in Heaps, NEW a, NEW c, NEW left \in Pointers, NEW right \in Pointers
  PROVE  AroundIs(h, Around(h, a, c, left, right), a, c, left, right)
<1> DEFINE g == Around(h, a, c, left, right)
           new(x) == [h[x] EXCEPT !.next = IF x = h[c].prev THEN right ELSE @,
                                  !.prev = IF x = h[c].next THEN left ELSE @,
                                  !.child = IF x = a /\ @ = c THEN right ELSE @]
<1>1. Live(h) \subseteq Cells
  BY ZeroIsNoCell
<1>0. g = [x \in Cells |-> g[x]]
  BY DEF Around
<1>2. /\ \A x \in Cells \ Live(h) : g[x] = h[x]
      /\ \A x \in Live(h) : g[x] = new(x)
  BY <1>1 DEF Around
<1> HIDE DEF g
<1>3. ASSUME NEW x \in Live(h)
      PROVE  /\ g[x] \in Struct
             /\ g[x].of = h[x].of /\ g[x].ref = h[x].ref
             /\ g[x].next = IF x = h[c].prev THEN right ELSE h[x].next
             /\ g[x].prev = IF x = h[c].next THEN left ELSE h[x].prev
             /\ g[x].child = IF x = a /\ h[x].child = c THEN right ELSE h[x].child
  <2>1. h[x] \in Struct
    BY HeapParts
  <2>2. g[x] = [h[x] EXCEPT !.next = IF x = h[c].prev THEN right ELSE h[x].next,
                            !.prev = IF x = h[c].next THEN left ELSE h[x].prev,
                            !.child = IF x = a /\ h[x].child = c THEN right ELSE h[x].child]
    BY <1>2, <2>1 DEF Struct
  <2>3. h[x].next \in Pointers /\ h[x].prev \in Pointers /\ h[x].child \in Pointers
    BY <2>1 DEF Struct
  <2>4. QED
    BY <2>1, <2>2, <2>3 DEF Struct
<1>4. \A x \in Cells \ Live(h) : g[x] \in {Free, Taken}
  BY <1>2, HeapParts
<1>5. \A x \in Live(h) : g[x] \in Struct
  BY <1>3
<1>6. g \in Heaps /\ Live(g) = Live(h)
  BY <1>0, <1>1, <1>4, <1>5, HeapIs
<1>7. Owners(g) = Owners(h)
  BY <1>3, <1>6 DEF Owners
<1>8. \A x \in Live(h) :
        /\ g[x].of = h[x].of
        /\ g[x].next = IF x = h[c].prev THEN right ELSE h[x].next
        /\ g[x].prev = IF x = h[c].next THEN left ELSE h[x].prev
        /\ g[x].child = IF x = a /\ h[x].child = c THEN right ELSE h[x].child
  BY <1>3
<1>9. AroundIs(h, g, a, c, left, right)
  BY <1>6, <1>7, <1>8 DEF AroundIs
<1>10. QED
  BY <1>9 DEF g

(* Another next and prev for an item.                                        *)
PlacedIs(h, g, c, n, p) ==
  /\ g \in Heaps /\ Live(g) = Live(h) /\ Owners(g) = Owners(h)
  /\ g[c].next = n /\ g[c].prev = p /\ g[c].child = h[c].child /\ g[c].of = h[c].of
  /\ \A x \in Cells : x # c => g[x] = h[x]

LEMMA PlaceFacts ==
  ASSUME NEW h \in Heaps, NEW c \in Live(h), NEW n \in Pointers, NEW p \in Pointers
  PROVE  PlacedIs(h, [h EXCEPT ![c].next = n, ![c].prev = p], c, n, p)
<1> DEFINE g == [h EXCEPT ![c].next = n, ![c].prev = p]
<1>1. Live(h) \subseteq Cells /\ h = [x \in Cells |-> h[x]] /\ h[c] \in Struct
  BY ZeroIsNoCell, HeapParts
<1>0. g = [x \in Cells |-> g[x]]
  BY <1>1
<1>2. /\ \A x \in Cells : x # c => g[x] = h[x]
      /\ g[c] = [h[c] EXCEPT !.next = n, !.prev = p]
  BY <1>1
<1> HIDE DEF g
<1>3. /\ g[c] \in Struct /\ g[c].next = n /\ g[c].prev = p
      /\ g[c].child = h[c].child /\ g[c].of = h[c].of /\ g[c].ref = h[c].ref
  BY <1>1, <1>2 DEF Struct
<1>4. \A x \in Live(h) : g[x] \in Struct
  BY <1>1, <1>2, <1>3, HeapParts
<1>5. \A x \in Cells \ Live(h) : g[x] \in {Free, Taken}
  BY <1>2, HeapParts
<1>6. g \in Heaps /\ Live(g) = Live(h)
  BY <1>0, <1>1, <1>4, <1>5, HeapIs
<1>7. Owners(g) = Owners(h)
  BY <1>1, <1>2, <1>3, <1>6 DEF Owners
<1>8. PlacedIs(h, g, c, n, p)
  BY <1>2, <1>3, <1>6, <1>7 DEF PlacedIs
<1>9. QED
  BY <1>8 DEF g

DetachedIs(h, g, a, c) ==
  /\ g \in Heaps /\ Live(g) = Live(h) /\ Owners(g) = Owners(h)
  /\ g[c].next = 0 /\ g[c].prev = 0 /\ g[c].child = h[c].child
  /\ \A x \in Live(h) :
       /\ g[x].of = h[x].of
       /\ x # c => /\ g[x].next = IF x = h[c].prev THEN h[c].next ELSE h[x].next
                   /\ g[x].prev = IF x = h[c].next THEN h[c].prev ELSE h[x].prev
                   /\ g[x].child = IF x = a /\ h[x].child = c THEN h[c].next ELSE h[x].child

LEMMA DetachFacts ==
  ASSUME NEW h \in Heaps, NEW a, NEW c \in Live(h), a # c
  PROVE  DetachedIs(h, Detach(h, a, c), a, c)
<1> DEFINE k == Around(h, a, c, h[c].prev, h[c].next)
           g == Detach(h, a, c)
<1>1. g = [k EXCEPT ![c].next = 0, ![c].prev = 0]
  BY DEF Detach
<1>2. h[c].prev \in Pointers /\ h[c].next \in Pointers /\ 0 \in Pointers
  <2>1. h[c] \in Struct
    BY HeapParts
  <2>2. QED
    BY <2>1 DEF Struct, Pointers
<1>3. AroundIs(h, k, a, c, h[c].prev, h[c].next)
  BY <1>2, AroundFacts
<1> HIDE DEF k, g
<1>4. k \in Heaps /\ Live(k) = Live(h) /\ Owners(k) = Owners(h) /\ Live(h) \subseteq Cells
  BY <1>3, ZeroIsNoCell DEF AroundIs
<1>5. /\ g \in Heaps /\ Live(g) = Live(k) /\ Owners(g) = Owners(k)
      /\ g[c].next = 0 /\ g[c].prev = 0 /\ g[c].child = k[c].child /\ g[c].of = k[c].of
      /\ \A x \in Cells : x # c => g[x] = k[x]
  <2>1. PlacedIs(k, g, c, 0, 0)
    BY <1>1, <1>2, <1>4, PlaceFacts
  <2>2. QED
    BY <2>1 DEF PlacedIs
<1>6. k[c].child = h[c].child /\ k[c].of = h[c].of
  BY <1>3 DEF AroundIs
<1>7. ASSUME NEW x \in Live(h), x # c
      PROVE  /\ g[x].of = h[x].of
             /\ g[x].next = IF x = h[c].prev THEN h[c].next ELSE h[x].next
             /\ g[x].prev = IF x = h[c].next THEN h[c].prev ELSE h[x].prev
             /\ g[x].child = IF x = a /\ h[x].child = c THEN h[c].next ELSE h[x].child
  <2>1. g[x] = k[x]
    BY <1>4, <1>5, <1>7
  <2>2. QED
    BY <1>3, <2>1 DEF AroundIs
<1>8. DetachedIs(h, g, a, c)
  BY <1>4, <1>5, <1>6, <1>7 DEF DetachedIs
<1>9. QED
  BY <1>8 DEF g

SwappedIs(h, g, a, c, n) ==
  /\ g \in Heaps /\ Live(g) = Live(h) /\ Owners(g) = Owners(h)
  /\ g[c].next = 0 /\ g[c].prev = 0 /\ g[c].child = h[c].child
  /\ g[n].next = h[c].next /\ g[n].prev = h[c].prev /\ g[n].child = h[n].child
  /\ \A x \in Live(h) :
       /\ g[x].of = h[x].of
       /\ x # c /\ x # n =>
            /\ g[x].next = IF x = h[c].prev THEN n ELSE h[x].next
            /\ g[x].prev = IF x = h[c].next THEN n ELSE h[x].prev
            /\ g[x].child = IF x = a /\ h[x].child = c THEN n ELSE h[x].child

LEMMA SwapFacts ==
  ASSUME NEW h \in Heaps, NEW a, NEW c \in Live(h), NEW n \in Live(h), a # c, a # n, c # n
  PROVE  SwappedIs(h, Swap(h, a, c, n), a, c, n)
<1> DEFINE k == Around(h, a, c, n, n)
           m == [k EXCEPT ![n].next = h[c].next, ![n].prev = h[c].prev]
           g == Swap(h, a, c, n)
<1>1. g = [m EXCEPT ![c].next = 0, ![c].prev = 0]
  BY DEF Swap
<1>2. h[c].prev \in Pointers /\ h[c].next \in Pointers /\ 0 \in Pointers /\ n \in Pointers
  <2>1. h[c] \in Struct /\ n \in Cells
    BY HeapParts, ZeroIsNoCell
  <2>2. QED
    BY <2>1 DEF Struct, Pointers
<1>3. AroundIs(h, k, a, c, n, n)
  BY <1>2, AroundFacts
<1> HIDE DEF k
<1>4. k \in Heaps /\ Live(k) = Live(h) /\ Owners(k) = Owners(h) /\ Live(h) \subseteq Cells
  BY <1>3, ZeroIsNoCell DEF AroundIs
<1>5. /\ m \in Heaps /\ Live(m) = Live(k) /\ Owners(m) = Owners(k)
      /\ m[n].next = h[c].next /\ m[n].prev = h[c].prev
      /\ m[n].child = k[n].child /\ m[n].of = k[n].of
      /\ \A x \in Cells : x # n => m[x] = k[x]
  <2>1. PlacedIs(k, m, n, h[c].next, h[c].prev)
    BY <1>2, <1>4, PlaceFacts
  <2> HIDE DEF m
  <2>2. QED
    BY <2>1 DEF PlacedIs
<1> HIDE DEF m, g
<1>6. /\ g \in Heaps /\ Live(g) = Live(m) /\ Owners(g) = Owners(m)
      /\ g[c].next = 0 /\ g[c].prev = 0 /\ g[c].child = m[c].child /\ g[c].of = m[c].of
      /\ \A x \in Cells : x # c => g[x] = m[x]
  <2>1. PlacedIs(m, g, c, 0, 0)
    BY <1>1, <1>2, <1>4, <1>5, PlaceFacts
  <2>2. QED
    BY <2>1 DEF PlacedIs
<1>7. /\ k[c].child = h[c].child /\ k[c].of = h[c].of
      /\ k[n].child = h[n].child /\ k[n].of = h[n].of
  BY <1>3 DEF AroundIs
<1>8. c \in Cells /\ n \in Cells /\ m[c] = k[c] /\ g[n] = m[n]
  BY <1>4, <1>5, <1>6
<1>9. ASSUME NEW x \in Live(h), x # c, x # n
      PROVE  /\ g[x].of = h[x].of
             /\ g[x].next = IF x = h[c].prev THEN n ELSE h[x].next
             /\ g[x].prev = IF x = h[c].next THEN n ELSE h[x].prev
             /\ g[x].child = IF x = a /\ h[x].child = c THEN n ELSE h[x].child
  <2>1. g[x] = k[x]
    BY <1>4, <1>5, <1>6, <1>9
  <2>2. QED
    BY <1>3, <2>1 DEF AroundIs
<1>10. SwappedIs(h, g, a, c, n)
  BY <1>4, <1>5, <1>6, <1>7, <1>8, <1>9 DEF SwappedIs
<1>11. QED
  BY <1>10 DEF g

LEMMA DetachKeeps ==
  ASSUME NEW h, NEW H, WellFormed(h, H), NEW a \in Owners(h), NEW c \in Members(h, a),
         Unreferred(h, {a})
  PROVE  /\ WellFormed(Detach(h, a, c), H \cup {c})
         /\ Live(Detach(h, a, c)) = Live(h)
<1> DEFINE g == Detach(h, a, c)
           p == h[c].prev
           n == h[c].next
           G == H \cup {c}
<1>1. /\ h \in Heaps /\ Neat(h, H) /\ Apart(h, H)
      /\ a \in Live(h) /\ c \in Live(h) /\ c \notin H /\ a # c /\ c # 0
      /\ p = 0 <=> h[a].child = c
      /\ p # 0 => p \in Live(h) /\ h[p].next = c
      /\ n # 0 => n \in Live(h) /\ h[n].prev = c
      /\ c # p /\ c # n
      /\ p # 0 => p # n
  BY MemberPlace, WellFormedIs, ZeroIsNoCell
<1>2. DetachedIs(h, g, a, c)
  BY <1>1, DetachFacts
<1> HIDE DEF g
<1>3. /\ g \in Heaps /\ Live(g) = Live(h) /\ Owners(g) = Owners(h)
      /\ g[c].next = 0 /\ g[c].prev = 0 /\ g[c].child = h[c].child
      /\ \A x \in Live(h) : g[x].of = h[x].of
  BY <1>2 DEF DetachedIs
<1>4. ASSUME NEW x \in Live(h), x # c
      PROVE  /\ g[x].next = IF x = p THEN n ELSE h[x].next
             /\ g[x].prev = IF x = n THEN p ELSE h[x].prev
             /\ g[x].child = IF x = a /\ h[x].child = c THEN n ELSE h[x].child
  BY <1>2, <1>4 DEF DetachedIs
<1>5. ASSUME NEW x \in Live(h)
      PROVE  /\ h[x].next \in Live(h) \cup {0} /\ h[x].prev \in Live(h) \cup {0}
             /\ h[x].child \in Live(h) \cup {0}
             /\ h[x].next # 0 => h[h[x].next].prev = x
             /\ h[x].prev # 0 => h[h[x].prev].next = x
             /\ h[x].child # 0 => h[h[x].child].prev = 0
             /\ x \in H => h[x].next = 0 /\ h[x].prev = 0
             /\ h[x].child = c => x = a /\ p = 0
             /\ x # 0
  <2>1. h[x].child = c => x = a /\ p = 0
    BY OneHead
  <2>2. QED
    BY <1>1, <2>1, ZeroIsNoCell DEF Neat, Points
<1> HIDE DEF p, n
<1>6. Neat(g, G)
  <2>1. ASSUME NEW x \in Live(h)
        PROVE  /\ g[x].next \in Live(h) \cup {0} /\ g[x].prev \in Live(h) \cup {0}
               /\ g[x].child \in Live(h) \cup {0}
    BY <1>1, <1>3, <1>4, <1>5
  <2>2. ASSUME NEW x \in Live(h), g[x].next # 0 PROVE g[g[x].next].prev = x
    <3>1. x # c
      BY <1>3, <2>2
    <3>2. CASE x = p
      BY <1>1, <1>4, <2>2, <3>1, <3>2
    <3>3. CASE x # p
      <4>1. g[x].next = h[x].next /\ h[x].next # c
        BY <1>1, <1>4, <1>5, <3>1, <3>3 DEF p
      <4>2. h[x].next # n
        BY <1>1, <1>5, <2>2, <3>1, <4>1
      <4>3. QED
        BY <1>4, <1>5, <2>2, <4>1, <4>2
    <3>4. QED
      BY <3>2, <3>3
  <2>3. ASSUME NEW x \in Live(h), g[x].prev # 0 PROVE g[g[x].prev].next = x
    <3>1. x # c
      BY <1>3, <2>3
    <3>2. CASE x = n
      BY <1>1, <1>4, <2>3, <3>1, <3>2
    <3>3. CASE x # n
      <4>1. g[x].prev = h[x].prev /\ h[x].prev # c
        BY <1>1, <1>4, <1>5, <3>1, <3>3 DEF n
      <4>2. h[x].prev # p
        BY <1>1, <1>5, <2>3, <3>1, <4>1
      <4>3. QED
        BY <1>4, <1>5, <2>3, <4>1, <4>2
    <3>4. QED
      BY <3>2, <3>3
  <2>4. ASSUME NEW x \in Live(h), g[x].child # 0 PROVE g[g[x].child].prev = 0
    <3>1. CASE x = a /\ h[x].child = c
      BY <1>1, <1>4, <1>5, <2>4, <3>1
    <3>2. CASE ~ (x = a /\ h[x].child = c)
      <4>1. g[x].child = h[x].child /\ h[x].child # c
        BY <1>3, <1>4, <1>5, <3>2
      <4>2. h[h[x].child].prev = 0 /\ h[x].child \in Live(h)
        BY <1>5, <2>4, <4>1
      <4>3. h[x].child # n
        BY <1>1, <2>4, <4>1, <4>2
      <4>4. QED
        BY <1>4, <4>1, <4>2, <4>3
    <3>3. QED
      BY <3>1, <3>2
  <2>5. ASSUME NEW x \in G PROVE x \in Live(h) /\ g[x].next = 0 /\ g[x].prev = 0
    <3>1. CASE x = c
      BY <1>1, <1>3, <3>1
    <3>2. CASE x # c
      <4>1. x \in H /\ x \in Live(h)
        BY <1>1, <2>5, <3>2 DEF Neat
      <4>2. h[x].next = 0 /\ h[x].prev = 0 /\ x # 0
        BY <1>5, <4>1
      <4>3. x # p /\ x # n
        BY <1>1, <4>2
      <4>4. QED
        BY <1>4, <3>2, <4>1, <4>2, <4>3
    <3>3. QED
      BY <3>1, <3>2
  <2> HIDE DEF G
  <2>6. QED
    BY <1>3, <2>1, <2>2, <2>3, <2>4, <2>5 DEF Neat, Points
<1>7. Apart(g, G)
  <2>1. \A x \in Owners(h) : x \in Live(h)
    BY DEF Owners
  <2>2. ASSUME NEW x \in Live(h), ~ (x = a /\ p = 0)
        PROVE  g[x].child = h[x].child /\ (g[x].child # 0 => g[x].child # n)
    <3>1. g[x].child = h[x].child
      BY <1>1, <1>3, <1>4, <1>5, <2>2
    <3>2. g[x].child # 0 => g[x].child # n
      BY <1>1, <1>5, <3>1
    <3>3. QED
      BY <3>1, <3>2
  <2>3. p = 0 => g[a].child = n
    BY <1>1, <1>4
  <2>4. ASSUME NEW x \in Owners(h), NEW y \in Owners(h),
               g[x].child = g[y].child, g[x].child # 0
        PROVE  x = y
    <3>1. CASE p = 0 /\ (x = a \/ y = a)
      BY <2>1, <2>2, <2>3, <2>4, <3>1
    <3>2. CASE ~ (p = 0 /\ (x = a \/ y = a))
      BY <1>1, <2>1, <2>2, <2>4, <3>2 DEF Apart
    <3>3. QED
      BY <3>1, <3>2
  <2>5. ASSUME NEW x \in Owners(h) PROVE g[x].child \notin G
    <3>1. CASE x = a /\ p = 0
      <4>1. n \notin H /\ n # c
        BY <1>1, <1>5, ZeroIsNoCell DEF Neat
      <4>2. QED
        BY <2>3, <3>1, <4>1
    <3>2. CASE ~ (x = a /\ p = 0)
      <4>1. g[x].child = h[x].child /\ h[x].child # c
        BY <1>5, <2>1, <2>2, <3>2
      <4>2. QED
        BY <1>1, <4>1 DEF Apart
    <3>3. QED
      BY <3>1, <3>2
  <2>6. ASSUME NEW r \in Live(h) \ Owners(h)
        PROVE  g[r].of \in Owners(h) /\ g[r].child = g[g[r].of].child
    <3>1. r # a /\ h[r].of # a
      BY <2>6 DEF Unreferred, Owners
    <3>2. h[r].of \in Owners(h) /\ h[r].child = h[h[r].of].child
      BY <1>1, <2>6 DEF Apart
    <3>3. QED
      BY <1>3, <2>1, <2>2, <3>1, <3>2
  <2> HIDE DEF G
  <2>7. QED
    BY <1>3, <2>4, <2>5, <2>6 DEF Apart
<1>8. Reached(g, G)
  <2> DEFINE b == Before(h, a, c)
  <2>1. b \in Live(h) /\ b \notin Deleted(h, c) /\ Leads(h, b, c)
    BY MemberPlace
  <2>2. ASSUME NEW x \in Live(h), NEW y \in Live(h), Leads(h, x, y), x # c, y # c
        PROVE  Leads(g, x, y)
    <3>1. CASE h[x].next = y
      <4>1. x # p
        BY <1>1, <2>2, <3>1, ZeroIsNoCell
      <4>2. QED
        BY <1>4, <2>2, <3>1, <4>1 DEF Leads
    <3>2. CASE x \in Owners(h) /\ h[x].child = y
      BY <1>3, <1>4, <2>2, <3>2 DEF Leads
    <3>3. QED
      BY <2>2, <3>1, <3>2 DEF Leads
  <2>3. n # 0 => Leads(g, b, n)
    <3>1. CASE p = 0
      BY <1>1, <1>3, <1>4, <3>1 DEF Before, Leads, p
    <3>2. CASE p # 0
      BY <1>1, <1>4, <3>2 DEF Before, Leads, p
    <3>3. QED
      BY <3>1, <3>2
  <2>4. ASSUME NEW y \in Live(h), Leads(h, c, y)
        PROVE  Leads(g, c, y) \/ (y = n /\ n # 0)
    BY <1>3, <2>4, ZeroIsNoCell DEF Leads, n
  <2>5. ASSUME NEW S \in SUBSET Live(h), G \subseteq S, b \in S,
               \A x \in S, y \in Live(h) : Leads(g, x, y) => y \in S
        PROVE  H \subseteq S /\ \A y \in Live(h) : Leads(h, c, y) => y \in S
    <3>1. c \in S /\ H \subseteq S
      BY <2>5
    <3>2. ASSUME NEW y \in Live(h), Leads(h, c, y) PROVE y \in S
      BY <2>3, <2>4, <2>5, <3>1, <3>2
    <3>3. QED
      BY <3>1, <3>2
  <2>6. c \in G /\ H \subseteq G
    OBVIOUS
  <2> DEFINE none == {}
  <2>7. /\ none \in SUBSET Live(h) /\ b \notin none
        /\ \A x \in none, y \in Live(h) : Leads(h, x, y) => y \in none
        /\ H \subseteq G \cup none
    OBVIOUS
  <2> HIDE DEF b, none, G
  <2>8. QED
    BY <1>1, <1>3, <2>1, <2>2, <2>5, <2>6, <2>7, ReachedWithout
<1>9. WellFormed(g, G)
  BY <1>3, <1>6, <1>7, <1>8, IsWellFormed
<1>10. QED
  BY <1>3, <1>9 DEF g

LEMMA SwapKeeps ==
  ASSUME NEW h, NEW H, WellFormed(h, H), NEW a \in Owners(h), NEW c \in Members(h, a),
         Unreferred(h, {a}), NEW n \in H, a \notin Deleted(h, n)
  PROVE  /\ WellFormed(Swap(h, a, c, n), (H \ {n}) \cup {c})
         /\ Live(Swap(h, a, c, n)) = Live(h)
<1> DEFINE g == Swap(h, a, c, n)
           p == h[c].prev
           q == h[c].next
           G == (H \ {n}) \cup {c}
<1>1. /\ h \in Heaps /\ Neat(h, H) /\ Apart(h, H)
      /\ a \in Live(h) /\ c \in Live(h) /\ c \notin H /\ a # c /\ c # 0
      /\ p = 0 <=> h[a].child = c
      /\ p # 0 => p \in Live(h) /\ h[p].next = c
      /\ q # 0 => q \in Live(h) /\ h[q].prev = c
      /\ c # p /\ c # q
      /\ p # 0 => p # q
  BY MemberPlace, WellFormedIs, ZeroIsNoCell
<1>2. /\ n \in Live(h) /\ n # 0 /\ n # c /\ n # a
      /\ h[n].next = 0 /\ h[n].prev = 0 /\ n # p /\ n # q
  <2>1. n \in Live(h) /\ n # 0 /\ n # c /\ h[n].next = 0 /\ h[n].prev = 0
    BY <1>1, ZeroIsNoCell DEF Neat
  <2>2. n # a
    BY <2>1, DeletedFacts
  <2>3. n # p /\ n # q
    BY <1>1, <2>1
  <2>4. QED
    BY <2>1, <2>2, <2>3
<1>3. SwappedIs(h, g, a, c, n)
  BY <1>1, <1>2, SwapFacts
<1> HIDE DEF g
<1>4. /\ g \in Heaps /\ Live(g) = Live(h) /\ Owners(g) = Owners(h)
      /\ g[c].next = 0 /\ g[c].prev = 0 /\ g[c].child = h[c].child
      /\ g[n].next = q /\ g[n].prev = p /\ g[n].child = h[n].child
      /\ \A x \in Live(h) : g[x].of = h[x].of
  BY <1>3 DEF SwappedIs
<1>5. ASSUME NEW x \in Live(h), x # c, x # n
      PROVE  /\ g[x].next = IF x = p THEN n ELSE h[x].next
             /\ g[x].prev = IF x = q THEN n ELSE h[x].prev
             /\ g[x].child = IF x = a /\ h[x].child = c THEN n ELSE h[x].child
  BY <1>3, <1>5 DEF SwappedIs
<1>6. ASSUME NEW x \in Live(h)
      PROVE  /\ h[x].next \in Live(h) \cup {0} /\ h[x].prev \in Live(h) \cup {0}
             /\ h[x].child \in Live(h) \cup {0}
             /\ h[x].next # 0 => h[h[x].next].prev = x
             /\ h[x].prev # 0 => h[h[x].prev].next = x
             /\ h[x].child # 0 => h[h[x].child].prev = 0
             /\ x \in H => h[x].next = 0 /\ h[x].prev = 0
             /\ h[x].child = c => x = a /\ p = 0
             /\ x # 0
  <2>1. h[x].child = c => x = a /\ p = 0
    BY OneHead
  <2>2. QED
    BY <1>1, <2>1, ZeroIsNoCell DEF Neat, Points
<1>7. \A x \in Live(h) : h[x].next # n /\ h[x].prev # n /\ h[x].child # n
  <2>1. \A x \in Live(h) : h[x].child # n
    BY Links
  <2>2. QED
    BY <1>2, <1>6, <2>1
<1> HIDE DEF p, q
<1>8. Neat(g, G)
  <2>1. ASSUME NEW x \in Live(h)
        PROVE  /\ g[x].next \in Live(h) \cup {0} /\ g[x].prev \in Live(h) \cup {0}
               /\ g[x].child \in Live(h) \cup {0}
    BY <1>1, <1>2, <1>4, <1>5, <1>6
  <2>2. ASSUME NEW x \in Live(h), g[x].next # 0 PROVE g[g[x].next].prev = x
    <3>1. x # c
      BY <1>4, <2>2
    <3>2. CASE x = n
      BY <1>1, <1>2, <1>4, <1>5, <2>2, <3>2
    <3>3. CASE x = p
      BY <1>1, <1>2, <1>4, <1>5, <2>2, <3>3
    <3>4. CASE x # n /\ x # p
      <4>1. g[x].next = h[x].next /\ h[x].next # c /\ h[x].next # n
        BY <1>1, <1>5, <1>6, <1>7, <3>1, <3>4 DEF p
      <4>2. h[x].next # q
        BY <1>1, <1>6, <2>2, <3>1, <4>1
      <4>3. QED
        BY <1>5, <1>6, <2>2, <4>1, <4>2
    <3>5. QED
      BY <3>2, <3>3, <3>4
  <2>3. ASSUME NEW x \in Live(h), g[x].prev # 0 PROVE g[g[x].prev].next = x
    <3>1. x # c
      BY <1>4, <2>3
    <3>2. CASE x = n
      BY <1>1, <1>2, <1>4, <1>5, <2>3, <3>2
    <3>3. CASE x = q
      BY <1>1, <1>2, <1>4, <1>5, <2>3, <3>3
    <3>4. CASE x # n /\ x # q
      <4>1. g[x].prev = h[x].prev /\ h[x].prev # c /\ h[x].prev # n
        BY <1>1, <1>5, <1>6, <1>7, <3>1, <3>4 DEF q
      <4>2. h[x].prev # p
        BY <1>1, <1>6, <2>3, <3>1, <4>1
      <4>3. QED
        BY <1>5, <1>6, <2>3, <4>1, <4>2
    <3>5. QED
      BY <3>2, <3>3, <3>4
  <2>4. ASSUME NEW x \in Live(h), g[x].child # 0 PROVE g[g[x].child].prev = 0
    <3>1. CASE x = a /\ h[x].child = c
      BY <1>1, <1>2, <1>4, <1>5, <1>6, <3>1
    <3>2. CASE ~ (x = a /\ h[x].child = c)
      <4>1. g[x].child = h[x].child /\ h[x].child # c /\ h[x].child # n
        BY <1>4, <1>5, <1>6, <1>7, <3>2
      <4>2. h[h[x].child].prev = 0 /\ h[x].child \in Live(h)
        BY <1>6, <2>4, <4>1
      <4>3. h[x].child # q
        BY <1>1, <2>4, <4>1, <4>2
      <4>4. QED
        BY <1>5, <4>1, <4>2, <4>3
    <3>3. QED
      BY <3>1, <3>2
  <2>5. ASSUME NEW x \in G PROVE x \in Live(h) /\ g[x].next = 0 /\ g[x].prev = 0
    <3>1. CASE x = c
      BY <1>1, <1>4, <3>1
    <3>2. CASE x # c
      <4>1. x \in H /\ x \in Live(h) /\ x # n
        BY <1>1, <2>5, <3>2 DEF Neat
      <4>2. h[x].next = 0 /\ h[x].prev = 0 /\ x # 0
        BY <1>6, <4>1
      <4>3. x # p /\ x # q
        BY <1>1, <4>2
      <4>4. QED
        BY <1>5, <3>2, <4>1, <4>2, <4>3
    <3>3. QED
      BY <3>1, <3>2
  <2> HIDE DEF G
  <2>6. QED
    BY <1>4, <2>1, <2>2, <2>3, <2>4, <2>5 DEF Neat, Points
<1>9. Apart(g, G)
  <2>1. \A x \in Owners(h) : x \in Live(h)
    BY DEF Owners
  <2>2. ASSUME NEW x \in Live(h), ~ (x = a /\ p = 0)
        PROVE  g[x].child = h[x].child /\ g[x].child # n
    <3>1. g[x].child = h[x].child
      BY <1>1, <1>4, <1>5, <1>6, <2>2
    <3>2. QED
      BY <1>7, <3>1
  <2>3. p = 0 => g[a].child = n
    BY <1>1, <1>2, <1>5
  <2>4. ASSUME NEW x \in Owners(h), NEW y \in Owners(h),
               g[x].child = g[y].child, g[x].child # 0
        PROVE  x = y
    <3>1. CASE p = 0 /\ (x = a \/ y = a)
      BY <2>1, <2>2, <2>3, <2>4, <3>1
    <3>2. CASE ~ (p = 0 /\ (x = a \/ y = a))
      BY <1>1, <2>1, <2>2, <2>4, <3>2 DEF Apart
    <3>3. QED
      BY <3>1, <3>2
  <2>5. ASSUME NEW x \in Owners(h) PROVE g[x].child \notin G
    <3>1. CASE x = a /\ p = 0
      BY <1>2, <2>3, <3>1
    <3>2. CASE ~ (x = a /\ p = 0)
      <4>1. g[x].child = h[x].child /\ h[x].child # c
        BY <1>6, <2>1, <2>2, <3>2
      <4>2. QED
        BY <1>1, <4>1 DEF Apart
    <3>3. QED
      BY <3>1, <3>2
  <2>6. ASSUME NEW r \in Live(h) \ Owners(h)
        PROVE  g[r].of \in Owners(h) /\ g[r].child = g[g[r].of].child
    <3>1. r # a /\ h[r].of # a
      BY <2>6 DEF Unreferred, Owners
    <3>2. h[r].of \in Owners(h) /\ h[r].child = h[h[r].of].child
      BY <1>1, <2>6 DEF Apart
    <3>3. QED
      BY <1>4, <2>1, <2>2, <3>1, <3>2
  <2> HIDE DEF G
  <2>7. QED
    BY <1>4, <2>4, <2>5, <2>6 DEF Apart
<1>10. Reached(g, G)
  <2> DEFINE b == Before(h, a, c)
             N == Deleted(h, n)
  <2>1. b \in Live(h) /\ b \notin Deleted(h, c) /\ Leads(h, b, c)
    BY MemberPlace
  <2>2. ASSUME NEW x \in Live(h), NEW y \in Live(h), Leads(h, x, y), x # c, y # c
        PROVE  Leads(g, x, y)
    <3>1. CASE h[x].next = y
      <4>1. x # p /\ x # n
        BY <1>1, <1>2, <2>2, <3>1, ZeroIsNoCell
      <4>2. QED
        BY <1>5, <2>2, <3>1, <4>1 DEF Leads
    <3>2. CASE x \in Owners(h) /\ h[x].child = y
      BY <1>4, <1>5, <2>2, <3>2 DEF Leads
    <3>3. QED
      BY <2>2, <3>1, <3>2 DEF Leads
  <2>3. Leads(g, b, n)
    <3>1. CASE p = 0
      BY <1>1, <1>2, <1>4, <1>5, <3>1 DEF Before, Leads, p
    <3>2. CASE p # 0
      BY <1>1, <1>2, <1>5, <3>2 DEF Before, Leads, p
    <3>3. QED
      BY <3>1, <3>2
  <2>4. ASSUME NEW y \in Live(h), Leads(h, c, y)
        PROVE  Leads(g, c, y) \/ Leads(g, n, y)
    BY <1>4, <2>4 DEF Leads, q
  <2>5. ASSUME NEW S \in SUBSET Live(h), G \subseteq S, b \in S,
               \A x \in S, y \in Live(h) : Leads(g, x, y) => y \in S
        PROVE  H \subseteq S /\ \A y \in Live(h) : Leads(h, c, y) => y \in S
    <3>1. c \in S /\ n \in S /\ H \subseteq S
      BY <1>2, <2>3, <2>5
    <3>2. ASSUME NEW y \in Live(h), Leads(h, c, y) PROVE y \in S
      BY <2>4, <2>5, <3>1, <3>2
    <3>3. QED
      BY <3>1, <3>2
  <2>6. /\ N \in SUBSET Live(h) /\ n \in N
        /\ \A x \in N, y \in Live(h) : Leads(h, x, y) => y \in N
    BY <1>2, DeletedFacts
  <2>7. b \notin N
    <3>1. c \notin N
      BY ListOutside
    <3>2. QED
      BY <1>1, <2>1, <2>6, <3>1
  <2> HIDE DEF N
  <2>8. c \in G /\ H \subseteq G \cup N
    BY <2>6
  <2> HIDE DEF b, G
  <2>9. QED
    BY <1>1, <1>4, <2>1, <2>2, <2>5, <2>6, <2>7, <2>8, ReachedWithout
<1>11. WellFormed(g, G)
  BY <1>4, <1>8, <1>9, <1>10, IsWellFormed
<1>12. QED
  BY <1>4, <1>11 DEF g

(* Delete: what stays has no link into what goes.                            *)
LEMMA DeleteKeeps ==
  ASSUME NEW h, NEW H, WellFormed(h, H), NEW c \in H, Unreferred(h, Deleted(h, c))
  PROVE  WellFormed(Delete(h, c), H \ {c})
<1> DEFINE g == Delete(h, c)
           Z == Deleted(h, c)
           L == Live(h) \ Z
           G == H \ {c}
<1>1. /\ h \in Heaps /\ Neat(h, H) /\ Apart(h, H) /\ Reached(h, H)
      /\ c \in Live(h) /\ Live(h) \subseteq Cells
  BY WellFormedIs, ZeroIsNoCell DEF Neat
<1>2. /\ c \in Z /\ Z \subseteq Live(h)
      /\ \A x \in Z, y \in Live(h) : Leads(h, x, y) => y \in Z
      /\ \A d \in H : d # c => d \notin Z
  BY <1>1, DeletedFacts
<1>3. ASSUME NEW x \in L, NEW y \in Live(h), Leads(h, x, y) PROVE y \in L
  <2>1. y # c
    BY <1>1, <1>3, OneLeads
  <2>2. QED
    BY <1>1, <1>3, <2>1, LeadsFromInside
<1>4. Unreferred(h, Z)
  OBVIOUS
<1>5. g = [x \in Cells |-> g[x]]
  BY DEF Delete
<1>6. \A x \in Cells : g[x] = IF x \in Z THEN Free ELSE h[x]
  BY DEF Delete
<1> HIDE DEF g, Z
<1>7. g \in Heaps /\ Live(g) = L
  <2>1. L \in SUBSET Cells
    BY <1>1
  <2>2. \A x \in L : g[x] \in Struct
    BY <1>1, <1>6, HeapParts
  <2>3. \A x \in Cells \ L : g[x] \in {Free, Taken}
    BY <1>1, <1>6, HeapParts
  <2> HIDE DEF L
  <2>4. QED
    BY <1>5, <2>1, <2>2, <2>3, HeapIs
<1>8. /\ \A x \in L : g[x] = h[x] /\ x \in Live(h)
      /\ Owners(g) = Owners(h) \cap L
  BY <1>1, <1>6, <1>7 DEF Owners
<1>9. ASSUME NEW r \in L, r \notin Owners(h)
      PROVE  h[r].of \in L /\ h[r].of \in Owners(h) /\ h[r].child = h[h[r].of].child
  <2>1. h[r].of \in Owners(h) /\ h[r].child = h[h[r].of].child
    BY <1>1, <1>9 DEF Apart
  <2>2. h[r].of \notin Z /\ h[r].of \in Live(h)
    BY <1>4, <1>9, <2>1 DEF Unreferred, Owners
  <2>3. QED
    BY <2>1, <2>2
<1>10. ASSUME NEW x \in L
       PROVE  h[x].next \in L \cup {0} /\ h[x].child \in L \cup {0}
  <2>1. x \in Live(h) /\ h[x].next \in Live(h) \cup {0} /\ h[x].child \in Live(h) \cup {0}
    BY <1>1 DEF Neat, Points
  <2>2. h[x].next \in L \cup {0}
    BY <1>3, <2>1 DEF Leads
  <2>3. CASE x \in Owners(h)
    BY <1>3, <2>1, <2>2, <2>3 DEF Leads
  <2>4. CASE x \notin Owners(h)
    <3>1. h[x].of \in L /\ h[x].of \in Owners(h) /\ h[x].child = h[h[x].of].child
      BY <1>9, <2>4
    <3>2. QED
      BY <1>3, <2>1, <2>2, <3>1 DEF Leads
  <2>5. QED
    BY <2>3, <2>4
<1>11. ASSUME NEW x \in L
       PROVE  h[x].prev \in L \cup {0}
  <2>1. h[x].prev \in Live(h) \cup {0} /\ (h[x].prev # 0 => h[h[x].prev].next = x)
    BY <1>1 DEF Neat
  <2>2. h[x].prev \in Live(h) => h[x].prev \in L
    <3>1. SUFFICES ASSUME h[x].prev \in Live(h), h[x].prev \in Z PROVE FALSE
      OBVIOUS
    <3>2. Leads(h, h[x].prev, x)
      BY <2>1, <3>1, ZeroIsNoCell DEF Leads
    <3>3. QED
      BY <1>2, <3>1, <3>2
  <2>3. QED
    BY <2>1, <2>2
<1>12. Neat(g, G)
  <2>1. Points(g)
    BY <1>7, <1>8, <1>10 DEF Points
  <2>2. G \subseteq L
    BY <1>1, <1>2 DEF Neat
  <2>3. ASSUME NEW x \in L
        PROVE  /\ g[x].prev \in L \cup {0}
               /\ g[x].next # 0 => g[g[x].next].prev = x
               /\ g[x].prev # 0 => g[g[x].prev].next = x
               /\ g[x].child # 0 => g[g[x].child].prev = 0
               /\ x \in G => g[x].next = 0 /\ g[x].prev = 0
    <3>1. /\ h[x].next # 0 => h[h[x].next].prev = x
          /\ h[x].prev # 0 => h[h[x].prev].next = x
          /\ h[x].child # 0 => h[h[x].child].prev = 0
          /\ x \in H => h[x].next = 0 /\ h[x].prev = 0
      BY <1>1 DEF Neat
    <3> HIDE DEF L
    <3>2. QED
      BY <1>8, <1>10, <1>11, <3>1
  <2> HIDE DEF L, G
  <2>4. QED
    BY <1>7, <2>1, <2>2, <2>3 DEF Neat
<1>13. Apart(g, G)
  <2>1. \A x, y \in Owners(g) : g[x].child = g[y].child /\ g[x].child # 0 => x = y
    BY <1>1, <1>8 DEF Apart
  <2>2. \A x \in Owners(g) : g[x].child \notin G
    BY <1>1, <1>8 DEF Apart
  <2>3. ASSUME NEW r \in Live(g) \ Owners(g)
        PROVE  g[r].of \in Owners(g) /\ g[r].child = g[g[r].of].child
    <3>1. r \in L /\ r \notin Owners(h)
      BY <1>7, <1>8, <2>3
    <3>2. h[r].of \in L /\ h[r].of \in Owners(h) /\ h[r].child = h[h[r].of].child
      BY <1>9, <3>1
    <3>3. QED
      BY <1>8, <3>1, <3>2
  <2>4. QED
    BY <2>1, <2>2, <2>3 DEF Apart
<1>14. Reached(g, G)
  <2> SUFFICES ASSUME NEW S \in SUBSET Live(g), G \subseteq S,
                      \A x \in S, y \in Live(g) : Leads(g, x, y) => y \in S
               PROVE  Live(g) \subseteq S
    BY DEF Reached
  <2> DEFINE T == S \cup Z
  <2>1. T \in SUBSET Live(h) /\ H \subseteq T
    BY <1>2, <1>7
  <2>2. ASSUME NEW x \in T, NEW y \in Live(h), Leads(h, x, y) PROVE y \in T
    <3>1. CASE x \in Z
      BY <1>2, <2>2, <3>1
    <3>2. CASE x \notin Z
      <4>1. x \in S /\ x \in L
        BY <1>7, <2>2, <3>2
      <4>2. y \in L
        BY <1>3, <2>2, <4>1
      <4>3. Leads(g, x, y)
        BY <1>8, <2>2, <4>1 DEF Leads
      <4>4. QED
        BY <1>7, <4>1, <4>2, <4>3
    <3>3. QED
      BY <3>1, <3>2
  <2> HIDE DEF T
  <2>3. Live(h) \subseteq T
    BY <1>1, <2>1, <2>2 DEF Reached
  <2>4. QED
    BY <1>7, <2>3 DEF T
<1>15. WellFormed(g, G)
  BY <1>7, <1>12, <1>13, <1>14, IsWellFormed
<1>16. QED
  BY <1>15 DEF g

(* What is well formed by itself may be added to the heap.                   *)
LEMMA GraftKeeps ==
  ASSUME NEW h, NEW H, WellFormed(h, H), NEW g \in Heaps, NEW c, NEW new,
         new = Live(g) \ Live(h),
         \A x \in Cells : x \in new \/ g[x] = h[x],
         NEW k, k = [x \in Cells |-> IF x \in new THEN g[x] ELSE Free],
         WellFormed(k, {c})
  PROVE  WellFormed(g, H \cup {c})
<1> DEFINE G == H \cup {c}
<1>1. /\ h \in Heaps /\ Neat(h, H) /\ Apart(h, H) /\ Reached(h, H)
      /\ k \in Heaps /\ Neat(k, {c}) /\ Apart(k, {c}) /\ Reached(k, {c})
      /\ Live(g) \subseteq Cells /\ Live(h) \subseteq Cells
  BY WellFormedIs, ZeroIsNoCell
<1>2. /\ \A x \in Live(h) : g[x] = h[x] /\ x \in Live(g)
      /\ \A x \in new : k[x] = g[x] /\ x \in Live(g) /\ x \notin Live(h)
      /\ Live(g) = Live(h) \cup new
  <2>1. \A x \in Live(h) : g[x] = h[x]
    BY <1>1
  <2>2. \A x \in Live(h) : x \in Live(g)
    BY <2>1 DEF Live
  <2>3. \A x \in new : k[x] = g[x]
    BY <1>1
  <2>4. QED
    BY <2>1, <2>2, <2>3
<1>3. Live(k) = new
  <2>1. \A x \in Cells : k[x] = IF x \in new THEN g[x] ELSE Free
    OBVIOUS
  <2>2. \A x \in new : g[x] \notin {Free, Taken}
    BY <1>2 DEF Live
  <2>3. QED
    BY <1>1, <1>2, <2>1, <2>2 DEF Live
<1>4. Owners(g) = Owners(h) \cup Owners(k)
  BY <1>2, <1>3 DEF Owners
<1>5. \A x \in Owners(h) : x \in Live(h) /\ x \notin new
  BY <1>2 DEF Owners
<1>6. \A x \in Owners(k) : x \in new /\ x \notin Live(h)
  BY <1>2, <1>3 DEF Owners
<1>7. Neat(g, G)
  <2>1. ASSUME NEW x \in Live(h)
        PROVE  /\ g[x].next \in Live(g) \cup {0} /\ g[x].child \in Live(g) \cup {0}
               /\ g[x].prev \in Live(g) \cup {0}
               /\ g[x].next # 0 => g[g[x].next].prev = x
               /\ g[x].prev # 0 => g[g[x].prev].next = x
               /\ g[x].child # 0 => g[g[x].child].prev = 0
    BY <1>1, <1>2 DEF Neat, Points
  <2>2. ASSUME NEW x \in new
        PROVE  /\ g[x].next \in Live(g) \cup {0} /\ g[x].child \in Live(g) \cup {0}
               /\ g[x].prev \in Live(g) \cup {0}
               /\ g[x].next # 0 => g[g[x].next].prev = x
               /\ g[x].prev # 0 => g[g[x].prev].next = x
               /\ g[x].child # 0 => g[g[x].child].prev = 0
    <3>1. /\ k[x].next \in new \cup {0} /\ k[x].child \in new \cup {0}
          /\ k[x].prev \in new \cup {0}
          /\ k[x].next # 0 => k[k[x].next].prev = x
          /\ k[x].prev # 0 => k[k[x].prev].next = x
          /\ k[x].child # 0 => k[k[x].child].prev = 0
      BY <1>1, <1>3 DEF Neat, Points
    <3>2. k[x] = g[x]
      BY <1>2
    <3>3. \A y \in new : k[y] = g[y] /\ y \in Live(g)
      BY <1>2
    <3>4. QED
      BY <3>1, <3>2, <3>3
  <2>3. ASSUME NEW x \in G PROVE x \in Live(g) /\ g[x].next = 0 /\ g[x].prev = 0
    <3>1. CASE x \in H
      BY <1>1, <1>2, <3>1 DEF Neat
    <3>2. CASE x = c
      BY <1>1, <1>2, <1>3, <3>2 DEF Neat
    <3>3. QED
      BY <2>3, <3>1, <3>2
  <2> HIDE DEF G
  <2>4. QED
    BY <1>2, <2>1, <2>2, <2>3 DEF Neat, Points
<1>8. Apart(g, G)
  <2>1. \A x \in Owners(h) : h[x].child \in Live(h) \cup {0} /\ h[x].child \notin H
    BY <1>1, <1>5 DEF Neat, Points, Apart
  <2>2. \A x \in Owners(k) : k[x].child \in new \cup {0} /\ k[x].child # c
    BY <1>1, <1>3, <1>6 DEF Neat, Points, Apart
  <2>3. c \in new /\ H \subseteq Live(h) /\ 0 \notin Live(h) /\ 0 \notin new
    BY <1>1, <1>3, ZeroIsNoCell DEF Neat
  <2>4. ASSUME NEW x \in Owners(g), NEW y \in Owners(g),
               g[x].child = g[y].child, g[x].child # 0
        PROVE  x = y
    <3>1. CASE x \in Owners(h) /\ y \in Owners(h)
      BY <1>1, <1>2, <1>5, <2>4, <3>1 DEF Apart
    <3>2. CASE x \in Owners(k) /\ y \in Owners(k)
      BY <1>1, <1>2, <1>6, <2>4, <3>2 DEF Apart
    <3>3. CASE x \in Owners(h) /\ y \in Owners(k)
      BY <1>2, <1>5, <1>6, <2>1, <2>2, <2>4, <3>3
    <3>4. CASE x \in Owners(k) /\ y \in Owners(h)
      BY <1>2, <1>5, <1>6, <2>1, <2>2, <2>4, <3>4
    <3>5. QED
      BY <1>4, <3>1, <3>2, <3>3, <3>4
  <2>5. ASSUME NEW x \in Owners(g) PROVE g[x].child \notin G
    <3>1. CASE x \in Owners(h)
      BY <1>2, <1>5, <2>1, <2>3, <3>1
    <3>2. CASE x \in Owners(k)
      BY <1>2, <1>6, <2>2, <2>3, <3>2
    <3>3. QED
      BY <1>4, <3>1, <3>2
  <2>6. ASSUME NEW r \in Live(g) \ Owners(g)
        PROVE  g[r].of \in Owners(g) /\ g[r].child = g[g[r].of].child
    <3>1. CASE r \in Live(h)
      <4>1. r \notin Owners(h)
        BY <1>4, <2>6
      <4>2. h[r].of \in Owners(h) /\ h[r].child = h[h[r].of].child
        BY <1>1, <3>1, <4>1 DEF Apart
      <4>3. QED
        BY <1>2, <1>4, <1>5, <3>1, <4>2
    <3>2. CASE r \in new
      <4>1. r \in Live(k) /\ r \notin Owners(k)
        BY <1>3, <1>4, <2>6, <3>2
      <4>2. k[r].of \in Owners(k) /\ k[r].child = k[k[r].of].child
        BY <1>1, <4>1 DEF Apart
      <4>3. QED
        BY <1>2, <1>4, <1>6, <3>2, <4>2
    <3>3. QED
      BY <1>2, <2>6, <3>1, <3>2
  <2> HIDE DEF G
  <2>7. QED
    BY <2>4, <2>5, <2>6 DEF Apart
<1>9. Reached(g, G)
  <2> SUFFICES ASSUME NEW S \in SUBSET Live(g), G \subseteq S,
                      \A x \in S, y \in Live(g) : Leads(g, x, y) => y \in S
               PROVE  Live(g) \subseteq S
    BY DEF Reached
  <2> DEFINE A == S \cap Live(h)
             B == S \cap new
  <2>1. A \in SUBSET Live(h) /\ H \subseteq A
    BY <1>1 DEF Neat
  <2>2. B \in SUBSET Live(k) /\ {c} \subseteq B
    BY <1>1, <1>3 DEF Neat
  <2>3. ASSUME NEW x \in A, NEW y \in Live(h), Leads(h, x, y) PROVE y \in A
    <3>1. Leads(g, x, y) /\ y \in Live(g) /\ x \in S
      BY <1>2, <1>4, <2>3 DEF Leads
    <3>2. QED
      BY <3>1
  <2>4. ASSUME NEW x \in B, NEW y \in Live(k), Leads(k, x, y) PROVE y \in B
    <3>1. Leads(g, x, y) /\ y \in Live(g) /\ x \in S /\ y \in new
      BY <1>2, <1>3, <1>4, <2>4 DEF Leads
    <3>2. QED
      BY <3>1
  <2> HIDE DEF A, B
  <2>5. Live(h) \subseteq A
    BY <1>1, <2>1, <2>3 DEF Reached
  <2>6. Live(k) \subseteq B
    BY <1>1, <2>2, <2>4 DEF Reached
  <2>7. QED
    BY <1>2, <1>3, <2>5, <2>6 DEF A, B
<1>10. QED
  BY <1>7, <1>8, <1>9, IsWellFormed

-------------------------------------------------------------------------------
(* The calls.                                                                *)
LEMMA MutableFacts ==
  ASSUME IInv, NEW a \in Arrays \cup Objects
  PROVE  /\ a \in Owners(heap) /\ a \in Live(heap) /\ Unreferred(heap, {a})
         /\ \A r \in Live(heap) \ Owners(heap) : heap[r].of # a
<1>1. a \in Live(heap) /\ Mutable(a)
  BY DEF Arrays, Objects
<1>2. a \in Owners(heap) /\ Unreferred(heap, {a})
  BY <1>1 DEF Mutable, Owners
<1>3. \A r \in Live(heap) \ Owners(heap) : heap[r].of # a
  BY <1>2 DEF Unreferred, Owners
<1>4. QED
  BY <1>1, <1>2, <1>3

LEMMA GraftStep ==
  ASSUME IInv, NEW c \in Cells, Graft(c)
  PROVE  IInv'
<1> DEFINE new == Live(heap') \ Live(heap)
           k == [x \in Cells |-> IF x \in new THEN heap'[x] ELSE Free]
<1>1. /\ held' = held \cup {c} /\ heap' \in Heaps
      /\ \A x \in Cells : x \in new \/ heap'[x] = heap[x]
      /\ WellFormed(k, {c})
  BY DEF Graft
<1>2. WellFormed(heap, held)
  BY DEF IInv
<1> HIDE DEF k
<1>3. k = [x \in Cells |-> IF x \in new THEN heap'[x] ELSE Free]
  BY DEF k
<1> HIDE DEF new
<1>4. new = Live(heap') \ Live(heap)
  BY DEF new
<1>5. WellFormed(heap', held \cup {c})
  BY <1>1, <1>2, <1>3, <1>4, GraftKeeps, SMTT(30)
<1>6. QED
  BY <1>1, <1>5 DEF IInv

LEMMA AddToArrayStep ==
  ASSUME IInv, NEW a \in Arrays, NEW c \in held, AddItemToArray(a, c)
  PROVE  IInv'
<1>1. WellFormed(heap, held)
  BY DEF IInv
<1>2. /\ a \in Owners(heap) /\ a \notin Deleted(heap, c)
      /\ \A r \in Live(heap) \ Owners(heap) : heap[r].of # a
  BY <1>1, MutableFacts, DeletedIsShown DEF AddItemToArray
<1>3. WellFormed(AddItem(heap, a, c), held \ {c})
  BY <1>1, <1>2, AddKeeps
<1>4. QED
  BY <1>3 DEF IInv, AddItemToArray

(* An item with a new name goes where it went with the old one.              *)
LEMMA AddNamedKeeps ==
  ASSUME NEW h, NEW H, WellFormed(h, H), NEW a \in Owners(h), NEW c \in H, NEW n \in Names,
         a \notin Deleted(h, c), \A r \in Live(h) \ Owners(h) : h[r].of # a
  PROVE  WellFormed(AddNamedItem(h, a, n, c), H \ {c})
<1> DEFINE g == [h EXCEPT ![c].string = n]
<1>1. h \in Heaps /\ c \in Live(h) /\ n \in Texts
  BY WellFormedIs, CJsonListsAssumption DEF Neat
<1>2. SameLinks(h, g)
  BY <1>1, RenameFacts
<1>3. AddNamedItem(h, a, n, c) = AddItem(g, a, c)
  BY DEF AddNamedItem
<1> HIDE DEF g
<1>4. WellFormed(g, H) /\ Deleted(g, c) = Deleted(h, c)
  BY <1>2, SameLinksKeep
<1>5. a \in Owners(g) /\ \A r \in Live(g) \ Owners(g) : g[r].of # a
  BY <1>2 DEF SameLinks
<1>6. WellFormed(AddItem(g, a, c), H \ {c})
  BY <1>4, <1>5, AddKeeps
<1>7. QED
  BY <1>3, <1>6

LEMMA AddToObjectStep ==
  ASSUME IInv, NEW o \in Objects, NEW n \in Names, NEW c \in held, AddItemToObject(o, n, c)
  PROVE  IInv'
<1>1. WellFormed(heap, held)
  BY DEF IInv
<1>2. /\ o \in Owners(heap) /\ o \notin Deleted(heap, c)
      /\ \A r \in Live(heap) \ Owners(heap) : heap[r].of # o
  BY <1>1, MutableFacts, DeletedIsShown DEF AddItemToObject
<1>3. WellFormed(AddNamedItem(heap, o, n, c), held \ {c})
  BY <1>1, <1>2, AddNamedKeeps
<1>4. QED
  BY <1>3 DEF IInv, AddItemToObject

(* malloc takes an unused cell.                                              *)
LEMMA MallocFacts ==
  ASSUME NEW h, Malloc(h) # 0
  PROVE  Malloc(h) \in Unused(h)
<1>1. Unused(h) \subseteq Nat /\ Unused(h) # {}
  BY SomeItems DEF Unused, Cells, Malloc
<1>2. \E c \in Unused(h) : \A d \in Unused(h) : c <= d
  BY <1>1, LeastNumber
<1>3. QED
  BY <1>1, <1>2 DEF Malloc

LEMMA AddReferenceStep ==
  ASSUME IInv, NEW a \in Arrays \cup Objects, NEW i \in Live(heap), AddReference(a, i)
  PROVE  IInv'
<1> DEFINE r == Malloc(heap)
           g == Reference(heap, i, r)
           H == held \cup {r}
<1>1. WellFormed(heap, held) /\ r \in Unused(heap) /\ a # i
  <2>1. i \in Shown(heap, i)
    BY DEF Shown
  <2>2. QED
    BY <2>1, MallocFacts DEF IInv, AddReference
<1>2. /\ held' = held
      /\ \/ heap' = AddItem(g, a, r)
         \/ \E n \in Names : heap' = AddNamedItem(g, a, n, r)
  BY DEF AddReference
<1> HIDE DEF r, g
<1>3. g = Reference(heap, i, r)
  BY DEF g
<1>4. /\ WellFormed(g, H) /\ Deleted(g, r) = {r}
      /\ Live(g) = Live(heap) \cup {r} /\ Owners(g) = Owners(heap)
      /\ \A x \in Live(heap) : g[x] = heap[x]
      /\ g[r].of = IF heap[i].ref THEN heap[i].of ELSE i
  BY <1>1, <1>3, ReferenceKeeps
<1>5. /\ a \in Owners(heap) /\ a \in Live(heap)
      /\ \A x \in Live(heap) \ Owners(heap) : heap[x].of # a
  BY MutableFacts
<1>6. r \notin Live(heap) /\ r \notin held
  <2>1. r \notin Live(heap)
    BY <1>1 DEF Unused, Live
  <2>2. held \subseteq Live(heap)
    BY <1>1, Links
  <2>3. QED
    BY <2>1, <2>2
<1>7. a \in Owners(g) /\ r \in H /\ a \notin Deleted(g, r) /\ H \ {r} = held
  BY <1>4, <1>5, <1>6
<1>8. \A x \in Live(g) \ Owners(g) : g[x].of # a
  <2>1. g[r].of # a
    <3>1. CASE heap[i].ref
      BY <1>4, <1>5, <3>1 DEF Owners
    <3>2. CASE ~heap[i].ref
      BY <1>1, <1>4, <3>2
    <3>3. QED
      BY <3>1, <3>2
  <2>2. QED
    BY <1>4, <1>5, <2>1
<1> HIDE DEF H
<1>9. CASE heap' = AddItem(g, a, r)
  <2>1. WellFormed(AddItem(g, a, r), H \ {r})
    BY <1>4, <1>7, <1>8, AddKeeps
  <2>2. QED
    BY <1>2, <1>7, <1>9, <2>1 DEF IInv
<1>10. ASSUME NEW n \in Names, heap' = AddNamedItem(g, a, n, r) PROVE IInv'
  <2>1. WellFormed(AddNamedItem(g, a, n, r), H \ {r})
    BY <1>4, <1>7, <1>8, AddNamedKeeps
  <2>2. QED
    BY <1>2, <1>7, <1>10, <2>1 DEF IInv
<1>11. QED
  BY <1>2, <1>9, <1>10

LEMMA DetachStep ==
  ASSUME IInv, NEW a \in Arrays \cup Objects, NEW c \in Members(heap, a), DetachItem(a, c)
  PROVE  IInv'
<1>1. WellFormed(heap, held)
  BY DEF IInv
<1>2. a \in Owners(heap) /\ Unreferred(heap, {a})
  BY MutableFacts
<1>3. WellFormed(Detach(heap, a, c), held \cup {c})
  BY <1>1, <1>2, DetachKeeps
<1>4. QED
  BY <1>3 DEF IInv, DetachItem

LEMMA DeleteFromStep ==
  ASSUME IInv, NEW a \in Arrays \cup Objects, NEW c \in Members(heap, a), DeleteItemFrom(a, c)
  PROVE  IInv'
<1> DEFINE h == Detach(heap, a, c)
           H == held \cup {c}
<1>1. WellFormed(heap, held)
  BY DEF IInv
<1>2. a \in Owners(heap) /\ Unreferred(heap, {a})
  BY MutableFacts
<1>3. WellFormed(h, H) /\ c \in H
  BY <1>1, <1>2, DetachKeeps
<1>4. held' = held /\ Unreferred(h, Deleted(h, c)) /\ heap' = Delete(h, c)
  BY DEF DeleteItemFrom
<1>5. H \ {c} = held
  BY <1>1, <1>2, MemberPlace
<1> HIDE DEF h, H
<1>6. WellFormed(Delete(h, c), H \ {c})
  BY <1>3, <1>4, DeleteKeeps
<1>7. QED
  BY <1>4, <1>5, <1>6 DEF IInv

LEMMA ReplaceKeeps ==
  ASSUME NEW h, NEW H, WellFormed(h, H), NEW a \in Owners(h), NEW c \in Members(h, a),
         Unreferred(h, {a}), NEW n \in H, a \notin Shown(h, n),
         Unreferred(Swap(h, a, c, n), Deleted(Swap(h, a, c, n), c))
  PROVE  WellFormed(Delete(Swap(h, a, c, n), c), H \ {n})
<1> DEFINE g == Swap(h, a, c, n)
           G == (H \ {n}) \cup {c}
<1>1. a \notin Deleted(h, n)
  BY DeletedIsShown
<1>2. WellFormed(g, G) /\ c \in G
  BY <1>1, SwapKeeps
<1>3. Unreferred(g, Deleted(g, c))
  OBVIOUS
<1>4. G \ {c} = H \ {n}
  BY MemberPlace
<1> HIDE DEF g, G
<1>5. WellFormed(Delete(g, c), G \ {c})
  BY <1>2, <1>3, DeleteKeeps
<1>6. QED
  BY <1>4, <1>5 DEF g

LEMMA ReplaceInArrayStep ==
  ASSUME IInv, NEW a \in Arrays \cup Objects, NEW c \in Members(heap, a), NEW n \in held,
         ReplaceItemInArray(a, c, n)
  PROVE  IInv'
<1>1. WellFormed(heap, held)
  BY DEF IInv
<1>2. a \in Owners(heap) /\ Unreferred(heap, {a})
  BY MutableFacts
<1>3. /\ held' = held \ {n} /\ a \notin Shown(heap, n)
      /\ Unreferred(Swap(heap, a, c, n), Deleted(Swap(heap, a, c, n), c))
      /\ heap' = Delete(Swap(heap, a, c, n), c)
  <2>1. Replaces(heap, a, c, n)
    BY DEF ReplaceItemInArray
  <2>2. QED
    BY <2>1, Zenon DEF Replaces
<1>4. WellFormed(Delete(Swap(heap, a, c, n), c), held \ {n})
  BY <1>1, <1>2, <1>3, ReplaceKeeps
<1>5. QED
  BY <1>3, <1>4 DEF IInv

LEMMA ReplaceInObjectStep ==
  ASSUME IInv, NEW o \in Arrays \cup Objects, NEW c \in Members(heap, o), NEW n \in held,
         NEW name \in Names, ReplaceItemInObject(o, c, name, n)
  PROVE  IInv'
<1> DEFINE g == [heap EXCEPT ![n].string = name]
<1>1. WellFormed(heap, held) /\ heap \in Heaps /\ n \in Live(heap) /\ name \in Texts
  BY WellFormedIs, CJsonListsAssumption DEF IInv, Neat
<1>2. o \in Owners(heap) /\ o \in Live(heap) /\ Unreferred(heap, {o})
  BY MutableFacts
<1>3. /\ held' = held \ {n} /\ o \notin Shown(g, n)
      /\ Unreferred(Swap(g, o, c, n), Deleted(Swap(g, o, c, n), c))
      /\ heap' = Delete(Swap(g, o, c, n), c)
  <2>1. Replaces(g, o, c, n)
    BY DEF ReplaceItemInObject
  <2> HIDE DEF g
  <2>2. QED
    BY <2>1, Zenon DEF Replaces
<1>4. SameLinks(heap, g)
  BY <1>1, RenameFacts
<1> HIDE DEF g
<1>5. WellFormed(g, held) /\ Members(g, o) = Members(heap, o)
  BY <1>1, <1>2, <1>4, SameLinksKeep
<1>6. Live(g) = Live(heap) /\ Owners(g) = Owners(heap)
      /\ \A x \in Live(heap) : g[x].of = heap[x].of
  BY <1>4 DEF SameLinks
<1>7. Unreferred(g, {o})
  <2>1. \A r \in Live(heap) : g[r].ref => r \notin Owners(heap)
    BY <1>6 DEF Owners
  <2>2. \A r \in Live(heap) : r \notin Owners(heap) => heap[r].ref
    BY DEF Owners
  <2>3. QED
    BY <1>2, <1>6, <2>1, <2>2 DEF Unreferred
<1>8. WellFormed(Delete(Swap(g, o, c, n), c), held \ {n})
  BY <1>2, <1>3, <1>5, <1>6, <1>7, ReplaceKeeps
<1>9. QED
  BY <1>3, <1>8 DEF IInv

LEMMA DeleteStep ==
  ASSUME IInv, NEW c \in held, DeleteItem(c)
  PROVE  IInv'
<1>1. WellFormed(heap, held) /\ Unreferred(heap, Deleted(heap, c))
  BY DEF IInv, DeleteItem
<1>2. WellFormed(Delete(heap, c), held \ {c})
  BY <1>1, DeleteKeeps
<1>3. QED
  BY <1>2 DEF IInv, DeleteItem

-------------------------------------------------------------------------------
LEMMA InitIInv ==
  ASSUME ListInit
  PROVE  IInv
<1>1. heap \in Heaps /\ held = {} /\ Live(heap) = {}
  <2>1. \A x \in Cells : heap[x] \in {Free, Taken}
    BY DEF ListInit
  <2>2. QED
    BY <2>1 DEF ListInit, Heaps, Live
<1>2. Neat(heap, held) /\ Apart(heap, held) /\ Reached(heap, held)
  BY <1>1 DEF Neat, Apart, Reached, Points, Owners
<1>3. QED
  BY <1>1, <1>2, IsWellFormed DEF IInv

LEMMA NextIInv ==
  ASSUME IInv, [ListNext]_jsonVars
  PROVE  IInv'
<1>1. ASSUME NEW c \in Cells, Graft(c) PROVE IInv'
  BY <1>1, GraftStep
<1>2. ASSUME NEW a \in Arrays, NEW c \in held, AddItemToArray(a, c) PROVE IInv'
  BY <1>2, AddToArrayStep
<1>3. ASSUME NEW o \in Objects, NEW n \in Names, NEW c \in held, AddItemToObject(o, n, c)
      PROVE  IInv'
  BY <1>3, AddToObjectStep
<1>4. ASSUME NEW a \in Arrays \cup Objects, NEW i \in Live(heap), AddReference(a, i)
      PROVE  IInv'
  BY <1>4, AddReferenceStep
<1>5. ASSUME NEW a \in Arrays \cup Objects, NEW c \in Members(heap, a), CallOn(a, c)
      PROVE  IInv'
  <2>1. CASE DetachItem(a, c)
    BY <2>1, DetachStep
  <2>2. CASE DeleteItemFrom(a, c)
    BY <2>2, DeleteFromStep
  <2>3. ASSUME NEW n \in held, ReplaceItemInArray(a, c, n) PROVE IInv'
    BY <2>3, ReplaceInArrayStep
  <2>4. ASSUME NEW n \in held, NEW name \in Names, ReplaceItemInObject(a, c, name, n)
        PROVE  IInv'
    BY <2>4, ReplaceInObjectStep
  <2>5. QED
    BY <1>5, <2>1, <2>2, <2>3, <2>4 DEF CallOn
<1>6. ASSUME NEW c \in held, DeleteItem(c) PROVE IInv'
  BY <1>6, DeleteStep
<1>7. CASE UNCHANGED jsonVars
  BY <1>7 DEF IInv, jsonVars
<1>8. QED
  BY <1>1, <1>2, <1>3, <1>4, <1>5, <1>6, <1>7 DEF ListNext

(* Whatever calls a program makes, in any order, and whichever of them fail  *)
(* for want of memory, the heap is well formed: the links are consistent and *)
(* every item is in one that the program holds.                              *)
THEOREM ListInvariance == ListSpec => []IInv
<1>1. ListInit => IInv
  BY InitIInv
<1>2. IInv /\ [ListNext]_jsonVars => IInv'
  BY NextIInv
<1>3. QED
  BY <1>1, <1>2, PTL DEF ListSpec

(* No link leads to freed memory, next and prev are inverse, and a reference *)
(* shows the list that its item has: create_reference copies the pointer,    *)
(* and nothing the program may do makes it stale.                            *)
THEOREM LinksStayConsistent == ListSpec => []LinksConsistent
<1>1. IInv => LinksConsistent
  BY DEF IInv, WellFormed, LinksConsistent
<1>2. QED
  BY <1>1, ListInvariance, PTL

(* Every item is in exactly one of those the program holds and in one list:  *)
(* cJSON_Delete on each of them frees everything once.                       *)
THEOREM ItemsOwnedOnce == ListSpec => []OwnedOnce
<1>1. IInv => OwnedOnce
  <2> SUFFICES ASSUME IInv PROVE OwnedOnce
    OBVIOUS
  <2>1. WellFormed(heap, held) /\ Kept(heap, held)
    BY DEF IInv, WellFormed
  <2>2. \A c, d \in held : c # d => Deleted(heap, c) \cap Deleted(heap, d) = {}
    BY <2>1, FamiliesDisjoint
  <2>3. \A a, b \in Owners(heap) : a # b => Members(heap, a) \cap Members(heap, b) = {}
    BY <2>1, MembersDisjoint
  <2>4. QED
    BY <2>1, <2>2, <2>3 DEF OwnedOnce
<1>2. QED
  BY <1>1, ListInvariance, PTL

-------------------------------------------------------------------------------
(* The list of an item as a sequence: what comes after its k-th member is    *)
(* the next one, and nothing comes after the last.                           *)
After(h, a, s, k) == IF k = 0 THEN h[a].child ELSE h[s[k]].next

IsListing(h, a, s) ==
  /\ s \in Seq(Live(h))
  /\ \A k \in 1..Len(s) : s[k] = After(h, a, s, k - 1)
  /\ After(h, a, s, Len(s)) = 0

LEMMA ListingLinks ==
  ASSUME NEW h, NEW a, NEW s, IsListing(h, a, s)
  PROVE  /\ Len(s) \in Nat
         /\ \A k \in 1..Len(s) : s[k] \in Live(h) /\ s[k] # 0
         /\ \A k \in 1..Len(s) : s[k] = IF k = 1 THEN h[a].child ELSE h[s[k - 1]].next
         /\ Len(s) = 0 => h[a].child = 0
         /\ Len(s) # 0 => h[s[Len(s)]].next = 0
<1>1. s \in Seq(Live(h)) /\ Len(s) \in Nat
  BY DEF IsListing
<1>2. \A k \in 1..Len(s) : s[k] \in Live(h) /\ s[k] # 0
  BY <1>1, ElementOfSeq, ZeroIsNoCell
<1>3. \A k \in 1..Len(s) : s[k] = IF k = 1 THEN h[a].child ELSE h[s[k - 1]].next
  BY <1>1 DEF IsListing, After
<1>4. (Len(s) = 0 => h[a].child = 0) /\ (Len(s) # 0 => h[s[Len(s)]].next = 0)
  BY <1>1 DEF IsListing, After
<1>5. QED
  BY <1>1, <1>2, <1>3, <1>4

(* The path to the last member is one.                                       *)
LEMMA ListingExists ==
  ASSUME NEW h, NEW H, WellFormed(h, H), NEW a \in Live(h)
  PROVE  \E s : IsListing(h, a, s)
<1> DEFINE Path(s, x) == /\ s \in Seq(Live(h)) /\ Len(s) # 0 /\ s[Len(s)] = x
                         /\ \A k \in 1..Len(s) : s[k] = After(h, a, s, k - 1)
           P == {x \in Live(h) : \E s : Path(s, x)}
<1>1. Points(h) /\ h[a].child \in Live(h) \cup {0}
  BY Links DEF Points
<1>2. CASE h[a].child = 0
  <2>1. <<>> \in Seq(Live(h)) /\ Len(<<>>) = 0
    OBVIOUS
  <2>2. IsListing(h, a, <<>>)
    BY <1>2, <2>1 DEF IsListing, After
  <2>3. QED
    BY <2>2
<1>3. CASE h[a].child # 0
  <2>1. h[a].child \in P
    <3>1. Path(<<h[a].child>>, h[a].child)
      BY <1>1, <1>3 DEF After
    <3> HIDE DEF Path
    <3>2. QED
      BY <1>1, <1>3, <3>1
  <2>2. ASSUME NEW x \in P, h[x].next # 0 PROVE h[x].next \in P
    <3> DEFINE y == h[x].next
    <3>1. PICK s : Path(s, x)
      OBVIOUS
    <3>2. x \in Live(h) /\ y \in Live(h)
      BY <1>1, <2>2 DEF Points
    <3> DEFINE t == Append(s, y)
    <3> HIDE DEF y
    <3>3. Len(s) \in Nat \ {0} /\ s \in Seq(Live(h))
      BY <3>1
    <3>4. /\ t \in Seq(Live(h)) /\ Len(t) = Len(s) + 1 /\ t[Len(s) + 1] = y
          /\ \A k \in 1..Len(s) : t[k] = s[k]
      BY <3>2, <3>3
    <3> HIDE DEF t
    <3>5. ASSUME NEW k \in 1..Len(t) PROVE t[k] = After(h, a, t, k - 1)
      <4>1. CASE k \in 1..Len(s)
        <5>1. t[k] = s[k] /\ s[k] = After(h, a, s, k - 1)
          BY <3>1, <3>4, <4>1
        <5>2. k - 1 # 0 => s[k - 1] = t[k - 1]
          BY <3>3, <3>4, <4>1
        <5>3. QED
          BY <5>1, <5>2 DEF After
      <4>2. CASE k = Len(s) + 1
        <5>1. t[Len(s)] = x /\ Len(s) # 0 /\ k - 1 = Len(s)
          BY <3>1, <3>3, <3>4, <4>2
        <5>2. QED
          BY <3>4, <4>2, <5>1 DEF After, y
      <4>3. QED
        BY <3>3, <3>4, <4>1, <4>2
    <3>6. Path(t, y)
      BY <3>3, <3>4, <3>5
    <3> HIDE DEF Path
    <3>7. QED
      BY <3>2, <3>6 DEF y
  <2>3. P \in SUBSET Live(h)
    OBVIOUS
  <2> HIDE DEF P
  <2>4. ClosedUnder(h, P, {})
    BY <2>2 DEF ClosedUnder
  <2>5. Members(h, a) \subseteq P
    BY <2>1, <2>3, <2>4, WalkIsLeast DEF Members
  <2>6. PICK last \in Members(h, a) : h[last].next = 0
    BY <1>3, LastExists
  <2>7. PICK s : Path(s, last)
    BY <2>5, <2>6 DEF P
  <2>8. After(h, a, s, Len(s)) = 0
    BY <2>6, <2>7 DEF After
  <2>9. IsListing(h, a, s)
    BY <2>7, <2>8 DEF IsListing
  <2>10. QED
    BY <2>9
<1>4. QED
  BY <1>2, <1>3

(* It has each member of the list once.                                      *)
LEMMA ListingFacts ==
  ASSUME NEW h, NEW H, WellFormed(h, H), NEW a \in Live(h), NEW s, IsListing(h, a, s)
  PROVE  /\ Len(s) \in Nat /\ Len(s) <= NumItems
         /\ \A k \in 1..Len(s) : s[k] \in Members(h, a) /\ s[k] \in Live(h) /\ s[k] # 0
         /\ \A x \in Members(h, a) : \E k \in 1..Len(s) : s[k] = x
         /\ \A i, j \in 1..Len(s) : s[i] = s[j] => i = j
<1> DEFINE n == Len(s)
<1>1. /\ n \in Nat
      /\ \A k \in 1..n : s[k] \in Live(h) /\ s[k] # 0
      /\ \A k \in 1..n : s[k] = IF k = 1 THEN h[a].child ELSE h[s[k - 1]].next
      /\ n = 0 => h[a].child = 0
      /\ n # 0 => h[s[n]].next = 0
  BY ListingLinks
<1>2. /\ Members(h, a) \subseteq Live(h)
      /\ h[a].child # 0 => h[a].child \in Members(h, a)
      /\ \A x \in Members(h, a) : h[x].next # 0 => h[x].next \in Members(h, a)
  BY MemberFacts
<1> HIDE DEF n
<1>3. \A k \in 1..n : s[k] \in Members(h, a)
  <2> DEFINE T == {k \in 0..n : k = 0 \/ s[k] \in Members(h, a)}
  <2>1. 0 \in T
    BY <1>1
  <2>2. ASSUME NEW k \in 1..n, k - 1 \in T PROVE k \in T
    <3>1. CASE k = 1
      BY <1>1, <1>2, <2>2, <3>1
    <3>2. CASE k # 1
      <4>1. s[k - 1] \in Members(h, a) /\ s[k] = h[s[k - 1]].next /\ s[k] # 0
        BY <1>1, <2>2, <3>2
      <4>2. QED
        BY <1>2, <2>2, <4>1
    <3>3. QED
      BY <3>1, <3>2
  <2> HIDE DEF T
  <2>3. 0..n \subseteq T
    BY <1>1, <2>1, <2>2, Induct
  <2>4. QED
    BY <1>1, <2>3 DEF T
<1>4. ASSUME NEW x \in Members(h, a) PROVE \E k \in 1..n : s[k] = x
  <2> DEFINE S == {s[k] : k \in 1..n}
  <2>1. S \in SUBSET Live(h)
    BY <1>1
  <2>2. h[a].child \in S \cup {0}
    <3>1. CASE n = 0
      BY <1>1, <3>1
    <3>2. CASE n # 0
      BY <1>1, <3>2
    <3>3. QED
      BY <3>1, <3>2
  <2>3. ASSUME NEW k \in 1..n PROVE h[s[k]].next \in S \cup {0}
    <3>1. CASE k = n
      BY <1>1, <3>1
    <3>2. CASE k # n
      <4>1. k + 1 \in 1..n /\ k + 1 # 1 /\ k + 1 - 1 = k
        BY <1>1, <3>2
      <4>2. s[k + 1] = h[s[k]].next
        BY <1>1, <4>1
      <4>3. QED
        BY <4>1, <4>2
    <3>3. QED
      BY <3>1, <3>2
  <2>4. ClosedUnder(h, S, {})
    BY <2>3 DEF ClosedUnder
  <2> HIDE DEF S
  <2>5. Members(h, a) \subseteq S
    BY <2>1, <2>2, <2>4, WalkIsLeast DEF Members
  <2>6. QED
    BY <2>5 DEF S
<1>5. \A k \in 1..n : h[s[k]].prev = IF k = 1 THEN 0 ELSE s[k - 1]
  <2>1. ASSUME NEW k \in 1..n, k # 1 PROVE h[s[k]].prev = s[k - 1]
    <3>1. k - 1 \in 1..n /\ s[k] = h[s[k - 1]].next /\ s[k] # 0
      BY <1>1, <2>1
    <3>2. s[k - 1] \in Live(h)
      BY <1>1, <3>1
    <3>3. QED
      BY <3>1, <3>2, Links
  <2>2. ASSUME 1 \in 1..n PROVE h[s[1]].prev = 0
    <3>1. s[1] = h[a].child /\ s[1] # 0
      BY <1>1, <2>2
    <3>2. QED
      BY <3>1, Links
  <2>3. QED
    BY <2>1, <2>2
<1>6. \A i, j \in 1..n : s[i] = s[j] => i = j
  <2> DEFINE T == {i \in 0..n : i = 0 \/ \A j \in 1..n : s[i] = s[j] => i = j}
  <2>1. 0 \in T
    BY <1>1
  <2>2. ASSUME NEW i \in 1..n, i - 1 \in T PROVE i \in T
    <3>1. ASSUME NEW j \in 1..n, s[i] = s[j] PROVE i = j
      <4>1. (IF i = 1 THEN 0 ELSE s[i - 1]) = (IF j = 1 THEN 0 ELSE s[j - 1])
        BY <1>5, <3>1
      <4>2. (i # 1 => i - 1 \in 1..n) /\ (j # 1 => j - 1 \in 1..n)
        BY <1>1
      <4>3. i = 1 <=> j = 1
        BY <1>1, <4>1, <4>2
      <4>4. CASE i # 1
        <5>1. s[i - 1] = s[j - 1] /\ j - 1 \in 1..n /\ i - 1 # 0
          BY <4>1, <4>2, <4>3, <4>4
        <5>2. i - 1 = j - 1
          BY <2>2, <5>1
        <5>3. QED
          BY <5>2
      <4>5. QED
        BY <4>3, <4>4
    <3>2. QED
      BY <2>2, <3>1
  <2> HIDE DEF T
  <2>3. 0..n \subseteq T
    BY <1>1, <2>1, <2>2, Induct
  <2>4. QED
    BY <1>1, <2>3 DEF T
<1>7. n <= NumItems
  <2>1. SUFFICES ASSUME ~ (n <= NumItems) PROVE FALSE
    OBVIOUS
  <2> DEFINE f == [k \in 1..n |-> s[k]]
  <2>2. IsFiniteSet(1..n) /\ IsFiniteSet(Cells) /\ Cardinality(1..n) = n /\ Cardinality(Cells) = NumItems
    BY <1>1, SomeItems, FS_Interval DEF Cells
  <2>3. f \in [1..n -> Cells]
    BY <1>1, ZeroIsNoCell
  <2>4. Cardinality(Cells) < Cardinality(1..n)
    BY <1>1, <2>1, <2>2, SomeItems
  <2>5. \E x, y \in 1..n : x # y /\ f[x] = f[y]
    <3> HIDE DEF f
    <3>1. QED
      BY <2>2, <2>3, <2>4, FS_PigeonHole
  <2>6. QED
    BY <1>6, <2>5
<1>8. QED
  BY <1>1, <1>3, <1>4, <1>6, <1>7 DEF n

(* What cJSON_GetArrayItem walks along is that sequence.                     *)
LEMMA ListingIsChain ==
  ASSUME NEW h, NEW H, WellFormed(h, H), NEW a \in Live(h), NEW s, IsListing(h, a, s)
  PROVE  Chain(h, a) = s
<1> DEFINE n == Len(s)
           N == NumItems
           Law(f) == f = [k \in 1..N |-> IF k = 1 THEN h[a].child ELSE Following(h, f[k - 1])]
           item == CHOOSE f : Law(f)
           g == [k \in 1..N |-> IF k <= n THEN s[k] ELSE 0]
<1>1. /\ n \in Nat /\ n <= N /\ N \in Nat \ {0}
      /\ \A k \in 1..n : s[k] # 0
      /\ \A k \in 1..n : s[k] = IF k = 1 THEN h[a].child ELSE h[s[k - 1]].next
      /\ n = 0 => h[a].child = 0
      /\ n # 0 => h[s[n]].next = 0
  BY ListingLinks, ListingFacts, SomeItems
<1>2. Chain(h, a) = [k \in {k \in 1..N : item[k] # 0} |-> item[k]]
  BY Zenon DEF Chain
<1>3. Law(g)
  <2>1. ASSUME NEW k \in 1..N
        PROVE  g[k] = IF k = 1 THEN h[a].child ELSE Following(h, g[k - 1])
    <3> HIDE DEF n, N
    <3>1. CASE k = 1
      BY <1>1, <3>1
    <3>2. CASE k # 1 /\ k <= n
      <4>1. k \in 1..n /\ k - 1 \in 1..n /\ k - 1 \in 1..N /\ k - 1 <= n
        BY <1>1, <3>2
      <4>2. g[k - 1] = s[k - 1] /\ g[k] = s[k] /\ s[k - 1] # 0
        BY <1>1, <3>2, <4>1
      <4>3. s[k] = h[s[k - 1]].next
        BY <1>1, <3>2, <4>1
      <4>4. QED
        BY <3>2, <4>2, <4>3 DEF Following
    <3>3. CASE k # 1 /\ k = n + 1
      <4>1. n \in 1..n /\ n \in 1..N /\ k - 1 = n /\ ~ (k <= n)
        BY <1>1, <3>3
      <4>2. g[k - 1] = s[n] /\ g[k] = 0 /\ s[n] # 0
        BY <1>1, <3>3, <4>1
      <4>3. QED
        BY <1>1, <3>3, <4>1, <4>2 DEF Following
    <3>4. CASE k # 1 /\ k > n + 1
      <4>1. k - 1 \in 1..N /\ ~ (k - 1 <= n) /\ ~ (k <= n)
        BY <1>1, <3>4
      <4>2. QED
        BY <3>4, <4>1 DEF Following
    <3>5. QED
      BY <1>1, <3>1, <3>2, <3>3, <3>4
  <2> HIDE DEF n, N
  <2>2. QED
    BY <2>1
<1>4. Law(item)
  <2> HIDE DEF Law, g
  <2>1. QED
    BY <1>3, Zenon
<1> HIDE DEF item
<1>5. \A k \in 1..N : /\ item[k] = IF k = 1 THEN h[a].child ELSE Following(h, item[k - 1])
                      /\ g[k] = IF k = 1 THEN h[a].child ELSE Following(h, g[k - 1])
  <2> HIDE DEF g, N
  <2>1. QED
    BY <1>3, <1>4
<1>6. \A k \in 1..N : item[k] = g[k]
  <2> DEFINE T == {k \in 0..N : k = 0 \/ item[k] = g[k]}
  <2> HIDE DEF Law, g
  <2>1. 0 \in T
    BY <1>1
  <2>2. ASSUME NEW k \in 1..N, k - 1 \in T PROVE k \in T
    <3>1. k # 1 => item[k - 1] = g[k - 1]
      BY <2>2
    <3>2. item[k] = g[k]
      BY <1>5, <2>2, <3>1
    <3>3. QED
      BY <3>2
  <2> HIDE DEF T
  <2>3. 0..N \subseteq T
    BY <1>1, <2>1, <2>2, Induct
  <2>4. QED
    BY <1>1, <2>3 DEF T
<1> HIDE DEF Law
<1>7. \A k \in 1..N : item[k] = IF k <= n THEN s[k] ELSE 0
  BY <1>6
<1> HIDE DEF g, N, n
<1>8. {k \in 1..N : item[k] # 0} = 1..n
  <2>1. \A k \in 1..N : item[k] # 0 <=> k <= n
    <3>1. \A k \in 1..N : k <= n => s[k] # 0
      BY <1>1
    <3>2. QED
      BY <1>7, <3>1
  <2>2. QED
    BY <1>1, <2>1
<1>9. Chain(h, a) = [k \in 1..n |-> s[k]]
  <2>1. Chain(h, a) = [k \in 1..n |-> item[k]]
    BY <1>2, <1>8
  <2>2. \A k \in 1..n : item[k] = s[k]
    BY <1>1, <1>7
  <2>3. QED
    BY <2>1, <2>2
<1>10. s \in Seq(Live(h))
  BY DEF IsListing
<1>11. s = [k \in 1..n |-> s[k]]
  BY <1>10 DEF n
<1>12. QED
  BY <1>9, <1>11

(* The members of a well-formed list are a sequence.                         *)
LEMMA ChainFacts ==
  ASSUME NEW h, NEW H, WellFormed(h, H), NEW a \in Live(h), NEW s, s = Chain(h, a)
  PROVE  /\ IsListing(h, a, s) /\ s \in Seq(Live(h)) /\ Len(s) \in Nat
         /\ \A k \in 1..Len(s) : s[k] \in Members(h, a) /\ s[k] \in Live(h) /\ s[k] # 0
         /\ \A x \in Members(h, a) : \E k \in 1..Len(s) : s[k] = x
         /\ \A i, j \in 1..Len(s) : s[i] = s[j] => i = j
         /\ \A k \in 1..Len(s) : s[k] = IF k = 1 THEN h[a].child ELSE h[s[k - 1]].next
         /\ Len(s) = 0 => h[a].child = 0
         /\ Len(s) # 0 => h[s[Len(s)]].next = 0
<1>1. IsListing(h, a, s)
  <2>1. PICK t : IsListing(h, a, t)
    BY ListingExists
  <2>2. QED
    BY <2>1, ListingIsChain
<1>2. s \in Seq(Live(h))
  BY <1>1 DEF IsListing
<1>3. QED
  BY <1>1, <1>2, ListingFacts, ListingLinks

-------------------------------------------------------------------------------
(* What is before and after the k-th member.                                 *)
LEMMA ListingAfter ==
  ASSUME NEW h, NEW H, WellFormed(h, H), NEW a \in Live(h), NEW s, s = Chain(h, a)
  PROVE  /\ \A k \in 0..Len(s) : After(h, a, s, k) = IF k = Len(s) THEN 0 ELSE s[k + 1]
         /\ \A k \in 1..Len(s) : h[s[k]].prev = IF k = 1 THEN 0 ELSE s[k - 1]
<1>1. /\ IsListing(h, a, s) /\ Len(s) \in Nat
      /\ \A k \in 1..Len(s) : s[k] \in Live(h) /\ s[k] # 0
      /\ \A k \in 1..Len(s) : s[k] = IF k = 1 THEN h[a].child ELSE h[s[k - 1]].next
  BY ChainFacts
<1>2. ASSUME NEW k \in 0..Len(s) PROVE After(h, a, s, k) = IF k = Len(s) THEN 0 ELSE s[k + 1]
  <2>1. CASE k = Len(s)
    BY <1>1, <2>1 DEF IsListing
  <2>2. CASE k # Len(s)
    <3>1. k + 1 \in 1..Len(s) /\ k + 1 - 1 = k
      BY <1>1, <2>2
    <3>2. s[k + 1] = After(h, a, s, k)
      BY <1>1, <3>1 DEF IsListing
    <3>3. QED
      BY <2>2, <3>2
  <2>3. QED
    BY <2>1, <2>2
<1>3. ASSUME NEW k \in 1..Len(s) PROVE h[s[k]].prev = IF k = 1 THEN 0 ELSE s[k - 1]
  <2>1. CASE k = 1
    BY <1>1, <2>1, Links
  <2>2. CASE k # 1
    <3>1. k - 1 \in 1..Len(s) /\ s[k] = h[s[k - 1]].next /\ s[k] # 0 /\ s[k - 1] \in Live(h)
      BY <1>1, <2>2
    <3>2. h[s[k]].prev = s[k - 1]
      BY <3>1, Links
    <3>3. QED
      BY <2>2, <3>2
  <2>3. QED
    BY <2>1, <2>2
<1>4. QED
  BY <1>2, <1>3

(* A sequence in the order of the links is the list.                         *)
LEMMA ChainIs ==
  ASSUME NEW g, NEW G, WellFormed(g, G), NEW a \in Live(g), NEW t \in Seq(Live(g)),
         \A k \in 0..Len(t) : After(g, a, t, k) = IF k = Len(t) THEN 0 ELSE t[k + 1]
  PROVE  Chain(g, a) = t
<1>1. Len(t) \in Nat
  OBVIOUS
<1>2. \A k \in 1..Len(t) : t[k] = After(g, a, t, k - 1)
  <2>1. \A k \in 1..Len(t) : k - 1 \in 0..Len(t) /\ k - 1 # Len(t) /\ k - 1 + 1 = k
    BY <1>1
  <2>2. QED
    BY <2>1
<1>3. Len(t) \in 0..Len(t)
  BY <1>1
<1>4. After(g, a, t, Len(t)) = 0
  BY <1>3
<1>5. IsListing(g, a, t)
  BY <1>2, <1>4 DEF IsListing
<1>6. QED
  BY <1>5, ListingIsChain

(* Lists with the same head and the same links from member to member.        *)
LEMMA ChainSame ==
  ASSUME NEW h, NEW H, WellFormed(h, H), NEW a \in Live(h),
         NEW g, NEW G, WellFormed(g, G), NEW b \in Live(g), g[b].child = h[a].child,
         \A x \in Members(h, a) : x \in Live(g) /\ g[x].next = h[x].next
  PROVE  Chain(g, b) = Chain(h, a)
<1> DEFINE s == Chain(h, a)
<1> HIDE DEF s
<1>1. /\ s \in Seq(Live(h)) /\ Len(s) \in Nat
      /\ \A k \in 1..Len(s) : s[k] \in Members(h, a)
  BY ChainFacts DEF s
<1>2. \A k \in 0..Len(s) : After(h, a, s, k) = IF k = Len(s) THEN 0 ELSE s[k + 1]
  BY ListingAfter DEF s
<1>3. \A k \in 0..Len(s) : After(g, b, s, k) = After(h, a, s, k)
  BY <1>1 DEF After
<1>4. s \in Seq(Live(g))
  <2>1. \A k \in 1..Len(s) : s[k] \in Live(g)
    BY <1>1
  <2>2. QED
    BY <1>1, <2>1
<1>5. Chain(g, b) = s
  BY <1>2, <1>3, <1>4, ChainIs
<1>6. QED
  BY <1>5 DEF s

(* A list that no reference shows has no member of another one.              *)
LEMMA OtherLists ==
  ASSUME NEW h, NEW H, WellFormed(h, H), NEW a \in Owners(h), Unreferred(h, {a}),
         NEW x \in Live(h), x # a
  PROVE  Members(h, x) \cap Members(h, a) = {}
<1>1. CASE x \in Owners(h)
  BY <1>1, MembersDisjoint
<1>2. CASE x \notin Owners(h)
  <2> DEFINE o == h[x].of
  <2>1. o \in Owners(h) /\ h[x].child = h[o].child /\ h[x].ref
    BY <1>2, Links DEF Owners
  <2>2. o # a
    BY <2>1 DEF Unreferred
  <2>3. Members(h, x) = Members(h, o)
    BY <2>1 DEF Members
  <2>4. QED
    BY <2>1, <2>2, <2>3, MembersDisjoint
<1>3. QED
  BY <1>1, <1>2

-------------------------------------------------------------------------------
(* The forest of a heap, item by item.                                       *)
SameData(h, g, x) ==
  g[x].kind = h[x].kind /\ g[x].value = h[x].value /\ g[x].string = h[x].string /\ g[x].ref = h[x].ref

LEMMA ForestFacts ==
  ASSUME NEW h
  PROVE  /\ DOMAIN ForestOf(h) = Live(h)
         /\ \A x \in Live(h) :
              ForestOf(h)[x] = [kind |-> h[x].kind, value |-> h[x].value, name |-> h[x].string,
                                ref |-> h[x].ref, kids |-> Chain(h, x)]
BY DEF ForestOf

LEMMA ForestRow ==
  ASSUME NEW h, NEW x \in Live(h)
  PROVE  /\ ForestOf(h)[x].kids = Chain(h, x) /\ ForestOf(h)[x].name = h[x].string
         /\ ForestOf(h)[x].ref = h[x].ref
<1>1. ForestOf(h)[x] = [kind |-> h[x].kind, value |-> h[x].value, name |-> h[x].string,
                        ref |-> h[x].ref, kids |-> Chain(h, x)]
  BY ForestFacts
<1>2. QED
  BY <1>1

(* From the forest f to g: only what a is changes.                           *)
Changed(f, g, a, new) ==
  DOMAIN g = DOMAIN f /\ g[a] = new /\ \A x \in DOMAIN f : x # a => g[x] = f[x]

(* From the heap h to g: only the list of a changes.                         *)
Relisted(h, g, a, t) ==
  /\ Live(g) = Live(h) /\ a \in Live(h) /\ Chain(g, a) = t
  /\ \A x \in Live(h) : SameData(h, g, x) /\ (x # a => Chain(g, x) = Chain(h, x))

LEMMA KidsChanged ==
  ASSUME NEW h, NEW g, NEW a, NEW t, Relisted(h, g, a, t)
  PROVE  Changed(ForestOf(h), ForestOf(g), a, [ForestOf(h)[a] EXCEPT !.kids = t])
<1>1. /\ DOMAIN ForestOf(h) = Live(h) /\ DOMAIN ForestOf(g) = Live(h) /\ a \in Live(h)
      /\ \A x \in Live(h) :
           /\ ForestOf(h)[x] = [kind |-> h[x].kind, value |-> h[x].value, name |-> h[x].string,
                                ref |-> h[x].ref, kids |-> Chain(h, x)]
           /\ ForestOf(g)[x] = [kind |-> h[x].kind, value |-> h[x].value, name |-> h[x].string,
                                ref |-> h[x].ref, kids |-> Chain(g, x)]
  BY ForestFacts DEF SameData, Relisted
<1>2. \A x \in Live(h) : x # a => ForestOf(g)[x] = ForestOf(h)[x]
  BY <1>1 DEF Relisted
<1>3. ForestOf(g)[a] = [ForestOf(h)[a] EXCEPT !.kids = t]
  BY <1>1 DEF Relisted
<1>4. QED
  BY <1>1, <1>2, <1>3 DEF Changed

-------------------------------------------------------------------------------
(* Add: the list is longer by c.                                             *)
LEMMA AddFirstData ==
  ASSUME NEW h \in Heaps, NEW a \in Live(h), NEW c, NEW g, g = [h EXCEPT ![a].child = c]
  PROVE  \A x \in Live(h) : SameData(h, g, x)
<1>1. Live(h) \subseteq Cells /\ h = [x \in Cells |-> h[x]] /\ \A x \in Live(h) : h[x] \in Struct
  BY ZeroIsNoCell, HeapParts
<1>2. QED
  BY <1>1 DEF SameData, Struct

LEMMA AddNextData ==
  ASSUME NEW h \in Heaps, NEW p \in Live(h), NEW c \in Live(h), p # c, NEW g, g = Suffix(h, p, c)
  PROVE  \A x \in Live(h) : SameData(h, g, x)
<1>1. Live(h) \subseteq Cells /\ h = [x \in Cells |-> h[x]] /\ \A x \in Live(h) : h[x] \in Struct
  BY ZeroIsNoCell, HeapParts
<1>2. /\ g[p] = [h[p] EXCEPT !.next = c] /\ g[c] = [h[c] EXCEPT !.prev = p]
      /\ \A x \in Live(h) : x # p /\ x # c => g[x] = h[x]
  BY <1>1 DEF Suffix
<1>3. h[p] \in Struct /\ h[c] \in Struct
  BY <1>1
<1>4. SameData(h, g, p) /\ SameData(h, g, c)
  BY <1>2, <1>3 DEF SameData, Struct
<1>5. QED
  BY <1>2, <1>4 DEF SameData

LEMMA AddChains ==
  ASSUME NEW h, NEW H, WellFormed(h, H), NEW a \in Owners(h), NEW c \in H,
         a \notin Deleted(h, c), Unreferred(h, {a}), NEW g, g = AddItem(h, a, c)
  PROVE  Relisted(h, g, a, Append(Chain(h, a), c))
<1> DEFINE s == Chain(h, a)
           G == H \ {c}
           t == Append(s, c)
<1>1. /\ h \in Heaps /\ a \in Live(h) /\ c \in Live(h) /\ c # 0
      /\ h[c].next = 0 /\ h[c].prev = 0
  BY WellFormedIs, ZeroIsNoCell DEF Neat, Owners
<1>2. \A r \in Live(h) \ Owners(h) : h[r].of # a
  BY DEF Unreferred, Owners
<1>3. WellFormed(g, G)
  BY <1>2, AddKeeps
<1> HIDE DEF s, G
<1>4. /\ s \in Seq(Live(h)) /\ Len(s) \in Nat
      /\ \A k \in 1..Len(s) : s[k] \in Members(h, a) /\ s[k] \in Live(h) /\ s[k] # 0
      /\ \A x \in Members(h, a) : \E k \in 1..Len(s) : s[k] = x
      /\ \A i, j \in 1..Len(s) : s[i] = s[j] => i = j
      /\ Len(s) = 0 => h[a].child = 0
      /\ Len(s) # 0 => s[1] = h[a].child
  BY <1>1, ChainFacts DEF s
<1>5. \A k \in 0..Len(s) : After(h, a, s, k) = IF k = Len(s) THEN 0 ELSE s[k + 1]
  BY <1>1, ListingAfter DEF s
<1>6. /\ Len(t) = Len(s) + 1 /\ t[Len(s) + 1] = c
      /\ \A k \in 1..Len(s) : t[k] = s[k]
  BY <1>1, <1>4
<1>7. c \notin Members(h, a)
  BY <1>1, MemberFacts
<1> HIDE DEF t
<1>8. CASE h[a].child = 0
  <2>1. g = [h EXCEPT ![a].child = c]
    BY <1>8 DEF AddItem
  <2>2. FirstAdded(h, g, a, c)
    BY <1>1, <2>1, AddFirst
  <2>3. /\ Live(g) = Live(h) /\ g[a].child = c
        /\ \A x \in Live(h) : g[x].next = h[x].next /\ (x # a => g[x].child = h[x].child)
    BY <1>1, <2>2 DEF FirstAdded
  <2>4. \A x \in Live(h) : SameData(h, g, x)
    BY <1>1, <2>1, AddFirstData
  <2>5. ASSUME NEW x \in Live(h), x # a PROVE Chain(g, x) = Chain(h, x)
    <3>1. Members(h, x) \subseteq Live(h)
      BY MemberFacts
    <3>2. \A y \in Members(h, x) : y \in Live(g) /\ g[y].next = h[y].next
      BY <2>3, <3>1
    <3>3. QED
      BY <1>3, <2>3, <2>5, <3>2, ChainSame
  <2>6. Len(s) = 0
    BY <1>4, <1>8
  <2>7. t \in Seq(Live(g))
    BY <1>1, <1>4, <2>3 DEF t
  <2>8. \A k \in 0..Len(t) : After(g, a, t, k) = IF k = Len(t) THEN 0 ELSE t[k + 1]
    BY <1>1, <1>6, <2>3, <2>6 DEF After
  <2>9. Chain(g, a) = t
    BY <1>1, <1>3, <2>3, <2>7, <2>8, ChainIs
  <2>10. QED
    BY <1>1, <2>3, <2>4, <2>5, <2>9 DEF s, t, Relisted
<1>9. CASE h[a].child # 0
  <2> DEFINE p == CHOOSE last \in Members(h, a) : h[last].next = 0
  <2>1. p \in Members(h, a) /\ h[p].next = 0
    BY <1>1, <1>9, LastExists
  <2>2. g = Suffix(h, p, c)
    BY <1>9 DEF AddItem
  <2> HIDE DEF p
  <2>3. p \in Live(h) /\ p # c
    BY <1>1, <1>7, <2>1, MemberFacts
  <2>4. NextAdded(h, g, p, c)
    BY <1>1, <2>2, <2>3, AddNext
  <2>5. /\ Live(g) = Live(h) /\ g[p].next = c
        /\ \A x \in Live(h) : g[x].child = h[x].child /\ (x # p => g[x].next = h[x].next)
    BY <2>3, <2>4 DEF NextAdded
  <2>6. \A x \in Live(h) : SameData(h, g, x)
    BY <1>1, <2>2, <2>3, AddNextData
  <2>7. ASSUME NEW x \in Live(h), x # a PROVE Chain(g, x) = Chain(h, x)
    <3>1. Members(h, x) \subseteq Live(h) /\ p \notin Members(h, x)
      BY <2>1, <2>7, MemberFacts, OtherLists
    <3>2. \A y \in Members(h, x) : y \in Live(g) /\ g[y].next = h[y].next
      BY <2>5, <3>1
    <3>3. QED
      BY <1>3, <2>5, <2>7, <3>2, ChainSame
  <2>8. Len(s) # 0 /\ s[Len(s)] = p
    <3>1. PICK k \in 1..Len(s) : s[k] = p
      BY <1>4, <2>1
    <3>2. k # Len(s) => s[k + 1] = 0
      BY <1>4, <1>5, <2>1, <3>1 DEF After
    <3>3. k # Len(s) => k + 1 \in 1..Len(s)
      BY <1>4
    <3>4. k = Len(s)
      BY <1>4, <3>2, <3>3
    <3>5. QED
      BY <1>4, <3>1, <3>4
  <2>9. t \in Seq(Live(g))
    BY <1>1, <1>4, <2>5 DEF t
  <2>10. ASSUME NEW k \in 0..Len(t) PROVE After(g, a, t, k) = IF k = Len(t) THEN 0 ELSE t[k + 1]
    <3>1. CASE k = 0
      BY <1>1, <1>4, <1>6, <2>5, <2>8, <3>1 DEF After
    <3>2. CASE k \in 1..Len(s) /\ k # Len(s)
      <4>1. s[k] # p /\ s[k] \in Live(h)
        BY <1>4, <2>8, <3>2
      <4>2. g[s[k]].next = h[s[k]].next
        BY <2>5, <4>1
      <4>3. h[s[k]].next = s[k + 1]
        BY <1>5, <3>2 DEF After
      <4>4. t[k + 1] = s[k + 1] /\ t[k] = s[k] /\ k # Len(t) /\ k # 0
        BY <1>4, <1>6, <3>2
      <4>5. QED
        BY <4>2, <4>3, <4>4 DEF After
    <3>3. CASE k = Len(s) /\ k # 0
      <4>1. t[k] = p /\ t[k + 1] = c /\ k # Len(t)
        BY <1>4, <1>6, <2>8, <3>3
      <4>2. QED
        BY <2>5, <3>3, <4>1 DEF After
    <3>4. CASE k = Len(t)
      BY <1>1, <1>4, <1>6, <2>3, <2>5, <3>4 DEF After
    <3>5. QED
      BY <1>4, <1>6, <3>1, <3>2, <3>3, <3>4
  <2>11. Chain(g, a) = t
    BY <1>1, <1>3, <2>5, <2>9, <2>10, ChainIs
  <2>12. QED
    BY <1>1, <2>5, <2>6, <2>7, <2>11 DEF s, t, Relisted
<1>10. QED
  BY <1>8, <1>9

LEMMA AddForest ==
  ASSUME NEW h, NEW H, WellFormed(h, H), NEW a \in Owners(h), NEW c \in H,
         a \notin Deleted(h, c), Unreferred(h, {a}), NEW g, g = AddItem(h, a, c)
  PROVE  Changed(ForestOf(h), ForestOf(g), a, [ForestOf(h)[a] EXCEPT !.kids = Append(@, c)])
<1>1. Relisted(h, g, a, Append(Chain(h, a), c))
  BY AddChains
<1>2. Changed(ForestOf(h), ForestOf(g), a,
              [ForestOf(h)[a] EXCEPT !.kids = Append(Chain(h, a), c)])
  BY <1>1, KidsChanged, Zenon
<1>3. ForestOf(h)[a].kids = Chain(h, a)
  BY ForestRow DEF Owners
<1>4. QED
  BY <1>2, <1>3, Zenon

(* Another name.                                                             *)
LEMMA SameLinksChains ==
  ASSUME NEW h, NEW H, WellFormed(h, H), NEW g, SameLinks(h, g)
  PROVE  \A x \in Live(h) : Chain(g, x) = Chain(h, x)
<1>1. SUFFICES ASSUME NEW x \in Live(h) PROVE Chain(g, x) = Chain(h, x)
  OBVIOUS
<1>2. /\ Live(g) = Live(h) /\ g[x].child = h[x].child
      /\ \A y \in Live(h) : g[y].next = h[y].next
  BY DEF SameLinks
<1>3. \A y \in Members(h, x) : y \in Live(g) /\ g[y].next = h[y].next
  BY <1>2, MemberFacts
<1>4. WellFormed(g, H)
  BY SameLinksKeep
<1>5. QED
  BY <1>2, <1>3, <1>4, ChainSame

(* From the heap h to g: only the name of c changes.                         *)
Renamed(h, g, c, n) ==
  /\ g[c].kind = h[c].kind /\ g[c].value = h[c].value /\ g[c].ref = h[c].ref
  /\ g[c].string = n /\ c \in Live(h) /\ SameLinks(h, g)
  /\ \A x \in Live(h) : x # c => g[x] = h[x]

LEMMA IsRenamed ==
  ASSUME NEW h \in Heaps, NEW c \in Live(h), NEW n \in Texts, NEW g,
         g = [h EXCEPT ![c].string = n]
  PROVE  Renamed(h, g, c, n)
<1>1. SameLinks(h, g)
  BY RenameFacts
<1>2. Live(h) \subseteq Cells /\ h = [x \in Cells |-> h[x]] /\ h[c] \in Struct
  BY ZeroIsNoCell, HeapParts
<1>3. /\ g[c] = [h[c] EXCEPT !.string = n]
      /\ \A x \in Live(h) : x # c => g[x] = h[x]
  BY <1>2
<1>4. /\ g[c].kind = h[c].kind /\ g[c].value = h[c].value /\ g[c].string = n
      /\ g[c].ref = h[c].ref
  BY <1>2, <1>3 DEF Struct
<1>5. QED
  BY <1>1, <1>3, <1>4 DEF Renamed

LEMMA RenameForest ==
  ASSUME NEW h, NEW H, WellFormed(h, H), NEW c, NEW n, NEW g, Renamed(h, g, c, n)
  PROVE  Changed(ForestOf(h), ForestOf(g), c, [ForestOf(h)[c] EXCEPT !.name = n])
<1>1. SameLinks(h, g) /\ Live(g) = Live(h) /\ c \in Live(h)
  BY DEF Renamed, SameLinks
<1>2. \A x \in Live(h) : Chain(g, x) = Chain(h, x)
  BY <1>1, SameLinksChains
<1>3. /\ DOMAIN ForestOf(h) = Live(h)
      /\ \A x \in Live(h) :
           ForestOf(h)[x] = [kind |-> h[x].kind, value |-> h[x].value, name |-> h[x].string,
                             ref |-> h[x].ref, kids |-> Chain(h, x)]
  BY ForestFacts
<1>4. /\ DOMAIN ForestOf(g) = Live(h)
      /\ \A x \in Live(h) :
           ForestOf(g)[x] = [kind |-> g[x].kind, value |-> g[x].value, name |-> g[x].string,
                             ref |-> g[x].ref, kids |-> Chain(h, x)]
  BY <1>1, <1>2, ForestFacts
<1>5. ForestOf(g)[c] = [ForestOf(h)[c] EXCEPT !.name = n]
  <2>1. ForestOf(h)[c] = [kind |-> h[c].kind, value |-> h[c].value, name |-> h[c].string,
                          ref |-> h[c].ref, kids |-> Chain(h, c)]
    BY <1>1, <1>3
  <2>2. ForestOf(g)[c] = [kind |-> h[c].kind, value |-> h[c].value, name |-> n,
                          ref |-> h[c].ref, kids |-> Chain(h, c)]
    BY <1>1, <1>4 DEF Renamed
  <2>3. QED
    BY <2>1, <2>2
<1>6. \A x \in Live(h) : x # c => ForestOf(g)[x] = ForestOf(h)[x]
  BY <1>3, <1>4 DEF Renamed
<1>7. QED
  BY <1>3, <1>4, <1>5, <1>6 DEF Changed

-------------------------------------------------------------------------------
(* Detach and Swap: the list is without c, or has n in its place.            *)
LEMMA AroundData ==
  ASSUME NEW h \in Heaps, NEW a, NEW c, NEW left, NEW right,
         NEW g, g = Around(h, a, c, left, right)
  PROVE  \A x \in Live(h) : SameData(h, g, x)
<1>1. SUFFICES ASSUME NEW x \in Live(h) PROVE SameData(h, g, x)
  OBVIOUS
<1>2. x \in Cells /\ h[x] \in Struct
  BY ZeroIsNoCell, HeapParts
<1> DEFINE next == IF x = h[c].prev THEN right ELSE h[x].next
           prev == IF x = h[c].next THEN left ELSE h[x].prev
           child == IF x = a /\ h[x].child = c THEN right ELSE h[x].child
<1>3. g[x] = [h[x] EXCEPT !.next = next, !.prev = prev, !.child = child]
  BY <1>2 DEF Around
<1> HIDE DEF next, prev, child
<1>4. QED
  BY <1>2, <1>3 DEF SameData, Struct

LEMMA PlaceData ==
  ASSUME NEW h \in Heaps, NEW c \in Live(h), NEW n, NEW p,
         NEW g, g = [h EXCEPT ![c].next = n, ![c].prev = p]
  PROVE  \A x \in Live(h) : SameData(h, g, x)
<1>1. Live(h) \subseteq Cells /\ h = [x \in Cells |-> h[x]] /\ h[c] \in Struct
  BY ZeroIsNoCell, HeapParts
<1>2. /\ g[c] = [h[c] EXCEPT !.next = n, !.prev = p]
      /\ \A x \in Live(h) : x # c => g[x] = h[x]
  BY <1>1
<1>3. SameData(h, g, c)
  BY <1>1, <1>2 DEF SameData, Struct
<1>4. QED
  BY <1>2, <1>3 DEF SameData

LEMMA DetachData ==
  ASSUME NEW h \in Heaps, NEW a, NEW c \in Live(h), NEW g, g = Detach(h, a, c)
  PROVE  \A x \in Live(h) : SameData(h, g, x)
<1> DEFINE k == Around(h, a, c, h[c].prev, h[c].next)
<1>1. g = [k EXCEPT ![c].next = 0, ![c].prev = 0]
  BY DEF Detach
<1>2. h[c] \in Struct
  BY HeapParts
<1>3. h[c].prev \in Pointers /\ h[c].next \in Pointers
  BY <1>2 DEF Struct
<1>4. AroundIs(h, k, a, c, h[c].prev, h[c].next)
  BY <1>3, AroundFacts
<1>5. \A x \in Live(h) : SameData(h, k, x)
  <2> DEFINE l == h[c].prev
             r == h[c].next
  <2>1. k = Around(h, a, c, l, r)
    OBVIOUS
  <2> HIDE DEF k, l, r
  <2>2. QED
    BY <2>1, AroundData
<1> HIDE DEF k
<1>6. k \in Heaps /\ Live(k) = Live(h)
  BY <1>4 DEF AroundIs
<1>7. \A x \in Live(h) : SameData(k, g, x)
  BY <1>1, <1>6, PlaceData
<1>8. QED
  BY <1>5, <1>7 DEF SameData

LEMMA SwapData ==
  ASSUME NEW h \in Heaps, NEW a, NEW c \in Live(h), NEW n \in Live(h), c # n,
         NEW g, g = Swap(h, a, c, n)
  PROVE  \A x \in Live(h) : SameData(h, g, x)
<1> DEFINE k == Around(h, a, c, n, n)
           l == h[c].prev
           r == h[c].next
           m == [k EXCEPT ![n].next = r, ![n].prev = l]
<1>1. g = [m EXCEPT ![c].next = 0, ![c].prev = 0]
  BY DEF Swap
<1>2. h[c] \in Struct /\ n \in Pointers
  BY HeapParts, ZeroIsNoCell DEF Pointers
<1>3. l \in Pointers /\ r \in Pointers
  BY <1>2 DEF Struct
<1>4. AroundIs(h, k, a, c, n, n)
  BY <1>2, AroundFacts
<1>5. \A x \in Live(h) : SameData(h, k, x)
  <2>1. k = Around(h, a, c, n, n)
    OBVIOUS
  <2> HIDE DEF k
  <2>2. QED
    BY <2>1, AroundData
<1> HIDE DEF k, l, r
<1>6. k \in Heaps /\ Live(k) = Live(h)
  BY <1>4 DEF AroundIs
<1>7. PlacedIs(k, m, n, r, l)
  BY <1>3, <1>6, PlaceFacts
<1>8. m = [k EXCEPT ![n].next = r, ![n].prev = l]
  OBVIOUS
<1> HIDE DEF m
<1>9. m \in Heaps /\ Live(m) = Live(h)
  BY <1>6, <1>7 DEF PlacedIs
<1>10. \A x \in Live(h) : SameData(k, m, x)
  BY <1>6, <1>8, PlaceData
<1>11. \A x \in Live(h) : SameData(m, g, x)
  BY <1>1, <1>9, PlaceData
<1>12. QED
  BY <1>5, <1>10, <1>11 DEF SameData

(* RemoveAt and ReplaceAt, place by place.                                   *)
IsWithout(S, s, k, t) ==
  /\ t \in Seq(S) /\ Len(t) = Len(s) - 1
  /\ \A j \in 1..Len(t) : t[j] = IF j < k THEN s[j] ELSE s[j + 1]

IsWith(S, s, k, n, t) ==
  /\ t \in Seq(S) /\ Len(t) = Len(s)
  /\ \A j \in 1..Len(t) : t[j] = IF j = k THEN n ELSE s[j]

LEMMA RemoveAtFacts ==
  ASSUME NEW S, NEW s \in Seq(S), NEW k \in 1..Len(s), NEW t, t = Forest!RemoveAt(s, k)
  PROVE  IsWithout(S, s, k, t)
<1> DEFINE u == SubSeq(s, 1, k - 1)
           v == SubSeq(s, k + 1, Len(s))
<1>1. Len(s) \in Nat /\ t = u \o v
  BY DEF Forest!RemoveAt
<1>2. /\ u \in Seq(S) /\ Len(u) = k - 1
      /\ \A j \in 1..(k - 1) : u[j] = s[j]
  BY <1>1
<1>3. /\ v \in Seq(S) /\ Len(v) = Len(s) - k
      /\ \A j \in 1..(Len(s) - k) : v[j] = s[j + k]
  BY <1>1
<1> HIDE DEF u, v
<1>4. t \in Seq(S) /\ Len(t) = Len(s) - 1
  BY <1>1, <1>2, <1>3
<1>5. \A j \in 1..Len(t) : t[j] = IF j < k THEN s[j] ELSE s[j + 1]
  <2>1. \A j \in 1..Len(t) : t[j] = IF j <= k - 1 THEN u[j] ELSE v[j - (k - 1)]
    BY <1>1, <1>2, <1>3, <1>4, ConcatProperties
  <2>2. SUFFICES ASSUME NEW j \in 1..Len(t) PROVE t[j] = IF j < k THEN s[j] ELSE s[j + 1]
    OBVIOUS
  <2>3. CASE j < k
    BY <1>2, <1>4, <2>1, <2>3
  <2>4. CASE ~ (j < k)
    <3>1. j - (k - 1) \in 1..(Len(s) - k) /\ ~ (j <= k - 1) /\ j - (k - 1) + k = j + 1
      BY <1>1, <1>4, <2>4
    <3>2. v[j - (k - 1)] = s[j + 1]
      BY <1>3, <3>1
    <3>3. QED
      BY <2>1, <2>4, <3>1, <3>2
  <2>5. QED
    BY <2>3, <2>4
<1>6. QED
  BY <1>4, <1>5 DEF IsWithout

LEMMA ReplaceAtFacts ==
  ASSUME NEW S, NEW s \in Seq(S), NEW k \in 1..Len(s), NEW n \in S, NEW t,
         t = Forest!ReplaceAt(s, k, n)
  PROVE  IsWith(S, s, k, n, t)
BY DEF Forest!ReplaceAt, IsWith

(* Where a member of a list that no reference shows stands in it.            *)
Standing(h, H, a, s, k, c) ==
  /\ s \in Seq(Live(h)) /\ Len(s) \in Nat /\ k \in 1..Len(s) /\ s[k] = c
  /\ \A j \in 1..Len(s) : s[j] \in Live(h) /\ s[j] # 0 /\ s[j] \notin H
  /\ \A i, j \in 1..Len(s) : s[i] = s[j] => i = j
  /\ h[a].child = s[1] /\ h[s[Len(s)]].next = 0
  /\ \A j \in 1..Len(s) : j # Len(s) => h[s[j]].next = s[j + 1]
  /\ h[c].prev = IF k = 1 THEN 0 ELSE s[k - 1]
  /\ h[c].next = IF k = Len(s) THEN 0 ELSE s[k + 1]
  /\ c \in Members(h, a) /\ a # c
  /\ \A x \in Live(h) : x # a =>
       /\ c \notin Members(h, x) /\ h[c].prev \notin Members(h, x)
       /\ Members(h, x) \subseteq Live(h) \ H

LEMMA PlaceInList ==
  ASSUME NEW h, NEW H, WellFormed(h, H), NEW a \in Owners(h), Unreferred(h, {a}),
         NEW s, s = Chain(h, a), NEW k \in 1..Len(s), NEW c, s[k] = c
  PROVE  Standing(h, H, a, s, k, c)
<1>1. a \in Live(h)
  BY DEF Owners
<1>2. /\ s \in Seq(Live(h)) /\ Len(s) \in Nat
      /\ \A j \in 1..Len(s) : s[j] \in Members(h, a) /\ s[j] \in Live(h) /\ s[j] # 0
      /\ \A i, j \in 1..Len(s) : s[i] = s[j] => i = j
  BY <1>1, ChainFacts
<1>3. \A j \in 1..Len(s) : s[j] \notin H
  BY <1>1, <1>2, MemberFacts
<1>4. /\ \A j \in 0..Len(s) : After(h, a, s, j) = IF j = Len(s) THEN 0 ELSE s[j + 1]
      /\ \A j \in 1..Len(s) : h[s[j]].prev = IF j = 1 THEN 0 ELSE s[j - 1]
  BY <1>1, ListingAfter
<1>5. h[a].child = s[1]
  BY <1>2, <1>4 DEF After
<1>6. \A j \in 1..Len(s) : h[s[j]].next = IF j = Len(s) THEN 0 ELSE s[j + 1]
  BY <1>2, <1>4 DEF After
<1>7. c \in Members(h, a) /\ a # c
  BY <1>2, MemberPlace
<1>8. h[c].prev \in Members(h, a) \cup {0}
  BY <1>2, <1>4
<1>9. ASSUME NEW x \in Live(h), x # a
      PROVE  /\ c \notin Members(h, x) /\ h[c].prev \notin Members(h, x)
             /\ Members(h, x) \subseteq Live(h) \ H
  <2>1. Members(h, x) \cap Members(h, a) = {}
    BY <1>9, OtherLists
  <2>2. Members(h, x) \subseteq Live(h) \ H
    BY MemberFacts
  <2>3. 0 \notin Members(h, x)
    BY <2>2, ZeroIsNoCell
  <2>4. QED
    BY <1>7, <1>8, <2>1, <2>2, <2>3
<1>10. Len(s) \in 1..Len(s)
  BY <1>2
<1>11. QED
  BY <1>2, <1>3, <1>4, <1>5, <1>6, <1>7, <1>9, <1>10 DEF Standing

LEMMA DetachChains ==
  ASSUME NEW h, NEW H, WellFormed(h, H), NEW a \in Owners(h), Unreferred(h, {a}),
         NEW s, s = Chain(h, a), NEW k \in 1..Len(s), NEW c, s[k] = c,
         NEW g, g = Detach(h, a, c), NEW t, t = Forest!RemoveAt(s, k)
  PROVE  Relisted(h, g, a, t)
<1>1. /\ s \in Seq(Live(h)) /\ Len(s) \in Nat
      /\ \A j \in 1..Len(s) : s[j] \in Live(h) /\ s[j] # 0 /\ s[j] \notin H
      /\ \A i, j \in 1..Len(s) : s[i] = s[j] => i = j
      /\ h[a].child = s[1] /\ h[s[Len(s)]].next = 0
      /\ \A j \in 1..Len(s) : j # Len(s) => h[s[j]].next = s[j + 1]
      /\ h[c].prev = IF k = 1 THEN 0 ELSE s[k - 1]
      /\ h[c].next = IF k = Len(s) THEN 0 ELSE s[k + 1]
      /\ c \in Members(h, a) /\ a # c
      /\ \A x \in Live(h) : x # a =>
           /\ c \notin Members(h, x) /\ h[c].prev \notin Members(h, x)
           /\ Members(h, x) \subseteq Live(h) \ H
  <2>1. Standing(h, H, a, s, k, c)
    BY PlaceInList
  <2>2. QED
    BY <2>1 DEF Standing
<1>2. a \in Live(h) /\ c \in Live(h) /\ h \in Heaps
  BY <1>1, WellFormedIs DEF Owners
<1>3. WellFormed(g, H \cup {c}) /\ Live(g) = Live(h)
  BY <1>1, DetachKeeps
<1>4. DetachedIs(h, g, a, c)
  BY <1>1, <1>2, DetachFacts
<1>5. \A x \in Live(h) : SameData(h, g, x)
  BY <1>2, DetachData
<1>6. /\ g[c].child = h[c].child
      /\ g[a].child = IF k = 1 THEN h[c].next ELSE h[a].child
      /\ \A x \in Live(h) : x # c =>
           /\ x # a => g[x].child = h[x].child
           /\ g[x].next = IF x = h[c].prev THEN h[c].next ELSE h[x].next
  <2>1. h[a].child = c <=> k = 1
    BY <1>1
  <2>2. QED
    BY <1>1, <1>2, <1>4, <2>1 DEF DetachedIs
<1>7. ASSUME NEW x \in Live(h), x # a PROVE Chain(g, x) = Chain(h, x)
  <2>1. g[x].child = h[x].child
    BY <1>6, <1>7
  <2>2. \A y \in Members(h, x) : y \in Live(g) /\ g[y].next = h[y].next
    BY <1>1, <1>3, <1>6, <1>7
  <2>3. x \in Live(g)
    BY <1>3
  <2>4. QED
    BY <1>3, <2>1, <2>2, <2>3, ChainSame, SMTT(20)
<1>8. /\ t \in Seq(Live(h)) /\ Len(t) = Len(s) - 1
      /\ \A j \in 1..Len(t) : t[j] = IF j < k THEN s[j] ELSE s[j + 1]
  <2>1. IsWithout(Live(h), s, k, t)
    BY <1>1, RemoveAtFacts
  <2>2. QED
    BY <2>1 DEF IsWithout
<1>9. ASSUME NEW j \in 0..Len(t)
      PROVE  After(g, a, t, j) = IF j = Len(t) THEN 0 ELSE t[j + 1]
  <2>1. CASE j = 0
    <3>1. CASE k = 1
      BY <1>1, <1>6, <1>8, <2>1, <3>1 DEF After
    <3>2. CASE k # 1
      BY <1>1, <1>6, <1>8, <2>1, <3>2, SMTT(30) DEF After
    <3>3. QED
      BY <3>1, <3>2
  <2>2. CASE j # 0 /\ j < k
    <3>1. j \in 1..Len(s) /\ t[j] = s[j] /\ s[j] # c /\ s[j] \in Live(h)
      BY <1>1, <1>8, <2>2
    <3>2. s[j] = h[c].prev <=> j = k - 1
      BY <1>1, <2>2, <3>1, SMTT(30)
    <3>3. CASE j = k - 1
      <4>1. g[s[j]].next = h[c].next
        BY <1>6, <3>1, <3>2, <3>3
      <4>2. j = Len(t) <=> k = Len(s)
        BY <1>1, <1>8, <3>3
      <4>3. j # Len(t) => t[j + 1] = s[k + 1]
        BY <1>1, <1>8, <3>3
      <4>4. QED
        BY <1>1, <2>2, <3>1, <4>1, <4>2, <4>3 DEF After
    <3>4. CASE j # k - 1
      <4>1. g[s[j]].next = h[s[j]].next
        BY <1>6, <3>1, <3>2, <3>4
      <4>2. j # Len(s) /\ j # Len(t) /\ j + 1 < k /\ j + 1 \in 1..Len(t)
        BY <1>1, <1>8, <2>2, <3>4
      <4>3. h[s[j]].next = s[j + 1] /\ t[j + 1] = s[j + 1]
        BY <1>1, <1>8, <3>1, <4>2
      <4>4. QED
        BY <2>2, <3>1, <4>1, <4>2, <4>3 DEF After
    <3>5. QED
      BY <3>3, <3>4
  <2>3. CASE j # 0 /\ ~ (j < k)
    <3>1. j \in 1..Len(t) /\ j + 1 \in 1..Len(s) /\ t[j] = s[j + 1] /\ j + 1 # k
      BY <1>1, <1>8, <2>3
    <3>2. s[j + 1] # c /\ s[j + 1] \in Live(h)
      BY <1>1, <3>1
    <3>3. s[j + 1] # h[c].prev
      BY <1>1, <2>3, <3>1, SMTT(30)
    <3>4. g[s[j + 1]].next = h[s[j + 1]].next
      BY <1>6, <3>2, <3>3
    <3>5. CASE j = Len(t)
      BY <1>1, <1>8, <2>3, <3>1, <3>4, <3>5 DEF After
    <3>6. CASE j # Len(t)
      <4>1. j + 1 # Len(s) /\ j + 1 \in 1..Len(t) /\ ~ (j + 1 < k) /\ j + 1 + 1 = j + 2
        <5>1. Len(s) \in Nat /\ Len(t) = Len(s) - 1 /\ k \in 1..Len(s)
          BY <1>1, <1>8
        <5>2. QED
          BY <2>3, <3>1, <3>6, <5>1
      <4>2. h[s[j + 1]].next = s[j + 2] /\ t[j + 1] = s[j + 2]
        BY <1>1, <1>8, <3>1, <4>1
      <4>3. QED
        BY <2>3, <3>1, <3>4, <3>6, <4>2 DEF After
    <3>7. QED
      BY <3>5, <3>6
  <2>4. QED
    BY <2>1, <2>2, <2>3
<1>10. Chain(g, a) = t
  <2>1. t \in Seq(Live(g)) /\ a \in Live(g)
    BY <1>2, <1>3, <1>8
  <2>2. QED
    BY <1>3, <1>9, <2>1, ChainIs
<1>11. QED
  BY <1>2, <1>3, <1>5, <1>7, <1>10 DEF Relisted

LEMMA SwapChains ==
  ASSUME NEW h, NEW H, WellFormed(h, H), NEW a \in Owners(h), Unreferred(h, {a}),
         NEW s, s = Chain(h, a), NEW k \in 1..Len(s), NEW c, s[k] = c,
         NEW n \in H, a \notin Deleted(h, n),
         NEW g, g = Swap(h, a, c, n), NEW t, t = Forest!ReplaceAt(s, k, n)
  PROVE  Relisted(h, g, a, t)
<1>1. /\ s \in Seq(Live(h)) /\ Len(s) \in Nat
      /\ \A j \in 1..Len(s) : s[j] \in Live(h) /\ s[j] # 0 /\ s[j] \notin H
      /\ \A i, j \in 1..Len(s) : s[i] = s[j] => i = j
      /\ h[a].child = s[1] /\ h[s[Len(s)]].next = 0
      /\ \A j \in 1..Len(s) : j # Len(s) => h[s[j]].next = s[j + 1]
      /\ h[c].prev = IF k = 1 THEN 0 ELSE s[k - 1]
      /\ h[c].next = IF k = Len(s) THEN 0 ELSE s[k + 1]
      /\ c \in Members(h, a) /\ a # c
      /\ \A x \in Live(h) : x # a =>
           /\ c \notin Members(h, x) /\ h[c].prev \notin Members(h, x)
           /\ Members(h, x) \subseteq Live(h) \ H
  <2>1. Standing(h, H, a, s, k, c)
    BY PlaceInList
  <2>2. QED
    BY <2>1 DEF Standing
<1>2. /\ a \in Live(h) /\ c \in Live(h) /\ h \in Heaps /\ n \in Live(h)
      /\ n # 0 /\ a # n /\ c # n
  <2>1. n \in Live(h) /\ h \in Heaps /\ a \in Live(h)
    BY WellFormedIs DEF Owners, Neat
  <2>2. a # n
    BY <2>1, DeletedFacts
  <2>3. QED
    BY <1>1, <2>1, <2>2, ZeroIsNoCell
<1> DEFINE G == (H \ {n}) \cup {c}
<1>3. WellFormed(g, G) /\ Live(g) = Live(h)
  BY <1>1, SwapKeeps
<1> HIDE DEF G
<1>4. SwappedIs(h, g, a, c, n)
  BY <1>1, <1>2, SwapFacts
<1>5. \A x \in Live(h) : SameData(h, g, x)
  BY <1>2, SwapData
<1>6. /\ g[c].child = h[c].child /\ g[n].child = h[n].child /\ g[n].next = h[c].next
      /\ g[a].child = IF k = 1 THEN n ELSE h[a].child
      /\ \A x \in Live(h) : x # c /\ x # n =>
           /\ x # a => g[x].child = h[x].child
           /\ g[x].next = IF x = h[c].prev THEN n ELSE h[x].next
  <2>1. h[a].child = c <=> k = 1
    BY <1>1
  <2>2. QED
    BY <1>1, <1>2, <1>4, <2>1 DEF SwappedIs
<1>7. ASSUME NEW x \in Live(h), x # a PROVE Chain(g, x) = Chain(h, x)
  <2>1. g[x].child = h[x].child
    BY <1>6, <1>7
  <2>2. \A y \in Members(h, x) : y \in Live(g) /\ g[y].next = h[y].next
    BY <1>1, <1>2, <1>3, <1>6, <1>7
  <2>3. x \in Live(g)
    BY <1>3
  <2>4. QED
    BY <1>3, <2>1, <2>2, <2>3, ChainSame
<1>8. /\ t \in Seq(Live(h)) /\ Len(t) = Len(s)
      /\ \A j \in 1..Len(t) : t[j] = IF j = k THEN n ELSE s[j]
  <2>1. IsWith(Live(h), s, k, n, t)
    BY <1>1, <1>2, ReplaceAtFacts
  <2>2. QED
    BY <2>1 DEF IsWith
<1>9. ASSUME NEW j \in 0..Len(t)
      PROVE  After(g, a, t, j) = IF j = Len(t) THEN 0 ELSE t[j + 1]
  <2>1. CASE j = 0
    <3>1. t[1] = IF k = 1 THEN n ELSE s[1]
      BY <1>1, <1>8
    <3>2. j # Len(t)
      BY <1>1, <1>8, <2>1
    <3>3. QED
      BY <1>1, <1>6, <2>1, <3>1, <3>2 DEF After
  <2>2. CASE j = k
    BY <1>1, <1>6, <1>8, <2>2 DEF After
  <2>3. CASE j # 0 /\ j # k
    <3>1. j \in 1..Len(s) /\ t[j] = s[j] /\ s[j] # c /\ s[j] # n /\ s[j] \in Live(h)
      BY <1>1, <1>8, <2>3
    <3>2. s[j] = h[c].prev <=> j = k - 1
      BY <1>1, <2>3, <3>1
    <3>3. CASE j = k - 1
      BY <1>1, <1>6, <1>8, <2>3, <3>1, <3>2, <3>3 DEF After
    <3>4. CASE j # k - 1
      <4>1. g[s[j]].next = h[s[j]].next
        BY <1>6, <3>1, <3>2, <3>4
      <4>2. j # Len(s) => t[j + 1] = s[j + 1]
        BY <1>1, <1>8, <2>3, <3>4
      <4>3. QED
        BY <1>1, <1>8, <2>3, <3>1, <4>1, <4>2 DEF After
    <3>5. QED
      BY <3>3, <3>4
  <2>4. QED
    BY <2>1, <2>2, <2>3
<1>10. Chain(g, a) = t
  <2>1. t \in Seq(Live(g)) /\ a \in Live(g)
    BY <1>2, <1>3, <1>8
  <2>2. QED
    BY <1>3, <1>9, <2>1, ChainIs
<1>11. QED
  BY <1>2, <1>3, <1>5, <1>7, <1>10 DEF Relisted

-------------------------------------------------------------------------------
(* What is in an item is what cJSON_Delete reaches from it.                  *)
Whole(f, c, S) ==
  /\ S \in SUBSET DOMAIN f /\ c \in S
  /\ \A x \in S : f[x].ref \/ Forest!KidsOf(f, x) \subseteq S

LEMMA FamilyIsLeast ==
  ASSUME NEW f, NEW c
  PROVE  \A x : x \in Forest!Family(f, c) <=> x \in DOMAIN f /\ \A S : Whole(f, c, S) => x \in S
BY DEF Forest!Family, Whole

(* A forest has the kids of its items in it.                                 *)
KidsInside(f) == \A x \in DOMAIN f : Forest!KidsOf(f, x) \subseteq DOMAIN f

LEMMA FamilyIsWhole ==
  ASSUME NEW f, NEW c \in DOMAIN f, KidsInside(f)
  PROVE  Whole(f, c, Forest!Family(f, c))
<1> DEFINE W == Forest!Family(f, c)
<1>1. \A x : x \in W <=> x \in DOMAIN f /\ \A S : Whole(f, c, S) => x \in S
  BY FamilyIsLeast
<1> HIDE DEF W
<1>2. W \in SUBSET DOMAIN f /\ c \in W
  BY <1>1 DEF Whole
<1>3. ASSUME NEW x \in W, ~ f[x].ref, NEW y \in Forest!KidsOf(f, x)
      PROVE  y \in W
  <2>1. \A S : Whole(f, c, S) => y \in S
    BY <1>1, <1>3 DEF Whole
  <2>2. y \in DOMAIN f
    BY <1>2, <1>3 DEF KidsInside
  <2>3. QED
    BY <1>1, <2>1, <2>2
<1>4. Whole(f, c, W)
  BY <1>2, <1>3 DEF Whole
<1>5. QED
  BY <1>4 DEF W

(* The family of c is the same when only the kids of a change, who is not    *)
(* in it, or names.                                                          *)
LEMMA FamilySame ==
  ASSUME NEW f, NEW g, DOMAIN g = DOMAIN f, KidsInside(f), KidsInside(g),
         NEW c \in DOMAIN f, NEW a, a \notin Forest!Family(g, c),
         \A x \in DOMAIN f : x # a => f[x].ref = g[x].ref /\ f[x].kids = g[x].kids
  PROVE  Forest!Family(f, c) = Forest!Family(g, c)
<1> DEFINE A == Forest!Family(f, c)
           B == Forest!Family(g, c)
<1>1. Whole(f, c, A) /\ Whole(g, c, B)
  BY FamilyIsWhole
<1>2. /\ \A S : Whole(f, c, S) => A \subseteq S
      /\ \A S : Whole(g, c, S) => B \subseteq S
  BY FamilyIsLeast
<1>3. a \notin B
  OBVIOUS
<1> HIDE DEF A, B
<1>4. \A x \in DOMAIN f : x # a => Forest!KidsOf(f, x) = Forest!KidsOf(g, x)
  BY DEF Forest!KidsOf
<1>5. Whole(f, c, B)
  BY <1>1, <1>3, <1>4 DEF Whole
<1>6. A \subseteq B
  BY <1>2, <1>5
<1>7. Whole(g, c, A)
  BY <1>1, <1>3, <1>4, <1>6 DEF Whole
<1>8. A = B
  BY <1>2, <1>6, <1>7
<1>9. QED
  BY <1>8 DEF A, B

LEMMA ForestKids ==
  ASSUME NEW h, NEW H, WellFormed(h, H)
  PROVE  /\ KidsInside(ForestOf(h))
         /\ \A x \in Live(h) : Forest!KidsOf(ForestOf(h), x) = Members(h, x)
<1>1. DOMAIN ForestOf(h) = Live(h)
  BY ForestFacts
<1>2. ASSUME NEW x \in Live(h) PROVE Forest!KidsOf(ForestOf(h), x) = Members(h, x)
  <2>0. PICK s : s = Chain(h, x)
    OBVIOUS
  <2>1. ForestOf(h)[x].kids = s
    BY <2>0, ForestRow
  <2>2. /\ \A k \in 1..Len(s) : s[k] \in Members(h, x)
        /\ \A y \in Members(h, x) : \E k \in 1..Len(s) : s[k] = y
    <3>1. IsListing(h, x, s)
      BY <2>0, ChainFacts
    <3>2. \A k \in 1..Len(s) : s[k] \in Members(h, x)
      BY <3>1, ListingFacts
    <3>3. \A y \in Members(h, x) : \E k \in 1..Len(s) : s[k] = y
      BY <3>1, ListingFacts
    <3>4. QED
      BY <3>2, <3>3
  <2>3. Forest!KidsOf(ForestOf(h), x) = {s[k] : k \in 1..Len(s)}
    BY <2>1 DEF Forest!KidsOf
  <2>4. QED
    BY <2>2, <2>3
<1>3. \A x \in Live(h) : Members(h, x) \subseteq Live(h)
  BY MemberFacts
<1>4. QED
  BY <1>1, <1>2, <1>3 DEF KidsInside

LEMMA FamilyIs ==
  ASSUME NEW h, NEW H, WellFormed(h, H), NEW c \in H
  PROVE  Forest!Family(ForestOf(h), c) = Deleted(h, c)
<1> DEFINE f == ForestOf(h)
           Z == Deleted(h, c)
<1>1. /\ c \in Live(h) /\ h[c].next = 0 /\ Points(h)
  BY Links
<1>2. /\ c \in Z /\ Z \in SUBSET Live(h)
      /\ ClosedUnder(h, Z, Owners(h))
  BY <1>1, WalkIsClosed, WalkIsLeast, ZeroIsNoCell DEF Deleted
<1>3. /\ DOMAIN f = Live(h)
      /\ \A x \in Live(h) : /\ Forest!KidsOf(f, x) = Members(h, x)
                             /\ f[x].ref = h[x].ref
  BY ForestFacts, ForestRow, ForestKids
<1> HIDE DEF f, Z
<1>4. Whole(f, c, Z)
  <2>1. SUFFICES ASSUME NEW x \in Z, ~ h[x].ref PROVE Members(h, x) \subseteq Z
    BY <1>2, <1>3 DEF Whole
  <2>2. x \in Owners(h)
    BY <1>2, <2>1 DEF Owners
  <2>3. h[x].child \in Z \cup {0} /\ ClosedUnder(h, Z, {})
    BY <1>2, <2>2 DEF ClosedUnder
  <2>4. QED
    BY <1>2, <2>3, WalkIsLeast DEF Members
<1>5. Forest!Family(f, c) \subseteq Z
  BY <1>4, FamilyIsLeast
<1>6. ASSUME NEW S, Whole(f, c, S) PROVE Z \subseteq S
  <2> DEFINE T == {x \in S : x = c \/ \E o \in S : o \in Owners(h) /\ x \in Members(h, o)}
  <2>1. /\ S \in SUBSET Live(h) /\ c \in S
        /\ \A x \in S : x \in Owners(h) => Members(h, x) \subseteq S
    BY <1>3, <1>6 DEF Whole, Owners
  <2>2. T \in SUBSET Live(h) /\ c \in T
    BY <2>1
  <2>3. ASSUME NEW x \in T PROVE h[x].next \in T \cup {0}
    <3>1. CASE x = c
      BY <1>1, <3>1
    <3>2. CASE x # c
      <4>1. PICK o \in S : o \in Owners(h) /\ x \in Members(h, o)
        BY <3>2
      <4>2. h[x].next = 0 \/ h[x].next \in Members(h, o)
        BY <2>1, <4>1, MemberFacts
      <4>3. QED
        BY <2>1, <4>1, <4>2
    <3>3. QED
      BY <3>1, <3>2
  <2>4. ASSUME NEW x \in T, x \in Owners(h) PROVE h[x].child \in T \cup {0}
    <3>1. x \in S
      OBVIOUS
    <3>2. h[x].child = 0 \/ h[x].child \in Members(h, x)
      BY <2>1, <3>1, MemberFacts
    <3>3. QED
      BY <2>1, <2>4, <3>1, <3>2
  <2>5. T \subseteq S
    OBVIOUS
  <2> HIDE DEF T
  <2>6. ClosedUnder(h, T, Owners(h))
    BY <2>3, <2>4 DEF ClosedUnder
  <2>7. Z \subseteq T
    BY <2>2, <2>6, WalkIsLeast DEF Z, Deleted
  <2>8. QED
    BY <2>5, <2>7
<1>7. Z \subseteq Forest!Family(f, c)
  BY <1>2, <1>3, <1>6, FamilyIsLeast
<1>8. QED
  BY <1>5, <1>7 DEF f, Z

-------------------------------------------------------------------------------
(* Delete: what is in the item is gone, the rest stays.                      *)
SameRows(f, g, S) == \A x \in S : g[x] = f[x]

LEMMA RowsStay ==
  ASSUME NEW h, NEW H, WellFormed(h, H), NEW g, NEW G, WellFormed(g, G),
         NEW S \in SUBSET Live(h), S \subseteq Live(g), \A x \in S : g[x] = h[x],
         \A x \in S : Members(h, x) \subseteq S
  PROVE  SameRows(ForestOf(h), ForestOf(g), S)
<1>1. SUFFICES ASSUME NEW x \in S PROVE ForestOf(g)[x] = ForestOf(h)[x]
  BY DEF SameRows
<1>2. x \in Live(h) /\ x \in Live(g) /\ g[x] = h[x]
  OBVIOUS
<1>3. \A y \in Members(h, x) : y \in Live(g) /\ g[y].next = h[y].next
  OBVIOUS
<1>4. Chain(g, x) = Chain(h, x)
  BY <1>2, <1>3, ChainSame
<1>5. QED
  BY <1>2, <1>4, ForestFacts

Pruned(f, g, c) ==
  /\ c \in DOMAIN f /\ c \notin DOMAIN g
  /\ DOMAIN g = DOMAIN f \ Forest!Family(f, c)
  /\ SameRows(f, g, DOMAIN g)

LEMMA DeleteForest ==
  ASSUME NEW h, NEW H, WellFormed(h, H), NEW c \in H, Unreferred(h, Deleted(h, c)),
         NEW g, g = Delete(h, c)
  PROVE  Pruned(ForestOf(h), ForestOf(g), c)
<1> DEFINE Z == Deleted(h, c)
           G == H \ {c}
<1>1. c \in Live(h) /\ c \in Z /\ Live(h) \subseteq Cells
  BY Links, DeletedFacts, ZeroIsNoCell
<1>2. WellFormed(g, G)
  BY DeleteKeeps
<1>3. \A x \in Cells : g[x] = IF x \in Z THEN Free ELSE h[x]
  BY DEF Delete
<1> HIDE DEF G, Z
<1>4. Live(g) = Live(h) \ Z /\ \A x \in Live(g) : g[x] = h[x]
  BY <1>1, <1>3 DEF Live
<1>5. Live(g) \in SUBSET Live(g) /\ Live(g) \subseteq Live(h)
      /\ \A x \in Live(g) : h[x] = g[x]
  BY <1>4
<1>6. \A x \in Live(g) : Members(g, x) \subseteq Live(g)
  BY <1>2, MemberFacts
<1>7. SameRows(ForestOf(g), ForestOf(h), Live(g))
  BY <1>2, <1>5, <1>6, RowsStay
<1>8. DOMAIN ForestOf(h) = Live(h) /\ DOMAIN ForestOf(g) = Live(g)
  BY ForestFacts
<1>9. Forest!Family(ForestOf(h), c) = Z
  BY FamilyIs DEF Z
<1>10. SameRows(ForestOf(h), ForestOf(g), Live(g))
  BY <1>7 DEF SameRows
<1>11. QED
  BY <1>1, <1>4, <1>8, <1>9, <1>10 DEF Pruned

-------------------------------------------------------------------------------
(* Reference: another item that shows the same list.                         *)
Referred(f, g, i, r) ==
  /\ r \notin DOMAIN f /\ DOMAIN g = DOMAIN f \cup {r} /\ SameRows(f, g, DOMAIN f)
  /\ g[r] = [f[i] EXCEPT !.ref = TRUE, !.name = NoName]

LEMMA ReferenceForest ==
  ASSUME NEW h, NEW H, WellFormed(h, H), NEW i \in Live(h), NEW r \in Unused(h),
         NEW g, g = Reference(h, i, r)
  PROVE  Referred(ForestOf(h), ForestOf(g), i, r)
<1> DEFINE G == H \cup {r}
<1>1. /\ WellFormed(g, G) /\ Live(g) = Live(h) \cup {r}
      /\ \A x \in Live(h) : g[x] = h[x]
  BY ReferenceKeeps
<1> HIDE DEF G
<1>2. r \notin Live(h) /\ r \in Cells
  BY DEF Unused, Live
<1>3. h \in Heaps /\ h = [x \in Cells |-> h[x]] /\ h[i] \in Struct
  BY WellFormedIs, HeapParts
<1>4. g[r] = [h[i] EXCEPT !.string = NoName, !.ref = TRUE, !.next = 0, !.prev = 0,
                          !.of = IF h[i].ref THEN h[i].of ELSE i]
  BY <1>2, <1>3 DEF Reference
<1>5. /\ g[r].kind = h[i].kind /\ g[r].value = h[i].value /\ g[r].string = NoName
      /\ g[r].ref = TRUE /\ g[r].child = h[i].child
  BY <1>3, <1>4 DEF Struct
<1>6. \A x \in Live(h) : Members(h, x) \subseteq Live(h)
  BY MemberFacts
<1>7. SameRows(ForestOf(h), ForestOf(g), Live(h))
  BY <1>1, <1>6, RowsStay
<1>8. Chain(g, r) = Chain(h, i)
  <2>1. \A y \in Members(h, i) : y \in Live(g) /\ g[y].next = h[y].next
    BY <1>1, <1>6
  <2>2. r \in Live(g)
    BY <1>1
  <2>3. QED
    BY <1>1, <1>5, <2>1, <2>2, ChainSame
<1>9. DOMAIN ForestOf(h) = Live(h) /\ DOMAIN ForestOf(g) = Live(g)
  BY ForestFacts
<1>10. ForestOf(g)[r] = [ForestOf(h)[i] EXCEPT !.ref = TRUE, !.name = NoName]
  <2>1. ForestOf(h)[i] = [kind |-> h[i].kind, value |-> h[i].value, name |-> h[i].string,
                          ref |-> h[i].ref, kids |-> Chain(h, i)]
    BY ForestFacts
  <2>2. ForestOf(g)[r] = [kind |-> g[r].kind, value |-> g[r].value, name |-> g[r].string,
                          ref |-> g[r].ref, kids |-> Chain(g, r)]
    BY <1>1, ForestFacts
  <2>3. ForestOf(g)[r] = [kind |-> h[i].kind, value |-> h[i].value, name |-> NoName,
                          ref |-> TRUE, kids |-> Chain(h, i)]
    BY <1>5, <1>8, <2>2
  <2> DEFINE shown == TRUE
             row == [kind |-> h[i].kind, value |-> h[i].value, name |-> h[i].string,
                     ref |-> h[i].ref, kids |-> Chain(h, i)]
             mid == [kind |-> h[i].kind, value |-> h[i].value, name |-> h[i].string,
                     ref |-> shown, kids |-> Chain(h, i)]
             new == [kind |-> h[i].kind, value |-> h[i].value, name |-> NoName,
                     ref |-> shown, kids |-> Chain(h, i)]
  <2>4. ForestOf(h)[i] = row /\ ForestOf(g)[r] = new
    BY <2>1, <2>3
  <2> HIDE DEF shown
  <2>5. [row EXCEPT !.ref = shown] = mid
    OBVIOUS
  <2>6. [mid EXCEPT !.name = NoName] = new
    OBVIOUS
  <2>7. [row EXCEPT !.ref = shown, !.name = NoName] = [[row EXCEPT !.ref = shown] EXCEPT !.name = NoName]
    OBVIOUS
  <2> HIDE DEF row, mid, new
  <2>8. ForestOf(g)[r] = [ForestOf(h)[i] EXCEPT !.ref = shown, !.name = NoName]
    BY <2>4, <2>5, <2>6, <2>7, Zenon
  <2>9. QED
    BY <2>8, Zenon DEF shown
<1>11. QED
  BY <1>1, <1>2, <1>7, <1>9, <1>10 DEF Referred

-------------------------------------------------------------------------------
(* Graft: what is new is in c.                                               *)
Grown(f, g, c) ==
  /\ c \in DOMAIN g \ DOMAIN f /\ DOMAIN f \subseteq DOMAIN g
  /\ SameRows(f, g, DOMAIN f)
  /\ DOMAIN g \ DOMAIN f = Forest!Family(g, c)
  /\ \A x \in DOMAIN g \ DOMAIN f : ~ g[x].ref

LEMMA GraftForest ==
  ASSUME NEW h, NEW H, WellFormed(h, H), NEW g \in Heaps, NEW c, NEW new,
         new = Live(g) \ Live(h),
         \A x \in Cells : IF x \in new THEN ~ g[x].ref ELSE g[x] = h[x],
         NEW k, k = [x \in Cells |-> IF x \in new THEN g[x] ELSE Free],
         WellFormed(k, {c})
  PROVE  Grown(ForestOf(h), ForestOf(g), c)
<1> DEFINE G == H \cup {c}
           Z == Deleted(g, c)
<1>1. WellFormed(g, G)
  BY GraftKeeps
<1>2. /\ Live(g) \subseteq Cells /\ Live(h) \subseteq Cells
      /\ \A x \in Live(h) : g[x] = h[x] /\ x \in Live(g)
      /\ \A x \in new : k[x] = g[x] /\ ~ g[x].ref
  <2>1. Live(g) \subseteq Cells /\ Live(h) \subseteq Cells
    BY ZeroIsNoCell
  <2>2. \A x \in Live(h) : g[x] = h[x]
    BY <2>1
  <2>3. \A x \in Live(h) : x \in Live(g)
    BY <2>1, <2>2 DEF Live
  <2>4. \A x \in new : k[x] = g[x] /\ ~ g[x].ref
    BY <2>1
  <2>5. QED
    BY <2>1, <2>2, <2>3, <2>4
<1>3. Live(k) = new
  <2>1. \A x \in new : x \in Live(k)
    BY <1>2 DEF Live
  <2>2. \A x \in Live(k) : x \in new
    BY <1>2 DEF Live
  <2>3. QED
    BY <2>1, <2>2
<1>4. c \in new /\ Points(k) /\ k[c].next = 0
  BY <1>3, Links
<1>5. Deleted(k, c) = new
  <2>1. Kept(k, {c})
    BY DEF WellFormed
  <2>2. QED
    BY <1>3, <2>1 DEF Kept
<1>6. c \in G /\ c \in Live(g) /\ Points(g)
  BY <1>1, <1>4, Links
<1> HIDE DEF G
<1>7. c \in Z /\ Z \in SUBSET Live(g) /\ ClosedUnder(g, Z, Owners(g))
  BY <1>6, WalkIsClosed, WalkIsLeast, ZeroIsNoCell DEF Deleted
<1>8. \A x \in new : x \in Owners(k) /\ x \in Owners(g)
  BY <1>2, <1>3 DEF Owners
<1>9. ClosedUnder(g, new, Owners(g))
  <2>1. \A x \in new : k[x].next \in new \cup {0} /\ k[x].child \in new \cup {0}
    BY <1>3, <1>4 DEF Points
  <2>2. QED
    BY <1>2, <2>1 DEF ClosedUnder
<1>10. Z \subseteq new
  BY <1>4, <1>9, WalkIsLeast DEF Deleted
<1> HIDE DEF Z
<1>11. ClosedUnder(k, Z, Owners(k))
  BY <1>2, <1>7, <1>8, <1>10 DEF ClosedUnder
<1>12. new \subseteq Z
  <2>1. Z \in SUBSET Live(k) /\ c \in Z \cup {0}
    BY <1>3, <1>7, <1>10
  <2>2. QED
    BY <1>5, <1>11, <2>1, WalkIsLeast DEF Deleted
<1>13. Forest!Family(ForestOf(g), c) = new
  <2>1. Forest!Family(ForestOf(g), c) = Z
    BY <1>1, <1>6, FamilyIs DEF Z
  <2>2. QED
    BY <1>10, <1>12, <2>1
<1>14. SameRows(ForestOf(h), ForestOf(g), Live(h))
  <2>1. \A x \in Live(h) : Members(h, x) \subseteq Live(h)
    BY MemberFacts
  <2>2. QED
    BY <1>1, <1>2, <2>1, RowsStay
<1>15. DOMAIN ForestOf(h) = Live(h) /\ DOMAIN ForestOf(g) = Live(g)
  BY ForestFacts
<1>16. \A x \in new : ~ ForestOf(g)[x].ref
  BY <1>2, ForestRow
<1>17. QED
  BY <1>2, <1>4, <1>13, <1>14, <1>15, <1>16 DEF Grown

-------------------------------------------------------------------------------
(* The calls, as steps of the forest.                                        *)
LEMMA GraftIsGrow ==
  ASSUME IInv, NEW c \in Cells, Graft(c)
  PROVE  Forest!Step
<1> DEFINE new == Live(heap') \ Live(heap)
           k == [x \in Cells |-> IF x \in new THEN heap'[x] ELSE Free]
<1>1. /\ WellFormed(heap, held) /\ heap' \in Heaps
      /\ \A x \in Cells : IF x \in new THEN ~ heap'[x].ref ELSE heap'[x] = heap[x]
      /\ WellFormed(k, {c})
  BY DEF Graft, IInv
<1>2. new = Live(heap') \ Live(heap)
  OBVIOUS
<1> HIDE DEF new
<1>3. k = [x \in Cells |-> IF x \in new THEN heap'[x] ELSE Free]
  OBVIOUS
<1> HIDE DEF k
<1>4. Grown(ForestOf(heap), ForestOf(heap'), c)
  BY <1>1, <1>2, <1>3, GraftForest
<1>5. Forest!Grow(c)
  BY <1>4 DEF Grown, SameRows, Forest!Grow, Forest!InUse
<1>6. QED
  BY <1>5 DEF Forest!Step

LEMMA DeleteIsDiscard ==
  ASSUME IInv, NEW c \in held, DeleteItem(c)
  PROVE  Forest!Step
<1>1. /\ WellFormed(heap, held) /\ Unreferred(heap, Deleted(heap, c))
      /\ heap' = Delete(heap, c)
  BY DEF IInv, DeleteItem
<1>2. Pruned(ForestOf(heap), ForestOf(heap'), c)
  BY <1>1, DeleteForest
<1>3. c \in Forest!InUse /\ Forest!Discard(c)
  BY <1>2 DEF Pruned, SameRows, Forest!Discard, Forest!InUse
<1>4. QED
  BY <1>3 DEF Forest!Step

(* An item is inserted when another name is given to it and it is added.     *)
Inserted(f, g, a, c) ==
  /\ a \in DOMAIN f /\ c \in DOMAIN f /\ DOMAIN g = DOMAIN f
  /\ SameRows(f, g, DOMAIN f \ {a, c})
  /\ g[a] = [f[a] EXCEPT !.kids = Append(@, c)]
  /\ \E n \in Names \cup {f[c].name} : g[c] = [f[c] EXCEPT !.name = n]

LEMMA IsInsert ==
  ASSUME NEW a, NEW c, Inserted(ForestOf(heap), ForestOf(heap'), a, c)
  PROVE  Forest!Step
<1>1. Forest!Insert(a, c) /\ a \in Forest!InUse /\ c \in Forest!InUse
  BY DEF Inserted, SameRows, Forest!Insert, Forest!OthersSame, Forest!InUse
<1>2. QED
  BY <1>1 DEF Forest!Step

LEMMA OwnName ==
  ASSUME NEW h, NEW x \in Live(h)
  PROVE  ForestOf(h)[x] = [ForestOf(h)[x] EXCEPT !.name = ForestOf(h)[x].name]
<1>1. ForestOf(h)[x] = [kind |-> h[x].kind, value |-> h[x].value, name |-> h[x].string,
                        ref |-> h[x].ref, kids |-> Chain(h, x)]
  BY ForestFacts
<1>2. QED
  BY <1>1

LEMMA AddForestInserts ==
  ASSUME NEW h, NEW H, WellFormed(h, H), NEW a \in Owners(h), Unreferred(h, {a}), NEW c \in H,
         a \notin Deleted(h, c), NEW g, g = AddItem(h, a, c)
  PROVE  Inserted(ForestOf(h), ForestOf(g), a, c)
<1> DEFINE e == ForestOf(h)
           f == ForestOf(g)
<1>1. a \in Live(h) /\ c \in Live(h) /\ a # c
  BY Links, DeletedFacts DEF Owners
<1>2. Changed(e, f, a, [e[a] EXCEPT !.kids = Append(@, c)])
  BY AddForest
<1>3. e[c] = [e[c] EXCEPT !.name = e[c].name]
  BY <1>1, OwnName
<1>4. DOMAIN e = Live(h)
  BY ForestFacts
<1> HIDE DEF e, f
<1>5. f[c] = e[c]
  BY <1>1, <1>2, <1>4 DEF Changed
<1>6. Inserted(e, f, a, c)
  BY <1>1, <1>2, <1>3, <1>4, <1>5 DEF Changed, Inserted, SameRows
<1>7. QED
  BY <1>6 DEF e, f

LEMMA AddNamedInserts ==
  ASSUME NEW h, NEW H, WellFormed(h, H), NEW a \in Owners(h), Unreferred(h, {a}), NEW c \in H,
         a \notin Deleted(h, c), NEW n \in Names, NEW g, g = AddNamedItem(h, a, n, c)
  PROVE  Inserted(ForestOf(h), ForestOf(g), a, c)
<1> DEFINE m == [h EXCEPT ![c].string = n]
           d == ForestOf(h)
           e == ForestOf(m)
           f == ForestOf(g)
<1>1. a \in Live(h) /\ c \in Live(h) /\ a # c /\ h \in Heaps /\ n \in Texts
  BY Links, DeletedFacts, WellFormedIs, CJsonListsAssumption DEF Owners
<1>2. g = AddItem(m, a, c) /\ m = [h EXCEPT ![c].string = n]
  BY DEF AddNamedItem
<1> HIDE DEF m
<1>3. Renamed(h, m, c, n)
  BY <1>1, <1>2, IsRenamed
<1>4. SameLinks(h, m)
  BY <1>3 DEF Renamed
<1>5. WellFormed(m, H) /\ Deleted(m, c) = Deleted(h, c)
  BY <1>4, SameLinksKeep
<1>6. /\ Live(m) = Live(h) /\ Owners(m) = Owners(h)
      /\ \A x \in Live(h) : m[x].of = h[x].of
  BY <1>4 DEF SameLinks
<1>7. \A x \in Live(h) : m[x].ref = h[x].ref
  BY <1>3 DEF Renamed
<1>8. Unreferred(m, {a})
  BY <1>6, <1>7 DEF Unreferred
<1>9. Changed(d, e, c, [d[c] EXCEPT !.name = n])
  BY <1>3, RenameForest
<1>10. Changed(e, f, a, [e[a] EXCEPT !.kids = Append(@, c)])
  BY <1>2, <1>5, <1>6, <1>8, AddForest
<1>11. DOMAIN d = Live(h)
  BY ForestFacts
<1> HIDE DEF d, e, f
<1>12. /\ DOMAIN f = Live(h) /\ e[a] = d[a] /\ f[c] = e[c]
       /\ \A x \in Live(h) : x # a /\ x # c => f[x] = d[x]
  BY <1>1, <1>9, <1>10, <1>11 DEF Changed
<1>13. f[a] = [d[a] EXCEPT !.kids = Append(@, c)]
  BY <1>10, <1>12 DEF Changed
<1>14. f[c] = [d[c] EXCEPT !.name = n]
  BY <1>9, <1>12 DEF Changed
<1>15. Inserted(d, f, a, c)
  BY <1>1, <1>11, <1>12, <1>13, <1>14 DEF Inserted, SameRows
<1>16. QED
  BY <1>15 DEF d, f

LEMMA AddToArrayIsInsert ==
  ASSUME IInv, NEW a \in Arrays, NEW c \in held, AddItemToArray(a, c)
  PROVE  Forest!Step
<1>1. WellFormed(heap, held) /\ a \in Owners(heap) /\ Unreferred(heap, {a})
  BY MutableFacts DEF IInv
<1>2. a \notin Deleted(heap, c) /\ heap' = AddItem(heap, a, c)
  BY <1>1, DeletedIsShown DEF AddItemToArray
<1>3. Inserted(ForestOf(heap), ForestOf(heap'), a, c)
  BY <1>1, <1>2, AddForestInserts
<1>4. QED
  BY <1>3, IsInsert

LEMMA AddToObjectIsInsert ==
  ASSUME IInv, NEW o \in Objects, NEW n \in Names, NEW c \in held, AddItemToObject(o, n, c)
  PROVE  Forest!Step
<1>1. WellFormed(heap, held) /\ o \in Owners(heap) /\ Unreferred(heap, {o})
  BY MutableFacts DEF IInv
<1>2. o \notin Deleted(heap, c) /\ heap' = AddNamedItem(heap, o, n, c)
  BY <1>1, DeletedIsShown DEF AddItemToObject
<1>3. Inserted(ForestOf(heap), ForestOf(heap'), o, c)
  BY <1>1, <1>2, AddNamedInserts
<1>4. QED
  BY <1>3, IsInsert

(* A reference with another name.                                            *)
LEMMA RowNames ==
  ASSUME NEW k, NEW v, NEW m, NEW b, NEW s,
         NEW row, row = [kind |-> k, value |-> v, name |-> m, ref |-> b, kids |-> s],
         NEW p, NEW n
  PROVE  /\ [row EXCEPT !.ref = TRUE, !.name = n].name = n
         /\ [[row EXCEPT !.ref = TRUE, !.name = p] EXCEPT !.name = n] =
              [row EXCEPT !.ref = TRUE, !.name = n]
<1> DEFINE shown == TRUE
           low == [kind |-> k, value |-> v, name |-> m, ref |-> shown, kids |-> s]
           mid == [kind |-> k, value |-> v, name |-> p, ref |-> shown, kids |-> s]
           new == [kind |-> k, value |-> v, name |-> n, ref |-> shown, kids |-> s]
<1> HIDE DEF shown
<1>1. [row EXCEPT !.ref = shown] = low
  OBVIOUS
<1>2. [low EXCEPT !.name = p] = mid /\ [low EXCEPT !.name = n] = new /\ [mid EXCEPT !.name = n] = new
  OBVIOUS
<1>3. /\ [row EXCEPT !.ref = shown, !.name = p] = [[row EXCEPT !.ref = shown] EXCEPT !.name = p]
      /\ [row EXCEPT !.ref = shown, !.name = n] = [[row EXCEPT !.ref = shown] EXCEPT !.name = n]
  OBVIOUS
<1>4. new.name = n
  OBVIOUS
<1> HIDE DEF low, mid, new
<1>5. [row EXCEPT !.ref = shown, !.name = p] = mid /\ [row EXCEPT !.ref = shown, !.name = n] = new
  BY <1>1, <1>2, <1>3, Zenon
<1>6. [[row EXCEPT !.ref = shown, !.name = p] EXCEPT !.name = n] = [row EXCEPT !.ref = shown, !.name = n]
  BY <1>2, <1>5, Zenon
<1>7. [row EXCEPT !.ref = shown, !.name = n].name = n
  BY <1>4, <1>5, Zenon
<1>8. QED
  BY <1>6, <1>7, Zenon DEF shown

LEMMA AddReferenceIsInsert ==
  ASSUME IInv, NEW a \in Arrays \cup Objects, NEW i \in Live(heap), AddReference(a, i)
  PROVE  Forest!Step
<1> DEFINE r == Malloc(heap)
           m == Reference(heap, i, r)
           H == held \cup {r}
           d == ForestOf(heap)
           e == ForestOf(m)
           f == ForestOf(heap')
<1>1. WellFormed(heap, held) /\ r \in Unused(heap) /\ a # i
  <2>1. r # 0 /\ a \notin Shown(heap, i)
    BY DEF AddReference
  <2>2. a # i
    BY <2>1 DEF Shown
  <2>3. QED
    BY <2>1, <2>2, MallocFacts DEF IInv
<1>2. \/ heap' = AddItem(m, a, r)
      \/ \E n \in Names : heap' = AddNamedItem(m, a, n, r)
  BY DEF AddReference
<1> HIDE DEF r, m
<1>3. m = Reference(heap, i, r)
  BY DEF m
<1>4. /\ WellFormed(m, H) /\ Deleted(m, r) = {r}
      /\ Live(m) = Live(heap) \cup {r} /\ Owners(m) = Owners(heap)
      /\ \A x \in Live(heap) : m[x] = heap[x]
      /\ m[r].of = IF heap[i].ref THEN heap[i].of ELSE i
  BY <1>1, <1>3, ReferenceKeeps
<1>5. a \in Owners(heap) /\ a \in Live(heap) /\ Unreferred(heap, {a})
  BY MutableFacts
<1>6. r \notin Live(heap) /\ r \in Cells
  BY <1>1 DEF Unused, Live
<1>7. a \in Owners(m) /\ r \in H /\ a \notin Deleted(m, r) /\ a # r
  BY <1>4, <1>5, <1>6
<1>8. Unreferred(m, {a})
  <2>1. SUFFICES ASSUME NEW x \in Live(m), m[x].ref PROVE m[x].of # a
    BY DEF Unreferred
  <2>2. CASE x \in Live(heap)
    BY <1>4, <1>5, <2>1, <2>2 DEF Unreferred, Owners
  <2>3. CASE x = r
    BY <1>1, <1>4, <1>5, <2>3 DEF Unreferred, Owners
  <2>4. QED
    BY <1>4, <2>2, <2>3
<1> HIDE DEF H
<1>9. Inserted(e, f, a, r)
  <2>1. CASE heap' = AddItem(m, a, r)
    BY <1>4, <1>7, <1>8, <2>1, AddForestInserts
  <2>2. ASSUME NEW n \in Names, heap' = AddNamedItem(m, a, n, r) PROVE Inserted(e, f, a, r)
    BY <1>4, <1>7, <1>8, <2>2, AddNamedInserts
  <2>3. QED
    BY <1>2, <2>1, <2>2
<1>10. Referred(d, e, i, r)
  BY <1>1, <1>3, ReferenceForest
<1>11. DOMAIN d = Live(heap)
  BY ForestFacts
<1>12. PICK n \in Names \cup {e[r].name} : f[r] = [e[r] EXCEPT !.name = n]
  <2> HIDE DEF e, f
  <2>1. QED
    BY <1>9 DEF Inserted
<1>13. f[r] = [d[i] EXCEPT !.ref = TRUE, !.name = n] /\ (n \in Names \/ n = f[r].name)
  <2>1. d[i] = [kind |-> heap[i].kind, value |-> heap[i].value, name |-> heap[i].string,
                ref |-> heap[i].ref, kids |-> Chain(heap, i)]
    BY ForestFacts
  <2> DEFINE none == [d[i] EXCEPT !.ref = TRUE, !.name = NoName]
             new == [d[i] EXCEPT !.ref = TRUE, !.name = n]
  <2>2. new.name = n /\ [none EXCEPT !.name = n] = new
    BY <2>1, RowNames
  <2>3. e[r] = none
    BY <1>10 DEF Referred
  <2> HIDE DEF d, e, f, none, new
  <2>4. f[r] = new
    BY <1>12, <2>2, <2>3, Zenon
  <2>5. f[r].name = n
    BY <2>2, <2>4
  <2>6. QED
    BY <1>12, <2>4, <2>5 DEF new
<1> HIDE DEF d, e, f
<1>14. r \notin DOMAIN d /\ DOMAIN f = DOMAIN d \cup {r} /\ e[a] = d[a]
       /\ \A x \in DOMAIN d \ {a} : f[x] = d[x]
  BY <1>5, <1>9, <1>10, <1>11 DEF Inserted, Referred, SameRows
<1>15. f[a] = [d[a] EXCEPT !.kids = Append(@, r)]
  BY <1>9, <1>14 DEF Inserted
<1>16. Forest!InsertReference(a, i, r)
  <2>1. \E l \in Names \cup {f[r].name} : f[r] = [d[i] EXCEPT !.ref = TRUE, !.name = l]
    BY <1>13
  <2>2. QED
    BY <1>14, <1>15, <2>1 DEF Forest!InsertReference, Forest!InUse, d, f
<1>17. a \in Forest!InUse /\ i \in Forest!InUse
  BY <1>5, <1>11 DEF Forest!InUse, d
<1>18. QED
  BY <1>6, <1>16, <1>17 DEF Forest!Step

-------------------------------------------------------------------------------
(* The owner of a list is not in what its member deletes, also when the      *)
(* member has left the list.                                                 *)
LEMMA OwnerStays ==
  ASSUME NEW h, NEW H, WellFormed(h, H), NEW a \in Owners(h), NEW c \in Members(h, a)
  PROVE  a \notin Deleted(h, c)
<1>1. /\ a \in Live(h) /\ c \in Live(h) /\ c # 0
      /\ Before(h, a, c) \notin Deleted(h, c)
      /\ h[c].prev = 0 <=> h[a].child = c
      /\ h[c].prev # 0 => h[c].prev \in Live(h) /\ h[h[c].prev].next = c
  BY MemberPlace, ZeroIsNoCell
<1>2. SUFFICES ASSUME a \in Deleted(h, c) PROVE FALSE
  OBVIOUS
<1>3. h[c].prev # 0
  BY <1>1, <1>2 DEF Before
<1>4. Members(h, a) \subseteq Deleted(h, c)
  <2>1. Points(h) /\ c \in Live(h) \cup {0}
    BY <1>1, Links
  <2>2. /\ Deleted(h, c) \in SUBSET Live(h)
        /\ ClosedUnder(h, Deleted(h, c), Owners(h))
    BY <2>1, WalkIsClosed, WalkIsLeast DEF Deleted
  <2>3. h[a].child \in Deleted(h, c) \cup {0} /\ ClosedUnder(h, Deleted(h, c), {})
    BY <1>2, <2>2 DEF ClosedUnder
  <2>4. QED
    BY <2>2, <2>3, WalkIsLeast DEF Members
<1>5. h[c].prev \in Members(h, a)
  <2>1. PICK x \in Members(h, a) : h[x].next = c
    BY <1>1, <1>3, MemberFacts
  <2>2. x \in Live(h)
    BY <1>1, MemberFacts
  <2>3. h[c].prev = x
    BY <1>1, <2>1, <2>2, Links
  <2>4. QED
    BY <2>3
<1>6. QED
  BY <1>1, <1>3, <1>4, <1>5 DEF Before

LEMMA DeletedAlone ==
  ASSUME NEW h, NEW H, WellFormed(h, H), NEW c \in Live(h),
         NEW g, Live(g) = Live(h), Owners(g) = Owners(h),
         g[c].next = 0, g[c].child = h[c].child,
         \A x \in Deleted(h, c) : x # c => g[x].next = h[x].next /\ g[x].child = h[x].child
  PROVE  Deleted(g, c) \subseteq Deleted(h, c)
<1> DEFINE Z == Deleted(h, c)
<1>1. Points(h) /\ c \in Live(h) \cup {0} /\ c # 0
  BY Links, ZeroIsNoCell
<1>2. c \in Z /\ Z \in SUBSET Live(h) /\ ClosedUnder(h, Z, Owners(h))
  BY <1>1, WalkIsClosed, WalkIsLeast DEF Deleted
<1> HIDE DEF Z
<1>3. ClosedUnder(g, Z, Owners(g))
  BY <1>2 DEF ClosedUnder, Z
<1>4. Deleted(g, c) \subseteq Z
  BY <1>2, <1>3, WalkIsLeast DEF Deleted
<1>5. QED
  BY <1>4 DEF Z

LEMMA DetachedAlone ==
  ASSUME NEW h, NEW H, WellFormed(h, H), NEW a \in Owners(h), NEW c \in Members(h, a),
         NEW g, g = Detach(h, a, c)
  PROVE  a \notin Deleted(g, c)
<1>1. /\ a \in Live(h) /\ c \in Live(h) /\ a # c /\ h \in Heaps
      /\ Before(h, a, c) \notin Deleted(h, c) /\ a \notin Deleted(h, c)
  BY MemberPlace, WellFormedIs, OwnerStays
<1>2. DetachedIs(h, g, a, c)
  BY <1>1, DetachFacts
<1>3. Deleted(h, c) \subseteq Live(h)
  BY <1>1, DeletedFacts
<1>4. \A x \in Deleted(h, c) : x # a /\ x # h[c].prev
  BY <1>1, <1>3, ZeroIsNoCell DEF Before
<1>5. /\ Live(g) = Live(h) /\ Owners(g) = Owners(h)
      /\ g[c].next = 0 /\ g[c].child = h[c].child
      /\ \A x \in Deleted(h, c) : x # c => g[x].next = h[x].next /\ g[x].child = h[x].child
  BY <1>2, <1>3, <1>4 DEF DetachedIs
<1>6. Deleted(g, c) \subseteq Deleted(h, c)
  BY <1>1, <1>5, DeletedAlone
<1>7. QED
  BY <1>1, <1>6

LEMMA SwappedAlone ==
  ASSUME NEW h, NEW H, WellFormed(h, H), NEW a \in Owners(h), NEW c \in Members(h, a),
         NEW n \in H, a \notin Deleted(h, n), NEW g, g = Swap(h, a, c, n)
  PROVE  a \notin Deleted(g, c) /\ n \notin Deleted(g, c)
<1>1. /\ a \in Live(h) /\ c \in Live(h) /\ a # c /\ h \in Heaps
      /\ n \in Live(h) /\ a # n /\ c # n
      /\ Before(h, a, c) \notin Deleted(h, c) /\ a \notin Deleted(h, c)
  <2>1. /\ a \in Live(h) /\ c \in Live(h) /\ a # c /\ c \notin H
        /\ Before(h, a, c) \notin Deleted(h, c)
    BY MemberPlace
  <2>2. n \in Live(h) /\ h \in Heaps
    BY WellFormedIs DEF Neat
  <2>3. a # n
    BY <2>2, DeletedFacts
  <2>4. QED
    BY <2>1, <2>2, <2>3, OwnerStays
<1>2. SwappedIs(h, g, a, c, n)
  BY <1>1, SwapFacts
<1>3. Deleted(h, c) \subseteq Live(h) /\ n \notin Deleted(h, c)
  BY <1>1, DeletedFacts
<1>4. \A x \in Deleted(h, c) : x # a /\ x # n /\ x # h[c].prev
  BY <1>1, <1>3, ZeroIsNoCell DEF Before
<1>5. /\ Live(g) = Live(h) /\ Owners(g) = Owners(h)
      /\ g[c].next = 0 /\ g[c].child = h[c].child
      /\ \A x \in Deleted(h, c) : x # c => g[x].next = h[x].next /\ g[x].child = h[x].child
  BY <1>2, <1>3, <1>4 DEF SwappedIs
<1>6. Deleted(g, c) \subseteq Deleted(h, c)
  BY <1>1, <1>5, DeletedAlone
<1>7. QED
  BY <1>1, <1>3, <1>6

(* The place of a member.                                                    *)
LEMMA PlaceExists ==
  ASSUME NEW h, NEW H, WellFormed(h, H), NEW a \in Live(h), NEW c \in Members(h, a)
  PROVE  \E k \in 1..Len(Chain(h, a)) : Chain(h, a)[k] = c
<1>1. PICK s : s = Chain(h, a)
  OBVIOUS
<1>2. IsListing(h, a, s)
  BY <1>1, ChainFacts
<1>3. \A y \in Members(h, a) : \E k \in 1..Len(s) : s[k] = y
  BY <1>2, ListingFacts
<1>4. QED
  BY <1>1, <1>3

LEMMA DetachForest ==
  ASSUME NEW h, NEW H, WellFormed(h, H), NEW a \in Owners(h), Unreferred(h, {a}),
         NEW k \in 1..Len(Chain(h, a)), NEW c, Chain(h, a)[k] = c, NEW g, g = Detach(h, a, c)
  PROVE  Changed(ForestOf(h), ForestOf(g), a,
                 [ForestOf(h)[a] EXCEPT !.kids = Forest!RemoveAt(@, k)])
<1>1. PICK s : s = Chain(h, a)
  OBVIOUS
<1>2. PICK t : t = Forest!RemoveAt(s, k)
  OBVIOUS
<1>3. Relisted(h, g, a, t)
  BY <1>1, <1>2, DetachChains
<1>4. Changed(ForestOf(h), ForestOf(g), a, [ForestOf(h)[a] EXCEPT !.kids = t])
  BY <1>3, KidsChanged, Zenon
<1>5. ForestOf(h)[a].kids = s
  BY <1>1, ForestRow DEF Owners
<1>6. QED
  BY <1>2, <1>4, <1>5, Zenon

LEMMA SwapForest ==
  ASSUME NEW h, NEW H, WellFormed(h, H), NEW a \in Owners(h), Unreferred(h, {a}),
         NEW k \in 1..Len(Chain(h, a)), NEW c, Chain(h, a)[k] = c,
         NEW n \in H, a \notin Deleted(h, n), NEW g, g = Swap(h, a, c, n)
  PROVE  Changed(ForestOf(h), ForestOf(g), a,
                 [ForestOf(h)[a] EXCEPT !.kids = Forest!ReplaceAt(@, k, n)])
<1>1. PICK s : s = Chain(h, a)
  OBVIOUS
<1>2. PICK t : t = Forest!ReplaceAt(s, k, n)
  OBVIOUS
<1>3. Relisted(h, g, a, t)
  BY <1>1, <1>2, SwapChains
<1>4. Changed(ForestOf(h), ForestOf(g), a, [ForestOf(h)[a] EXCEPT !.kids = t])
  BY <1>3, KidsChanged, Zenon
<1>5. ForestOf(h)[a].kids = s
  BY <1>1, ForestRow DEF Owners
<1>6. QED
  BY <1>2, <1>4, <1>5, Zenon

LEMMA DetachIsRemove ==
  ASSUME IInv, NEW a \in Arrays \cup Objects, NEW c \in Members(heap, a), DetachItem(a, c)
  PROVE  Forest!Step
<1> DEFINE f == ForestOf(heap)
           g == ForestOf(heap')
<1>1. WellFormed(heap, held) /\ a \in Owners(heap) /\ a \in Live(heap) /\ Unreferred(heap, {a})
  BY MutableFacts DEF IInv
<1>2. PICK k \in 1..Len(Chain(heap, a)) : Chain(heap, a)[k] = c
  BY <1>1, PlaceExists
<1>3. heap' = Detach(heap, a, c)
  BY DEF DetachItem
<1>4. Changed(f, g, a, [f[a] EXCEPT !.kids = Forest!RemoveAt(@, k)])
  BY <1>1, <1>2, <1>3, DetachForest
<1>5. DOMAIN f = Live(heap) /\ f[a].kids = Chain(heap, a)
  BY <1>1, ForestFacts, ForestRow
<1>6. Forest!RemoveNth(a, k)
  BY <1>4 DEF Changed, Forest!RemoveNth, Forest!OthersSame, Forest!InUse
<1>7. a \in Forest!InUse /\ k \in 1..Len(ForestOf(heap)[a].kids)
  BY <1>1, <1>2, <1>5 DEF Forest!InUse
<1>8. QED
  BY <1>6, <1>7 DEF Forest!Step

(* A member is gone with all that is in it, and nothing else but the list of *)
(* a has changed.                                                            *)
Dropped(f, g, a, k, c) ==
  /\ a \in DOMAIN f /\ a \in DOMAIN g /\ c \notin DOMAIN g
  /\ k \in 1..Len(f[a].kids) /\ f[a].kids[k] = c
  /\ DOMAIN g = DOMAIN f \ Forest!Family(f, c)
  /\ SameRows(f, g, DOMAIN g \ {a})

DroppedTo(f, g, a, k, c, new, rest) ==
  Dropped(f, g, a, k, c) /\ g[a] = new /\ DOMAIN g = rest

(* The kids are changed before the member is deleted: what is in it is the   *)
(* same before and after.                                                    *)
LEMMA DropForest ==
  ASSUME NEW h, NEW H, WellFormed(h, H), NEW g, NEW G, WellFormed(g, G),
         NEW a \in Live(h), NEW k \in 1..Len(Chain(h, a)), NEW c \in Live(h), Chain(h, a)[k] = c,
         NEW new, Changed(ForestOf(h), ForestOf(g), a, new),
         c \in G, a \notin Deleted(g, c), NEW i, Pruned(ForestOf(g), ForestOf(i), c)
  PROVE  DroppedTo(ForestOf(h), ForestOf(i), a, k, c, new, Live(h) \ Deleted(g, c))
<1> DEFINE d == ForestOf(h)
           e == ForestOf(g)
           f == ForestOf(i)
<1>1. KidsInside(d) /\ KidsInside(e) /\ DOMAIN d = Live(h) /\ d[a].kids = Chain(h, a)
  BY ForestKids, ForestFacts, ForestRow
<1>2. Forest!Family(e, c) = Deleted(g, c)
  BY FamilyIs
<1>3. Changed(d, e, a, new) /\ Pruned(e, f, c)
  OBVIOUS
<1> HIDE DEF d, e, f
<1>4. /\ DOMAIN e = DOMAIN d /\ e[a] = new /\ \A x \in DOMAIN d : x # a => e[x] = d[x]
  BY <1>3 DEF Changed
<1>5. Forest!Family(d, c) = Forest!Family(e, c)
  BY <1>1, <1>2, <1>4, FamilySame
<1>6. /\ c \notin DOMAIN f /\ DOMAIN f = DOMAIN e \ Forest!Family(e, c)
      /\ \A x \in DOMAIN f : f[x] = e[x]
  BY <1>3 DEF Pruned, SameRows
<1>7. a \in DOMAIN f /\ f[a] = new /\ DOMAIN f = Live(h) \ Deleted(g, c)
  BY <1>1, <1>2, <1>4, <1>6
<1>8. SameRows(d, f, DOMAIN f \ {a})
  BY <1>4, <1>6 DEF SameRows
<1>9. Dropped(d, f, a, k, c)
  BY <1>1, <1>4, <1>5, <1>6, <1>7, <1>8 DEF Dropped
<1>10. DroppedTo(d, f, a, k, c, new, Live(h) \ Deleted(g, c))
  BY <1>7, <1>9 DEF DroppedTo
<1>11. QED
  BY <1>10 DEF d, f

LEMMA DeleteFromIsRemove ==
  ASSUME IInv, NEW a \in Arrays \cup Objects, NEW c \in Members(heap, a), DeleteItemFrom(a, c)
  PROVE  Forest!Step
<1> DEFINE h == Detach(heap, a, c)
           H == held \cup {c}
           d == ForestOf(heap)
           f == ForestOf(heap')
<1>1. WellFormed(heap, held) /\ a \in Owners(heap) /\ a \in Live(heap) /\ Unreferred(heap, {a})
  BY MutableFacts DEF IInv
<1>2. PICK k \in 1..Len(Chain(heap, a)) : Chain(heap, a)[k] = c
  BY <1>1, PlaceExists
<1>3. WellFormed(h, H) /\ c \in H /\ c \in Live(heap)
  BY <1>1, DetachKeeps, MemberPlace
<1>4. Unreferred(h, Deleted(h, c)) /\ heap' = Delete(h, c) /\ h = Detach(heap, a, c)
  BY DEF DeleteItemFrom
<1> HIDE DEF h, H
<1>5. Changed(d, ForestOf(h), a, [d[a] EXCEPT !.kids = Forest!RemoveAt(@, k)])
  BY <1>1, <1>2, <1>4, DetachForest
<1>6. a \notin Deleted(h, c)
  BY <1>1, <1>4, DetachedAlone
<1>7. Pruned(ForestOf(h), f, c)
  BY <1>3, <1>4, DeleteForest
<1>8. /\ Dropped(d, f, a, k, c)
      /\ f[a] = [d[a] EXCEPT !.kids = Forest!RemoveAt(@, k)]
  <2> DEFINE new == [d[a] EXCEPT !.kids = Forest!RemoveAt(@, k)]
  <2>1. Changed(d, ForestOf(h), a, new)
    BY <1>5
  <2> HIDE DEF new
  <2>2. DroppedTo(d, f, a, k, c, new, Live(heap) \ Deleted(h, c))
    BY <1>1, <1>2, <1>3, <1>6, <1>7, <2>1, DropForest
  <2>3. QED
    BY <2>2 DEF new, DroppedTo
<1>9. Forest!RemoveAndDiscard(a, k)
  BY <1>8 DEF Dropped, SameRows, Forest!RemoveAndDiscard, Forest!DiscardNth, Forest!InUse
<1>10. a \in Forest!InUse /\ k \in 1..Len(ForestOf(heap)[a].kids)
  BY <1>8 DEF Dropped, Forest!InUse
<1>11. QED
  BY <1>9, <1>10 DEF Forest!Step

LEMMA ReplaceForest ==
  ASSUME NEW h, NEW H, WellFormed(h, H), NEW a \in Owners(h), Unreferred(h, {a}),
         NEW k \in 1..Len(Chain(h, a)), NEW c \in Members(h, a), Chain(h, a)[k] = c,
         NEW n \in H, a \notin Shown(h, n),
         NEW g, g = Swap(h, a, c, n), Unreferred(g, Deleted(g, c)), NEW i, i = Delete(g, c)
  PROVE  /\ Dropped(ForestOf(h), ForestOf(i), a, k, c)
         /\ n \in DOMAIN ForestOf(i) /\ n \in DOMAIN ForestOf(h) /\ n # a
         /\ ForestOf(i)[a] = [ForestOf(h)[a] EXCEPT !.kids = Forest!ReplaceAt(@, k, n)]
<1> DEFINE G == (H \ {n}) \cup {c}
           d == ForestOf(h)
           f == ForestOf(i)
           new == [d[a] EXCEPT !.kids = Forest!ReplaceAt(@, k, n)]
<1>1. a \notin Deleted(h, n) /\ a # n
  BY DeletedIsShown DEF Shown
<1>2. WellFormed(g, G) /\ c \in G
  BY <1>1, SwapKeeps
<1>3. a \in Live(h) /\ c \in Live(h) /\ n \in Live(h)
  BY MemberPlace, Links
<1> HIDE DEF G
<1>4. Changed(d, ForestOf(g), a, new)
  BY <1>1, SwapForest
<1>5. a \notin Deleted(g, c) /\ n \notin Deleted(g, c)
  BY <1>1, SwappedAlone
<1>6. Pruned(ForestOf(g), f, c)
  BY <1>2, DeleteForest
<1>7. DOMAIN d = Live(h)
  BY ForestFacts
<1> HIDE DEF new
<1>8. Dropped(d, f, a, k, c) /\ f[a] = new /\ DOMAIN f = Live(h) \ Deleted(g, c)
  <2>1. DroppedTo(d, f, a, k, c, new, Live(h) \ Deleted(g, c))
    BY <1>2, <1>3, <1>4, <1>5, <1>6, DropForest
  <2>2. QED
    BY <2>1 DEF DroppedTo
<1>9. n \in DOMAIN f /\ n \in DOMAIN d
  BY <1>3, <1>5, <1>7, <1>8
<1>10. QED
  BY <1>1, <1>8, <1>9 DEF new

LEMMA ReplaceInArrayIsReplace ==
  ASSUME IInv, NEW a \in Arrays \cup Objects, NEW c \in Members(heap, a), NEW n \in held,
         ReplaceItemInArray(a, c, n)
  PROVE  Forest!Step
<1> DEFINE d == ForestOf(heap)
           f == ForestOf(heap')
<1>1. WellFormed(heap, held) /\ a \in Owners(heap) /\ a \in Live(heap) /\ Unreferred(heap, {a})
  BY MutableFacts DEF IInv
<1>2. PICK k \in 1..Len(Chain(heap, a)) : Chain(heap, a)[k] = c
  BY <1>1, PlaceExists
<1>3. PICK g : g = Swap(heap, a, c, n)
  OBVIOUS
<1>4. a \notin Shown(heap, n) /\ Unreferred(g, Deleted(g, c)) /\ heap' = Delete(g, c)
  <2>1. Replaces(heap, a, c, n)
    BY DEF ReplaceItemInArray
  <2>2. QED
    BY <1>3, <2>1, Zenon DEF Replaces
<1>5. /\ Dropped(d, f, a, k, c)
      /\ n \in DOMAIN f /\ n \in DOMAIN d /\ n # a
      /\ f[a] = [d[a] EXCEPT !.kids = Forest!ReplaceAt(@, k, n)]
  BY <1>1, <1>2, <1>3, <1>4, ReplaceForest
<1>6. n \in Live(heap)
  BY <1>1, Links
<1>7. d[n] = [d[n] EXCEPT !.name = d[n].name]
  BY <1>6, OwnName
<1>8. f[n] = d[n]
  <2> HIDE DEF d, f
  <2>1. QED
    BY <1>5 DEF Dropped, SameRows
<1>9. \E m \in Names \cup {d[n].name} : f[n] = [d[n] EXCEPT !.name = m]
  BY <1>7, <1>8
<1>10. Forest!Replace(a, k, n)
  BY <1>5, <1>9 DEF Dropped, SameRows, Forest!Replace, Forest!DiscardNth, Forest!InUse
<1>11. a \in Forest!InUse /\ n \in Forest!InUse /\ k \in 1..Len(ForestOf(heap)[a].kids)
  BY <1>5 DEF Dropped, Forest!InUse
<1>12. QED
  BY <1>10, <1>11 DEF Forest!Step

LEMMA ReplaceInObjectIsReplace ==
  ASSUME IInv, NEW o \in Arrays \cup Objects, NEW c \in Members(heap, o), NEW n \in held,
         NEW name \in Names, ReplaceItemInObject(o, c, name, n)
  PROVE  Forest!Step
<1> DEFINE h == [heap EXCEPT ![n].string = name]
           d == ForestOf(heap)
           e == ForestOf(h)
           f == ForestOf(heap')
<1>1. WellFormed(heap, held) /\ heap \in Heaps /\ n \in Live(heap) /\ name \in Texts
  BY WellFormedIs, CJsonListsAssumption DEF IInv, Neat
<1>2. o \in Owners(heap) /\ o \in Live(heap) /\ Unreferred(heap, {o})
  BY MutableFacts
<1>3. Replaces(h, o, c, n) /\ h = [heap EXCEPT ![n].string = name]
  BY DEF ReplaceItemInObject
<1> HIDE DEF h
<1>4. Renamed(heap, h, n, name)
  BY <1>1, <1>3, IsRenamed
<1>5. SameLinks(heap, h)
  BY <1>4 DEF Renamed
<1>6. PICK g : g = Swap(h, o, c, n)
  OBVIOUS
<1>7. o \notin Shown(h, n) /\ Unreferred(g, Deleted(g, c)) /\ heap' = Delete(g, c)
  BY <1>3, <1>6, Zenon DEF Replaces
<1>8. WellFormed(h, held) /\ Members(h, o) = Members(heap, o)
  BY <1>1, <1>2, <1>5, SameLinksKeep
<1>9. /\ Live(h) = Live(heap) /\ Owners(h) = Owners(heap)
      /\ \A x \in Live(heap) : h[x].of = heap[x].of
  BY <1>5 DEF SameLinks
<1>10. Unreferred(h, {o})
  <2>1. \A r \in Live(heap) : h[r].ref => r \notin Owners(heap)
    BY <1>9 DEF Owners
  <2>2. \A r \in Live(heap) : r \notin Owners(heap) => heap[r].ref
    BY DEF Owners
  <2>3. QED
    BY <1>2, <1>9, <2>1, <2>2 DEF Unreferred
<1>11. Chain(h, o) = Chain(heap, o)
  BY <1>1, <1>2, <1>5, SameLinksChains
<1>12. PICK k \in 1..Len(Chain(h, o)) : Chain(h, o)[k] = c
  BY <1>1, <1>2, <1>11, PlaceExists
<1>13. /\ Dropped(e, f, o, k, c)
       /\ n \in DOMAIN f /\ n \in DOMAIN e /\ n # o
       /\ f[o] = [e[o] EXCEPT !.kids = Forest!ReplaceAt(@, k, n)]
  BY <1>2, <1>6, <1>7, <1>8, <1>9, <1>10, <1>12, ReplaceForest
<1>14. Changed(d, e, n, [d[n] EXCEPT !.name = name])
  BY <1>1, <1>4, RenameForest
<1>15. KidsInside(d) /\ KidsInside(e) /\ DOMAIN d = Live(heap)
       /\ \A x \in Live(heap) : d[x].ref = e[x].ref /\ d[x].kids = e[x].kids
  <2>1. KidsInside(d) /\ KidsInside(e) /\ DOMAIN d = Live(heap)
    BY <1>1, <1>8, ForestKids, ForestFacts
  <2>2. \A x \in Live(heap) : /\ d[x].ref = heap[x].ref /\ d[x].kids = Chain(heap, x)
    BY ForestRow
  <2>3. \A x \in Live(heap) : /\ e[x].ref = h[x].ref /\ e[x].kids = Chain(h, x)
    BY <1>9, ForestRow
  <2>4. \A x \in Live(heap) : h[x].ref = heap[x].ref
    BY <1>4 DEF Renamed
  <2>5. \A x \in Live(heap) : Chain(h, x) = Chain(heap, x)
    BY <1>1, <1>5, SameLinksChains
  <2> HIDE DEF d, e
  <2>6. QED
    BY <2>1, <2>2, <2>3, <2>4, <2>5
<1> HIDE DEF d, e, f
<1>16. /\ DOMAIN e = DOMAIN d /\ e[n] = [d[n] EXCEPT !.name = name]
       /\ \A x \in DOMAIN d : x # n => e[x] = d[x]
  BY <1>14 DEF Changed
<1>17. Forest!Family(d, c) = Forest!Family(e, c)
  <2>1. o \notin Forest!Family(e, c) /\ c \in DOMAIN d
    BY <1>2, <1>1, <1>13, <1>15, <1>16, MemberPlace DEF Dropped
  <2>2. QED
    BY <1>15, <1>16, <2>1, FamilySame
<1>18. /\ o \in DOMAIN d /\ o \in DOMAIN f /\ c \notin DOMAIN f /\ e[o] = d[o]
       /\ k \in 1..Len(d[o].kids) /\ d[o].kids[k] = c
       /\ DOMAIN f = DOMAIN d \ Forest!Family(d, c)
       /\ \A x \in DOMAIN f \ {o} : f[x] = e[x]
  BY <1>13, <1>16, <1>17 DEF Dropped, SameRows
<1>19. /\ \A x \in DOMAIN f \ {o, n} : f[x] = d[x]
       /\ f[o] = [d[o] EXCEPT !.kids = Forest!ReplaceAt(@, k, n)]
       /\ f[n] = [d[n] EXCEPT !.name = name]
  BY <1>13, <1>16, <1>18
<1>20. \E m \in Names \cup {d[n].name} : f[n] = [d[n] EXCEPT !.name = m]
  BY <1>19
<1>21. Forest!Replace(o, k, n)
  BY <1>18, <1>19, <1>20 DEF d, f, Forest!Replace, Forest!DiscardNth, Forest!InUse
<1>22. o \in Forest!InUse /\ n \in Forest!InUse /\ k \in 1..Len(ForestOf(heap)[o].kids)
  BY <1>1, <1>15, <1>18 DEF Forest!InUse, d
<1>23. QED
  BY <1>21, <1>22 DEF Forest!Step

-------------------------------------------------------------------------------
LEMMA NextIsStep ==
  ASSUME IInv, ListNext
  PROVE  Forest!Step
<1>1. ASSUME NEW c \in Cells, Graft(c) PROVE Forest!Step
  BY <1>1, GraftIsGrow
<1>2. ASSUME NEW a \in Arrays, NEW c \in held, AddItemToArray(a, c) PROVE Forest!Step
  BY <1>2, AddToArrayIsInsert
<1>3. ASSUME NEW o \in Objects, NEW n \in Names, NEW c \in held, AddItemToObject(o, n, c)
      PROVE  Forest!Step
  BY <1>3, AddToObjectIsInsert
<1>4. ASSUME NEW a \in Arrays \cup Objects, NEW i \in Live(heap), AddReference(a, i)
      PROVE  Forest!Step
  BY <1>4, AddReferenceIsInsert
<1>5. ASSUME NEW a \in Arrays \cup Objects, NEW c \in Members(heap, a), CallOn(a, c)
      PROVE  Forest!Step
  <2>1. CASE DetachItem(a, c)
    BY <2>1, DetachIsRemove
  <2>2. CASE DeleteItemFrom(a, c)
    BY <2>2, DeleteFromIsRemove
  <2>3. ASSUME NEW n \in held, ReplaceItemInArray(a, c, n) PROVE Forest!Step
    BY <2>3, ReplaceInArrayIsReplace
  <2>4. ASSUME NEW n \in held, NEW name \in Names, ReplaceItemInObject(a, c, name, n)
        PROVE  Forest!Step
    BY <2>4, ReplaceInObjectIsReplace
  <2>5. QED
    BY <1>5, <2>1, <2>2, <2>3, <2>4 DEF CallOn
<1>6. ASSUME NEW c \in held, DeleteItem(c) PROVE Forest!Step
  BY <1>6, DeleteIsDiscard
<1>7. QED
  BY <1>1, <1>2, <1>3, <1>4, <1>5, <1>6 DEF ListNext

(* What a program sees of its items through cJSON.h is a forest: each call   *)
(* on the linked lists is the one step on sequences that it stands for, and  *)
(* changes the kids of no other item, also where a reference shares a list.  *)
THEOREM ListsAreForest == ListSpec => ImplementsForest
<1>1. ListInit => Forest!InUse = {}
  <2> SUFFICES ASSUME ListInit PROVE Forest!InUse = {}
    OBVIOUS
  <2>1. \A x \in Cells : heap[x] \in {Free, Taken}
    BY DEF ListInit
  <2>2. Live(heap) = {}
    BY <2>1 DEF Live
  <2>3. QED
    BY <2>2, ForestFacts DEF Forest!InUse
<1>2. IInv /\ [ListNext]_jsonVars => [Forest!Step]_(ForestOf(heap))
  <2> SUFFICES ASSUME IInv, [ListNext]_jsonVars PROVE [Forest!Step]_(ForestOf(heap))
    OBVIOUS
  <2>1. CASE ListNext
    BY <2>1, NextIsStep
  <2>2. CASE UNCHANGED jsonVars
    BY <2>2 DEF jsonVars, ForestOf
  <2>3. QED
    BY <2>1, <2>2
<1>3. QED
  BY <1>1, <1>2, ListInvariance, PTL DEF ListSpec, ImplementsForest, Forest!ForestSpec

-------------------------------------------------------------------------------
(* A text of at most n characters.                                           *)
UpTo(t, n) == t \in Seq(Chars) /\ Len(t) <= n

LEMMA CharsAre ==
  /\ \A x \in Words : x \in Chars
  /\ \A x \in {"\\", "n", "\"", "\t", "\n", ",", " ", ":", "[", "]", "{", "}"} : x \in Chars
BY CJsonItemsAssumption DEF Marks

LEMMA NoText == UpTo(<<>>, 0)
BY DEF UpTo

LEMMA OneChar == \A x \in Chars : UpTo(<<x>>, 1)
BY DEF UpTo

LEMMA TwoTexts ==
  ASSUME NEW s, NEW m \in Nat, UpTo(s, m), NEW t, NEW n \in Nat, UpTo(t, n),
         NEW k \in Nat, m + n <= k
  PROVE  UpTo(s \o t, k)
<1>1. s \in Seq(Chars) /\ t \in Seq(Chars) /\ Len(s) \in Nat /\ Len(t) \in Nat
  BY DEF UpTo
<1>2. s \o t \in Seq(Chars) /\ Len(s \o t) = Len(s) + Len(t)
  BY <1>1
<1>3. QED
  BY <1>1, <1>2 DEF UpTo

LEMMA IfText ==
  ASSUME NEW n \in Nat, NEW t, UpTo(t, n), NEW cond \in BOOLEAN
  PROVE  UpTo(If(cond, t), IF cond THEN n ELSE 0) /\ UpTo(If(cond, t), n)
<1>1. CASE cond
  BY <1>1 DEF If
<1>2. CASE ~cond
  <2>1. If(cond, t) = <<>>
    BY <1>2 DEF If
  <2>2. UpTo(<<>>, n)
    BY NoText DEF UpTo
  <2>3. QED
    BY <1>2, <2>1, <2>2, NoText
<1>3. QED
  BY <1>1, <1>2

(* Total adds up the sizes, and what is put together fits into the sum if    *)
(* each part fits into its size.                                             *)
LEMMA TotalIs ==
  ASSUME NEW n \in Nat, NEW size, \A i \in 1..n : size[i] \in Nat
  PROVE  \E sums : Total(n, size) = sums[n] /\ IsSum(sums, size, n)
<1> DEFINE Law(f) == f = [i \in 0..n |-> IF i = 0 THEN 0 ELSE f[i - 1] + size[i]]
           sums == CHOOSE f : Law(f)
<1>1. PICK f : IsSum(f, size, n)
  BY RunningSum
<1>2. Law(f)
  BY <1>1 DEF IsSum
<1>3. Law(sums)
  <2> HIDE DEF Law
  <2>1. QED
    BY <1>2, Zenon
<1>4. Total(n, size) = sums[n]
  BY Zenon DEF Total
<1> HIDE DEF sums
<1>5. \A i \in 0..n : sums[i] = IF i = 0 THEN 0 ELSE sums[i - 1] + size[i]
  BY <1>3
<1> DEFINE T == {i \in 0..n : sums[i] \in Nat}
<1>6. 0 \in T
  BY <1>5
<1>7. ASSUME NEW i \in 1..n, i - 1 \in T
      PROVE  i \in T
  BY <1>5, <1>7
<1>8. 0..n \subseteq T
  <2> HIDE DEF T
  <2>1. QED
    BY <1>6, <1>7, Induct
<1>9. sums = [i \in 0..n |-> IF i = 0 THEN 0 ELSE sums[i - 1] + size[i]]
  BY <1>3
<1>10. IsSum(sums, size, n)
  BY <1>5, <1>8, <1>9 DEF IsSum
<1>11. QED
  BY <1>4, <1>10

LEMMA FlattenFits ==
  ASSUME NEW n \in Nat, NEW parts, parts = [i \in 1..n |-> parts[i]],
         NEW size, \A i \in 1..n : size[i] \in Nat /\ UpTo(parts[i], size[i])
  PROVE  Total(n, size) \in Nat /\ UpTo(FlattenSeq(parts), Total(n, size))
<1>1. Len(parts) = n /\ \A i \in 1..n : parts[i] \in Seq(Chars)
  BY DEF UpTo
<1>2. PICK sums : Total(n, size) = sums[n] /\ IsSum(sums, size, n)
  BY TotalIs
<1>3. /\ sums[0] = 0 /\ \A i \in 0..n : sums[i] \in Nat
      /\ \A i \in 1..n : sums[i] = sums[i - 1] + size[i]
  BY <1>2, SumFacts
<1>4. CASE n = 0
  <2>1. FlattenSeq(parts) = parts
    BY <1>1, <1>4 DEF FlattenSeq
  <2>2. parts = <<>>
    BY <1>4
  <2>3. Total(n, size) = 0
    BY <1>2, <1>3, <1>4
  <2>4. QED
    BY <2>1, <2>2, <2>3, NoText
<1>5. CASE n # 0
  <2> DEFINE Law(f) == f = [i \in 1..n |-> IF i = 1 THEN parts[i] ELSE f[i - 1] \o parts[i]]
             joined == CHOOSE f : Law(f)
  <2>1. PICK f : f \in [1..n -> Seq(Chars)] /\ IsJoin(f, parts, n)
    BY <1>1, <1>5, RunningConcat, Zenon
  <2>2. Law(f)
    BY <2>1 DEF IsJoin
  <2>3. Law(joined)
    <3> HIDE DEF Law
    <3>1. QED
      BY <2>2, Zenon
  <2>4. FlattenSeq(parts) = joined[n]
    BY <1>1, <1>5, Zenon DEF FlattenSeq
  <2> HIDE DEF joined
  <2>5. \A i \in 1..n : joined[i] = IF i = 1 THEN parts[i] ELSE joined[i - 1] \o parts[i]
    BY <2>3
  <2> DEFINE T == {i \in 0..n : i = 0 \/ UpTo(joined[i], sums[i])}
  <2>6. 0 \in T
    OBVIOUS
  <2>7. ASSUME NEW i \in 1..n, i - 1 \in T
        PROVE  i \in T
    <3>1. /\ i \in 0..n /\ i - 1 \in 0..n /\ UpTo(parts[i], size[i]) /\ size[i] \in Nat
          /\ sums[i] = sums[i - 1] + size[i] /\ sums[i - 1] \in Nat
      BY <1>3
    <3>2. CASE i = 1
      <4>1. joined[i] = parts[i] /\ i - 1 = 0
        BY <2>5, <3>2
      <4>2. sums[i] = size[i]
        BY <1>3, <3>1, <4>1
      <4>3. QED
        BY <3>1, <4>1, <4>2
    <3>3. CASE i # 1
      <4>1. UpTo(joined[i - 1], sums[i - 1])
        BY <2>7, <3>3
      <4>2. joined[i] = joined[i - 1] \o parts[i]
        BY <2>5, <3>3
      <4>3. sums[i] \in Nat /\ sums[i - 1] + size[i] <= sums[i]
        BY <3>1
      <4>4. UpTo(joined[i], sums[i])
        BY <3>1, <4>1, <4>2, <4>3, TwoTexts
      <4>5. QED
        BY <3>1, <4>4
    <3>4. QED
      BY <3>2, <3>3
  <2>8. 0..n \subseteq T
    <3> HIDE DEF T
    <3>1. QED
      BY <2>6, <2>7, Induct
  <2>9. UpTo(joined[n], sums[n]) /\ n \in 0..n
    BY <1>5, <2>8
  <2>10. QED
    BY <1>2, <1>3, <2>4, <2>9
<1>6. QED
  BY <1>4, <1>5

(* A text with the length computed for it, by print_string_ptr, print_array  *)
(* and print_object.                                                         *)
Fits(p) == p \in [text : Seq(Chars), size : Nat] /\ Len(p.text) < p.size

LEMMA IsFit ==
  ASSUME NEW n \in Nat, NEW t, UpTo(t, n), NEW size \in Nat, n < size
  PROVE  Fits([text |-> t, size |-> size])
BY DEF Fits, UpTo

LEMMA FramedFits ==
  ASSUME NEW front, UpTo(front, 1), NEW back, UpTo(back, 1),
         NEW t, NEW n \in Nat, UpTo(t, n), NEW size \in Nat, n + 2 < size
  PROVE  Fits([text |-> front \o t \o back, size |-> size])
<1> DEFINE m == n + 1
           all == n + 2
<1>1. m \in Nat /\ 1 + n <= m /\ all \in Nat /\ m + 1 <= all /\ all < size
  OBVIOUS
<1> HIDE DEF m, all
<1>2. UpTo(front \o t, m)
  BY <1>1, TwoTexts
<1>3. UpTo(front \o t \o back, all)
  BY <1>1, <1>2, TwoTexts
<1>4. QED
  BY <1>1, <1>3, IsFit

LEMMA StringFits ==
  ASSUME NEW str \in Texts \cup {NoName}
  PROVE  Fits(RenderString(str))
<1>1. CASE str = NoName
  <2>1. RenderString(str) = [text |-> <<>>, size |-> 1]
    BY <1>1 DEF RenderString
  <2>2. QED
    BY <2>1, NoText, IsFit
<1>2. CASE str # NoName
  <2> DEFINE n == Len(str)
             parts == [k \in 1..n |-> Escaped(str[k])]
             size == [k \in 1..n |-> IF str[k] \in {"\"", "\\", "\n"} THEN 2 ELSE 1]
             quote == <<"\"">>
             total == Total(n, size)
  <2>1. n \in Nat /\ \A k \in 1..n : str[k] \in Chars
    BY <1>2 DEF Texts
  <2>2. ASSUME NEW k \in 1..n
        PROVE  size[k] \in Nat /\ UpTo(parts[k], size[k])
    <3> DEFINE ch == str[k]
    <3>1. /\ parts[k] = Escaped(ch)
          /\ size[k] = IF ch \in {"\"", "\\", "\n"} THEN 2 ELSE 1
      OBVIOUS
    <3>2. ch \in Chars /\ "\\" \in Chars /\ "n" \in Chars
      BY <2>1, CharsAre
    <3> HIDE DEF ch, parts, size
    <3>3. UpTo(<<ch>>, 1) /\ UpTo(<<"\\", "n">>, 2) /\ UpTo(<<"\\", ch>>, 2)
      BY <3>2 DEF UpTo
    <3>4. CASE ch = "\n"
      <4>1. Escaped(ch) = <<"\\", "n">>
        BY <3>4, Zenon DEF Escaped
      <4>2. QED
        BY <3>1, <3>3, <3>4, <4>1
    <3>5. CASE ch # "\n" /\ ch \in {"\"", "\\"}
      <4>1. Escaped(ch) = <<"\\", ch>>
        BY <3>5 DEF Escaped
      <4>2. size[k] = 2
        BY <3>1, <3>5
      <4>3. UpTo(parts[k], size[k])
        BY <3>1, <3>3, <4>1, <4>2, Zenon
      <4>4. QED
        BY <4>2, <4>3
    <3>6. CASE ch \notin {"\"", "\\", "\n"}
      <4>1. Escaped(ch) = <<ch>>
        BY <3>6 DEF Escaped
      <4>2. size[k] = 1
        BY <3>1, <3>6
      <4>3. UpTo(parts[k], size[k])
        BY <3>1, <3>3, <4>1, <4>2, Zenon
      <4>4. QED
        BY <4>2, <4>3
    <3>7. QED
      BY <3>4, <3>5, <3>6
  <2>3. parts = [k \in 1..n |-> parts[k]]
    OBVIOUS
  <2>4. RenderString(str) = [text |-> quote \o FlattenSeq(parts) \o quote, size |-> 3 + total]
    BY <1>2, Zenon DEF RenderString, EscapedText
  <2>5. UpTo(quote, 1)
    BY CharsAre, OneChar
  <2> HIDE DEF parts, size, n, quote, total
  <2>6. total \in Nat /\ UpTo(FlattenSeq(parts), total)
    BY <2>1, <2>2, <2>3, FlattenFits DEF total
  <2> DEFINE room == 3 + total
  <2>7. room \in Nat /\ total + 2 < room
    BY <2>6
  <2> HIDE DEF room
  <2>8. Fits([text |-> quote \o FlattenSeq(parts) \o quote, size |-> room])
    BY <2>5, <2>6, <2>7, FramedFits
  <2>9. QED
    BY <2>4, <2>8, Zenon DEF room
<1>3. QED
  BY <1>1, <1>2

LEMMA ArrayFits ==
  ASSUME NEW texts, \A k \in 1..Len(texts) : texts[k] \in Seq(Chars), Len(texts) \in Nat,
         NEW fmt \in BOOLEAN
  PROVE  Fits(RenderArray(texts, fmt))
<1> DEFINE n == Len(texts)
           after(k) == If(k # n, <<",">> \o If(fmt, <<" ">>))
           parts == [k \in 1..n |-> texts[k] \o after(k)]
           size == [k \in 1..n |-> Len(texts[k]) + 2 + IF fmt THEN 1 ELSE 0]
           total == Total(n, size)
           space == IF fmt THEN 1 ELSE 0
<1>1. UpTo(<<",">>, 1) /\ UpTo(<<" ">>, 1) /\ UpTo(<<"[">>, 1) /\ UpTo(<<"]">>, 1)
  BY CharsAre, OneChar
<1>2. CASE n = 0
  <2>1. RenderArray(texts, fmt) = [text |-> <<"[", "]">>, size |-> 3]
    BY <1>2 DEF RenderArray
  <2>2. "[" \in Chars /\ "]" \in Chars
    BY CharsAre
  <2>3. UpTo(<<"[", "]">>, 2)
    BY <2>2 DEF UpTo
  <2>4. QED
    BY <2>1, <2>3, IsFit
<1>3. CASE n # 0
  <2>1. RenderArray(texts, fmt) =
          [text |-> <<"[">> \o FlattenSeq(parts) \o <<"]">>, size |-> 5 + total]
    BY <1>3, Zenon DEF RenderArray
  <2>2. ASSUME NEW k \in 1..n
        PROVE  size[k] \in Nat /\ UpTo(parts[k], size[k])
    <3>1. parts[k] = texts[k] \o after(k) /\ size[k] = Len(texts[k]) + 2 + space
      OBVIOUS
    <3>2. UpTo(texts[k], Len(texts[k])) /\ Len(texts[k]) \in Nat /\ space \in Nat
      BY DEF UpTo
    <3>3. (k # n) \in BOOLEAN
      OBVIOUS
    <3> DEFINE rest == <<",">> \o If(fmt, <<" ">>)
               more == 1 + space
    <3>4. UpTo(If(fmt, <<" ">>), space)
      BY <1>1, IfText
    <3> HIDE DEF parts, size, n, space
    <3>5. more \in Nat /\ 1 + space <= more /\ size[k] \in Nat /\ Len(texts[k]) + more <= size[k]
      <4>1. ASSUME NEW t \in Nat, NEW x \in Nat, NEW z, z = t + 2 + x
            PROVE  1 + x \in Nat /\ z \in Nat /\ t + (1 + x) <= z
        BY <4>1
      <4>2. more \in Nat /\ 1 + space <= more
        BY <3>2
      <4>3. size[k] \in Nat
        BY <3>1, <3>2, <4>1
      <4>4. Len(texts[k]) + more <= size[k]
        BY <3>1, <3>2, <4>1
      <4>5. QED
        BY <4>2, <4>3, <4>4
    <3> HIDE DEF more
    <3>6. UpTo(rest, more)
      BY <1>1, <3>2, <3>4, <3>5, TwoTexts
    <3> HIDE DEF rest
    <3>7. UpTo(If(k # n, rest), more)
      BY <3>3, <3>5, <3>6, IfText
    <3>8. UpTo(texts[k] \o If(k # n, rest), size[k])
      BY <3>2, <3>5, <3>7, TwoTexts
    <3>9. parts[k] = texts[k] \o If(k # n, rest)
      BY <3>1, Zenon DEF rest
    <3>10. QED
      BY <3>5, <3>8, <3>9
  <2>3. parts = [k \in 1..n |-> parts[k]] /\ n \in Nat
    OBVIOUS
  <2> HIDE DEF parts, size, n, total
  <2>4. total \in Nat /\ UpTo(FlattenSeq(parts), total)
    BY <2>2, <2>3, FlattenFits DEF total
  <2> DEFINE room == 5 + total
  <2>5. room \in Nat /\ total + 2 < room
    BY <2>4
  <2> HIDE DEF room
  <2>6. Fits([text |-> <<"[">> \o FlattenSeq(parts) \o <<"]">>, size |-> room])
    BY <1>1, <2>4, <2>5, FramedFits
  <2>7. QED
    BY <2>1, <2>6, Zenon DEF room
<1>4. QED
  BY <1>2, <1>3

LEMMA ObjectFits ==
  ASSUME NEW texts, \A k \in 1..Len(texts) : texts[k] \in Seq(Chars), Len(texts) \in Nat,
         NEW names, \A k \in 1..Len(texts) : names[k] \in Seq(Chars),
         NEW outer \in Nat, NEW fmt \in BOOLEAN
  PROVE  Fits(RenderObject(names, texts, outer, fmt))
<1> DEFINE n == Len(texts)
           depth == outer + 1
           mark == IF fmt THEN 1 ELSE 0
           wide == IF fmt THEN depth ELSE 0
           line(k) == If(fmt, Tabs(depth)) \o names[k] \o <<":">> \o If(fmt, <<"\t">>)
                      \o texts[k] \o If(k # n, <<",">>) \o If(fmt, <<"\n">>)
           parts == [k \in 1..n |-> line(k)]
           size == [k \in 1..n |-> Len(texts[k]) + Len(names[k]) + 2 + IF fmt THEN 2 + depth ELSE 0]
           total == Total(n, size)
<1>1. /\ UpTo(<<",">>, 1) /\ UpTo(<<"\t">>, 1) /\ UpTo(<<"\n">>, 1) /\ UpTo(<<":">>, 1)
      /\ UpTo(<<"{">>, 1) /\ UpTo(<<"}">>, 1)
  BY CharsAre, OneChar
<1>2. ASSUME NEW m \in Nat
      PROVE  UpTo(Tabs(m), m)
  <2>1. "\t" \in Chars
    BY CharsAre
  <2>2. Tabs(m) \in Seq(Chars) /\ Len(Tabs(m)) = m
    BY <2>1 DEF Tabs
  <2>3. QED
    BY <2>2 DEF UpTo
<1>3. /\ depth \in Nat /\ mark \in Nat /\ wide \in Nat /\ n \in Nat
      /\ UpTo(If(fmt, Tabs(depth)), wide)
      /\ UpTo(If(fmt, <<"\t">>), mark) /\ UpTo(If(fmt, <<"\n">>), mark)
  <2>1. depth \in Nat /\ mark \in Nat /\ wide \in Nat /\ n \in Nat
    OBVIOUS
  <2>2. UpTo(If(fmt, Tabs(depth)), wide)
    <3>1. UpTo(Tabs(depth), depth)
      BY <1>2, <2>1
    <3> HIDE DEF depth
    <3>2. QED
      BY <2>1, <3>1, IfText
  <2>3. UpTo(If(fmt, <<"\t">>), mark) /\ UpTo(If(fmt, <<"\n">>), mark)
    BY <1>1, IfText
  <2>4. QED
    BY <2>1, <2>2, <2>3
<1>4. CASE n = 0
  <2> DEFINE tabs == Tabs(IF outer = 0 THEN 0 ELSE outer - 1)
             body == If(fmt, <<"\n">> \o tabs)
             room == IF fmt THEN outer + 4 ELSE 3
  <2>1. RenderObject(names, texts, outer, fmt) = [text |-> <<"{">> \o body \o <<"}">>, size |-> room]
    BY <1>4, Zenon DEF RenderObject
  <2>2. \E less \in Nat : tabs = Tabs(less) /\ less <= outer
    BY SMT
  <2>3. UpTo(tabs, outer)
    BY <1>2, <2>2 DEF UpTo
  <2> DEFINE most == outer + 1
             all == IF fmt THEN most ELSE 0
  <2>4. /\ most \in Nat /\ 1 + outer <= most
        /\ all \in Nat /\ room \in Nat /\ all + 2 < room
    OBVIOUS
  <2> HIDE DEF tabs, most, room
  <2>5. UpTo(<<"\n">> \o tabs, most)
    BY <1>1, <2>3, <2>4, TwoTexts
  <2>6. UpTo(body, all)
    BY <2>4, <2>5, IfText
  <2> HIDE DEF body, all
  <2>7. QED
    BY <1>1, <2>1, <2>4, <2>6, FramedFits
<1>5. CASE n # 0
  <2>1. RenderObject(names, texts, outer, fmt) =
          [text |-> <<"{">> \o If(fmt, <<"\n">>) \o FlattenSeq(parts) \o If(fmt, Tabs(outer)) \o <<"}">>,
           size |-> 7 + (IF fmt THEN depth ELSE 0) + total]
    BY <1>5, Zenon DEF RenderObject
  <2>2. ASSUME NEW k \in 1..n
        PROVE  size[k] \in Nat /\ UpTo(parts[k], size[k])
    <3> DEFINE t == Len(texts[k])
               m == Len(names[k])
    <3>1. size[k] = t + m + 2 + (mark + mark + wide)
      OBVIOUS
    <3>2. parts[k] = line(k)
      OBVIOUS
    <3>3. /\ UpTo(texts[k], t) /\ UpTo(names[k], m) /\ t \in Nat /\ m \in Nat
      BY DEF UpTo
    <3>4. UpTo(If(k # n, <<",">>), 1)
      <4>1. (k # n) \in BOOLEAN
        OBVIOUS
      <4>2. QED
        BY <1>1, <4>1, IfText
    <3> HIDE DEF size, parts, t, m, mark, wide, n, depth
    <3> DEFINE a == wide + m
               b == a + 1
               c == b + mark
               d == c + t
               e == d + 1
    <3>5. /\ a \in Nat /\ b \in Nat /\ c \in Nat /\ d \in Nat /\ e \in Nat /\ size[k] \in Nat
          /\ wide + m <= a /\ a + 1 <= b /\ b + mark <= c /\ c + t <= d /\ d + 1 <= e
          /\ e + mark <= size[k]
      <4>1. ASSUME NEW u \in Nat, NEW v \in Nat, NEW w \in Nat, NEW x \in Nat,
                   NEW z, z = u + v + 2 + (w + w + x)
            PROVE  z \in Nat /\ x + v + 1 + w + u + 1 + w <= z
        BY <4>1
      <4>2. mark \in Nat /\ wide \in Nat /\ t \in Nat /\ m \in Nat
        BY <1>3, <3>3
      <4>3. /\ a \in Nat /\ b \in Nat /\ c \in Nat /\ d \in Nat /\ e \in Nat
            /\ wide + m <= a /\ a + 1 <= b /\ b + mark <= c /\ c + t <= d /\ d + 1 <= e
        BY <4>2
      <4>4. size[k] \in Nat
        BY <3>1, <4>1, <4>2
      <4>5. e + mark <= size[k]
        BY <3>1, <4>1, <4>2
      <4>6. QED
        BY <4>3, <4>4, <4>5
    <3> HIDE DEF a, b, c, d, e
    <3> DEFINE s1 == If(fmt, Tabs(depth)) \o names[k]
               s2 == s1 \o <<":">>
               s3 == s2 \o If(fmt, <<"\t">>)
               s4 == s3 \o texts[k]
               s5 == s4 \o If(k # n, <<",">>)
    <3>6. UpTo(s1, a)
      BY <1>3, <3>3, <3>5, TwoTexts
    <3> HIDE DEF s1
    <3>7. UpTo(s2, b)
      BY <1>1, <3>5, <3>6, TwoTexts
    <3> HIDE DEF s2
    <3>8. UpTo(s3, c)
      BY <1>3, <3>5, <3>7, TwoTexts
    <3> HIDE DEF s3
    <3>9. UpTo(s4, d)
      BY <3>3, <3>5, <3>8, TwoTexts
    <3> HIDE DEF s4
    <3>10. UpTo(s5, e)
      BY <3>4, <3>5, <3>9, TwoTexts
    <3> HIDE DEF s5
    <3>11. UpTo(s5 \o If(fmt, <<"\n">>), size[k])
      BY <1>3, <3>5, <3>10, TwoTexts
    <3>12. parts[k] = s5 \o If(fmt, <<"\n">>)
      BY <3>2, Zenon DEF s1, s2, s3, s4, s5
    <3>13. QED
      BY <3>5, <3>11, <3>12
  <2>3. parts = [k \in 1..n |-> parts[k]]
    OBVIOUS
  <2> HIDE DEF parts, size, n, total, mark
  <2>4. total \in Nat /\ UpTo(FlattenSeq(parts), total)
    BY <1>3, <2>2, <2>3, FlattenFits DEF total
  <2> DEFINE before == IF fmt THEN outer ELSE 0
             a == 1 + mark
             b == a + total
             c == b + before
             d == c + 1
             room == 7 + (IF fmt THEN depth ELSE 0) + total
  <2>5. /\ before \in Nat /\ a \in Nat /\ b \in Nat /\ c \in Nat /\ d \in Nat /\ room \in Nat
        /\ 1 + mark <= a /\ a + total <= b /\ b + before <= c /\ c + 1 <= d /\ d < room
    BY <1>3, <2>4 DEF mark
  <2>6. UpTo(If(fmt, Tabs(outer)), before)
    BY <1>2, IfText
  <2> HIDE DEF a, b, c, d, room, before
  <2> DEFINE s1 == <<"{">> \o If(fmt, <<"\n">>)
             s2 == s1 \o FlattenSeq(parts)
             s3 == s2 \o If(fmt, Tabs(outer))
             s4 == s3 \o <<"}">>
  <2>7. UpTo(s1, a)
    BY <1>1, <1>3, <2>5, TwoTexts
  <2> HIDE DEF s1
  <2>8. UpTo(s2, b)
    BY <2>4, <2>5, <2>7, TwoTexts
  <2> HIDE DEF s2
  <2>9. UpTo(s3, c)
    BY <2>5, <2>6, <2>8, TwoTexts
  <2> HIDE DEF s3
  <2>10. UpTo(s4, d)
    BY <1>1, <2>5, <2>9, TwoTexts
  <2> HIDE DEF s4
  <2>11. Fits([text |-> s4, size |-> room])
    BY <2>5, <2>10, IsFit
  <2>12. QED
    BY <2>1, <2>11, Zenon DEF s1, s2, s3, s4, room
<1>6. QED
  BY <1>4, <1>5

LEMMA ItemFits ==
  ASSUME NEW h, NEW H, WellFormed(h, H), NEW c \in Live(h), NEW depth \in Nat,
         NEW fmt \in BOOLEAN, NEW inner, \A d \in Live(h) : Fits(inner[d])
  PROVE  Fits(RenderItem(h, c, depth, fmt, inner))
<1> DEFINE kids == Chain(h, c)
           texts == [k \in 1..Len(kids) |-> inner[kids[k]].text]
           names == [k \in 1..Len(kids) |-> RenderString(h[kids[k]].string).text]
<1>1. /\ h[c].value \in Texts /\ h[c].kind \in Kinds
      /\ \A d \in Live(h) : h[d].string \in Texts \cup {NoName}
  BY HeapParts DEF WellFormed, Struct
<1>2. Len(kids) \in Nat /\ \A k \in 1..Len(kids) : kids[k] \in Live(h)
  BY ChainFacts, Zenon
<1>3. Len(texts) = Len(kids) /\ Len(texts) \in Nat
  BY <1>2
<1>4. \A k \in 1..Len(texts) : texts[k] \in Seq(Chars)
  BY <1>2, <1>3 DEF Fits
<1>5. ASSUME NEW k \in 1..Len(texts)
      PROVE  names[k] \in Seq(Chars)
  <2>1. h[kids[k]].string \in Texts \cup {NoName}
    BY <1>1, <1>2, <1>3
  <2>2. Fits(RenderString(h[kids[k]].string))
    BY <2>1, StringFits
  <2>3. names[k] = RenderString(h[kids[k]].string).text
    BY <1>3
  <2> HIDE DEF names
  <2>4. QED
    BY <2>2, <2>3 DEF Fits
<1>6. CASE h[c].kind = "string"
  <2>1. RenderItem(h, c, depth, fmt, inner) = RenderString(h[c].value)
    BY <1>6 DEF RenderItem
  <2>2. QED
    BY <1>1, <2>1, StringFits
<1>7. CASE h[c].kind = "array"
  <2>1. RenderItem(h, c, depth, fmt, inner) = RenderArray(texts, fmt)
    BY <1>7, Zenon DEF RenderItem
  <2> HIDE DEF texts
  <2>2. QED
    BY <1>3, <1>4, <2>1, ArrayFits
<1>8. CASE h[c].kind = "object"
  <2>1. RenderItem(h, c, depth, fmt, inner) = RenderObject(names, texts, depth, fmt)
    BY <1>8, Zenon DEF RenderItem
  <2> HIDE DEF texts, names
  <2>2. QED
    BY <1>3, <1>4, <1>5, <2>1, ObjectFits
<1>9. CASE h[c].kind \notin {"string", "array", "object"}
  <2>1. RenderItem(h, c, depth, fmt, inner) = [text |-> <<h[c].kind>>, size |-> 2]
    BY <1>9 DEF RenderItem
  <2>2. UpTo(<<h[c].kind>>, 1)
    <3>1. h[c].kind \in Words
      BY <1>1, <1>9 DEF Kinds
    <3>2. QED
      BY <3>1, CharsAre, OneChar
  <2>3. QED
    BY <2>1, <2>2, IsFit
<1>10. QED
  BY <1>6, <1>7, <1>8, <1>9

LEMMA RenderFits ==
  ASSUME NEW h, NEW H, WellFormed(h, H), NEW c \in Live(h), NEW depth \in Nat, NEW fmt \in BOOLEAN
  PROVE  Fits(Render(h, c, depth, fmt))
<1> DEFINE S == [Live(h) -> {p \in [text : Seq(Chars), size : Nat] : Fits(p)}]
           first == [d \in Live(h) |-> [text |-> <<>>, size |-> 1]]
           G == [n \in 1..NumItems |-> [x \in S |->
                   [d \in Live(h) |-> RenderItem(h, d, depth + NumItems - n, fmt, x)]]]
           Law(f) == f = [n \in 0..NumItems |->
                            [d \in Live(h) |->
                               IF n = 0 THEN [text |-> <<>>, size |-> 1]
                               ELSE RenderItem(h, d, depth + NumItems - n, fmt, f[n - 1])]]
           rendered == CHOOSE f : Law(f)
<1>1. first \in S
  <2>1. Fits([text |-> <<>>, size |-> 1])
    BY NoText, IsFit
  <2>2. QED
    BY <2>1 DEF Fits
<1>2. ASSUME NEW n \in 1..NumItems, NEW x \in S
      PROVE  [d \in Live(h) |-> RenderItem(h, d, depth + NumItems - n, fmt, x)] \in S
  <2>1. \A d \in Live(h) : Fits(x[d])
    OBVIOUS
  <2>2. depth + NumItems - n \in Nat
    BY SomeItems
  <2>3. \A d \in Live(h) : Fits(RenderItem(h, d, depth + NumItems - n, fmt, x))
    BY <2>1, <2>2, ItemFits
  <2>4. QED
    BY <2>3 DEF Fits
<1>3. G \in [1..NumItems -> [S -> S]]
  <2> HIDE DEF S
  <2>1. QED
    BY <1>2
<1>4. PICK run : IsRun(run, NumItems, first, G, S)
  <2> HIDE DEF S, G, first
  <2>1. QED
    BY <1>1, <1>3, Iteration, SomeItems
<1>5. Law(run)
  <2>1. ASSUME NEW n \in 0..NumItems
        PROVE  run[n] = [d \in Live(h) |->
                           IF n = 0 THEN [text |-> <<>>, size |-> 1]
                           ELSE RenderItem(h, d, depth + NumItems - n, fmt, run[n - 1])]
    <3>1. CASE n = 0
      BY <1>4, <3>1 DEF IsRun
    <3>2. CASE n # 0
      <4>1. n \in 1..NumItems /\ n - 1 \in 0..NumItems
        BY <3>2, SomeItems
      <4>2. run[n] = G[n][run[n - 1]] /\ run[n - 1] \in S
        <5> HIDE DEF S, G
        <5>1. QED
          BY <1>4, <4>1 DEF IsRun
      <4>3. G[n][run[n - 1]] = [d \in Live(h) |-> RenderItem(h, d, depth + NumItems - n, fmt, run[n - 1])]
        <5> HIDE DEF S
        <5>1. QED
          BY <4>1, <4>2
      <4>4. QED
        BY <3>2, <4>2, <4>3, Zenon
    <3>3. QED
      BY <3>1, <3>2
  <2>2. run = [n \in 0..NumItems |-> run[n]]
    BY <1>4 DEF IsRun
  <2>3. QED
    BY <2>1, <2>2
<1>6. Law(rendered)
  <2> HIDE DEF Law
  <2>1. QED
    BY <1>5, Zenon
<1>7. Render(h, c, depth, fmt) = rendered[NumItems][c]
  BY Zenon DEF Render
<1> HIDE DEF rendered
<1>8. \A n \in 0..NumItems :
        rendered[n] = [d \in Live(h) |->
                         IF n = 0 THEN [text |-> <<>>, size |-> 1]
                         ELSE RenderItem(h, d, depth + NumItems - n, fmt, rendered[n - 1])]
  BY <1>6
<1> DEFINE T == {n \in 0..NumItems : rendered[n] \in S}
<1>9. 0 \in T
  <2>1. 0 \in 0..NumItems
    BY SomeItems
  <2>2. rendered[0] = first
    BY <1>8, <2>1
  <2> HIDE DEF S, first
  <2>3. QED
    BY <1>1, <2>1, <2>2
<1>10. ASSUME NEW n \in 1..NumItems, n - 1 \in T
       PROVE  n \in T
  <2>1. n \in 0..NumItems /\ n # 0 /\ rendered[n - 1] \in S
    BY <1>10
  <2>2. rendered[n] = [d \in Live(h) |-> RenderItem(h, d, depth + NumItems - n, fmt, rendered[n - 1])]
    <3> HIDE DEF S, T
    <3>1. QED
      BY <1>8, <2>1
  <2>3. rendered[n] \in S
    <3> HIDE DEF S
    <3>1. QED
      BY <1>2, <2>1, <2>2
  <2>4. QED
    BY <2>1, <2>3
<1>11. 0..NumItems \subseteq T
  <2> HIDE DEF T
  <2>1. QED
    BY <1>9, <1>10, Induct, SomeItems
<1>12. rendered[NumItems] \in S
  BY <1>11, SomeItems
<1>13. QED
  BY <1>7, <1>12

(* Whatever a program does with its items, at every depth of nesting the      *)
(* buffer that print_value allocates for an item holds its text and the NUL. *)
THEOREM TextsFit == ListSpec => [](TextFits /\ \A depth \in Nat : FitsAt(depth))
<1>1. ASSUME IInv, NEW depth \in Nat
      PROVE  FitsAt(depth)
  <2>1. ASSUME NEW c \in Live(heap), NEW fmt \in BOOLEAN
        PROVE  Len(Render(heap, c, depth, fmt).text) < Render(heap, c, depth, fmt).size
    <3>1. Fits(Render(heap, c, depth, fmt))
      BY <1>1, RenderFits, Zenon DEF IInv
    <3>2. QED
      BY <3>1 DEF Fits
  <2>2. QED
    BY <2>1 DEF FitsAt
<1>2. IInv => \A depth \in Nat : FitsAt(depth)
  BY <1>1
<1>3. (\A depth \in Nat : FitsAt(depth)) => TextFits
  <2>1. \A depth \in 0..2 : depth \in Nat
    OBVIOUS
  <2>2. QED
    BY <2>1 DEF TextFits
<1>4. IInv => TextFits /\ \A depth \in Nat : FitsAt(depth)
  BY <1>2, <1>3
<1>5. QED
  BY <1>4, ListInvariance, PTL
===============================================================================
