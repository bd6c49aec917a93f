------------------------------ MODULE JsonForest ------------------------------
(***************************************************************************)
(* What src/cJSON.h promises of the items it hands out, without pointers: a *)
(* set of items, each with a kind, a value, perhaps a name, and the sequence *)
(* of the items it contains.  A reference shows the items of another one.    *)
(***************************************************************************)
EXTENDS Naturals, Sequences, FiniteSets, SequencesExt

CONSTANTS Items, Names

VARIABLE forest   \* from the items in use to [kind, value, name, ref, kids]

InUse == DOMAIN forest

(* An item of the forest f with everything in it that is its own.            *)
KidsOf(f, i) == {f[i].kids[k] : k \in 1..Len(f[i].kids)}

Family(f, i) ==
  LET whole == {S \in SUBSET DOMAIN f :
                  i \in S /\ \A x \in S : f[x].ref \/ KidsOf(f, x) \subseteq S}
  IN  {x \in DOMAIN f : \A S \in whole : x \in S}

OthersSame(changed) ==
  /\ DOMAIN forest' = InUse
  /\ \A i \in InUse \ changed : forest'[i] = forest[i]

Insert(a, c) ==
  /\ OthersSame({a, c})
  /\ forest'[a] = [forest[a] EXCEPT !.kids = Append(@, c)]
  /\ \E n \in Names \cup {forest[c].name} : forest'[c] = [forest[c] EXCEPT !.name = n]

(* A fresh item r that shows the items of i, added to a.                     *)
InsertReference(a, i, r) ==
  /\ r \notin InUse
  /\ DOMAIN forest' = InUse \cup {r}
  /\ \A x \in InUse \ {a} : forest'[x] = forest[x]
  /\ forest'[a] = [forest[a] EXCEPT !.kids = Append(@, r)]
  /\ \E n \in Names \cup {forest'[r].name} :
       forest'[r] = [forest[i] EXCEPT !.ref = TRUE, !.name = n]

RemoveNth(a, k) ==
  /\ OthersSame({a})
  /\ forest'[a] = [forest[a] EXCEPT !.kids = RemoveAt(@, k)]

Discard(c) ==
  /\ c \notin DOMAIN forest'
  /\ DOMAIN forest' = InUse \ Family(forest, c)
  /\ \A i \in DOMAIN forest' : forest'[i] = forest[i]

(* The k-th item of a is discarded with all that is in it.                   *)
DiscardNth(a, k) ==
  /\ a \in DOMAIN forest' /\ forest[a].kids[k] \notin DOMAIN forest'
  /\ DOMAIN forest' = InUse \ Family(forest, forest[a].kids[k])

RemoveAndDiscard(a, k) ==
  /\ DiscardNth(a, k)
  /\ \A i \in DOMAIN forest' \ {a} : forest'[i] = forest[i]
  /\ forest'[a] = [forest[a] EXCEPT !.kids = RemoveAt(@, k)]

Replace(a, k, c) ==
  /\ DiscardNth(a, k)
  /\ \A i \in DOMAIN forest' \ {a, c} : forest'[i] = forest[i]
  /\ forest'[a] = [forest[a] EXCEPT !.kids = ReplaceAt(@, k, c)]
  /\ \E n \in Names \cup {forest[c].name} : forest'[c] = [forest[c] EXCEPT !.name = n]

(* New items beside the old ones: c with all that it contains.               *)
Grow(c) ==
  /\ c \in DOMAIN forest' \ InUse
  /\ InUse \subseteq DOMAIN forest'
  /\ \A i \in InUse : forest'[i] = forest[i]
  /\ DOMAIN forest' \ InUse = Family(forest', c)
  /\ \A i \in Family(forest', c) : ~forest'[i].ref

Step ==
  \/ \E c \in Items : Grow(c)
  \/ \E a, c \in InUse : Insert(a, c)
  \/ \E c \in InUse : Discard(c)
  \/ \E a, i \in InUse, r \in Items : InsertReference(a, i, r)
  \/ \E a \in InUse : \E k \in 1..Len(forest[a].kids) :
       \/ RemoveNth(a, k)
       \/ RemoveAndDiscard(a, k)
       \/ \E c \in InUse : Replace(a, k, c)

ForestSpec == InUse = {} /\ [][Step]_forest
===============================================================================
