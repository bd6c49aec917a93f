------------------------------ MODULE CJsonLists ------------------------------
(***************************************************************************)
(* The lists that a program makes with src/cJSON.c: it creates, adds,        *)
(* detaches, replaces, refers to and deletes items in any order, and what it *)
(* parses and duplicates comes to them as items that are new.  It keeps to   *)
(* what cJSON.h asks of it: it adds and deletes only items it holds, gives   *)
(* every member of an object a name, puts no item into itself, and while     *)
(* there is a reference to an item neither deletes the item nor changes its  *)
(* list, nor changes a list through a reference.                             *)
(***************************************************************************)
EXTENDS CJsonPrint

CONSTANT Names    \* the names given to members of objects

ASSUME CJsonListsAssumption == Names \subseteq Texts

VARIABLES
  heap,
  held    \* the items the program holds: those it must add or delete

jsonVars == <<heap, held>>

(* No reference from outside S shows the list of an item of S.               *)
Unreferred(h, S) == \A r \in Live(h) \ S : h[r].ref => h[r].of \notin S

(* The program may change the list of a.                                     *)
Mutable(a) == Nested(heap, a) /\ ~heap[a].ref /\ Unreferred(heap, {a})

Arrays == {a \in Live(heap) : Mutable(a) /\ heap[a].kind = "array"}
Objects == {o \in Live(heap) : Mutable(o) /\ heap[o].kind = "object"}

-------------------------------------------------------------------------------
(* No pointer of an item in use leads to freed memory, next and prev are     *)
(* inverse, the head of a list has no prev, and an item the program holds    *)
(* has no neighbours: cJSON_Delete on it deletes nothing else.               *)
Linked(h, H) ==
  /\ H \subseteq Live(h)
  /\ \A c \in Live(h) :
       /\ {h[c].next, h[c].prev, h[c].child} \subseteq Live(h) \cup {0}
       /\ h[c].next # 0 => h[h[c].next].prev = c
       /\ h[c].prev # 0 => h[h[c].prev].next = c
       /\ h[c].child # 0 => h[h[c].child].prev = 0
       /\ c \in H => h[c].next = 0 /\ h[c].prev = 0

(* A list has one owner, which may be shown by references, or none if it is  *)
(* that of an item the program holds.                                        *)
Listed(h, H) ==
  /\ \A a, b \in Owners(h) : h[a].child = h[b].child /\ h[a].child # 0 => a = b
  /\ \A a \in Owners(h) : h[a].child \notin H
  /\ \A r \in Live(h) \ Owners(h) : h[r].of \in Owners(h) /\ h[r].child = h[h[r].of].child

(* Every item is in an item that the program holds.                          *)
Kept(h, H) == Live(h) = UNION {Deleted(h, c) : c \in H}

WellFormed(h, H) == h \in Heaps /\ Linked(h, H) /\ Listed(h, H) /\ Kept(h, H)

-------------------------------------------------------------------------------
(* A call that makes items and gives the program the one they are all in:    *)
(* what is new is well formed by itself, without references, and the rest of  *)
(* memory stays.                                                             *)
Graft(c) ==
  LET new == Live(heap') \ Live(heap) IN
  /\ held' = held \cup {c}
  /\ heap' \in Heaps
  /\ \A x \in Cells : IF x \in new THEN ~heap'[x].ref ELSE heap'[x] = heap[x]
  /\ WellFormed([x \in Cells |-> IF x \in new THEN heap'[x] ELSE Free], {c})

AddItemToArray(a, c) ==
  /\ held' = held \ {c}
  /\ a \notin Shown(heap, c)
  /\ heap' = AddItem(heap, a, c)

AddItemToObject(o, n, c) ==
  /\ held' = held \ {c}
  /\ o \notin Shown(heap, c)
  /\ heap' = AddNamedItem(heap, o, n, c)

(* cJSON_AddItemReferenceToArray, -Object: without memory nothing is added.  *)
AddReference(a, i) ==
  LET r == Malloc(heap)
      h == Reference(heap, i, r)
  IN
  /\ UNCHANGED held
  /\ r # 0
  /\ a \notin Shown(heap, i)
  /\ \/ heap[a].kind = "array" /\ heap' = AddItem(h, a, r)
     \/ heap[a].kind = "object" /\ \E n \in Names : heap' = AddNamedItem(h, a, n, r)

DetachItem(a, c) ==
  /\ held' = held \cup {c}
  /\ heap' = Detach(heap, a, c)

DeleteItemFrom(a, c) ==
  LET h == Detach(heap, a, c) IN
  /\ UNCHANGED held
  /\ Unreferred(h, Deleted(h, c))
  /\ heap' = Delete(h, c)

(* What is replaced is deleted, and must not be shown elsewhere.             *)
Replaces(h, a, c, n) ==
  LET g == Swap(h, a, c, n) IN
  /\ held' = held \ {n}
  /\ a \notin Shown(h, n)
  /\ Unreferred(g, Deleted(g, c))
  /\ heap' = Delete(g, c)

ReplaceItemInArray(a, c, n) == heap[a].kind = "array" /\ Replaces(heap, a, c, n)

ReplaceItemInObject(o, c, name, n) ==
  heap[o].kind = "object" /\ Replaces([heap EXCEPT ![n].string = name], o, c, n)

DeleteItem(c) ==
  /\ held' = held \ {c}
  /\ Unreferred(heap, Deleted(heap, c))
  /\ heap' = Delete(heap, c)

(* The calls on a member of a list, whichever index or name it was found by. *)
CallOn(a, c) ==
  \/ DetachItem(a, c)
  \/ DeleteItemFrom(a, c)
  \/ \E n \in held :
       \/ ReplaceItemInArray(a, c, n)
       \/ \E name \in Names : ReplaceItemInObject(a, c, name, n)

ListInit ==
  /\ heap \in [Cells -> {Free, Taken}]
  /\ held = {}

ListNext ==
  /\ jsonVars' # jsonVars
  /\ \/ \E c \in Cells : Graft(c)
     \/ \E a \in Arrays, c \in held : AddItemToArray(a, c)
     \/ \E o \in Objects, n \in Names, c \in held : AddItemToObject(o, n, c)
     \/ \E a \in Arrays \cup Objects, i \in Live(heap) : AddReference(a, i)
     \/ \E a \in Arrays \cup Objects : \E c \in Members(heap, a) : CallOn(a, c)
     \/ \E c \in held : DeleteItem(c)

ListSpec == ListInit /\ [][ListNext]_jsonVars

-------------------------------------------------------------------------------
(* The links of the lists are consistent, also where a reference shows the   *)
(* list of another item.                                                     *)
LinksConsistent == Linked(heap, held) /\ Listed(heap, held)

(* Every item in use is in exactly one item the program holds: nothing is    *)
(* leaked, also when parsing or duplicating fails half-way, and nothing will *)
(* be deleted twice, although references share the lists they show.          *)
OwnedOnce ==
  /\ Kept(heap, held)
  /\ \A c, d \in held : c # d => Deleted(heap, c) \cap Deleted(heap, d) = {}
  /\ \A a, b \in Owners(heap) : a # b => Members(heap, a) \cap Members(heap, b) = {}

(* The buffer that is allocated for a text holds it with its NUL, at every   *)
(* depth of nesting: the length is computed before and apart from writing.   *)
FitsAt(depth) ==
  \A c \in Live(heap), fmt \in BOOLEAN :
    LET p == Render(heap, c, depth, fmt) IN Len(p.text) < p.size

TextFits == \A depth \in 0..2 : FitsAt(depth)

IInv == WellFormed(heap, held)

(* The lists of cJSON.c implement the items of JsonForest as sequences.      *)
ForestOf(h) ==
  [c \in Live(h) |-> [kind |-> h[c].kind, value |-> h[c].value, name |-> h[c].string,
                      ref |-> h[c].ref, kids |-> Chain(h, c)]]

Forest == INSTANCE JsonForest WITH Items <- Cells, forest <- ForestOf(heap)

ImplementsForest == Forest!ForestSpec
===============================================================================
