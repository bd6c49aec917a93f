------------------------------ MODULE CJsonItems ------------------------------
(***************************************************************************)
(* The items of src/cJSON.c: structs linked by next and prev into the list  *)
(* of an array or object, whose child is the head of the list.  Everything   *)
(* here is an operator from one heap to the next; CJsonLists.tla makes the   *)
(* calls of a program out of them.                                           *)
(*                                                                          *)
(* The heap is a function from cells to structs, 0 is NULL, and malloc takes *)
(* the lowest free cell or fails; a cell may be taken by another part of the *)
(* program and never become free.  Names and values are sequences of         *)
(* characters, copied by cJSON_strdup and so owned by their item; the words  *)
(* null and false count as one character each.  The field of is the model's: *)
(* the item whose list a reference shows.                                    *)
(***************************************************************************)
EXTENDS Naturals, Sequences, FiniteSets

CONSTANTS
  NumItems,  \* how many items fit in memory
  Chars      \* the characters of texts

Words == {"null", "false"}
Marks == Words \cup {"[", "]", "{", "}", "\"", "\\", ",", ":", "n", " ", "\n", "\t"}

ASSUME CJsonItemsAssumption == NumItems \in Nat \ {0} /\ Marks \subseteq Chars

Cells == 1..NumItems
Texts == Seq(Chars)
NoName == <<"NULL">>
Kinds == Words \cup {"string", "array", "object"}
Pointers == Cells \cup {0}
Struct == [kind : Kinds, value : Texts, string : Texts \cup {NoName}, ref : BOOLEAN,
           next : Pointers, prev : Pointers, child : Pointers, of : Pointers]

Free == [kind |-> "free"]
Taken == [kind |-> "taken"]
Fresh == [kind |-> "false", value |-> <<>>, string |-> NoName, ref |-> FALSE,
          next |-> 0, prev |-> 0, child |-> 0, of |-> 0]

Heaps == [Cells -> Struct \cup {Free, Taken}]

Unused(h) == {c \in Cells : h[c] = Free}
Live(h) == {c \in Cells : h[c] \notin {Free, Taken}}
Owners(h) == {c \in Live(h) : ~h[c].ref}
Nested(h, c) == h[c].kind \in {"array", "object"}

-------------------------------------------------------------------------------
(* cJSON_New_Item: 0 when malloc fails.                                      *)
Malloc(h) ==
  IF Unused(h) = {} THEN 0 ELSE CHOOSE c \in Unused(h) : \A d \in Unused(h) : c <= d

NewItem(h, c) == [h EXCEPT ![c] = Fresh]

(* What a walk reaches that starts at c and follows next always, and child   *)
(* from the items of down.                                                   *)
ClosedUnder(h, S, down) ==
  \A x \in S : /\ h[x].next \in S \cup {0}
               /\ x \in down => h[x].child \in S \cup {0}

Walked(h, c, down) ==
  LET walks == {S \in SUBSET Live(h) : c \in S \cup {0} /\ ClosedUnder(h, S, down)}
  IN  {x \in Live(h) : \A S \in walks : x \in S}

(* cJSON_Delete follows next always, and child unless it is a reference's.   *)
Deleted(h, c) == Walked(h, c, Owners(h))

Delete(h, c) ==
  LET gone == Deleted(h, c) IN [x \in Cells |-> IF x \in gone THEN Free ELSE h[x]]

(* The list of a, and all that a reader of c comes to, also by references.   *)
Members(h, a) == Walked(h, h[a].child, {})
Shown(h, c) == {c} \cup Walked(h, h[c].child, Live(h))

(* cJSON_GetArraySize and cJSON_GetArrayItem: the list of a in its order.    *)
Following(h, c) == IF c = 0 THEN 0 ELSE h[c].next

Chain(h, a) ==
  LET item[k \in 1..NumItems] == IF k = 1 THEN h[a].child ELSE Following(h, item[k - 1])
  IN  [k \in {k \in 1..NumItems : item[k] # 0} |-> item[k]]

-------------------------------------------------------------------------------
(* suffix_object                                                             *)
SuffixFault(h, p, c) == [h EXCEPT ![p].next = c]

Suffix(h, p, c) == [h EXCEPT ![p].next = c, ![c].prev = p]

(* c becomes the first of the list of a or, if it has a last one, the next.   *)
Link(h, a, last, c) == IF last = 0 THEN [h EXCEPT ![a].child = c] ELSE Suffix(h, last, c)

(* cJSON_AddItemToArray                                                      *)
AddItemFault(h, a, c) ==
  IF h[a].child = 0 THEN [h EXCEPT ![a].child = c] ELSE Suffix(h, h[a].child, c)

AddItem(h, a, c) ==
  IF h[a].child = 0 THEN [h EXCEPT ![a].child = c]
  ELSE Suffix(h, CHOOSE last \in Members(h, a) : h[last].next = 0, c)

(* cJSON_AddItemToObject: the old name is freed, the new one copied.         *)
AddNamedItem(h, o, n, c) == AddItem([h EXCEPT ![c].string = n], o, c)

(* create_reference, in the cell r.                                          *)
Reference(h, i, r) ==
  [h EXCEPT ![r] = [h[i] EXCEPT !.string = NoName, !.ref = TRUE, !.next = 0, !.prev = 0,
                                !.of = IF h[i].ref THEN h[i].of ELSE i]]

(* What stood around c in the list of a: left and right stand there instead. *)
Around(h, a, c, left, right) ==
  [x \in Cells |->
     IF x \notin Live(h) THEN h[x]
     ELSE [h[x] EXCEPT !.next = IF x = h[c].prev THEN right ELSE @,
                       !.prev = IF x = h[c].next THEN left ELSE @,
                       !.child = IF x = a /\ @ = c THEN right ELSE @]]

(* cJSON_DetachItemFromArray, of the member c.                               *)
Detach(h, a, c) ==
  [Around(h, a, c, h[c].prev, h[c].next) EXCEPT ![c].next = 0, ![c].prev = 0]

(* cJSON_ReplaceItemInArray, of the member c by n; then c is deleted.        *)
Swap(h, a, c, n) ==
  [Around(h, a, c, n, n) EXCEPT ![n].next = h[c].next, ![n].prev = h[c].prev,
                                ![c].next = 0, ![c].prev = 0]
===============================================================================
