------------------------------ MODULE CJsonCopies -----------------------------
(***************************************************************************)
(* The parts of src/cJSON.c that find an item in a list, and those that      *)
(* build more than one item.  A recursive call takes an item of memory       *)
(* before it calls itself, so no more than NumItems calls are ever within    *)
(* each other: recursion is a function of how many more there can be.        *)
(***************************************************************************)
EXTENDS CJsonItems, SequencesExt

(* cJSON_strcasecmp                                                          *)
Lower(name) == [k \in 1..Len(name) |-> IF name[k] = "A" THEN "a" ELSE name[k]]
SameName(c, n) == c # NoName /\ Lower(c) = Lower(n)

ObjectItem(h, o, n) ==
  LET items == Chain(h, o)
      found == {k \in 1..Len(items) : SameName(h[items[k]].string, n)}
  IN  IF found = {} THEN 0 ELSE items[CHOOSE k \in found : \A j \in found : k <= j]

-------------------------------------------------------------------------------
(* cJSON_Duplicate gives the heap, the copy, which is 0 when memory is short, *)
(* and the last item that has been put into the copy.                        *)
Failed(h) == [heap |-> h, item |-> 0, last |-> 0]

CopyFault(h, c, n) ==
  [h EXCEPT ![n] = [Fresh EXCEPT !.kind = h[c].kind, !.value = h[c].value,
                                 !.string = h[c].string, !.ref = h[c].ref]]

Copy(h, c, n) ==
  [h EXCEPT ![n] = [Fresh EXCEPT !.kind = h[c].kind, !.value = h[c].value,
                                 !.string = h[c].string]]

(* The loop over the members: without memory for one, what has been copied   *)
(* is deleted again.                                                         *)
CopyMember(m, c, duplicate) ==
  LET d == duplicate[[heap |-> m.heap, item |-> c]] IN
  IF m.item = 0 THEN m
  ELSE IF d.item = 0 THEN Failed(Delete(d.heap, m.item))
  ELSE [heap |-> Link(d.heap, m.item, m.last, d.item), item |-> m.item, last |-> d.item]

CopyAll(h, c, n, duplicate) ==
  LET items == Chain(h, c)
      copied[k \in 0..Len(items)] ==
        IF k = 0 THEN [heap |-> Copy(h, c, n), item |-> n, last |-> 0]
        ELSE CopyMember(copied[k - 1], items[k], duplicate)
  IN  copied[Len(items)]

Duplicate(h, c, recurse) ==
  LET n == Malloc(h)
      duplicate[k \in 0..NumItems] ==
        [m \in [heap : Heaps, item : Cells] |->
           IF k = 0 \/ Malloc(m.heap) = 0 THEN Failed(m.heap)
           ELSE CopyAll(m.heap, m.item, Malloc(m.heap), duplicate[k - 1])]
  IN  IF recurse THEN duplicate[NumItems][[heap |-> h, item |-> c]]
      ELSE IF n = 0 THEN Failed(h)
      ELSE [heap |-> Copy(h, c, n), item |-> n, last |-> 0]

(* cJSON_CreateIntArray and its like, of count items that all say v.         *)
AddNew(m, a, v) ==
  LET n == Malloc(m.heap)
      made == [m.heap EXCEPT ![n] = [Fresh EXCEPT !.kind = "string", !.value = v]]
  IN  [heap |-> Link(made, a, m.last, n), last |-> n]

FillArray(h, a, count, v) ==
  LET filled[k \in 0..count] ==
        IF k = 0 THEN [heap |-> h, last |-> 0] ELSE AddNew(filled[k - 1], a, v)
  IN  filled[count].heap

-------------------------------------------------------------------------------
(* What an item says to a reader, wherever it is in memory: the members of   *)
(* an object have names.                                                     *)
Meaning(h, c) ==
  LET meaning[n \in 0..NumItems] ==
        [d \in Live(h) |->
           LET items == Chain(h, d) IN
           [kind |-> h[d].kind, value |-> h[d].value,
            members |-> [k \in 1..Len(items) |->
              [name |-> IF h[d].kind = "object" THEN h[items[k]].string ELSE NoName,
               says |-> IF n = 0 THEN <<>> ELSE meaning[n - 1][items[k]]]]]]
  IN  meaning[NumItems][c]
===============================================================================
