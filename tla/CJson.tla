-------------------------------- MODULE CJson ---------------------------------
(***************************************************************************)
(* A program that uses src/cJSON.c: beside the calls of CJsonLists.tla it    *)
(* parses, prints, duplicates and makes arrays of many items at once.        *)
(***************************************************************************)
EXTENDS CJsonText, CJsonCopies, CJsonLists

CONSTANTS
  Programs,  \* the programs: [items, how many items there is memory for,
             \*                kinds, those without a value it creates,
             \*                values, of the strings it creates]
  MaxText    \* bound on the length of a text that is parsed

ASSUME CJsonAssumption ==
  /\ \A p \in Programs :
       /\ p.items \in 1..NumItems
       /\ p.kinds \subseteq {"null", "array", "object"}
       /\ p.values \subseteq Texts
  /\ \A p, q \in Programs : p.items = q.items => p = q  \* only one is Running
  /\ MaxText \in Nat

(* The program at work is the one for which this much memory is there.       *)
Running == {p \in Programs : p.items = Cardinality({c \in Cells : heap[c] # Taken})}

-------------------------------------------------------------------------------
(* cJSON_CreateNull, -String, -Array, -Object and the others.                *)
Create(kind, v) ==
  LET c == Malloc(heap) IN
  /\ c # 0
  /\ heap' = [NewItem(heap, c) EXCEPT ![c].kind = kind, ![c].value = v]
  /\ held' = held \cup {c}

CreateItem ==
  \E p \in Running :
    \/ \E kind \in p.kinds : Create(kind, <<>>)
    \/ \E v \in p.values : Create("string", v)

(* One item fails quietly: the array is empty.  With more of them, one that    *)
(* fails is linked to another through NULL, which ends the program: those      *)
(* calls are left out.                                                       *)
CreateListOf(count, v) ==
  LET a == Malloc(heap)
      room == Cardinality(Unused(heap))
      made == IF room > count THEN count ELSE 0
  IN
  /\ room > 0 /\ (room > count \/ count = 1)
  /\ heap' = FillArray([NewItem(heap, a) EXCEPT ![a].kind = "array"], a, made, v)
  /\ held' = held \cup {a}

(* The calls that take an index into an array, and those that take a name.   *)
CallByIndex(a) ==
  \E k \in 1..Len(Chain(heap, a)) :
    LET c == Chain(heap, a)[k] IN
    \/ DetachItem(a, c)
    \/ DeleteItemFrom(a, c)
    \/ \E n \in held : ReplaceItemInArray(a, c, n)

CallByName(o) ==
  \E name \in Names :
    LET c == ObjectItem(heap, o, name) IN
    /\ c # 0
    /\ \/ DetachItem(o, c)
       \/ DeleteItemFrom(o, c)
       \/ \E n \in held : ReplaceItemInObject(o, c, name, n)

(* A call that gives the program a new item, or 0.                           *)
Gives(r) == heap' = r.heap /\ held' = held \cup ({r.item} \ {0})

DuplicateItem(i, recurse) == Gives(Duplicate(heap, i, recurse))

(* The text of an item the program holds, cut anywhere or with something     *)
(* after it, is parsed again.  A cut behind a backslash is left out: parsing *)
(* would read beyond the end of the text.                                    *)
ParseText(c) ==
  LET full == Append(Render(heap, c, 0, TRUE).text, "n") IN
  \E n \in 0..IF Len(full) < MaxText THEN Len(full) ELSE MaxText, to_end \in BOOLEAN :
    /\ n > 0 => full[n] # "\\"
    /\ Gives(Parse(heap, SubSeq(full, 1, n), to_end))

-------------------------------------------------------------------------------
Init ==
  /\ \E p \in Programs : heap = [c \in Cells |-> IF c <= p.items THEN Free ELSE Taken]
  /\ held = {}

(* A call that fails and changes nothing is no step.                         *)
Next ==
  /\ \/ CreateItem
     \/ \E p \in Running, count \in 1..2 : \E v \in p.values : CreateListOf(count, v)
     \/ \E a \in Arrays, c \in held : AddItemToArray(a, c)
     \/ \E o \in Objects, n \in Names, c \in held : AddItemToObject(o, n, c)
     \/ \E a \in Arrays \cup Objects, i \in Live(heap) : AddReference(a, i)
     \/ \E a \in Arrays \cup Objects : CallByIndex(a)
     \/ \E o \in Objects : CallByName(o)
     \/ \E c \in held : DeleteItem(c)
     \/ \E i \in Live(heap), recurse \in BOOLEAN : DuplicateItem(i, recurse)
     \/ \E c \in held : ParseText(c)
  /\ jsonVars' # jsonVars

Spec == Init /\ [][Next]_jsonVars

-------------------------------------------------------------------------------
(* cJSON_Duplicate with recurse gives in new memory an item that says the     *)
(* same, in which nothing is a reference any more, or nothing when memory is  *)
(* short, and leaves every other item as it was.  The item's own name is not  *)
(* compared, and a call without recurse is not spoken of.                     *)
DuplicateIsIdentical ==
  [][\A i \in Live(heap) : DuplicateItem(i, TRUE) =>
       /\ \A c \in Live(heap) : heap'[c] = heap[c]
       /\ \/ Live(heap)' = Live(heap) /\ UNCHANGED held
          \/ \E c \in Unused(heap) :
               /\ held' = held \cup {c}
               /\ Meaning(heap', c) = Meaning(heap, i)
               /\ Deleted(heap', c) = Live(heap)' \ Live(heap)
               /\ \A d \in Deleted(heap', c) : ~heap'[d].ref]_jsonVars

(* The parsed item says what c says.  It may be larger than memory if items   *)
(* are shown twice; any reference in the heap excuses a text that fails.      *)
Says(p, c) ==
  IF p.item = 0 THEN \E r \in Live(heap) : heap[r].ref
  ELSE Meaning(p.heap, p.item) = Meaning(heap, c)

(* What is printed can be parsed, formatted or not, and the item it gives    *)
(* says the same, if there is memory for it: what a reference shows becomes   *)
(* items of their own.  Minifying the formatted text gives the other one.     *)
PrintedTextParses ==
  \A c \in held :
    LET empty == [x \in Cells |-> Free]
        plain == Render(heap, c, 0, FALSE).text
        pretty == Render(heap, c, 0, TRUE).text
    IN  /\ \A text \in {plain, pretty} : Says(Parse(empty, text, TRUE), c)
        /\ Minify(pretty) = plain
===============================================================================
