------------------------------- MODULE CJsonText -------------------------------
(***************************************************************************)
(* Reading a text with src/cJSON.c: parsing builds items in the heap of      *)
(* CJsonItems.tla, and cJSON_Minify removes what is between the tokens.      *)
(*                                                                          *)
(* Numbers, true and the escapes \b, \f, \r, \t and \uXXXX are left out:     *)
(* they are leaves, treated as null and \n are.                              *)
(*                                                                          *)
(* A parser is told and says where it is: the item it fills and the position *)
(* in the text, 0 for NULL, where no character is, so that whatever comes    *)
(* after a failure fails too.                                                *)
(***************************************************************************)
EXTENDS CJsonItems, SequencesExt

Places == [heap : Heaps, item : Cells, pos : Nat]

At(s, i) == IF i \in 1..Len(s) THEN s[i] ELSE "NUL"
White == {" ", "\n", "\t"}
Close(kind) == IF kind = "array" THEN "]" ELSE "}"

Fail(m) == [m EXCEPT !.pos = 0]

(* skip: the first position from i on where there is no white space.         *)
Skip(s, i) ==
  CHOOSE j \in i..(i + Len(s)) :
    At(s, j) \notin White /\ \A k \in i..(j - 1) : At(s, k) \in White

-------------------------------------------------------------------------------
(* parse_string: the characters up to the closing quote or the end of the    *)
(* text, and where parsing goes on.                                          *)
ReadChar(s, u) ==
  LET ch == At(s, u.pos)
      escaped == At(s, u.pos + 1)
  IN  IF ch \in {"NUL", "\""} THEN u
      ELSE IF ch = "\\" THEN [out |-> Append(u.out, IF escaped = "n" THEN "\n" ELSE escaped), pos |-> u.pos + 2]
      ELSE [out |-> Append(u.out, ch), pos |-> u.pos + 1]

Unescape(s, i) ==
  LET read[k \in 0..Len(s)] == IF k = 0 THEN [out |-> <<>>, pos |-> i] ELSE ReadChar(s, read[k - 1])
  IN  read[Len(s)]

ParseString(m, s) ==
  LET u == Unescape(s, m.pos + 1) IN
  IF At(s, m.pos) # "\"" THEN Fail(m)
  ELSE [heap |-> [m.heap EXCEPT ![m.item].kind = "string", ![m.item].value = u.out],
        item |-> m.item, pos |-> IF At(s, u.pos) = "\"" THEN u.pos + 1 ELSE u.pos]

-------------------------------------------------------------------------------
(* The name of a member and the colon behind it.                             *)
Named(name, c, s) ==
  LET p == Skip(s, name.pos) IN
  IF name.pos = 0 THEN name
  ELSE [heap |-> [name.heap EXCEPT ![c].string = name.heap[c].value, ![c].value = <<>>],
        item |-> c, pos |-> IF At(s, p) = ":" THEN Skip(s, p + 1) ELSE 0]

ParseName(m, s) == Named(ParseString(m, s), m.item, s)

(* A member, with its name in an object; parse is parse_value.               *)
Past(v, c, s) == [heap |-> v.heap, item |-> c, pos |-> Skip(s, v.pos)]

ParseMember(m, s, kind, parse) ==
  Past(parse[IF kind = "object" THEN ParseName(m, s) ELSE m], m.item, s)

NextMember(m, s, kind, parse) ==
  LET n == Malloc(m.heap) IN
  IF At(s, m.pos) # "," THEN m
  ELSE IF n = 0 THEN Fail(m)
  ELSE ParseMember([heap |-> Suffix(NewItem(m.heap, n), m.item, n), item |-> n,
                    pos |-> Skip(s, m.pos + 1)], s, kind, parse)

(* parse_array and parse_object: no more members than there is memory for.   *)
ParseMembers(m, s, kind, parse) ==
  LET member[k \in 0..NumItems] ==
        IF k = 0 THEN ParseMember(m, s, kind, parse) ELSE NextMember(member[k - 1], s, kind, parse)
  IN  member[NumItems]

Closed(last, c, s, kind) ==
  [heap |-> last.heap, item |-> c,
   pos |-> IF At(s, last.pos) = Close(kind) THEN last.pos + 1 ELSE 0]

ParseList(m, s, kind, parse) ==
  LET p == Skip(s, m.pos + 1)
      n == Malloc(m.heap)
      typed == [m.heap EXCEPT ![m.item].kind = kind]
      first == [heap |-> [NewItem(typed, n) EXCEPT ![m.item].child = n], item |-> n, pos |-> p]
  IN  IF At(s, p) = Close(kind) THEN [heap |-> typed, item |-> m.item, pos |-> p + 1]
      ELSE IF n = 0 THEN [heap |-> typed, item |-> m.item, pos |-> 0]
      ELSE Closed(ParseMembers(first, s, kind, parse), m.item, s, kind)

ParseValue(m, s, parse) ==
  LET ch == At(s, m.pos) IN
  CASE ch \in Words -> [heap |-> [m.heap EXCEPT ![m.item].kind = ch], item |-> m.item, pos |-> m.pos + 1]
    [] ch = "\"" -> ParseString(m, s)
    [] ch = "[" -> ParseList(m, s, "array", parse)
    [] ch = "{" -> ParseList(m, s, "object", parse)
    [] OTHER -> Fail(m)

(* cJSON_ParseWithOpts: the new root, or 0 with everything deleted.  Each     *)
(* value within another has an item of its own.                              *)
DropFault(h, c) == [h EXCEPT ![c] = Free]

Drop(h, c) == Delete(h, c)

Parsed(v, c, s, to_end) ==
  IF v.pos = 0 \/ (to_end /\ At(s, Skip(s, v.pos)) # "NUL")
  THEN [heap |-> Drop(v.heap, c), item |-> 0]
  ELSE [heap |-> v.heap, item |-> c]

Parse(h, s, to_end) ==
  LET c == Malloc(h)
      parse[k \in 0..NumItems] ==
        [m \in Places |-> IF k = 0 THEN Fail(m) ELSE ParseValue(m, s, parse[k - 1])]
      start == [heap |-> NewItem(h, c), item |-> c, pos |-> Skip(s, 1)]
  IN  IF c = 0 THEN [heap |-> h, item |-> 0]
      ELSE Parsed(parse[NumItems][start], c, s, to_end)

-------------------------------------------------------------------------------
(* cJSON_Minify of a text whose strings are closed: whitespace goes, comments *)
(* go, strings stay as they are.                                             *)
FirstOf(places) == CHOOSE j \in places : \A k \in places : j <= k

EndOfLine(s, i) == FirstOf({j \in i..(i + Len(s)) : At(s, j) \in {"NUL", "\n"}})

EndOfComment(s, i) ==
  2 + FirstOf({j \in i..(i + Len(s)) :
                 At(s, j) = "NUL" \/ (At(s, j) = "*" /\ At(s, j + 1) = "/")})

MinifyStep(s, m) ==
  LET ch == At(s, m.pos)
      next == At(s, m.pos + 1)
      out(chars, quoted) == [pos |-> m.pos + Len(chars), out |-> m.out \o chars, quoted |-> quoted]
      go(i) == [m EXCEPT !.pos = i]
  IN  CASE ch = "NUL" -> m
        [] m.quoted /\ ch = "\\" -> out(<<ch, next>>, TRUE)
        [] ch = "\"" -> out(<<ch>>, ~m.quoted)
        [] ~m.quoted /\ ch \in White -> go(m.pos + 1)
        [] ~m.quoted /\ ch = "/" /\ next = "/" -> go(EndOfLine(s, m.pos))
        [] ~m.quoted /\ ch = "/" /\ next = "*" -> go(EndOfComment(s, m.pos))
        [] OTHER -> out(<<ch>>, m.quoted)

Minify(s) ==
  LET minified[k \in 0..Len(s)] ==
        IF k = 0 THEN [pos |-> 1, out |-> <<>>, quoted |-> FALSE]
        ELSE MinifyStep(s, minified[k - 1])
  IN  minified[Len(s)].out
===============================================================================
