------------------------------ MODULE CJsonPrint ------------------------------
(***************************************************************************)
(* Printing the items of src/cJSON.c: into a buffer whose length has been    *)
(* computed before.                                                          *)
(***************************************************************************)
EXTENDS CJsonItems, SequencesExt

(* Printing gives the text and size, the length of the buffer for it.        *)
EscapedFault(ch) ==
  CASE ch = "\n" -> <<"\\", "n">>
    [] ch = "\"" -> <<"\\", ch>>
    [] OTHER -> <<ch>>

Escaped(ch) ==
  CASE ch = "\n" -> <<"\\", "n">>
    [] ch \in {"\"", "\\"} -> <<"\\", ch>>
    [] OTHER -> <<ch>>

EscapedText(str) == FlattenSeq([k \in 1..Len(str) |-> Escaped(str[k])])

(* The sum of size[1], ..., size[n].                                         *)
Total(n, size) ==
  LET sums[i \in 0..n] == IF i = 0 THEN 0 ELSE sums[i - 1] + size[i] IN sums[n]

(* print_string_ptr: each escaped character counts twice, and a missing name *)
(* is the empty text, without quotes.                                        *)
RenderStringFault(str) ==
  IF str = NoName THEN [text |-> <<>>, size |-> 1]
  ELSE [text |-> <<"\"">> \o EscapedText(str) \o <<"\"">>, size |-> Len(str) + 3]

RenderString(str) ==
  IF str = NoName THEN [text |-> <<>>, size |-> 1]
  ELSE [text |-> <<"\"">> \o EscapedText(str) \o <<"\"">>,
        size |-> 3 + Total(Len(str), [k \in 1..Len(str) |->
                                        IF str[k] \in {"\"", "\\", "\n"} THEN 2 ELSE 1])]

Tabs(n) == [k \in 1..n |-> "\t"]
If(cond, text) == IF cond THEN text ELSE <<>>

-------------------------------------------------------------------------------
(* print_array, with the texts of its items.                                 *)
RenderArray(texts, fmt) ==
  LET n == Len(texts)
      entry(k) == texts[k] \o If(k # n, <<",">> \o If(fmt, <<" ">>))
  IN  IF n = 0 THEN [text |-> <<"[", "]">>, size |-> 3]
      ELSE [text |-> <<"[">> \o FlattenSeq([k \in 1..n |-> entry(k)]) \o <<"]">>,
            size |-> 5 + Total(n, [k \in 1..n |-> Len(texts[k]) + 2 + IF fmt THEN 1 ELSE 0])]

(* print_object                                                              *)
RenderObject(names, texts, outer, fmt) ==
  LET n == Len(texts)
      depth == outer + 1
      entry(k) == If(fmt, Tabs(depth)) \o names[k] \o <<":">> \o If(fmt, <<"\t">>)
                  \o texts[k] \o If(k # n, <<",">>) \o If(fmt, <<"\n">>)
      size(k) == Len(texts[k]) + Len(names[k]) + 2 + IF fmt THEN 2 + depth ELSE 0
  IN  IF n = 0
      THEN [text |-> <<"{">> \o If(fmt, <<"\n">> \o Tabs(IF outer = 0 THEN 0 ELSE outer - 1)) \o <<"}">>,
            size |-> IF fmt THEN outer + 4 ELSE 3]
      ELSE [text |-> <<"{">> \o If(fmt, <<"\n">>) \o FlattenSeq([k \in 1..n |-> entry(k)])
                     \o If(fmt, Tabs(outer)) \o <<"}">>,
            size |-> 7 + (IF fmt THEN depth ELSE 0) + Total(n, [k \in 1..n |-> size(k)])]

(* print_value, with the texts of all items one level deeper.                *)
RenderItem(h, c, depth, fmt, inner) ==
  LET kids == Chain(h, c)
      texts == [k \in 1..Len(kids) |-> inner[kids[k]].text]
      names == [k \in 1..Len(kids) |-> RenderString(h[kids[k]].string).text]
  IN  CASE h[c].kind = "string" -> RenderString(h[c].value)
        [] h[c].kind = "array" -> RenderArray(texts, fmt)
        [] h[c].kind = "object" -> RenderObject(names, texts, depth, fmt)
        [] OTHER -> [text |-> <<h[c].kind>>, size |-> 2]

(* Nothing is in itself, so no item is deeper in c than there are items:     *)
(* rendered[n] are the items below which there are at most n levels.         *)
Render(h, c, depth, fmt) ==
  LET rendered[n \in 0..NumItems] ==
        [d \in Live(h) |->
           IF n = 0 THEN [text |-> <<>>, size |-> 1]
           ELSE RenderItem(h, d, depth + NumItems - n, fmt, rendered[n - 1])]
  IN  rendered[NumItems][c]
===============================================================================
