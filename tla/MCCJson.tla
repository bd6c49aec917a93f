-------------------------------- MODULE MCCJson -------------------------------
(* An instance of CJson for TLC: in memory for three items a program with all  *)
(* kinds, and in memory for four one that only makes lists, of which one can   *)
(* then replace a member in the middle.  Two names differ in case only, and    *)
(* the value has the look of a comment and what must be escaped.               *)
EXTENDS CJson

MCChars == Marks \cup {"a", "A", "/"}
MCNames == {<<"a">>, <<"A">>}
MCValue == <<"/", "/", "\"", "\\">>
MCPrograms ==
  {[items |-> 3, kinds |-> {"null", "array", "object"}, values |-> {MCValue}],
   [items |-> 4, kinds |-> {"array"}, values |-> {}]}
===============================================================================
