---------------------------- MODULE PrintfCallsMC ----------------------------
(***************************************************************************)
(* Functions for PrintfCalls.                                              *)
(***************************************************************************)
EXTENDS PrintfCalls

Conversion(field, letters) == [field |-> field, letters |-> letters]
Integer == Conversion("", <<"", "d">>)
Double == Conversion("", <<"", "f">>)

S(x, v) == [op |-> "store", to |-> x, value |-> v]
Call == [op |-> "call", to |-> "", value |-> ""]

(* Three blocks of which each follows the one before; the second or third  *)
(* may be entered from elsewhere, or again.                                *)
Shapes == {<< <<>>, <<1>>, <<2>> >>, << <<>>, <<1>>, <<2, 1>> >>, << <<>>, <<1>>, <<1, 2>> >>,
           << <<>>, <<2, 1>>, <<2>> >>, << <<>>, <<1, 3>>, <<2>> >>}
Blocks == {<<>>, <<S("RDI", "f")>>, <<S("RAX", "f")>>, <<S("RDI", "RAX")>>, <<Call>>,
           <<S("RDI", "g"), Call, S("RDI", "f")>>, <<S("RAX", "g"), S("RDI", "RAX"), Call, S("RAX", "f")>>,
           <<S("RAX", "f"), S("slot1", "RAX")>>, <<S("slot1", "RAX")>>, <<S("RDI", "slot1"), Call>>,
           <<S("RAX", "computed")>>, <<S("RDI", "opaque")>>}
HasCall(code) == \E b \in DOMAIN code : \E i \in DOMAIN code[b] : code[b][i].op = "call"
Small ==
  {[code |-> code, preds |-> preds, formats |-> [name \in {"f", "g"} |-> IF name = "f" THEN <<Integer>> ELSE <<Double>>],
    xmm |-> 0 .. 7] : code \in {c \in [1 .. 3 -> Blocks] : HasCall(c)}, preds \in Shapes}

(* One call of every format of up to nine integers and doubles, and more.  *)
OneCall(format, xmm) ==
  [code |-> << <<S("RDI", "f"), Call>> >>, preds |-> << <<>> >>, formats |-> [name \in {"f"} |-> format], xmm |-> xmm]
Formats(n, Kinds) == UNION {[1 .. k -> Kinds] : k \in 0 .. n}
Long == {OneCall(format, 0 .. 7) : format \in Formats(9, {Integer, Double})}

(* Every conversion that C has, before an integer; and what the pass does  *)
(* not read as it is meant, and registers without an alias.                *)
Fields == Allowed \cup {"zero", "both"}
Letters ==
  (Lengths \X {"d", "i", "o", "u", "x", "X", "n"}) \cup ({"", "l"} \X {"c", "s"}) \cup {<<"", "p">>}
    \cup ({"", "l", "L"} \X Floats)
Every == {OneCall(<<Conversion(field, letters), Integer>>, 0 .. 7) : field \in Fields, letters \in Letters}
Odd == {OneCall(format, xmm) :
          format \in Formats(2, {Integer, Double, Conversion("precision star", <<"", "f">>),
                                 Conversion("zero", <<"", "d">>), Conversion("", <<"l", "i">>)}),
          xmm \in {0 .. 7, 1 .. 7, {}}}

MCPrograms == Small \cup Long \cup Every \cup Odd
=============================================================================
