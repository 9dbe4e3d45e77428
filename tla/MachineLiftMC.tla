--------------------------- MODULE MachineLiftMC ---------------------------
(***************************************************************************)
(* Programs of five instructions, two of them anything, with and without   *)
(* delay slots, and one or two functions.                                  *)
(***************************************************************************)
EXTENDS MachineLift, TLC

I(category, target, taken, untaken) ==
  [category |-> category, target |-> target, taken |-> taken, untaken |-> untaken]
Plain == {I(c, 0, FALSE, FALSE) : c \in {"Normal", "Error", "data", "unimp"}}
Slots == BOOLEAN \X BOOLEAN
Direct == {I(c, t, s[1], s[2]) : s \in Slots, t \in {1, 3, 4, 9},
  c \in {"DirectJump", "ConditionalBranch", "DirectFunctionCall", "ConditionalDirectFunctionCall"}}
Indirect == {I(c, 0, s[1], s[2]) : s \in Slots,
  c \in {"IndirectJump", "FunctionReturn", "IndirectFunctionCall", "AsyncHyperCall",
         "ConditionalIndirectJump", "ConditionalFunctionReturn",
         "ConditionalIndirectFunctionCall", "ConditionalAsyncHyperCall"}}

(* Transfers that are not conditional have the slot or do not have it.     *)
Transfers == {i \in Direct \cup Indirect : i.category \in Conditional \/ ~i.untaken}
HasSlot(i) == i.taken \/ i.untaken

Normal == I("Normal", 0, FALSE, FALSE)
Return == I("FunctionReturn", 0, FALSE, FALSE)

(* What stands in a delay slot is no transfer of control.                  *)
Codes ==
  {<<i, Normal, j, Normal, Return>> : i \in Transfers, j \in Plain \cup Transfers}
    \cup {<<i, j, Return, Normal, Return>> : i \in {t \in Transfers : ~HasSlot(t)},
                                             j \in Plain \cup {Return}}

MCPrograms ==
  {[code |-> c, sparc |-> \E a \in 1 .. 5 : HasSlot(c[a]), functions |-> f] :
     c \in Codes, f \in {<<1>>, <<3, 1>>}}
  \cup {[code |-> c, sparc |-> FALSE, functions |-> f] :
     c \in {<<Normal, Return, Normal, Return, Return>>}, f \in {<<1, 1>>, <<1, 3, 1>>, <<9>>}}
=============================================================================
