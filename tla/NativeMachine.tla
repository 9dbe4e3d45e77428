--------------------------- MODULE NativeMachine ---------------------------
(***************************************************************************)
(* A processor that runs a program's instructions, each of length one, and *)
(* has delay slots as SPARC does: a transfer of control takes effect after *)
(* the instruction behind it, unless that one is annulled on the path      *)
(* taken. Module MachineLift is shown to implement it.                     *)
(*                                                                         *)
(* A place is where control is: an address, or the end of what is followed *)
(* here. A call is followed from its return address.                       *)
(***************************************************************************)
EXTENDS Naturals

VARIABLES
  code,     \* address |-> instruction
  sparc,    \* whether a function that returns a structure skips a word
  at,       \* the place control is at
  then      \* the one after it

Place(op, pc, ret) == [op |-> op, pc |-> pc, ret |-> ret]
At(a) == Place("at", a, 0)
Leave(op) == Place(op, 0, 0)
After(p) == IF p.op = "at" THEN At(p.pc + 1) ELSE p

Conditional ==
  {"ConditionalBranch", "ConditionalIndirectJump", "ConditionalFunctionReturn",
   "ConditionalDirectFunctionCall", "ConditionalIndirectFunctionCall",
   "ConditionalAsyncHyperCall"}

(* What does not decode, faults.                                           *)
Decodes(a) == a \in DOMAIN code /\ code[a].category \notin {"data", "unimp", "Error"}

(* Behind a call that returns a structure the word `unimp` has its size.   *)
ReturnsTo(a) ==
  LET ret == a + (IF code[a].taken \/ code[a].untaken THEN 2 ELSE 1) IN
  IF sparc /\ ret \in DOMAIN code /\ code[ret].category = "unimp" THEN ret + 1 ELSE ret

TakenTo(a) ==
  LET i == code[a] IN
  CASE i.category = "Normal" -> then
    [] i.category \in {"DirectJump", "ConditionalBranch"} -> At(i.target)
    [] i.category \in {"DirectFunctionCall", "ConditionalDirectFunctionCall"} ->
         Place("call", i.target, ReturnsTo(a))
    [] i.category \in {"IndirectFunctionCall", "ConditionalIndirectFunctionCall"} ->
         Place("call", 0, ReturnsTo(a))
    [] i.category \in {"IndirectJump", "ConditionalIndirectJump"} -> Leave("jump")
    [] i.category \in {"FunctionReturn", "ConditionalFunctionReturn"} -> Leave("return")
    [] OTHER -> Leave("hyper_call")

UntakenTo(a) == At(a + (IF code[a].taken \/ code[a].untaken THEN 2 ELSE 1))

Transfer(to, delayed) ==
  IF delayed THEN at' = then /\ then' = to
  ELSE at' = to /\ then' = After(to)
-----------------------------------------------------------------------------
Init == at = Leave("idle") /\ then = Leave("idle")

Start ==
  /\ at.op = "idle"
  /\ \E a \in DOMAIN code : at' = At(a)
  /\ then' = After(at')
  /\ UNCHANGED <<code, sparc>>

Execute ==
  /\ at.op = "at"
  /\ IF ~Decodes(at.pc) THEN at' = Leave("error") /\ then' = Leave("error")
     ELSE \/ Transfer(TakenTo(at.pc), code[at.pc].taken)
          \/ /\ code[at.pc].category \in Conditional
             /\ Transfer(UntakenTo(at.pc), code[at.pc].untaken)
  /\ UNCHANGED <<code, sparc>>

Return ==
  /\ at.op = "call"
  /\ at' = At(at.ret) /\ then' = After(at')
  /\ UNCHANGED <<code, sparc>>

Spec == Init /\ [][Start \/ Execute \/ Return]_<<code, sparc, at, then>>
=============================================================================
