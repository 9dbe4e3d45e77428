---------------------------- MODULE LiftClosure ----------------------------
(***************************************************************************)
(* What lifting functions to basic blocks amounts to: starting from its    *)
(* roots, a function comes to hold addresses that control can flow to from *)
(* an address it has translated, and each address is translated once.      *)
(* Module FuncLift is shown to implement it.                               *)
(***************************************************************************)

CONSTANTS Function, Address

VARIABLES
  roots,       \* function |-> the addresses it may start from
  flow,        \* function |-> address |-> where control may go after it
  reached,     \* function |-> the addresses it has a block for
  translated   \* function |-> those whose block is complete

closure == <<roots, flow, reached, translated>>

Init ==
  /\ roots \in [Function -> SUBSET Address]
  /\ flow \in [Function -> [Address -> SUBSET Address]]
  /\ reached = [f \in Function |-> {}]
  /\ translated = [f \in Function |-> {}]

Reach(f, S) ==
  /\ reached' = [reached EXCEPT ![f] = @ \cup S]
  /\ UNCHANGED <<roots, flow, translated>>

Translate(f, a, S) ==
  /\ translated' = [translated EXCEPT ![f] = @ \cup {a}]
  /\ reached' = [reached EXCEPT ![f] = @ \cup S]
  /\ UNCHANGED <<roots, flow>>

Next ==
  \E f \in Function :
    \/ \E S \in SUBSET roots[f] : Reach(f, S)
    \/ \E a \in reached[f] \ translated[f] :
         \E S \in SUBSET flow[f][a] : Translate(f, a, S)

Spec == Init /\ [][Next]_closure
=============================================================================
