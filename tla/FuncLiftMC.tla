----------------------------- MODULE FuncLiftMC -----------------------------
(***************************************************************************)
(* CFGs for FuncLift: three one-byte instructions at 2, 3 and 4, bytes at  *)
(* 5 that do not decode, and functions at 2 and 4.                         *)
(***************************************************************************)
EXTENDS FuncLift

MCAddress == 2..5
MCFunctions == {2, 4}

I(category, a, taken, lp) ==
  [category |-> category, next_pc |-> a + 1, branch_taken_pc |-> taken,
   flow |-> None, lp_ea |-> lp]

Undecodable == [category |-> "error", next_pc |-> 5, branch_taken_pc |-> 5,
                flow |-> None, lp_ea |-> None]

Programs(InstsAt(_)) ==
  {[a \in MCAddress |-> IF a = 2 THEN x ELSE IF a = 3 THEN y ELSE IF a = 4 THEN z ELSE Undecodable] :
     x \in InstsAt(2), y \in InstsAt(3), z \in InstsAt(4)}

B(last, succs, data) ==
  [last_inst_ea |-> last, successor_eas |-> succs, is_referenced_by_data |-> data]

NoBlocks == [ea_to_block |-> << >>, blocks |-> [f \in MCFunctions |-> {}]]

(* One block per instruction, the one at 3 only in function 2.             *)
Apart == [ea_to_block |-> (2 :> B(2, {3}, FALSE)) @@ (3 :> B(3, {4}, FALSE)) @@ (4 :> B(4, {2}, FALSE)),
          blocks |-> (2 :> {2, 3}) @@ (4 :> {4})]

(* The block at 4 belongs to both functions and data refers to it.         *)
Shared == [ea_to_block |-> (2 :> B(3, {2}, FALSE)) @@ (4 :> B(4, {3}, TRUE)),
           blocks |-> (2 :> {2, 4}) @@ (4 :> {4})]

(* The block at 3 lies within the one at 2 and has no predecessor.         *)
Overlapping == [ea_to_block |-> (2 :> B(4, {2}, FALSE)) @@ (3 :> B(3, {4}, FALSE)),
                blocks |-> (2 :> {2, 3}) @@ (4 :> {})]

(* The block at 2 has two instructions and alone names the one at 5.       *)
Long == [ea_to_block |-> (2 :> B(3, {5}, FALSE)) @@ (4 :> B(4, {2}, FALSE)) @@ (5 :> B(5, {}, FALSE)),
         blocks |-> (2 :> {2, 4, 5}) @@ (4 :> {4})]

CFGs(codes, layouts, pads) ==
  {[code |-> c, ea_to_block |-> l.ea_to_block, blocks |-> l.blocks,
    eh_frame |-> [f \in MCFunctions |-> IF f = 2 THEN pads ELSE {}]] :
     c \in codes, l \in layouts}

Flows(a) ==
  {I(c, a, 5, None) : c \in {"normal", "no_op", "indirect_jump", "return", "error"}}
    \cup {I("jump", a, t, None) : t \in {2, 3, 4}}
    \cup {I("conditional", a, t, None) : t \in {2, 4}}
    \cup {IF a = 4 THEN I("hyper_call", a, 3, None) ELSE I("call", a, 4, None)}

FlowModules == CFGs(Programs(Flows), {NoBlocks, Apart, Shared, Overlapping, Long}, {})

(* Calls within the landing pad's range, in function 2 only.               *)
Invokes(a) ==
  {I("normal", a, 5, None), I("return", a, 5, None), I("jump", a, 2, None)}
    \cup IF a = 4 THEN {I("jump", a, 3, None)}
         ELSE {I("call", a, 4, 4), I("indirect_call", a, 5, 4),
               I("call", a, 5, 4), I("indirect_call", a, 5, None)}

InvokeModules == CFGs(Programs(Invokes), {NoBlocks, Apart, Shared, Overlapping}, {4})

AllModules == FlowModules \cup InvokeModules
=============================================================================
