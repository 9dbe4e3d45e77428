------------------------------ MODULE FuncLift ------------------------------
(***************************************************************************)
(* How mcsema turns the machine code of every function of a CFG into the   *)
(* basic blocks of an LLVM function (mcsema/BC/Function.cpp,               *)
(* DefineLiftedFunctions and LiftFunction).                                *)
(*                                                                         *)
(* A block is the sequence of what has been put into it, abstracted to the *)
(* items that decide its shape: "code" stands for the semantics of one     *)
(* instruction, "store" for the memory pointer InlineSubFuncInvoke writes  *)
(* into the block an invoke returns to, and every other item is the        *)
(* terminator of that name. Delay slots, which only SPARC has, register    *)
(* save and restore code and the tracers are left out: they add no block.  *)
(*                                                                         *)
(* The work list is held in the order in which it is popped. The order in  *)
(* which the new targets of one instruction are pushed is left open.       *)
(***************************************************************************)
EXTENDS Integers, Sequences, FiniteSets, SequencesExt

CONSTANTS
  Address,    \* the addresses of the binary, none of them 0
  Functions,  \* the keys of NativeModule::ea_to_func
  Internal,   \* those that are not external, to be lifted
  Modules,    \* the CFGs to lift: code, native blocks, exception frames
  MaxWalk     \* how far TryGetBlock looks back for the start of a block

None == 0

Categories == {"error", "normal", "no_op", "jump", "indirect_jump", "call",
               "indirect_call", "return", "conditional", "hyper_call"}

(* remill::Instruction with the NativeInstruction of the same address.     *)
Inst == [category : Categories, next_pc : Address, branch_taken_pc : Address,
         flow : Address \cup {None}, lp_ea : Address \cup {None}]

NativeBlock == [last_inst_ea : Address, successor_eas : SUBSET Address,
                is_referenced_by_data : BOOLEAN]

(* What the loader of the CFG hands over: blocks are those that exist and  *)
(* an instruction with a landing pad lies in a function that has it.       *)
IsModule(m) ==
  /\ m.code \in [Address -> Inst]
  /\ DOMAIN m.ea_to_block \subseteq Address
  /\ \A b \in DOMAIN m.ea_to_block : m.ea_to_block[b] \in NativeBlock
  /\ m.blocks \in [Internal -> SUBSET DOMAIN m.ea_to_block]
  /\ \A f \in Internal : m.blocks[f] # {} => f \in m.blocks[f]
  /\ m.eh_frame \in [Internal -> SUBSET Address]

ASSUME AddressAssumption == IsFiniteSet(Address) /\ Address \subseteq Nat \ {None}
ASSUME FunctionAssumption == Internal \subseteq Functions /\ Functions \subseteq Address
ASSUME ModuleAssumption == \A m \in Modules : IsModule(m)
ASSUME WalkAssumption == MaxWalk \in Nat

VARIABLES
  cfg_module,     \* the CFG being lifted
  blocks,         \* internal function |-> its NativeFunction::blocks
  eh_frame,       \* internal function |-> the lp_ea of its eh_frame entries
  lifted,         \* internal function |-> ea_to_block of its lifted function
  lp_to_block,    \* internal function |-> landing pad |-> the variable it loads
  entry,          \* internal function |-> the block its entry branches to
  cur,            \* TranslationContext::cfg_func, None between two functions
  phase,          \* where LiftFunction is
  work_list,      \* TranslationContext::work_list
  pads_left,      \* the landing pads still to be created
  stack_ptr_var,  \* TranslationContext::stack_ptr_var
  cfg_block       \* TranslationContext::cfg_block, the hint for TryGetBlock

cfg == <<cfg_module, blocks, eh_frame>>
output == <<lifted, lp_to_block, entry>>
context == <<cur, phase, work_list, pads_left, stack_ptr_var, cfg_block>>
state == <<cfg, output, context>>

-----------------------------------------------------------------------------
(* Blocks.                                                                 *)

Terminators == {"branch", "switch", "return", "tail_call", "error", "invoke"}

Item(op, targets) == [op |-> op, to |-> targets]
Code == Item("code", {})
Store == Item("store", {})

(* The block was popped before: it is not empty.                           *)
Handled(f, a) == lifted[f][a] # << >>

(* GetOrCreateBlock for each of the targets: the empty blocks it adds.     *)
WithBlocks(body, targets) ==
  [a \in DOMAIN body \cup targets |-> IF a \in DOMAIN body THEN body[a] ELSE << >>]

(* ... and what it pushes for them.                                        *)
Entries(order, forced) ==
  [i \in DOMAIN order |-> [ea |-> order[i], force |-> order[i] \in forced]]

(* The work list without the element just popped.                          *)
\* mutant
Unpopped(list) == list
Popped(list) == Tail(list)

-----------------------------------------------------------------------------
(* The CFG's view of an instruction.                                       *)

Native(b) == cfg_module.ea_to_block[b]
Instruction(a) == cfg_module.code[a]

(* TryGetBlock: the hint if it holds a, otherwise the closest block start  *)
(* below a whose block holds a. A block is tried one step after its start  *)
(* was met, so one that starts at the last step, or at address 1, is not.  *)
Holds(b, a) == b <= a /\ a <= Native(b).last_inst_ea
\* mutant
TryGetBlockStale(a, hint) ==
  IF hint # None THEN hint
  ELSE IF a \in DOMAIN cfg_module.ea_to_block THEN a ELSE None
TryGetBlock(a, hint) ==
  LET found == {b \in DOMAIN cfg_module.ea_to_block :
                  Holds(b, a) /\ a - b + 1 < MaxWalk /\ b > 1}
  IN  IF hint # None /\ Holds(hint, a) THEN hint
      ELSE IF found = {} THEN None
      ELSE CHOOSE b \in found : \A c \in found : c <= b

(* The targets of an indirect jump in native block b of function f: the    *)
(* block's successors, or the next instruction if there are none, and the  *)
(* blocks of f that no block jumps to or whose address is found in data.   *)
Successors(b) == IF b \in DOMAIN cfg_module.ea_to_block THEN Native(b).successor_eas ELSE {}
Listed(f) == UNION {Native(b).successor_eas : b \in blocks[f]}
Orphans(f) ==
  {b \in blocks[f] : /\ b # f
                     /\ b \in Listed(f) => Native(b).is_referenced_by_data}
\* mutant
SwitchTargetsListed(f, a, b) ==
  IF Successors(b) = {} THEN {Instruction(a).next_pc} ELSE Successors(b)
SwitchTargets(f, a, b) ==
  Orphans(f) \cup
    IF Successors(b) = {} THEN {Instruction(a).next_pc} ELSE Successors(b)

(* FindFunction for a direct call.                                         *)
Callable(i) == i.flow \in Functions \/ i.branch_taken_pc \in Functions

(* The address belongs to another function and is not a block of this one. *)
\* mutant
IsTailCallForced(f, top) == top.ea # f /\ top.ea \in Functions
IsTailCall(f, top) == top.ea # f /\ top.ea \in Functions /\ ~top.force

(* LiftInstIntoFunction: the terminator of the block that holds a.         *)
Returning(i) == IF i.lp_ea = None THEN Item("branch", {i.next_pc})
                ELSE Item("invoke", {i.next_pc})
Terminator(f, a, b) ==
  LET i == Instruction(a) IN
  CASE i.category = "normal" -> Item("branch", {i.next_pc})
    [] i.category = "no_op" -> IF i.next_pc \in Functions \ {f}
                               THEN Item("return", {})
                               ELSE Item("branch", {i.next_pc})
    [] i.category = "jump" -> Item("branch", {i.branch_taken_pc})
    [] i.category = "indirect_jump" -> Item("switch", SwitchTargets(f, a, b))
    [] i.category = "call" -> IF Callable(i) THEN Returning(i)
                              ELSE Item("branch", {i.next_pc})
    [] i.category = "indirect_call" -> Returning(i)
    [] i.category = "return" -> Item("return", {})
    [] i.category = "conditional" -> Item("branch", {i.branch_taken_pc, i.next_pc})
    [] i.category = "hyper_call" -> Item("branch", {i.branch_taken_pc})
    [] OTHER -> Item("error", {})

-----------------------------------------------------------------------------
(* LiftFunction.                                                           *)

(* Blocks are created for the CFG's blocks, all forced, in address order.  *)
StartBlocks(f) == IF blocks[f] = {} THEN {f} ELSE blocks[f]

StartFunction(f) ==
  /\ phase = "idle"
  /\ lifted[f] = << >>
  /\ lifted' = [lifted EXCEPT ![f] = WithBlocks(<< >>, StartBlocks(f))]
  /\ \E order \in SetToSeqs(StartBlocks(f)) :
       /\ \A i, j \in DOMAIN order : i < j => order[i] < order[j]
       /\ work_list' = Entries(order, StartBlocks(f))
  /\ cur' = f
  /\ phase' = "landing_pads"
  /\ pads_left' = eh_frame[f]
  /\ stack_ptr_var' = None
  /\ cfg_block' = None
  /\ UNCHANGED <<cfg, lp_to_block, entry>>

(* LiftExceptionFrameLP: a pad passes the handler a load of stack_ptr_var  *)
(* and branches to the block of its address. The variable is still null,   *)
(* so is the load's operand: nothing in the lifter looks at it.            *)
CreateLandingPad(lp) ==
  LET new == {lp} \ DOMAIN lifted[cur] IN
  /\ phase = "landing_pads"
  /\ lp \in pads_left
  /\ pads_left' = pads_left \ {lp}
  /\ lifted' = [lifted EXCEPT ![cur] = WithBlocks(@, {lp})]
  /\ work_list' = work_list \o
       IF new = {} THEN << >> ELSE <<[ea |-> lp, force |-> FALSE]>>
  /\ lp_to_block' = [lp_to_block EXCEPT ![cur] =
       [p \in DOMAIN @ \cup {lp} |-> IF p = lp THEN stack_ptr_var ELSE @[p]]]
  /\ UNCHANGED <<cfg, entry, cur, phase, stack_ptr_var, cfg_block>>

(* The entry block allocates the variables that exceptions are restored    *)
(* from.                                                                   *)
AllocateStackVars ==
  /\ phase = "landing_pads"
  /\ pads_left = {}
  /\ stack_ptr_var' = cur
  /\ phase' = "blocks"
  /\ UNCHANGED <<cfg, output, cur, work_list, pads_left, cfg_block>>

Top == Head(work_list)
Popping == phase = "blocks" /\ work_list # << >>

AlreadyHandled ==
  /\ Popping
  /\ Handled(cur, Top.ea)
  /\ work_list' = Popped(work_list)
  /\ UNCHANGED <<cfg, output, cur, phase, pads_left, stack_ptr_var, cfg_block>>

AddTailCall ==
  /\ Popping
  /\ ~Handled(cur, Top.ea)
  /\ IsTailCall(cur, Top)
  /\ lifted' = [lifted EXCEPT ![cur][Top.ea] = <<Item("tail_call", {})>>]
  /\ work_list' = Popped(work_list)
  /\ UNCHANGED <<cfg, lp_to_block, entry, cur, phase, pads_left, stack_ptr_var, cfg_block>>

(* The bytes do not decode, or to an invalid instruction.                  *)
DecodeFails ==
  /\ Popping
  /\ ~Handled(cur, Top.ea)
  /\ ~IsTailCall(cur, Top)
  /\ Instruction(Top.ea).category = "error"
  /\ lifted' = [lifted EXCEPT ![cur][Top.ea] = <<Item("error", {})>>]
  /\ work_list' = Popped(work_list)
  /\ UNCHANGED <<cfg, lp_to_block, entry, cur, phase, pads_left, stack_ptr_var, cfg_block>>

(* The instruction's semantics and terminator fill the block; an invoke    *)
(* also puts a store at the end of the block it returns to.                *)
\* mutant
FilledStoreHere(f, a, t) ==
  [WithBlocks(lifted[f], t.to) EXCEPT
     ![a] = @ \o <<Code, t>> \o (IF t.op = "invoke" THEN <<Store>> ELSE << >>)]
Filled(f, a, t) ==
  LET body == WithBlocks(lifted[f], t.to) IN
  [c \in DOMAIN body |->
     body[c] \o (IF c = a THEN <<Code, t>> ELSE << >>)
             \o (IF t.op = "invoke" /\ c \in t.to THEN <<Store>> ELSE << >>)]

LiftInst ==
  LET a == Top.ea
      b == TryGetBlock(a, cfg_block)
      t == Terminator(cur, a, b)
  IN
  /\ Popping
  /\ ~Handled(cur, a)
  /\ ~IsTailCall(cur, Top)
  /\ Instruction(a).category # "error"
  /\ lifted' = [lifted EXCEPT ![cur] = Filled(cur, a, t)]
  /\ \E order \in SetToSeqs(t.to \ DOMAIN lifted[cur]) :
       work_list' = Entries(order, IF t.op = "switch" THEN Successors(b) ELSE {})
                      \o Popped(work_list)
  /\ cfg_block' = b
  /\ UNCHANGED <<cfg, lp_to_block, entry, cur, phase, pads_left, stack_ptr_var>>

(* The entry branches to the block of the function's address.              *)
FinishFunction ==
  /\ phase = "blocks"
  /\ work_list = << >>
  /\ entry' = [entry EXCEPT ![cur] = IF cur \in DOMAIN lifted[cur] THEN cur ELSE None]
  /\ blocks' = [blocks EXCEPT ![cur] = {}]
  /\ eh_frame' = [eh_frame EXCEPT ![cur] = {}]
  /\ cur' = None
  /\ phase' = "idle"
  /\ UNCHANGED <<cfg_module, lifted, lp_to_block, work_list, pads_left, stack_ptr_var, cfg_block>>

-----------------------------------------------------------------------------
Init ==
  /\ cfg_module \in Modules
  /\ blocks = cfg_module.blocks
  /\ eh_frame = cfg_module.eh_frame
  /\ lifted = [f \in Internal |-> << >>]
  /\ lp_to_block = [f \in Internal |-> << >>]
  /\ entry = [f \in Internal |-> None]
  /\ cur = None /\ phase = "idle" /\ work_list = << >>
  /\ pads_left = {} /\ stack_ptr_var = None /\ cfg_block = None

(* ea_to_func is an unordered map: the functions come in any order.        *)
Next ==
  \/ \E f \in Internal : StartFunction(f)
  \/ \E lp \in Address : CreateLandingPad(lp)
  \/ AllocateStackVars
  \/ AlreadyHandled
  \/ AddTailCall
  \/ DecodeFails
  \/ LiftInst
  \/ FinishFunction

Spec == Init /\ [][Next]_state

(* One thread runs to the end.                                             *)
FairSpec == Spec /\ WF_state(Next)
-----------------------------------------------------------------------------
(* Properties.                                                             *)

(* A filled block ends in its only terminator, so control never falls off  *)
(* it. The blocks that an invoke returns to are the exception: the store   *)
(* put at their end follows a terminator, or makes them look handled.      *)
Terminated(block) ==
  \A i \in DOMAIN block : block[i].op \in Terminators <=> i = Len(block)
ReturnedTo(f) ==
  {b \in Address : \E a \in DOMAIN lifted[f] : \E i \in DOMAIN lifted[f][a] :
     lifted[f][a][i].op = "invoke" /\ b \in lifted[f][a][i].to}
BlocksTerminated ==
  \A f \in Internal : \A a \in DOMAIN lifted[f] \ ReturnedTo(f) : Terminated(lifted[f][a])

Finished(f) == lifted[f] # << >> /\ f # cur

(* A block becomes a tail call only where another function starts and the  *)
(* CFG does not give the block to this function, whatever jumped to it     *)
(* first.                                                                  *)
TailCallsLeave ==
  \A f \in Internal : \A a \in DOMAIN lifted[f] :
    (\E i \in DOMAIN lifted[f][a] : lifted[f][a][i].op = "tail_call")
      => a \in Functions \ (cfg_module.blocks[f] \cup {f})

(* A finished function has every block the CFG gave it, and its entry      *)
(* leads to the one at its own address.                                    *)
FunctionsComplete ==
  \A f \in Internal : Finished(f) =>
    /\ cfg_module.blocks[f] \subseteq DOMAIN lifted[f]
    /\ entry[f] = f

(* A lifted function has the CFG's blocks, all of them, and gives none of  *)
(* them away to another function.                                          *)
MatchesCFG == TailCallsLeave /\ FunctionsComplete

(* Where control may go after an instruction of function f, read off the   *)
(* CFG alone.                                                              *)
Flow(f, a) ==
  LET i == Instruction(a) IN
  CASE i.category \in {"normal", "no_op", "call", "indirect_call"} -> {i.next_pc}
    [] i.category \in {"jump", "hyper_call"} -> {i.branch_taken_pc}
    [] i.category = "conditional" -> {i.branch_taken_pc, i.next_pc}
    [] i.category = "indirect_jump" ->
         {i.next_pc} \cup cfg_module.blocks[f] \cup
         UNION {Native(b).successor_eas : b \in {b \in DOMAIN cfg_module.ea_to_block : Holds(b, a)}}
    [] OTHER -> {}

(* What the lifting goes by says that control goes from the end of native  *)
(* block c to b: c's last instruction became code that goes on, it may go  *)
(* to b, c lists b, and the instruction's block is not mistaken: others    *)
(* that hold it list the same, and its start is in reach of the walk.      *)
LeadsTo(f, c, b) ==
  LET last == Native(c).last_inst_ea IN
  /\ b \in Native(c).successor_eas /\ b \in Flow(f, last)
  /\ last \in DOMAIN lifted[f]
  /\ \E i \in DOMAIN lifted[f][last] : lifted[f][last][i].op \in Terminators \ {"tail_call"}
  /\ Holds(c, last) /\ last - c + 1 < MaxWalk /\ c > 1
  /\ \A d \in DOMAIN cfg_module.ea_to_block :
       Holds(d, last) => Native(d).successor_eas = Native(c).successor_eas

(* When a finished function has an indirect jump, each block the CFG gave  *)
(* it is the target of some terminator if none of its blocks lists it, or  *)
(* one does from which control goes there; where another function starts,  *)
(* a no-op before it returns instead. Only what blocks list that were not  *)
(* lifted to their end, or are taken for others, may be left out.          *)
Targets(f) ==
  UNION {UNION {lifted[f][a][i].to : i \in DOMAIN lifted[f][a]} : a \in DOMAIN lifted[f]}
IndirectJumpsReachAll ==
  \A f \in Internal :
    Finished(f) /\ (\E a \in DOMAIN lifted[f] : \E i \in DOMAIN lifted[f][a] : lifted[f][a][i].op = "switch")
      => \A b \in cfg_module.blocks[f] \ Functions :
           \/ \A c \in cfg_module.blocks[f] : b \notin Native(c).successor_eas
           \/ \E c \in cfg_module.blocks[f] : LeadsTo(f, c, b)
           => b \in Targets(f)

(* Lifting every function comes to an end.                                 *)
Terminates == <>[](phase = "idle" /\ \A f \in Internal : lifted[f] # << >>)

(* A function's blocks are those that control can reach in it, each one    *)
(* translated once.                                                        *)
Closure == INSTANCE LiftClosure WITH
  Function <- Internal,
  roots <- [f \in Internal |-> cfg_module.blocks[f] \cup cfg_module.eh_frame[f] \cup {f}],
  flow <- [f \in Internal |-> [a \in Address |-> Flow(f, a)]],
  reached <- [f \in Internal |-> DOMAIN lifted[f]],
  translated <- [f \in Internal |->
    {a \in DOMAIN lifted[f] : \E i \in DOMAIN lifted[f][a] : lifted[f][a][i].op \in Terminators}]
LiftsClosure == Closure!Spec

=============================================================================
