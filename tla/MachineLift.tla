---------------------------- MODULE MachineLift ----------------------------
(***************************************************************************)
(* anvill's lifter: LiftCodeIntoModule (anvill/src/Lift.cpp) goes through  *)
(* the functions of a program, has MCToIRLifter translate each from its    *)
(* machine code (anvill/src/MCToIRLifter.cpp), block by block off a work   *)
(* list, and defines the two wrappers between its lifted and its native    *)
(* form. Then native code calls a function, and what was lifted runs.      *)
(*                                                                         *)
(* An instruction has length one, and a block is the set of its paths: the *)
(* instruction of the block, on each path the one in its delay slot or     *)
(* not, and where the path leads. Values, hints of types at an instruction *)
(* and the tracing of registers do not change where control goes and are   *)
(* left out.                                                               *)
(***************************************************************************)
EXTENDS Integers, Sequences, Functions, FiniteSetsExt

CONSTANT Programs   \* what Init chooses from

Conditional ==
  {"ConditionalBranch", "ConditionalIndirectJump", "ConditionalFunctionReturn",
   "ConditionalDirectFunctionCall", "ConditionalIndirectFunctionCall",
   "ConditionalAsyncHyperCall"}
Calls ==
  {"DirectFunctionCall", "ConditionalDirectFunctionCall",
   "IndirectFunctionCall", "ConditionalIndirectFunctionCall"}
Transferring ==
  Conditional \cup Calls \cup {"DirectJump", "IndirectJump", "FunctionReturn", "AsyncHyperCall"}

(* What stands in a delay slot transfers no control, and on SPARC there is *)
(* something behind a call: where nothing is mapped the lifter takes it    *)
(* for an `unimp`.                                                         *)
WellFormed(p) ==
  /\ p.functions \in Seq(Nat) /\ DOMAIN p.code \subseteq Nat
  /\ \A a \in DOMAIN p.code :
       LET i == p.code[a]
           delayed == i.taken \/ i.untaken
       IN
       /\ i.category \in Transferring \cup {"Normal", "Error", "data", "unimp"}
       /\ i.target \in Nat /\ i.taken \in BOOLEAN /\ i.untaken \in BOOLEAN
       /\ i.untaken => i.category \in Conditional
       /\ delayed => /\ i.category \in Transferring
                     /\ a + 1 \in DOMAIN p.code /\ p.code[a + 1].category = "Normal"
       /\ p.sparc /\ i.category \in Calls => a + (IF delayed THEN 2 ELSE 1) \in DOMAIN p.code

ASSUME ProgramsAssumption == \A p \in Programs : WellFormed(p)

VARIABLES
  prog,         \* [code, sparc, functions]: functions is the order of ForEachFunction
  turn,         \* whose turn it is
  phase,        \* what LiftCodeIntoModule does next
  lifted,       \* the functions that have code |-> their blocks
  native,       \* those whose native_to_lifted is defined
  wrapped,      \* those whose lifted_to_native is defined
  work_list,
  addr_to_block,
  runs,         \* the function whose lifted code runs
  block,        \* the block it is in
  path,         \* the path chosen by the block's instruction
  done          \* how many of the block's instructions it ran

lift == <<prog, turn, phase, lifted, native, wrapped, work_list, addr_to_block>>
run == <<runs, block, path, done>>
vars == <<lift, run>>

Place(op, pc, ret) == [op |-> op, pc |-> pc, ret |-> ret]
At(a) == Place("at", a, 0)
Leave(op) == Place(op, 0, 0)
Path(delayed, to) == [delayed |-> delayed, to |-> to]

Inst(a) == prog.code[a]
decl == prog.functions[turn]
FindFunction(a) == a \in Range(prog.functions)
FindByte(a) == a \in DOMAIN prog.code
IsExecutable(a) == FindByte(a) /\ Inst(a).category # "data"
-----------------------------------------------------------------------------
(* Decoding.                                                               *)

MayHaveDelaySlot(i) == i.taken \/ i.untaken
NotTakenPC(a) == a + (IF MayHaveDelaySlot(Inst(a)) THEN 2 ELSE 1)

(* Both the bytes that decode to nothing and the instructions with error   *)
(* semantics make the block an error.                                      *)
DecodeInstructionInto(a) == IsExecutable(a) /\ Inst(a).category \notin {"unimp", "Error"}

(* SPARC: the four bytes at the return address are an `unimp`, as they are *)
(* when nothing is mapped there, for what is not read stays zero.          *)
LoadFunctionReturnAddress(a) ==
  LET pc == NotTakenPC(a) IN
  IF prog.sparc /\ (~FindByte(pc) \/ Inst(pc).category = "unimp") THEN pc + 1 ELSE pc
-----------------------------------------------------------------------------
(* The visitors. A block that ends on a condition branches to one block    *)
(* for each path, with the delayed instruction or without.                 *)

VisitDelayedInstruction(a, on_taken_path) ==
  IF on_taken_path THEN Inst(a).taken ELSE Inst(a).untaken

Always(a, to) == {Path(VisitDelayedInstruction(a, TRUE), to)}
TakenSlot(a, to) ==
  {Path(VisitDelayedInstruction(a, TRUE), to),
   Path(VisitDelayedInstruction(a, TRUE), At(NotTakenPC(a)))}
OnCondition(a, to) ==
  {Path(VisitDelayedInstruction(a, TRUE), to),
   Path(VisitDelayedInstruction(a, FALSE), At(NotTakenPC(a)))}

(* After the call control goes on where it returns.                        *)
VisitAfterFunctionCall(a, call, pc) == Place(call, pc, LoadFunctionReturnAddress(a))
DirectCallee(a) ==
  VisitAfterFunctionCall(a,
    IF FindFunction(Inst(a).target) THEN "lifted_to_native" ELSE "function_call",
    Inst(a).target)
IndirectCallee(a) == VisitAfterFunctionCall(a, "function_call", 0)

VisitNormal(a) == {Path(FALSE, At(a + 1))}
VisitDirectJump(a) == Always(a, At(Inst(a).target))
VisitConditionalBranch(a) == OnCondition(a, At(Inst(a).target))
VisitIndirectJump(a) == Always(a, Leave("jump"))
VisitConditionalIndirectJump(a) == OnCondition(a, Leave("jump"))
VisitFunctionReturn(a) == Always(a, Leave("return"))
VisitConditionalFunctionReturn(a) == OnCondition(a, Leave("function_return"))
VisitDirectFunctionCall(a) == Always(a, DirectCallee(a))
VisitConditionalDirectFunctionCall(a) == OnCondition(a, DirectCallee(a))
VisitIndirectFunctionCall(a) == Always(a, IndirectCallee(a))
VisitConditionalIndirectFunctionCall(a) == OnCondition(a, IndirectCallee(a))
VisitAsyncHyperCall(a) == Always(a, Leave("hyper_call"))
VisitConditionalAsyncHyperCall(a) == OnCondition(a, Leave("hyper_call"))

VisitInstruction(a) ==
  LET category == Inst(a).category IN
  CASE category = "Normal" -> VisitNormal(a)
    [] category = "DirectJump" -> VisitDirectJump(a)
    [] category = "ConditionalBranch" -> VisitConditionalBranch(a)
    [] category = "IndirectJump" -> VisitIndirectJump(a)
    [] category = "ConditionalIndirectJump" -> VisitConditionalIndirectJump(a)
    [] category = "FunctionReturn" -> VisitFunctionReturn(a)
    [] category = "ConditionalFunctionReturn" -> VisitConditionalFunctionReturn(a)
    [] category = "DirectFunctionCall" -> VisitDirectFunctionCall(a)
    [] category = "ConditionalDirectFunctionCall" -> VisitConditionalDirectFunctionCall(a)
    [] category = "IndirectFunctionCall" -> VisitIndirectFunctionCall(a)
    [] category = "ConditionalIndirectFunctionCall" -> VisitConditionalIndirectFunctionCall(a)
    [] category = "AsyncHyperCall" -> VisitAsyncHyperCall(a)
    [] category = "ConditionalAsyncHyperCall" -> VisitConditionalAsyncHyperCall(a)

Error == {Path(FALSE, Leave("error"))}
-----------------------------------------------------------------------------
(* LiftFunction.                                                           *)

(* The addresses a block's paths go on at, a call's return address among   *)
(* them.                                                                   *)
GoesOn(paths) ==
  {p.to.pc : p \in {q \in paths : q.to.op = "at"}}
    \cup {p.to.ret : p \in {q \in paths : q.to.ret # 0}}

(* Block a has these paths; the addresses it names that have no block get  *)
(* one, and are put on the work list.                                      *)
GetOrCreateBlocksAgain(a, paths) ==
  /\ addr_to_block' = [x \in (DOMAIN addr_to_block) \cup GoesOn(paths) |->
       IF x = a THEN paths ELSE IF x \in DOMAIN addr_to_block THEN addr_to_block[x] ELSE {}]
  /\ work_list' = (work_list \ {a}) \cup GoesOn(paths)
GetOrCreateBlocks(a, paths) ==
  /\ addr_to_block' = [x \in (DOMAIN addr_to_block) \cup GoesOn(paths) |->
       IF x = a THEN paths ELSE IF x \in DOMAIN addr_to_block THEN addr_to_block[x] ELSE {}]
  /\ work_list' = (work_list \ {a}) \cup (GoesOn(paths) \ DOMAIN addr_to_block)

LiftFunction ==
  /\ phase = "functions" /\ turn <= Len(prog.functions)
  /\ IF decl \in native \/ ~IsExecutable(decl)
     THEN phase' = "wrap" /\ UNCHANGED <<work_list, addr_to_block>>
     ELSE /\ phase' = IF decl \in DOMAIN lifted THEN "aborted" ELSE "blocks"
          /\ addr_to_block' = [a \in {decl} |-> {}]
          /\ work_list' = {decl}
  /\ UNCHANGED <<prog, turn, lifted, native, wrapped, run>>

(* The least address of the work list is next. FindFunction finds only     *)
(* functions declared at the very address, so the test for an address that *)
(* another function has is never met.                                      *)
LiftBlock ==
  /\ phase = "blocks" /\ work_list # {}
  /\ LET a == Min(work_list) IN
     GetOrCreateBlocks(a, IF DecodeInstructionInto(a) THEN VisitInstruction(a) ELSE Error)
  /\ UNCHANGED <<prog, turn, phase, lifted, native, wrapped, run>>

EndFunction ==
  /\ phase = "blocks" /\ work_list = {}
  /\ lifted' = [f \in (DOMAIN lifted) \cup {decl} |->
                  IF f = decl THEN addr_to_block ELSE lifted[f]]
  /\ addr_to_block' = <<>>
  /\ phase' = "wrap"
  /\ UNCHANGED <<prog, turn, native, wrapped, work_list, run>>
-----------------------------------------------------------------------------
(* LiftCodeIntoModule. The native function calls the lifted one, if it has *)
(* code; lifted code calls the native function through the other wrapper.  *)
(* Neither may be defined twice.                                           *)
DefineNativeToLifted == IF decl \in DOMAIN lifted THEN {decl} ELSE {}
LiftedOnly == DefineNativeToLifted
DefineLiftedToNative == {decl}

DefineWrappers ==
  /\ phase = "wrap"
  /\ IF DefineNativeToLifted \cap native # {} \/ DefineLiftedToNative \cap wrapped # {}
     THEN phase' = "aborted" /\ UNCHANGED <<turn, native, wrapped>>
     ELSE /\ native' = native \cup DefineNativeToLifted
          /\ wrapped' = wrapped \cup DefineLiftedToNative
          /\ turn' = turn + 1
          /\ phase' = IF turn = Len(prog.functions) THEN "done" ELSE "functions"
  /\ UNCHANGED <<prog, lifted, work_list, addr_to_block, run>>
-----------------------------------------------------------------------------
(* What was lifted runs.                                                   *)

Blocks == lifted[runs]
Stay == UNCHANGED lift

Enter(f) ==
  /\ phase = "done" /\ runs = 0 /\ f \in native
  /\ runs' = f /\ block' = f
  /\ Stay /\ UNCHANGED <<path, done>>

Ran == done = 1 + (IF path.delayed THEN 1 ELSE 0)

Execute ==
  /\ runs # 0 /\ done = 0
  /\ path' \in Blocks[block]
  /\ done' = 1
  /\ Stay /\ UNCHANGED <<runs, block>>

ExecuteDelayed ==
  /\ done = 1 /\ path.delayed
  /\ done' = 2
  /\ Stay /\ UNCHANGED <<runs, block, path>>

Branch ==
  /\ done > 0 /\ Ran /\ path.to.op = "at"
  /\ block' = path.to.pc /\ done' = 0
  /\ Stay /\ UNCHANGED <<runs, path>>

CallReturns ==
  /\ done > 0 /\ Ran /\ path.to.ret # 0
  /\ block' = path.to.ret /\ done' = 0
  /\ Stay /\ UNCHANGED <<runs, path>>

Finished ==
  /\ \/ phase = "aborted"
     \/ phase = "done" /\ native = {}
     \/ done > 0 /\ Ran /\ path.to.op # "at" /\ path.to.ret = 0
  /\ UNCHANGED vars
-----------------------------------------------------------------------------
Init ==
  /\ prog \in Programs
  /\ turn = 1
  /\ phase = "functions"
  /\ lifted = <<>> /\ native = {} /\ wrapped = {}
  /\ work_list = {} /\ addr_to_block = <<>>
  /\ runs = 0 /\ block = 0 /\ path = Path(FALSE, Leave("idle")) /\ done = 0

Lift == LiftFunction \/ LiftBlock \/ EndFunction \/ DefineWrappers

Next ==
  \/ Lift
  \/ \E f \in native : Enter(f)
  \/ Execute \/ ExecuteDelayed \/ Branch \/ CallReturns
  \/ Finished

Spec == Init /\ [][Next]_vars

(* The lifter is one loop: it goes on while it can.                        *)
FairSpec == Spec /\ WF_vars(Lift)
-----------------------------------------------------------------------------
(* The lifted function goes where the machine goes, instruction by         *)
(* instruction, on every outcome of every condition: the delayed           *)
(* instruction runs on the paths it runs on in the machine, a call comes   *)
(* back to where its callee returns, and no address control gets to is     *)
(* without a block.                                                        *)
Reaches(p) ==
  IF p.op \in {"lifted_to_native", "function_call"} THEN [p EXCEPT !.op = "call"]
  ELSE IF p.op = "function_return" THEN Leave("return") ELSE p
IsAt ==
  IF runs = 0 THEN Leave("idle")
  ELSE IF block \notin DOMAIN Blocks \/ (done = 0 /\ Blocks[block] = {}) THEN Leave("missing")
  ELSE IF done = 0 THEN At(block)
  ELSE IF Ran THEN Reaches(path.to) ELSE At(block + 1)
GoesTo ==
  IF runs # 0 /\ done = 1 /\ ~Ran THEN Reaches(path.to)
  ELSE IF IsAt.op = "at" THEN At(IsAt.pc + 1) ELSE IsAt

Machine == INSTANCE NativeMachine WITH
  code <- prog.code, sparc <- prog.sparc, at <- IsAt, then <- GoesTo
RunsTheMachine == Machine!Spec

(* Unless an address is declared twice, which ForEachFunction would visit  *)
(* twice, every function gets its wrappers and lifting ends without a      *)
(* failed CHECK: no function is lifted twice, each that has code can be    *)
(* called natively, and each that lifted code calls can be called by it.   *)
FunctionsWrapped ==
  IsInjective(prog.functions) =>
    /\ phase # "aborted"
    /\ phase = "done" =>
         /\ native = {f \in Range(prog.functions) : IsExecutable(f)}
         /\ \A f \in native : \A a \in DOMAIN lifted[f] : \A p \in lifted[f][a] :
              p.to.op = "lifted_to_native" => p.to.pc \in wrapped

(* The work list of every function becomes empty, loops or not, and every  *)
(* function has its turn.                                                  *)
LiftEnds == <>(phase \in {"done", "aborted"})
=============================================================================
