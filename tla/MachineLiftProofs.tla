------------------------- MODULE MachineLiftProofs -------------------------
(* Theorems about module MachineLift, for every set of programs, of any    *)
(* number of functions and instructions.                                   *)
EXTENDS MachineLift, TLAPS, WellFoundedInduction

(* The paths of the block at a, once it is lifted.                         *)
Paths(a) == IF DecodeInstructionInto(a) THEN VisitInstruction(a) ELSE Error

(* The blocks outside todo are lifted, and what they go on at has a block. *)
Complete(blocks, todo) ==
  /\ todo \subseteq DOMAIN blocks /\ DOMAIN blocks \subseteq Nat
  /\ \A a \in DOMAIN blocks \ todo :
       blocks[a] = Paths(a) /\ GoesOn(Paths(a)) \subseteq DOMAIN blocks

LiftInv ==
  /\ prog \in Programs
  /\ \A f \in DOMAIN lifted :
       IsExecutable(f) /\ f \in DOMAIN lifted[f] /\ Complete(lifted[f], {})
  /\ native \subseteq DOMAIN lifted
  /\ phase = "blocks" =>
       IsExecutable(decl) /\ decl \in DOMAIN addr_to_block /\ Complete(addr_to_block, work_list)

(* Lifted code is in a block that there is, on one of its paths.           *)
RunInv ==
  /\ runs = 0 => done = 0
  /\ runs # 0 =>
       /\ phase = "done" /\ runs \in DOMAIN lifted /\ block \in DOMAIN lifted[runs]
       /\ done \in {0, 1, 2}
       /\ done # 0 => path \in Paths(block)
       /\ done = 2 => path.delayed
-----------------------------------------------------------------------------
(* A nonempty set of natural numbers has a least one.                      *)
LEMMA LeastIn ==
  ASSUME NEW S, S \subseteq Nat, S # {}
  PROVE  Min(S) \in S
<1>1. PICK k \in S : \A j \in S : ~(<<j, k>> \in OpToRel(<, Nat))
  BY NatLessThanWellFounded, WFMin
<1>2. \A j \in S : ~(j < k)
  BY <1>1 DEF OpToRel
<1>3. \A j \in S : k <= j
  BY <1>2
<1> QED
  BY <1>3 DEF Min

LEMMA ProgramIs ==
  ASSUME prog \in Programs
  PROVE  /\ DOMAIN prog.code \subseteq Nat
         /\ \A a \in DOMAIN prog.code :
              /\ Inst(a).category \in Transferring \cup {"Normal", "Error", "data", "unimp"}
              /\ Inst(a).target \in Nat /\ Inst(a).taken \in BOOLEAN /\ Inst(a).untaken \in BOOLEAN
              /\ Inst(a).untaken => Inst(a).category \in Conditional
              /\ MayHaveDelaySlot(Inst(a)) =>
                   /\ Inst(a).category \in Transferring
                   /\ a + 1 \in DOMAIN prog.code /\ Inst(a + 1).category = "Normal"
              /\ prog.sparc /\ Inst(a).category \in Calls => NotTakenPC(a) \in DOMAIN prog.code
  BY ProgramsAssumption DEF WellFormed, Inst, MayHaveDelaySlot, NotTakenPC

(* The place control gets to when an instruction is taken.                 *)
Target(a) ==
  LET category == Inst(a).category IN
  CASE category = "Normal" -> At(a + 1)
    [] category \in {"DirectJump", "ConditionalBranch"} -> At(Inst(a).target)
    [] category \in {"DirectFunctionCall", "ConditionalDirectFunctionCall"} -> DirectCallee(a)
    [] category \in {"IndirectFunctionCall", "ConditionalIndirectFunctionCall"} -> IndirectCallee(a)
    [] category \in {"IndirectJump", "ConditionalIndirectJump"} -> Leave("jump")
    [] category = "FunctionReturn" -> Leave("return")
    [] category = "ConditionalFunctionReturn" -> Leave("function_return")
    [] category \in {"AsyncHyperCall", "ConditionalAsyncHyperCall"} -> Leave("hyper_call")

LEMMA DecodedIs ==
  ASSUME prog \in Programs, NEW a, DecodeInstructionInto(a)
  PROVE  a \in DOMAIN prog.code /\ a \in Nat /\ Inst(a).category \in Transferring \cup {"Normal"}
  BY ProgramIs DEF DecodeInstructionInto, IsExecutable, FindByte

LEMMA VisitIs ==
  ASSUME prog \in Programs, NEW a, DecodeInstructionInto(a)
  PROVE  VisitInstruction(a) = IF Inst(a).category \in Conditional
                               THEN OnCondition(a, Target(a)) ELSE Always(a, Target(a))
<1> USE DEF VisitInstruction, Target, Conditional
<1>1. CASE Inst(a).category = "Normal"
  <2>1. Inst(a).taken = FALSE
    BY <1>1, DecodedIs, ProgramIs DEF MayHaveDelaySlot, Transferring, Calls
  <2> QED
    BY <1>1, <2>1 DEF VisitNormal, Always, VisitDelayedInstruction
<1>2. CASE Inst(a).category = "DirectJump"
  BY <1>2 DEF VisitDirectJump
<1>3. CASE Inst(a).category = "ConditionalBranch"
  BY <1>3 DEF VisitConditionalBranch
<1>4. CASE Inst(a).category = "IndirectJump"
  BY <1>4 DEF VisitIndirectJump
<1>5. CASE Inst(a).category = "ConditionalIndirectJump"
  BY <1>5 DEF VisitConditionalIndirectJump
<1>6. CASE Inst(a).category = "FunctionReturn"
  BY <1>6 DEF VisitFunctionReturn
<1>7. CASE Inst(a).category = "ConditionalFunctionReturn"
  BY <1>7 DEF VisitConditionalFunctionReturn
<1>8. CASE Inst(a).category = "DirectFunctionCall"
  BY <1>8 DEF VisitDirectFunctionCall
<1>9. CASE Inst(a).category = "ConditionalDirectFunctionCall"
  BY <1>9 DEF VisitConditionalDirectFunctionCall
<1>10. CASE Inst(a).category = "IndirectFunctionCall"
  BY <1>10 DEF VisitIndirectFunctionCall
<1>11. CASE Inst(a).category = "ConditionalIndirectFunctionCall"
  BY <1>11 DEF VisitConditionalIndirectFunctionCall
<1>12. CASE Inst(a).category = "AsyncHyperCall"
  BY <1>12 DEF VisitAsyncHyperCall
<1>13. CASE Inst(a).category = "ConditionalAsyncHyperCall"
  BY <1>13 DEF VisitConditionalAsyncHyperCall
<1> QED
  BY <1>1, <1>2, <1>3, <1>4, <1>5, <1>6, <1>7, <1>8, <1>9, <1>10, <1>11, <1>12, <1>13, DecodedIs
     DEF Transferring, Calls

(* The place a path leads to.                                              *)
Leads(to) ==
  \/ to.op = "at" /\ to = At(to.pc) /\ to.pc \in Nat /\ to.ret = 0
  \/ /\ to.op \in {"lifted_to_native", "function_call"}
     /\ to = Place(to.op, to.pc, to.ret) /\ to.ret \in Nat \ {0}
     /\ to.op = "lifted_to_native" => FindFunction(to.pc)
  \/ /\ to.op \in {"jump", "return", "function_return", "hyper_call", "error"}
     /\ to = Leave(to.op) /\ to.ret = 0

LEMMA ReturnsAfter ==
  ASSUME prog \in Programs, NEW a, DecodeInstructionInto(a)
  PROVE  NotTakenPC(a) \in Nat \ {0} /\ LoadFunctionReturnAddress(a) \in Nat \ {0}
<1>1. a \in Nat
  BY DecodedIs
<1>2. NotTakenPC(a) \in Nat \ {0}
  BY <1>1 DEF NotTakenPC
<1> QED
  BY <1>2 DEF LoadFunctionReturnAddress

LEMMA CalleeLeads ==
  ASSUME prog \in Programs, NEW a, DecodeInstructionInto(a)
  PROVE  Leads(DirectCallee(a)) /\ Leads(IndirectCallee(a))
  BY ReturnsAfter DEF Leads, DirectCallee, IndirectCallee, VisitAfterFunctionCall, Place

LEMMA TargetLeads ==
  ASSUME prog \in Programs, NEW a, DecodeInstructionInto(a)
  PROVE  Leads(Target(a))
<1>1. a \in Nat /\ Inst(a).target \in Nat /\ Inst(a).category \in Transferring \cup {"Normal"}
  BY DecodedIs, ProgramIs
<1>2. \A x \in Nat : Leads(At(x))
  BY DEF Leads, At, Place
<1>3. \A op \in {"jump", "return", "function_return", "hyper_call"} : Leads(Leave(op))
  BY DEF Leads, Leave, Place
<1>4. \/ Target(a) = At(a + 1) \/ Target(a) = At(Inst(a).target)
      \/ Target(a) = DirectCallee(a) \/ Target(a) = IndirectCallee(a)
      \/ \E op \in {"jump", "return", "function_return", "hyper_call"} : Target(a) = Leave(op)
  BY <1>1 DEF Target, Transferring, Calls, Conditional
<1> QED
  BY <1>1, <1>2, <1>3, <1>4, CalleeLeads

(* A path of the block at a.                                               *)
LEMMA PathIs ==
  ASSUME prog \in Programs, NEW a, NEW p \in Paths(a)
  PROVE  /\ p.delayed \in BOOLEAN /\ Leads(p.to)
         /\ p.delayed => /\ DecodeInstructionInto(a) /\ MayHaveDelaySlot(Inst(a))
                         /\ a + 1 \in DOMAIN prog.code /\ Inst(a + 1).category = "Normal"
<1>1. CASE ~DecodeInstructionInto(a)
  <2>1. p = Path(FALSE, Leave("error"))
    BY <1>1 DEF Paths, Error
  <2> QED
    BY <2>1 DEF Path, Leads, Leave, Place
<1>2. CASE DecodeInstructionInto(a)
  <2>1. /\ a \in DOMAIN prog.code /\ Leads(Target(a)) /\ NotTakenPC(a) \in Nat
        /\ Inst(a).taken \in BOOLEAN /\ Inst(a).untaken \in BOOLEAN
    BY <1>2, DecodedIs, ProgramIs, TargetLeads, ReturnsAfter
  <2>2. Leads(At(NotTakenPC(a)))
    BY <2>1 DEF Leads, At, Place
  <2>3. \/ p = Path(Inst(a).taken, Target(a))
        \/ p = Path(Inst(a).untaken, At(NotTakenPC(a)))
    BY <1>2, VisitIs DEF Paths, OnCondition, Always, VisitDelayedInstruction
  <2>4. p.delayed \in {Inst(a).taken, Inst(a).untaken} /\ Leads(p.to)
    BY <2>1, <2>2, <2>3 DEF Path
  <2> QED
    BY <1>2, <2>1, <2>4, ProgramIs DEF MayHaveDelaySlot
<1> QED
  BY <1>1, <1>2

LEMMA SomePath ==
  ASSUME prog \in Programs, NEW a
  PROVE  Paths(a) # {}
  BY VisitIs DEF Paths, Error, OnCondition, Always

LEMMA GoesOnIs ==
  ASSUME prog \in Programs, NEW a
  PROVE  /\ GoesOn(Paths(a)) \subseteq Nat
         /\ \A p \in Paths(a) :
              /\ p.to.op = "at" => p.to.pc \in GoesOn(Paths(a))
              /\ p.to.ret # 0 => p.to.ret \in GoesOn(Paths(a))
<1>1. \A p \in Paths(a) :
        /\ p.to.op = "at" => p.to.pc \in Nat
        /\ p.to.ret # 0 => p.to.ret \in Nat
  BY PathIs DEF Leads
<1> QED
  BY <1>1 DEF GoesOn
-----------------------------------------------------------------------------
(* The steps of the lifter.                                                *)

LEMMA LiftInit == Init => LiftInv /\ RunInv
  BY DEF Init, LiftInv, RunInv

(* The blocks are made from the program alone, which no step changes.      *)
LEMMA PathsKept ==
  ASSUME prog' = prog
  PROVE  \A a : Paths(a)' = Paths(a) /\ IsExecutable(a)' = IsExecutable(a)
<1>1. \A a : Inst(a)' = Inst(a)
  BY DEF Inst
<1>2. \A a : FindByte(a)' = FindByte(a) /\ FindFunction(a)' = FindFunction(a)
  BY DEF FindByte, FindFunction
<1>3. \A a : IsExecutable(a)' = IsExecutable(a)
  BY <1>1, <1>2 DEF IsExecutable
<1>4. \A a : DecodeInstructionInto(a)' = DecodeInstructionInto(a)
  BY <1>1, <1>3 DEF DecodeInstructionInto
<1>5. \A a : NotTakenPC(a)' = NotTakenPC(a)
  BY <1>1 DEF NotTakenPC, MayHaveDelaySlot
<1>6. \A a : LoadFunctionReturnAddress(a)' = LoadFunctionReturnAddress(a)
  BY <1>1, <1>2, <1>5 DEF LoadFunctionReturnAddress
<1>7. \A a : DirectCallee(a)' = DirectCallee(a) /\ IndirectCallee(a)' = IndirectCallee(a)
  BY <1>1, <1>2, <1>6 DEF DirectCallee, IndirectCallee, VisitAfterFunctionCall
<1>8. \A a, taken : VisitDelayedInstruction(a, taken)' = VisitDelayedInstruction(a, taken)
  BY <1>1 DEF VisitDelayedInstruction
<1>9. \A a, to : Always(a, to)' = Always(a, to) /\ OnCondition(a, to)' = OnCondition(a, to)
  BY <1>5, <1>8 DEF Always, OnCondition
<1>10. \A a : VisitInstruction(a)' = VisitInstruction(a)
  BY <1>1, <1>5, <1>7, <1>8
     DEF VisitInstruction, VisitNormal, VisitDirectJump, VisitConditionalBranch, VisitIndirectJump,
         VisitConditionalIndirectJump, VisitFunctionReturn, VisitConditionalFunctionReturn,
         VisitDirectFunctionCall, VisitConditionalDirectFunctionCall, VisitIndirectFunctionCall,
         VisitConditionalIndirectFunctionCall, VisitAsyncHyperCall, VisitConditionalAsyncHyperCall,
         Always, OnCondition
<1> QED
  BY <1>3, <1>4, <1>10 DEF Paths, Error

(* A block is lifted, and the ones it goes on at are there.                *)
LEMMA OneLifted ==
  ASSUME prog \in Programs, NEW blocks, NEW todo, NEW a \in todo, Complete(blocks, todo),
         NEW D, D = (DOMAIN blocks) \cup GoesOn(Paths(a)),
         NEW grown, grown = [x \in D |-> IF x = a THEN Paths(a)
                                        ELSE IF x \in DOMAIN blocks THEN blocks[x] ELSE {}],
         NEW rest, rest = (todo \ {a}) \cup (GoesOn(Paths(a)) \ DOMAIN blocks)
  PROVE  Complete(grown, rest)
<1>1. GoesOn(Paths(a)) \subseteq Nat /\ todo \subseteq DOMAIN blocks /\ DOMAIN blocks \subseteq Nat
  BY GoesOnIs DEF Complete
<1>2. ASSUME NEW x \in D \ rest
      PROVE  grown[x] = Paths(x) /\ GoesOn(Paths(x)) \subseteq D
  <2>1. CASE x = a
    BY <2>1
  <2>2. CASE x # a
    <3>1. x \in DOMAIN blocks /\ x \notin todo
      BY <1>2, <2>2
    <3> QED
      BY <2>2, <3>1 DEF Complete
  <2> QED
    BY <2>1, <2>2
<1>3. rest \subseteq D /\ D \subseteq Nat /\ DOMAIN grown = D
  BY <1>1
<1> QED
  BY <1>2, <1>3 DEF Complete

LEMMA CompleteKept ==
  ASSUME prog' = prog
  PROVE  \A blocks, todo : Complete(blocks, todo)' = Complete(blocks, todo)
<1>1. \A a : Paths(a)' = Paths(a)
  BY PathsKept
<1> QED
  BY <1>1 DEF Complete, GoesOn

LEMMA LiftBlockKeeps ==
  ASSUME LiftInv, LiftBlock
  PROVE  LiftInv'
<1>1. /\ phase = "blocks" /\ work_list # {} /\ prog \in Programs
      /\ UNCHANGED <<prog, turn, phase, lifted, native>>
      /\ IsExecutable(decl) /\ decl \in DOMAIN addr_to_block /\ Complete(addr_to_block, work_list)
  BY DEF LiftInv, LiftBlock
<1>2. PICK a \in work_list : a = Min(work_list)
  BY <1>1, LeastIn DEF Complete
<1>3. /\ addr_to_block' = [x \in (DOMAIN addr_to_block) \cup GoesOn(Paths(a)) |->
              IF x = a THEN Paths(a) ELSE IF x \in DOMAIN addr_to_block THEN addr_to_block[x] ELSE {}]
      /\ work_list' = (work_list \ {a}) \cup (GoesOn(Paths(a)) \ DOMAIN addr_to_block)
  BY <1>2 DEF LiftBlock, GetOrCreateBlocks, Paths
<1>4. PICK blocks, todo : blocks = addr_to_block' /\ todo = work_list'
  OBVIOUS
<1>5. Complete(blocks, todo) /\ decl \in DOMAIN blocks
  BY <1>1, <1>3, <1>4, OneLifted
<1>6. Complete(addr_to_block, work_list)'
  BY <1>1, <1>4, <1>5, CompleteKept DEF Complete
<1>7. /\ decl' = decl /\ \A f : IsExecutable(f)' = IsExecutable(f)
      /\ \A f : Complete(lifted[f], {})' = Complete(lifted[f], {})
  BY <1>1, PathsKept, CompleteKept DEF decl
<1> QED
  BY <1>1, <1>4, <1>5, <1>6, <1>7 DEF LiftInv

(* A function that begins has one block, not lifted yet.                   *)
LEMMA LiftFunctionKeeps ==
  ASSUME LiftInv, LiftFunction
  PROVE  LiftInv'
<1>1. prog \in Programs /\ UNCHANGED <<prog, turn, lifted, native>>
  BY DEF LiftInv, LiftFunction
<1>2. /\ decl' = decl /\ \A f : IsExecutable(f)' = IsExecutable(f)
      /\ \A f : Complete(lifted[f], {})' = Complete(lifted[f], {})
  BY <1>1, PathsKept, CompleteKept DEF decl
<1>3. ASSUME phase' = "blocks"
      PROVE  IsExecutable(decl) /\ decl \in DOMAIN addr_to_block' /\ Complete(addr_to_block, work_list)'
  <2>1. /\ IsExecutable(decl)
        /\ DOMAIN addr_to_block' = {decl} /\ work_list' = {decl}
    BY <1>3 DEF LiftFunction
  <2>2. decl \in Nat
    BY <1>1, <2>1, ProgramIs DEF IsExecutable, FindByte
  <2> QED
    BY <2>1, <2>2 DEF Complete
<1> QED
  BY <1>1, <1>2, <1>3 DEF LiftInv

LEMMA EndFunctionKeeps ==
  ASSUME LiftInv, EndFunction
  PROVE  LiftInv'
<1>1. /\ phase' = "wrap" /\ prog \in Programs /\ UNCHANGED <<prog, turn, native>>
      /\ IsExecutable(decl) /\ decl \in DOMAIN addr_to_block /\ Complete(addr_to_block, {})
      /\ lifted' = [f \in (DOMAIN lifted) \cup {decl} |->
                      IF f = decl THEN addr_to_block ELSE lifted[f]]
  BY DEF LiftInv, EndFunction
<1>2. \A f : IsExecutable(f)' = IsExecutable(f)
  BY <1>1, PathsKept
<1>3. PICK l : l = lifted'
  OBVIOUS
<1>4. \A f \in DOMAIN l : f \in DOMAIN l[f] /\ IsExecutable(f) /\ Complete(l[f], {})
  BY <1>1, <1>3 DEF LiftInv
<1>5. \A f \in DOMAIN l : Complete(l[f], {})'
  BY <1>1, <1>4, CompleteKept
<1>6. native \subseteq DOMAIN l
  BY <1>1, <1>3 DEF LiftInv
<1> QED
  BY <1>1, <1>2, <1>3, <1>4, <1>5, <1>6 DEF LiftInv

LEMMA RestKeeps ==
  ASSUME LiftInv, UNCHANGED <<prog, lifted>>, native' \subseteq DOMAIN lifted,
         phase' = "blocks" => phase = "blocks" /\ UNCHANGED <<turn, work_list, addr_to_block>>
  PROVE  LiftInv'
<1>1. /\ \A f : IsExecutable(f)' = IsExecutable(f)
      /\ \A f : Complete(lifted[f], {})' = Complete(lifted[f], {})
  BY PathsKept, CompleteKept
<1>2. ASSUME phase' = "blocks"
      PROVE  IsExecutable(decl)' /\ (decl \in DOMAIN addr_to_block)' /\ Complete(addr_to_block, work_list)'
  <2>1. /\ IsExecutable(decl) /\ decl \in DOMAIN addr_to_block /\ Complete(addr_to_block, work_list)
        /\ decl' = decl /\ addr_to_block' = addr_to_block /\ work_list' = work_list
    BY <1>2 DEF LiftInv, decl
  <2> QED
    BY <1>1, <2>1, CompleteKept
<1> QED
  BY <1>1, <1>2 DEF LiftInv

LEMMA LiftStep == LiftInv /\ [Next]_vars => LiftInv'
<1> SUFFICES ASSUME LiftInv, [Next]_vars PROVE LiftInv'
  OBVIOUS
<1>1. CASE LiftFunction
  BY <1>1, LiftFunctionKeeps
<1>2. CASE LiftBlock
  BY <1>2, LiftBlockKeeps
<1>3. CASE EndFunction
  BY <1>3, EndFunctionKeeps
<1>4. CASE DefineWrappers
  <2>1. UNCHANGED <<prog, lifted>> /\ phase' # "blocks"
    BY <1>4 DEF DefineWrappers
  <2>2. native' \subseteq DOMAIN lifted
    BY <1>4 DEF DefineWrappers, DefineNativeToLifted, LiftInv
  <2> QED
    BY <2>1, <2>2, RestKeeps
<1>5. CASE UNCHANGED lift
  <2>1. /\ UNCHANGED <<prog, lifted>> /\ native' = native
        /\ phase' = phase /\ UNCHANGED <<turn, work_list, addr_to_block>>
    BY <1>5 DEF lift
  <2>2. native' \subseteq DOMAIN lifted
    BY <2>1 DEF LiftInv
  <2> QED
    BY <2>1, <2>2, RestKeeps
<1>6. Next => Lift \/ UNCHANGED lift
  BY DEF Next, Enter, Execute, ExecuteDelayed, Branch, CallReturns, Finished, Stay, vars
<1> QED
  BY <1>1, <1>2, <1>3, <1>4, <1>5, <1>6 DEF Lift, vars
-----------------------------------------------------------------------------
(* The steps of what was lifted.                                           *)

(* Every block of a lifted function is the one of its address, and all it  *)
(* may go on at has a block.                                               *)
LEMMA BlocksAre ==
  ASSUME LiftInv, NEW f \in DOMAIN lifted, NEW b \in DOMAIN lifted[f]
  PROVE  /\ prog \in Programs /\ b \in Nat
         /\ lifted[f][b] = Paths(b) /\ Paths(b) # {}
         /\ \A p \in Paths(b) :
              /\ p.to.op = "at" => p.to.pc \in DOMAIN lifted[f]
              /\ p.to.ret # 0 => p.to.ret \in DOMAIN lifted[f]
<1>1. PICK blocks : blocks = lifted[f]
  OBVIOUS
<1>2. prog \in Programs /\ Complete(blocks, {}) /\ b \in (DOMAIN blocks) \ {}
  BY <1>1 DEF LiftInv
<1>3. blocks[b] = Paths(b) /\ GoesOn(Paths(b)) \subseteq DOMAIN blocks /\ b \in Nat
  BY <1>2 DEF Complete
<1>4. \A p \in Paths(b) :
        /\ p.to.op = "at" => p.to.pc \in GoesOn(Paths(b))
        /\ p.to.ret # 0 => p.to.ret \in GoesOn(Paths(b))
  BY <1>2, GoesOnIs
<1>5. Paths(b) # {}
  BY <1>2, SomePath
<1>6. \A p \in Paths(b) :
        /\ p.to.op = "at" => p.to.pc \in DOMAIN blocks
        /\ p.to.ret # 0 => p.to.ret \in DOMAIN blocks
  BY <1>3, <1>4
<1> QED
  BY <1>1, <1>2, <1>3, <1>5, <1>6

LEMMA RunStep == LiftInv /\ RunInv /\ [Next]_vars => RunInv'
<1> SUFFICES ASSUME LiftInv, RunInv, [Next]_vars PROVE RunInv'
  OBVIOUS
<1>1. CASE Lift
  <2>1. phase # "done" /\ UNCHANGED <<runs, done>>
    BY <1>1 DEF Lift, LiftFunction, LiftBlock, EndFunction, DefineWrappers, run
  <2> QED
    BY <2>1 DEF RunInv
<1>2. ASSUME NEW f \in native, Enter(f) PROVE RunInv'
  <2>1. /\ runs' = f /\ block' = f /\ done' = 0
        /\ phase' = "done" /\ f \in DOMAIN lifted' /\ f \in DOMAIN lifted'[f]
    BY <1>2 DEF Enter, Stay, lift, LiftInv, RunInv
  <2> QED
    BY <2>1 DEF RunInv
<1>3. ASSUME runs # 0, UNCHANGED <<prog, phase, lifted, runs>>,
             block' \in DOMAIN lifted[runs], done' \in {0, 1, 2},
             done' # 0 => path' \in Paths(block'),
             done' = 2 => path'.delayed
      PROVE  RunInv'
  <2>1. PICK b : b = block'
    OBVIOUS
  <2>2. Paths(b)' = Paths(b)
    BY <1>3, PathsKept
  <2> QED
    BY <1>3, <2>1, <2>2 DEF RunInv
<1>4. ASSUME Stay, UNCHANGED runs, runs # 0
      PROVE  /\ UNCHANGED <<prog, phase, lifted, runs>>
             /\ runs \in DOMAIN lifted /\ block \in DOMAIN lifted[runs]
             /\ done # 0 => path \in Paths(block)
  BY <1>4 DEF Stay, lift, RunInv
<1>5. CASE Execute
  <2>1. /\ Stay /\ runs # 0 /\ UNCHANGED <<runs, block>> /\ done' = 1
        /\ path' \in lifted[runs][block]
    BY <1>5 DEF Execute, Blocks
  <2>2. path' \in Paths(block)
    BY <1>4, <2>1, BlocksAre
  <2> QED
    BY <1>3, <1>4, <2>1, <2>2
<1>6. CASE ExecuteDelayed
  <2>1. /\ Stay /\ UNCHANGED <<runs, block, path>> /\ done = 1 /\ path.delayed /\ done' = 2
    BY <1>6 DEF ExecuteDelayed
  <2>2. runs # 0
    BY <2>1 DEF RunInv
  <2> QED
    BY <1>3, <1>4, <2>1, <2>2
<1>7. CASE Branch \/ CallReturns
  <2>1. /\ Stay /\ UNCHANGED <<runs, path>> /\ done # 0 /\ done' = 0
        /\ \/ path.to.op = "at" /\ block' = path.to.pc
           \/ path.to.ret # 0 /\ block' = path.to.ret
    BY <1>7 DEF Branch, CallReturns
  <2>2. runs # 0
    BY <2>1 DEF RunInv
  <2>3. /\ UNCHANGED <<prog, phase, lifted, runs>>
        /\ runs \in DOMAIN lifted /\ block \in DOMAIN lifted[runs]
        /\ path \in Paths(block)
    BY <1>4, <2>1, <2>2
  <2>4. block' \in DOMAIN lifted[runs]
    BY <2>1, <2>3, BlocksAre
  <2> QED
    BY <1>3, <2>1, <2>2, <2>3, <2>4
<1>8. CASE UNCHANGED vars
  <2>1. CASE runs # 0
    <3>1. Stay /\ UNCHANGED <<runs, block, path, done>>
      BY <1>8 DEF vars, run, Stay
    <3>2. done \in {0, 1, 2} /\ (done = 2 => path.delayed)
      BY <2>1 DEF RunInv
    <3> QED
      BY <1>3, <1>4, <2>1, <3>1, <3>2
  <2>2. CASE runs = 0
    BY <1>8, <2>2 DEF vars, run, RunInv
  <2> QED
    BY <2>1, <2>2
<1> QED
  BY <1>1, <1>2, <1>5, <1>6, <1>7, <1>8 DEF Next, Finished

LEMMA InvHolds == Spec => [](LiftInv /\ RunInv)
<1>1. LiftInv /\ RunInv /\ [Next]_vars => (LiftInv /\ RunInv)'
  BY LiftStep, RunStep
<1> QED
  BY <1>1, LiftInit, PTL DEF Spec
-----------------------------------------------------------------------------
(* Every function has its turn once.                                       *)

(* The functions that had their turn before the n-th.                      *)
Over(n) == {prog.functions[i] : i \in 1 .. n - 1}

WrapInv ==
  IsInjective(prog.functions) =>
    /\ phase \in {"functions", "blocks", "wrap", "done"}
    /\ turn \in 1 .. Len(prog.functions) + 1
    /\ phase \in {"blocks", "wrap"} => turn \in 1 .. Len(prog.functions)
    /\ phase = "done" => turn = Len(prog.functions) + 1
    /\ wrapped = Over(turn)
    /\ native = {f \in Over(turn) : IsExecutable(f)}
    /\ DOMAIN lifted =
         native \cup (IF phase = "wrap" THEN {f \in {decl} : IsExecutable(f)} ELSE {})

LEMMA OverIs ==
  ASSUME prog \in Programs
  PROVE  /\ Len(prog.functions) \in Nat
         /\ Over(1) = {}
         /\ Over(Len(prog.functions) + 1) = Range(prog.functions)
         /\ \A n \in 1 .. Len(prog.functions) :
              /\ Over(n + 1) = Over(n) \cup {prog.functions[n]}
              /\ IsInjective(prog.functions) => prog.functions[n] \notin Over(n)
<1>1. PICK s : s = prog.functions
  OBVIOUS
<1>2. s \in Seq(Nat)
  BY <1>1, ProgramsAssumption DEF WellFormed
<1>3. Len(s) \in Nat /\ DOMAIN s = 1 .. Len(s)
  BY <1>2
<1>4. \A n : Over(n) = {s[i] : i \in 1 .. n - 1}
  BY <1>1 DEF Over
<1>5. Over(1) = {}
  BY <1>4
<1>6. Over(Len(s) + 1) = Range(s)
  BY <1>3, <1>4 DEF Range
<1>7. ASSUME NEW n \in 1 .. Len(s)
      PROVE  /\ Over(n + 1) = Over(n) \cup {s[n]}
             /\ IsInjective(s) => s[n] \notin Over(n)
  <2>1. 1 .. (n + 1) - 1 = (1 .. n - 1) \cup {n} /\ n \notin 1 .. n - 1
    BY <1>3
  <2>2. Over(n + 1) = Over(n) \cup {s[n]}
    BY <1>4, <2>1
  <2>3. n \in DOMAIN s /\ 1 .. n - 1 \subseteq DOMAIN s
    BY <1>3
  <2>4. IsInjective(s) => \A i \in 1 .. n - 1 : s[i] # s[n]
    BY <2>1, <2>3 DEF IsInjective
  <2> QED
    BY <1>4, <2>2, <2>4
<1> QED
  BY <1>1, <1>3, <1>5, <1>6, <1>7

(* The functions over, and what is executable, are a matter of the program *)
(* and the turn.                                                           *)
LEMMA OverKept ==
  ASSUME prog' = prog
  PROVE  /\ \A n : Over(n)' = Over(n)
         /\ \A f : IsExecutable(f)' = IsExecutable(f)
  BY PathsKept DEF Over

LEMMA WrapInit == Init => WrapInv
<1> SUFFICES ASSUME Init PROVE WrapInv
  OBVIOUS
<1>1. prog \in Programs /\ phase = "functions" /\ turn = 1 /\ native = {} /\ wrapped = {}
      /\ lifted = <<>>
  BY DEF Init
<1>2. Over(1) = {} /\ Len(prog.functions) \in Nat
  BY <1>1, OverIs
<1>3. DOMAIN lifted = {}
  BY <1>1
<1> QED
  BY <1>1, <1>2, <1>3 DEF WrapInv

LEMMA ProgramStays == [Next]_vars => prog' = prog
  BY DEF Next, Lift, LiftFunction, LiftBlock, EndFunction, DefineWrappers, Enter, Execute,
         ExecuteDelayed, Branch, CallReturns, Finished, Stay, lift, vars

LEMMA WrapStep == LiftInv /\ WrapInv /\ [Next]_vars => WrapInv'
<1> SUFFICES ASSUME LiftInv, WrapInv, [Next]_vars, prog' = prog, IsInjective(prog.functions)
             PROVE  WrapInv'
  BY ProgramStays DEF WrapInv
<1>1. /\ prog \in Programs
      /\ phase \in {"functions", "blocks", "wrap", "done"}
      /\ turn \in 1 .. Len(prog.functions) + 1
      /\ phase \in {"blocks", "wrap"} => turn \in 1 .. Len(prog.functions)
      /\ phase = "done" => turn = Len(prog.functions) + 1
      /\ wrapped = Over(turn)
      /\ native = {f \in Over(turn) : IsExecutable(f)}
      /\ phase # "wrap" => DOMAIN lifted = native
      /\ phase = "wrap" => DOMAIN lifted = native \cup {f \in {decl} : IsExecutable(f)}
  BY DEF LiftInv, WrapInv
<1>2. /\ Len(prog.functions) \in Nat
      /\ turn \in 1 .. Len(prog.functions) => decl \notin Over(turn)
      /\ turn \in 1 .. Len(prog.functions) => Over(turn + 1) = Over(turn) \cup {decl}
  BY <1>1, OverIs DEF decl
<1>3. /\ \A n : Over(n)' = Over(n)
      /\ \A f : IsExecutable(f)' = IsExecutable(f)
  BY OverKept
<1>4. turn' = turn => /\ Over(turn)' = Over(turn) /\ decl' = decl
                      /\ {f \in Over(turn) : IsExecutable(f)}' = {f \in Over(turn) : IsExecutable(f)}
                      /\ {f \in {decl} : IsExecutable(f)}' = {f \in {decl} : IsExecutable(f)}
  BY <1>3 DEF decl
<1>5. CASE LiftFunction
  <2>1. /\ phase = "functions" /\ turn \in 1 .. Len(prog.functions)
        /\ turn' = turn /\ UNCHANGED <<lifted, native, wrapped>>
    BY <1>1, <1>2, <1>5 DEF LiftFunction
  <2>2. decl \notin DOMAIN lifted
    BY <1>1, <1>2, <2>1
  <2>3. \/ phase' = "wrap" /\ ~IsExecutable(decl)
        \/ phase' = "blocks"
    BY <1>1, <1>5, <2>1, <2>2 DEF LiftFunction
  <2>4. {f \in {decl} : IsExecutable(f)} = {} \/ phase' = "blocks"
    BY <2>3
  <2> QED
    BY <1>1, <1>4, <2>1, <2>3, <2>4 DEF WrapInv
<1>6. CASE LiftBlock
  <2>1. UNCHANGED <<phase, turn, lifted, native, wrapped>>
    BY <1>6 DEF LiftBlock
  <2> QED
    BY <1>1, <1>4, <2>1 DEF WrapInv
<1>7. CASE EndFunction
  <2>1. /\ phase = "blocks" /\ phase' = "wrap" /\ UNCHANGED <<turn, native, wrapped>>
        /\ DOMAIN lifted' = native \cup {decl} /\ IsExecutable(decl)
    BY <1>1, <1>7 DEF EndFunction, LiftInv
  <2>2. {f \in {decl} : IsExecutable(f)} = {decl}
    BY <2>1
  <2> QED
    BY <1>1, <1>4, <2>1, <2>2 DEF WrapInv
<1>8. CASE DefineWrappers
  <2>1. phase = "wrap" /\ turn \in 1 .. Len(prog.functions) /\ lifted' = lifted
    BY <1>1, <1>8 DEF DefineWrappers
  <2>2. decl \notin native /\ decl \notin wrapped
    BY <1>1, <1>2, <2>1
  <2>3. DefineNativeToLifted = {f \in {decl} : IsExecutable(f)}
    BY <1>1, <2>1, <2>2 DEF DefineNativeToLifted
  <2>4. /\ native' = native \cup DefineNativeToLifted /\ wrapped' = wrapped \cup {decl}
        /\ turn' = turn + 1
        /\ phase' = IF turn = Len(prog.functions) THEN "done" ELSE "functions"
    BY <1>8, <2>2 DEF DefineWrappers, DefineNativeToLifted, DefineLiftedToNative
  <2>5. Over(turn)' = Over(turn) \cup {decl}
    BY <1>2, <1>3, <2>1, <2>4
  <2>6. wrapped' = Over(turn)' /\ native' = {f \in Over(turn) : IsExecutable(f)}'
    <3>1. \A f : f \in native' <=> f \in Over(turn)' /\ IsExecutable(f)'
      BY <1>1, <1>3, <2>3, <2>4, <2>5
    <3>2. wrapped' = Over(turn)'
      BY <1>1, <2>4, <2>5
    <3> QED
      BY <3>1, <3>2
  <2>7. DOMAIN lifted' = native' /\ phase' # "wrap"
    BY <1>1, <2>1, <2>3, <2>4
  <2>8. /\ turn' \in 1 .. Len(prog.functions) + 1
        /\ phase' = "done" => turn' = Len(prog.functions) + 1
        /\ phase' \in {"functions", "done"}
    BY <1>2, <2>1, <2>4
  <2> QED
    BY <2>6, <2>7, <2>8 DEF WrapInv
<1>9. CASE UNCHANGED lift
  <2>1. UNCHANGED <<phase, turn, lifted, native, wrapped>>
    BY <1>9 DEF lift
  <2> QED
    BY <1>1, <1>4, <2>1 DEF WrapInv
<1> QED
  BY <1>5, <1>6, <1>7, <1>8, <1>9
     DEF Next, Lift, Enter, Execute, ExecuteDelayed, Branch, CallReturns, Finished, Stay, vars

LEMMA WrapHolds == Spec => []WrapInv
<1>1. Init => WrapInv
  BY WrapInit
<1>2. LiftInv /\ WrapInv /\ [Next]_vars => WrapInv'
  BY WrapStep
<1> QED
  BY <1>1, <1>2, InvHolds, PTL DEF Spec

(* LiftCodeIntoModule fails no CHECK unless an address is declared twice:  *)
(* every function that has code is lifted once and gets both wrappers, and *)
(* every function that lifted code calls by its address has the one it is  *)
(* called through.                                                         *)
THEOREM EveryFunctionWrapped == Spec => []FunctionsWrapped
<1>1. LiftInv /\ WrapInv => FunctionsWrapped
  <2> SUFFICES ASSUME LiftInv, WrapInv, IsInjective(prog.functions)
               PROVE  /\ phase # "aborted"
                      /\ phase = "done" =>
                           /\ native = {f \in Range(prog.functions) : IsExecutable(f)}
                           /\ \A f \in native : \A a \in DOMAIN lifted[f] : \A p \in lifted[f][a] :
                                p.to.op = "lifted_to_native" => p.to.pc \in wrapped
    BY DEF FunctionsWrapped
  <2>1. phase # "aborted"
    BY DEF WrapInv
  <2>2. phase = "done" =>
          /\ wrapped = Range(prog.functions)
          /\ native = {f \in Range(prog.functions) : IsExecutable(f)}
    BY OverIs DEF LiftInv, WrapInv
  <2>3. ASSUME NEW f \in native, NEW a \in DOMAIN lifted[f], NEW p \in lifted[f][a],
               p.to.op = "lifted_to_native"
        PROVE  p.to.pc \in Range(prog.functions)
    <3>1. prog \in Programs /\ p \in Paths(a)
      BY BlocksAre, f \in DOMAIN lifted DEF LiftInv
    <3> QED
      BY <2>3, <3>1, PathIs DEF Leads, FindFunction
  <2> QED
    BY <2>1, <2>2, <2>3
<1> QED
  BY <1>1, InvHolds, WrapHolds, PTL
-----------------------------------------------------------------------------
(* Lifted code goes where the machine goes.                                *)

Beyond(p) == IF p.op = "at" THEN At(p.pc + 1) ELSE p

(* The place of the machine, and the one after it.                         *)
Where ==
  /\ runs = 0 => IsAt = Leave("idle") /\ GoesTo = Leave("idle")
  /\ runs # 0 /\ done = 0 => IsAt = At(block) /\ GoesTo = At(block + 1)
  /\ runs # 0 /\ done # 0 /\ Ran => IsAt = Reaches(path.to) /\ GoesTo = Beyond(Reaches(path.to))
  /\ runs # 0 /\ done # 0 /\ ~Ran => IsAt = At(block + 1) /\ GoesTo = Reaches(path.to)

LEMMA PlaceIs ==
  /\ \A op, pc, ret : /\ Place(op, pc, ret).op = op
                      /\ Place(op, pc, ret).pc = pc
                      /\ Place(op, pc, ret).ret = ret
  /\ \A a : At(a) = Place("at", a, 0)
  /\ \A op : Leave(op) = Place(op, 0, 0)
  BY DEF Place, At, Leave

LEMMA ReachesIs ==
  ASSUME NEW to, Leads(to)
  PROVE  /\ to.op = "at" => Reaches(to) = At(to.pc) /\ to.pc \in Nat
         /\ to.ret # 0 => Reaches(to) = Place("call", to.pc, to.ret)
<1>1. CASE to.op = "at"
  BY <1>1 DEF Leads, Reaches
<1>2. CASE to.op \in {"lifted_to_native", "function_call"}
  <2>1. to = [op |-> to.op, pc |-> to.pc, ret |-> to.ret]
    BY <1>2 DEF Leads, Place
  <2>2. [to EXCEPT !.op = "call"] = [op |-> "call", pc |-> to.pc, ret |-> to.ret]
    BY <2>1
  <2> QED
    BY <1>2, <2>2 DEF Reaches, Place
<1>3. CASE to.ret = 0 /\ to.op # "at"
  BY <1>3
<1> QED
  BY <1>1, <1>2, <1>3 DEF Leads

LEMMA WhereIs == LiftInv /\ RunInv => Where
<1> SUFFICES ASSUME LiftInv, RunInv PROVE Where
  OBVIOUS
<1>1. CASE runs = 0
  BY <1>1, PlaceIs DEF Where, IsAt, GoesTo
<1>2. CASE runs # 0
  <2>1. /\ prog \in Programs /\ block \in DOMAIN Blocks /\ Blocks[block] # {}
        /\ done \in {0, 1, 2} /\ block \in Nat
        /\ done # 0 => path \in Paths(block)
        /\ done = 2 => path.delayed
    BY <1>2, BlocksAre DEF RunInv, Blocks
  <2>2. CASE done = 0
    <3>1. IsAt = At(block)
      BY <1>2, <2>1, <2>2 DEF IsAt
    <3>2. GoesTo = At(block + 1)
      BY <2>2, <3>1, PlaceIs DEF GoesTo
    <3> QED
      BY <1>2, <2>2, <3>1, <3>2 DEF Where
  <2>3. CASE done # 0 /\ Ran
    <3>1. IsAt = Reaches(path.to)
      BY <1>2, <2>1, <2>3 DEF IsAt
    <3>2. GoesTo = Beyond(Reaches(path.to))
      BY <2>3, <3>1 DEF GoesTo, Beyond
    <3> QED
      BY <1>2, <2>3, <3>1, <3>2 DEF Where
  <2>4. CASE done # 0 /\ ~Ran
    <3>1. done = 1
      BY <2>1, <2>4 DEF Ran
    <3>2. IsAt = At(block + 1)
      BY <1>2, <2>1, <2>4 DEF IsAt
    <3>3. GoesTo = Reaches(path.to)
      BY <1>2, <2>4, <3>1 DEF GoesTo
    <3> QED
      BY <1>2, <2>4, <3>2, <3>3 DEF Where
  <2> QED
    BY <2>2, <2>3, <2>4
<1> QED
  BY <1>1, <1>2

(* A call comes back where its callee returns to.                          *)
LEMMA ReturnsToIs ==
  ASSUME prog \in Programs, NEW a, DecodeInstructionInto(a), Inst(a).category \in Calls
  PROVE  Machine!ReturnsTo(a) = LoadFunctionReturnAddress(a)
<1>1. prog.sparc => NotTakenPC(a) \in DOMAIN prog.code
  BY DecodedIs, ProgramIs
<1> QED
  BY <1>1 DEF Machine!ReturnsTo, LoadFunctionReturnAddress, NotTakenPC, MayHaveDelaySlot, Inst, FindByte

LEMMA DecodesIs == \A a : Machine!Decodes(a) <=> DecodeInstructionInto(a)
  BY DEF Machine!Decodes, DecodeInstructionInto, IsExecutable, FindByte, Inst

LEMMA CalleeReaches ==
  ASSUME prog \in Programs, NEW a, DecodeInstructionInto(a), Inst(a).category \in Calls
  PROVE  /\ Reaches(DirectCallee(a)) = Place("call", Inst(a).target, Machine!ReturnsTo(a))
         /\ Reaches(IndirectCallee(a)) = Place("call", 0, Machine!ReturnsTo(a))
<1>1. /\ Leads(DirectCallee(a)) /\ Leads(IndirectCallee(a))
      /\ LoadFunctionReturnAddress(a) # 0
      /\ Machine!ReturnsTo(a) = LoadFunctionReturnAddress(a)
  BY CalleeLeads, ReturnsAfter, ReturnsToIs
<1>2. /\ DirectCallee(a).pc = Inst(a).target /\ DirectCallee(a).ret = LoadFunctionReturnAddress(a)
      /\ IndirectCallee(a).pc = 0 /\ IndirectCallee(a).ret = LoadFunctionReturnAddress(a)
  BY PlaceIs DEF DirectCallee, IndirectCallee, VisitAfterFunctionCall
<1> QED
  BY <1>1, <1>2, ReachesIs

LEMMA TakenToIs ==
  ASSUME prog \in Programs, NEW a, DecodeInstructionInto(a), GoesTo = At(a + 1)
  PROVE  Machine!TakenTo(a) = Reaches(Target(a))
<1> DEFINE category == Inst(a).category
<1>1. /\ category = prog.code[a].category /\ Inst(a).target = prog.code[a].target
      /\ category \in Transferring \cup {"Normal"}
  BY DecodedIs DEF Inst
<1>2. /\ \A x : Reaches(At(x)) = At(x)
      /\ \A op \in {"jump", "return", "hyper_call"} : Reaches(Leave(op)) = Leave(op)
      /\ Reaches(Leave("function_return")) = Leave("return")
  BY PlaceIs DEF Reaches
<1> USE DEF Machine!TakenTo, Machine!At, Machine!Place, Machine!Leave
<1>3. CASE category = "Normal"
  BY <1>1, <1>2, <1>3 DEF Target
<1>4. CASE category \in {"DirectJump", "ConditionalBranch"}
  BY <1>1, <1>2, <1>4 DEF Target, At, Place
<1>5. CASE category \in {"DirectFunctionCall", "ConditionalDirectFunctionCall"}
  <2>1. Target(a) = DirectCallee(a)
    BY <1>5 DEF Target
  <2>2. Machine!TakenTo(a) = Place("call", Inst(a).target, Machine!ReturnsTo(a))
    BY <1>1, <1>5 DEF Place
  <2> QED
    BY <1>5, <2>1, <2>2, CalleeReaches DEF Calls
<1>6. CASE category \in {"IndirectFunctionCall", "ConditionalIndirectFunctionCall"}
  <2>1. Target(a) = IndirectCallee(a)
    BY <1>6 DEF Target
  <2>2. Machine!TakenTo(a) = Place("call", 0, Machine!ReturnsTo(a))
    BY <1>1, <1>6 DEF Place
  <2> QED
    BY <1>6, <2>1, <2>2, CalleeReaches DEF Calls
<1>7. CASE category \in {"IndirectJump", "ConditionalIndirectJump"}
  BY <1>1, <1>2, <1>7 DEF Target, Leave, Place
<1>8. CASE category \in {"FunctionReturn", "ConditionalFunctionReturn"}
  BY <1>1, <1>2, <1>8 DEF Target, Leave, Place
<1>9. CASE category \in {"AsyncHyperCall", "ConditionalAsyncHyperCall"}
  BY <1>1, <1>2, <1>9 DEF Target, Leave, Place
<1> QED
  BY <1>1, <1>3, <1>4, <1>5, <1>6, <1>7, <1>8, <1>9 DEF Transferring, Calls, Conditional

MachineSteps == Machine!Start \/ Machine!Execute \/ Machine!Return
Stutters == UNCHANGED <<prog.code, prog.sparc, IsAt, GoesTo>>
Follows == MachineSteps \/ Stutters

LEMMA StuttersIf == UNCHANGED <<prog, IsAt, GoesTo>> => Follows
  BY DEF Follows, Stutters

LEMMA LiftingFollows ==
  ASSUME RunInv, Where, Where', Lift
  PROVE  Follows
<1>1. runs = 0 /\ runs' = 0 /\ prog' = prog
  BY DEF RunInv, Lift, LiftFunction, LiftBlock, EndFunction, DefineWrappers, run
<1>2. IsAt' = IsAt /\ GoesTo' = GoesTo
  BY <1>1 DEF Where, Leave, Place
<1> QED
  BY <1>1, <1>2, StuttersIf

LEMMA StayFollows ==
  ASSUME UNCHANGED vars
  PROVE  Follows
<1>1. UNCHANGED <<prog, lifted, runs, block, path, done>>
  BY DEF vars, lift, run
<1>2. IsAt' = IsAt
  BY <1>1 DEF IsAt, Blocks, Ran, Reaches, At, Leave, Place
<1>3. GoesTo' = GoesTo
  BY <1>1, <1>2 DEF GoesTo, Ran, Reaches, At, Leave, Place
<1> QED
  BY <1>1, <1>2, <1>3, StuttersIf

(* Native code calls the lifted function: the machine starts there.        *)
LEMMA EnterFollows ==
  ASSUME LiftInv, RunInv, Where, Where', NEW f \in native, Enter(f)
  PROVE  Follows
<1>1. /\ prog' = prog /\ runs = 0 /\ runs' = f /\ block' = f /\ done' = 0
      /\ f \in DOMAIN prog.code
  BY DEF Enter, Stay, lift, LiftInv, RunInv, IsExecutable, FindByte
<1>2. IsAt = Leave("idle") /\ GoesTo = Leave("idle")
  BY <1>1 DEF Where
<1>3. CASE f = 0
  <2>1. IsAt' = Leave("idle") /\ GoesTo' = Leave("idle")
    BY <1>1, <1>3 DEF Where, Leave, Place
  <2> QED
    BY <1>1, <1>2, <2>1, StuttersIf
<1>4. CASE f # 0
  <2>1. IsAt' = At(f) /\ GoesTo' = At(f + 1)
    BY <1>1, <1>4 DEF Where, At, Place
  <2>2. IsAt.op = "idle" /\ IsAt'.op = "at" /\ IsAt'.pc = f
    BY <1>2, <2>1, PlaceIs
  <2>3. Machine!Start
    BY <1>1, <2>1, <2>2 DEF Machine!Start, Machine!After, Machine!At, Machine!Place, At, Place
  <2> QED
    BY <2>3 DEF Follows, MachineSteps
<1> QED
  BY <1>3, <1>4

(* The place after a step, by the path it is on.                           *)
LEMMA WhereNext ==
  ASSUME Where', runs' # 0, done' \in {1, 2}, path'.delayed \in BOOLEAN, done' = 2 => path'.delayed
  PROVE  /\ done' = 1 /\ path'.delayed =>
              IsAt' = At(block' + 1) /\ GoesTo' = Reaches(path'.to)
         /\ ~(done' = 1 /\ path'.delayed) =>
              IsAt' = Reaches(path'.to) /\ GoesTo' = Beyond(Reaches(path'.to))
<1>1. Ran' <=> ~(done' = 1 /\ path'.delayed)
  BY DEF Ran
<1>2. /\ Ran' => IsAt' = Reaches(path.to)' /\ GoesTo' = Beyond(Reaches(path.to))'
      /\ ~Ran' => IsAt' = At(block + 1)' /\ GoesTo' = Reaches(path.to)'
  BY DEF Where
<1>3. /\ Reaches(path.to)' = Reaches(path'.to) /\ At(block + 1)' = At(block' + 1)
      /\ Beyond(Reaches(path.to))' = Beyond(Reaches(path'.to))
  BY DEF Reaches, Beyond, At, Leave, Place
<1> QED
  BY <1>1, <1>2, <1>3

LEMMA ExecuteFollows ==
  ASSUME LiftInv, RunInv, Where, Where', Execute
  PROVE  Follows
<1>1. /\ prog \in Programs /\ prog' = prog /\ runs # 0 /\ done = 0 /\ done' = 1
      /\ runs' # 0 /\ block' = block
      /\ runs \in DOMAIN lifted /\ block \in DOMAIN lifted[runs]
      /\ path' \in lifted[runs][block]
  BY DEF LiftInv, RunInv, Execute, Blocks, Stay, lift
<1>2. path' \in Paths(block)
  BY <1>1, BlocksAre
<1>3. IsAt = At(block) /\ GoesTo = At(block + 1) /\ IsAt.op = "at" /\ IsAt.pc = block
  BY <1>1, PlaceIs DEF Where
<1>4. path'.delayed \in BOOLEAN
  BY <1>1, <1>2, PathIs
<1>5. /\ path'.delayed => IsAt' = GoesTo /\ GoesTo' = Reaches(path'.to)
      /\ ~path'.delayed => IsAt' = Reaches(path'.to) /\ GoesTo' = Beyond(Reaches(path'.to))
  BY <1>1, <1>3, <1>4, WhereNext
<1>6. CASE ~DecodeInstructionInto(block)
  <2>1. path' = Path(FALSE, Leave("error"))
    BY <1>2, <1>6 DEF Paths, Error
  <2>2. ~path'.delayed /\ path'.to = Leave("error")
    BY <2>1 DEF Path
  <2>3. Reaches(Leave("error")) = Leave("error") /\ Beyond(Leave("error")) = Leave("error")
    BY PlaceIs DEF Reaches, Beyond
  <2>4. IsAt' = Leave("error") /\ GoesTo' = Leave("error")
    BY <1>5, <2>2, <2>3
  <2>5. Machine!Execute
    BY <1>1, <1>3, <1>6, <2>4, DecodesIs
       DEF Machine!Execute, Machine!Leave, Machine!Place, Leave, Place
  <2> QED
    BY <2>5 DEF Follows, MachineSteps
<1>7. CASE DecodeInstructionInto(block)
  <2>1. Machine!Transfer(Reaches(path'.to), path'.delayed)
    BY <1>5 DEF Machine!Transfer, Machine!After, Machine!At, Machine!Place, Beyond, At, Place
  <2>2. \/ path'.delayed = Inst(block).taken /\ path'.to = Target(block)
        \/ /\ Inst(block).category \in Conditional
           /\ path'.delayed = Inst(block).untaken /\ path'.to = At(NotTakenPC(block))
    BY <1>1, <1>2, <1>7, VisitIs DEF Paths, OnCondition, Always, VisitDelayedInstruction, Path
  <2>3. CASE path'.delayed = Inst(block).taken /\ path'.to = Target(block)
    <3>1. Machine!TakenTo(block) = Reaches(path'.to)
      BY <1>1, <1>3, <1>7, <2>3, TakenToIs
    <3>2. Machine!Transfer(Machine!TakenTo(block), prog.code[block].taken)
      BY <2>1, <2>3, <3>1 DEF Inst
    <3>3. Machine!Execute
      BY <1>1, <1>3, <1>7, <3>2, DecodesIs DEF Machine!Execute
    <3> QED
      BY <3>3 DEF Follows, MachineSteps
  <2>4. CASE /\ Inst(block).category \in Conditional
             /\ path'.delayed = Inst(block).untaken /\ path'.to = At(NotTakenPC(block))
    <3>1. Machine!UntakenTo(block) = Reaches(path'.to)
      <4>1. Reaches(At(NotTakenPC(block))) = At(NotTakenPC(block))
        BY PlaceIs DEF Reaches
      <4>2. Machine!UntakenTo(block) = At(NotTakenPC(block))
        BY DEF Machine!UntakenTo, Machine!At, Machine!Place, At, Place, NotTakenPC,
               MayHaveDelaySlot, Inst
      <4> QED
        BY <2>4, <4>1, <4>2
    <3>2. Machine!Transfer(Machine!UntakenTo(block), prog.code[block].untaken)
      BY <2>1, <2>4, <3>1 DEF Inst
    <3>3. prog.code[block].category \in Machine!Conditional
      BY <2>4 DEF Inst, Conditional, Machine!Conditional
    <3>4. Machine!Execute
      BY <1>1, <1>3, <1>7, <3>2, <3>3, DecodesIs DEF Machine!Execute
    <3> QED
      BY <3>4 DEF Follows, MachineSteps
  <2> QED
    BY <2>2, <2>3, <2>4
<1> QED
  BY <1>6, <1>7

LEMMA DelayedFollows ==
  ASSUME LiftInv, RunInv, Where, Where', ExecuteDelayed
  PROVE  Follows
<1>1. /\ prog \in Programs /\ prog' = prog /\ runs # 0 /\ done = 1 /\ done' = 2
      /\ runs' # 0 /\ path' = path /\ path.delayed /\ path \in Paths(block)
  BY BlocksAre DEF LiftInv, RunInv, ExecuteDelayed, Stay, lift
<1>2. /\ path.delayed \in BOOLEAN /\ DecodeInstructionInto(block) /\ MayHaveDelaySlot(Inst(block))
      /\ block + 1 \in DOMAIN prog.code /\ Inst(block + 1).category = "Normal"
  BY <1>1, PathIs
<1>3. ~Ran
  BY <1>1 DEF Ran
<1>4. IsAt = At(block + 1) /\ GoesTo = Reaches(path.to) /\ IsAt.op = "at" /\ IsAt.pc = block + 1
  BY <1>1, <1>3, PlaceIs DEF Where
<1>5. IsAt' = GoesTo /\ GoesTo' = Beyond(GoesTo)
  <2>1. runs' # 0 /\ done' = 2 /\ path'.delayed /\ path'.delayed \in BOOLEAN /\ path'.to = path.to
    BY <1>1, <1>2
  <2>2. IsAt' = Reaches(path'.to) /\ GoesTo' = Beyond(Reaches(path'.to))
    BY <2>1, WhereNext
  <2> QED
    BY <1>4, <2>1, <2>2
<1>6. prog.code[block + 1].taken = FALSE /\ prog.code[block + 1].category = "Normal"
  BY <1>1, <1>2, ProgramIs DEF Inst, MayHaveDelaySlot, Transferring, Calls, Conditional
<1>7. Machine!Decodes(block + 1) /\ Machine!TakenTo(block + 1) = GoesTo
  BY <1>2, <1>6 DEF Machine!Decodes, Machine!TakenTo
<1>8. Machine!Transfer(GoesTo, FALSE)
  BY <1>5 DEF Machine!Transfer, Machine!After, Machine!At, Machine!Place, Beyond, At, Place
<1>9. Machine!Execute
  BY <1>1, <1>4, <1>6, <1>7, <1>8 DEF Machine!Execute
<1> QED
  BY <1>9 DEF Follows, MachineSteps

LEMMA GoesOnFollows ==
  ASSUME LiftInv, RunInv, Where, Where', Branch \/ CallReturns
  PROVE  Follows
<1>1. /\ prog \in Programs /\ prog' = prog /\ done # 0 /\ done' = 0 /\ Ran /\ runs # 0 /\ runs' # 0
      /\ \/ path.to.op = "at" /\ block' = path.to.pc
         \/ path.to.ret # 0 /\ block' = path.to.ret
      /\ path \in Paths(block)
  BY BlocksAre DEF LiftInv, RunInv, Branch, CallReturns, Stay, lift
<1>2. Leads(path.to)
  BY <1>1, PathIs
<1>3. IsAt = Reaches(path.to) /\ GoesTo = Beyond(IsAt)
  BY <1>1 DEF Where
<1>4. IsAt' = At(block') /\ GoesTo' = At(block' + 1)
  BY <1>1 DEF Where, At, Place
<1>5. CASE path.to.op = "at" /\ block' = path.to.pc
  <2>1. IsAt = At(block')
    BY <1>2, <1>3, <1>5, ReachesIs
  <2>2. GoesTo = At(block' + 1)
    BY <1>3, <2>1, PlaceIs DEF Beyond
  <2> QED
    BY <1>1, <1>4, <2>1, <2>2, StuttersIf
<1>6. CASE path.to.ret # 0 /\ block' = path.to.ret
  <2>1. IsAt.op = "call" /\ IsAt.ret = block'
    BY <1>2, <1>3, <1>6, ReachesIs, PlaceIs
  <2>2. Machine!Return
    BY <1>1, <1>4, <2>1 DEF Machine!Return, Machine!After, Machine!At, Machine!Place, At, Place
  <2> QED
    BY <2>2 DEF Follows, MachineSteps
<1> QED
  BY <1>1, <1>5, <1>6

(* What was lifted implements the machine, for every program: each         *)
(* instruction of a lifted function runs where the machine runs it, the    *)
(* one in a delay slot on the paths it is not annulled on, a call goes on  *)
(* where its callee returns to, and no address control gets to is without  *)
(* a block.                                                                *)
THEOREM ImplementsTheMachine == Spec => RunsTheMachine
<1>1. Init => Machine!Init
  <2> SUFFICES ASSUME Init PROVE Machine!Init
    OBVIOUS
  <2>1. IsAt = Leave("idle") /\ GoesTo = Leave("idle")
    BY LiftInit, WhereIs DEF Init, Where
  <2> QED
    BY <2>1 DEF Machine!Init, Machine!Leave, Machine!Place, Leave, Place
<1>2. LiftInv /\ RunInv => Where
  BY WhereIs
<1>3. LiftInv /\ RunInv /\ Where /\ Where' /\ [Next]_vars => Follows
  <2> SUFFICES ASSUME LiftInv, RunInv, Where, Where', [Next]_vars PROVE Follows
    OBVIOUS
  <2>1. CASE Branch \/ CallReturns
    BY <2>1, GoesOnFollows
  <2>2. CASE \E f \in native : Enter(f)
    BY <2>2, EnterFollows
  <2> QED
    BY <2>1, <2>2, LiftingFollows, StayFollows, ExecuteFollows, DelayedFollows DEF Next, Finished
<1>4. Follows => [Machine!Start \/ Machine!Execute \/ Machine!Return]_
                   <<prog.code, prog.sparc, IsAt, GoesTo>>
  BY DEF Follows, MachineSteps, Stutters
<1> QED
  BY <1>1, <1>2, <1>3, <1>4, InvHolds, PTL DEF Spec, RunsTheMachine, Machine!Spec
=============================================================================
