---------------------------- MODULE PreservedRegs ----------------------------
(***************************************************************************)
(* Registers that the CFG says are preserved or dead. The lifter saves and *)
(* restores them around functions and calls and writes a mark to the dead  *)
(* ones (src/mcsema/BC/Function.cpp), so that LLVM sees what it may ignore;*)
(* then the optimizer takes the restores and marks out again (RemoveDead-  *)
(* Restores and RemoveKilledStores, src/mcsema/BC/Optimize.cpp).           *)
(*                                                                         *)
(* A behaviour lifts and optimizes a program and runs the original beside  *)
(* the result. An instruction is at its place in its function, a block is  *)
(* what is lifted of one, block 0 is the entry. A value is <<kind, place,  *)
(* name>>: what an operation computes in the lifted code, or the thing     *)
(* itself when it runs.                                                    *)
(***************************************************************************)
EXTENDS Integers, Sequences, SequencesExt, FiniteSets, TLC

CONSTANTS
  Regs,           \* registers, functions and kinds are strings
  Main,
  Programs        \* [code, ranges, restoreAll]: see Instr, First

VARIABLES
  program,
  phase,
  ir,             \* function |-> block |-> [ops, to]
  tookAway,       \* a store of the program's own was removed with a restore
  stack,          \* the functions that run, outermost first
  state,          \* the registers in the lifted program
  orig,           \* and in the original
  truthful,       \* what the CFG says was so, so far
  visible         \* what callees, callers and uses saw: <<lifted, original>>

vars == <<program, phase, ir, tookAway, stack, state, orig, truthful, visible>>

(* r and s are registers, to is a callee or where a branch leads; keeps    *)
(* and kills are the registers preserved around and killed at it. An       *)
(* invoke is a call that keeps nothing; tail calls and indirect jumps call *)
(* and return.                                                             *)
Instr(op, r, s, to, keeps, kills) ==
  [op |-> op, r |-> r, s |-> s, to |-> to, keeps |-> keeps, kills |-> kills]

Functions == DOMAIN program.code
Places(f) == DOMAIN program.code[f]
At(f, a) == program.code[f][a]

Kill == <<"kill", 0, "">>
Dead == <<"dead", 0, "">>
Unknown == <<"unknown", 0, "">>
-----------------------------------------------------------------------------
(* The registers preserved at the ends of a function: of two sets for one  *)
(* end the first counts. Where there is none, an end that must restore     *)
(* takes any.                                                              *)
Ends(f) == {range.end : range \in ToSet(program.ranges[f])}
First(f, a) == SelectSeq(program.ranges[f], LAMBDA range : range.end = a)[1].regs
LiftFuncRestoredRegs(f, a, force) ==
  IF a \in Ends(f) THEN {First(f, a)}
  ELSE IF force /\ Ends(f) # {} THEN {First(f, e) : e \in Ends(f)}
  ELSE {{}}

(* When a tail call is lifted, the instruction is still the one that was   *)
(* decoded last, wherever that was.                                        *)
SetsAt(f, a) ==
  CASE At(f, a).op = "return" -> LiftFuncRestoredRegs(f, a, FALSE)
    [] At(f, a).op = "jump" -> LiftFuncRestoredRegs(f, a, TRUE)
    [] At(f, a).op = "tail" ->
         UNION {LiftFuncRestoredRegs(f, last, TRUE) : last \in Places(f)}
    [] OTHER -> {{}}

Op(op, reg, id, val, by) == [op |-> op, reg |-> reg, id |-> id, val |-> val, by |-> by]
Load(r, id) == Op("load", r, id, Unknown, "")
Store(r, val, by) == Op("store", r, Unknown, val, by)
Do(op, id, val) == Op(op, "", id, val, "")
Each(regs, make(_)) ==
  LET order == SetToSeq(regs) IN FlattenSeq([k \in DOMAIN order |-> make(order[k])])

LiftSavedRegs(a, regs) == Each(regs, LAMBDA r : <<Load(r, <<"saved", a, r>>)>>)
LiftRestoredRegs(a, regs) ==
  Reverse(Each(regs, LAMBDA r : <<Store(r, <<"saved", a, r>>, "call")>>))
LiftKilledRegs(regs) == Each(regs, LAMBDA r : <<Store(r, Kill, "kill")>>)

(* SaveAndRestoreFunctionPreservedRegs: a load in the entry block, and at  *)
(* the end one of the latest value with the restorer's call and its store. *)
SavedAtEntry(a, regs) == Each(regs, LAMBDA r : <<Load(r, <<"entry", a, r>>)>>)
RestoredAtEnd(a, regs) ==
  Each(regs, LAMBDA r : <<Load(r, <<"latest", a, r>>),
                          Op("restore", r, <<"latest", a, r>>, <<"entry", a, r>>, "restore")>>)

LiftInst(f, a, preserved) ==
  LET i == At(f, a)
      read == <<"read", a, i.s>>
      Block(ops, to) == [ops |-> ops, to |-> to]
      next == {a + 1}
  IN CASE i.op = "set" -> Block(<<Store(i.r, <<"const", a, f>>, "program")>>, next)
       [] i.op = "move" -> Block(<<Load(i.s, read), Store(i.r, read, "program")>>, next)
       [] i.op = "push" -> Block(<<Load(i.s, read), Do("push", Unknown, read)>>, next)
       [] i.op = "pop" -> Block(<<Do("pop", read, Unknown), Store(i.r, read, "program")>>, next)
       [] i.op = "use" -> Block(<<Load(i.s, read), Do("use", Unknown, read)>>, next)
       [] i.op = "branch" -> Block(<<>>, next \cup {i.to})
       [] i.op = "abort" -> Block(<<>>, {})
       [] i.op = "call" ->
            Block(LiftSavedRegs(a, i.keeps) \o LiftKilledRegs(i.kills)
                    \o <<Do("call", Unknown, Unknown)>> \o LiftRestoredRegs(a, i.keeps), next)
       [] i.op \in {"tail", "jump"} ->
            Block(<<Do("call", Unknown, Unknown)>> \o RestoredAtEnd(a, preserved), {})
       [] i.op = "return" -> Block(RestoredAtEnd(a, preserved) \o LiftKilledRegs(i.kills), {})

Tails == {x \in Functions \X UNION {Places(f) : f \in Functions} :
            x[2] \in Places(x[1]) /\ At(x[1], x[2]).op \in {"tail", "jump"}}
LiftFunction(f, atTails) ==
  LET preserved(a) ==
        IF <<f, a>> \in Tails THEN atTails[<<f, a>>] ELSE CHOOSE regs \in SetsAt(f, a) : TRUE
  IN  [a \in {0} \cup Places(f) |->
         IF a = 0
         THEN [ops |-> FlattenSeq([e \in Places(f) |-> SavedAtEntry(e, preserved(e))]), to |-> {1}]
         ELSE LiftInst(f, a, preserved(a))]
-----------------------------------------------------------------------------
(* What LLVM may do: put a value that is known in the place of a load, and *)
(* drop stores that are overwritten before anyone can read them.           *)

(* What register r is known to hold before the k-th operation of block a.  *)
(* A restorer reads and writes no memory: its store is of one register.    *)
RECURSIVE Held(_, _, _, _, _)
Held(c, seen, r, a, k) ==
  IF k = 1
  THEN LET before == {Held(c, seen, r, p, Len(c[p].ops) + 1) : p \in {b \in DOMAIN c : a \in c[b].to}}
       IN  IF \E v \in before : before = {v} THEN CHOOSE v \in before : TRUE ELSE Unknown
  ELSE LET op == c[a].ops[k - 1]
           earlier == Held(c, seen, r, a, k - 1)
       IN  CASE op.op = "call" \/ (op.op = "restore" /\ op.reg = r) -> Unknown
             [] op.op = "load" /\ op.reg = r ->
                  IF r \in seen /\ earlier # Unknown THEN earlier ELSE op.id
             [] op.op = "store" /\ op.reg = r -> op.val
             [] OTHER -> earlier

Instructions(c) == UNION {{<<a, k>> : k \in DOMAIN c[a].ops} : a \in DOMAIN c}
OpAt(c, x) == c[x[1]].ops[x[2]]

RECURSIVE Forwarded(_, _, _)
Forwarded(c, seen, v) ==
  LET loads == {x \in Instructions(c) : OpAt(c, x).op = "load" /\ OpAt(c, x).id = v /\ OpAt(c, x).reg \in seen}
  IN  IF loads = {} THEN v
      ELSE LET x == CHOOSE y \in loads : TRUE
               w == Held(c, seen, OpAt(c, x).reg, x[1], x[2])
           IN  IF w = Unknown THEN v ELSE Forwarded(c, seen, w)

Forward(c, seen) ==
  [a \in DOMAIN c |-> [c[a] EXCEPT !.ops = [k \in DOMAIN @ |->
     [@[k] EXCEPT !.val = Forwarded(c, seen, @),
                  !.id = IF c[a].ops[k].op = "restore" THEN Forwarded(c, seen, @) ELSE @]]]]

Keep(c, Test(_, _, _)) ==
  [a \in DOMAIN c |-> [c[a] EXCEPT !.ops =
     LET kept == SelectSeq([k \in DOMAIN @ |-> k], LAMBDA k : Test(@[k], a, k))
     IN  [j \in DOMAIN kept |-> c[a].ops[kept[j]]]]]

Used(c) == UNION {{OpAt(c, x).val} \cup (IF OpAt(c, x).op = "restore" THEN {OpAt(c, x).id} ELSE {}) :
                    x \in Instructions(c)}
NoDeadLoads(c) == Keep(c, LAMBDA op, a, k : op.op # "load" \/ op.id \in Used(c))

RECURSIVE Overwritten(_, _, _, _)
Overwritten(c, r, a, k) ==
  IF k > Len(c[a].ops) THEN c[a].to # {} /\ \A b \in c[a].to : Overwritten(c, r, b, 1)
  ELSE LET op == c[a].ops[k] IN
       CASE op.op = "call" -> FALSE
         [] op.reg = r -> op.op = "store"
         [] OTHER -> Overwritten(c, r, a, k + 1)
NoDeadStores(c) == Keep(c, LAMBDA op, a, k : op.op # "store" \/ ~Overwritten(c, op.reg, a, k + 1))

Optimized(c, seen, sweep) ==
  LET forward == NoDeadLoads(Forward(c, seen)) IN IF sweep THEN NoDeadStores(forward) ELSE forward
-----------------------------------------------------------------------------
(* A restore whose two arguments are one value is removed, and with it the *)
(* stores of that value to its own register; the others become stores.     *)
HasUnreachable(f) == \E a \in Places(f) : At(f, a).op = "abort"
IsDead(f, op) ==
  op.op = "restore" /\ op.val = op.id /\ ~(program.restoreAll /\ HasUnreachable(f))
DeadRestores(f, c) == {OpAt(c, x) : x \in {y \in Instructions(c) : IsDead(f, OpAt(c, y))}}

Stores(c) == {OpAt(c, x) : x \in {y \in Instructions(c) : OpAt(c, y).op = "store"}}

\* mutant: whatever register the value is stored to.
StoresBackAny(f, c) ==
  {op \in Stores(c) : \E dead \in DeadRestores(f, c) : op.val = dead.val}
StoresBack(f, c) ==
  {op \in Stores(c) : \E dead \in DeadRestores(f, c) : op.val = dead.val /\ op.reg = dead.reg}

(* The program moves a register back itself that is restored for nothing.  *)
OwnMoveBack(f, c) ==
  \E op \in Stores(c), dead \in DeadRestores(f, c) :
    op.by = "program" /\ op.val = dead.val /\ op.reg = dead.reg

WithoutDeadRestores(f, c) ==
  LET rest == Keep(c, LAMBDA op, a, k : op \notin StoresBack(f, c) \cup DeadRestores(f, c)) IN
  [a \in DOMAIN rest |-> [rest[a] EXCEPT !.ops = [k \in DOMAIN @ |->
     IF @[k].op = "restore" THEN Store(@[k].reg, @[k].val, "restore") ELSE @[k]]]]
NeedsRestores(f, c) == \E x \in Instructions(c) : OpAt(c, x).op = "restore" /\ ~IsDead(f, OpAt(c, x))

WithoutKills(c) == Keep(c, LAMBDA op, a, k : op.op # "store" \/ op.val # Kill)

running == <<stack, state, orig, truthful, visible>>

LiftModule ==
  /\ phase = "lift"
  /\ \E atTails \in [Tails -> SUBSET Regs] :
       /\ \A x \in Tails : atTails[x] \in SetsAt(x[1], x[2])
       /\ ir' = [f \in Functions |-> LiftFunction(f, atTails)]
  /\ phase' = "optimize"
  /\ UNCHANGED <<program, tookAway, running>>

Optimize ==
  /\ phase \in {"optimize", "again"}
  /\ \E seen \in SUBSET Regs, sweep \in BOOLEAN :
       ir' = [f \in Functions |-> Optimized(ir[f], seen, sweep)]
  /\ phase' = IF phase = "optimize" THEN "restores" ELSE "kills"
  /\ UNCHANGED <<program, tookAway, running>>

RemoveDeadRestores ==
  /\ phase = "restores"
  /\ ir' = [f \in Functions |-> WithoutDeadRestores(f, ir[f])]
  /\ tookAway' = \E f \in Functions : OwnMoveBack(f, ir[f])
  /\ phase' = IF \E f \in Functions : NeedsRestores(f, ir[f]) THEN "again" ELSE "kills"
  /\ UNCHANGED <<program, running>>

RemoveKilledStores ==
  /\ phase = "kills"
  /\ ir' = [f \in Functions |-> WithoutKills(ir[f])]
  /\ phase' = "run"
  /\ UNCHANGED <<program, tookAway, running>>
-----------------------------------------------------------------------------
(* The original and the lifted program run the same way.                   *)

Activation(f) ==
  [f |-> f, at |-> 0, k |-> 1, vals |-> <<>>, mem |-> <<>>,
   origMem |-> <<>>, entered |-> orig', before |-> orig']
Top == Last(stack)
Here == At(Top.f, Top.at)
Ops == ir[Top.f][Top.at].ops
Todo == SubSeq(Ops, Top.k, Len(Ops))
CallAt == SelectInSubSeq(Ops, Top.k, Len(Ops), LAMBDA op : op.op = "call")

Value(e, v) == IF v \in DOMAIN e.vals THEN e.vals[v] ELSE v
Exec(e, op) ==
  CASE op.op = "load" -> [e EXCEPT !.vals = (op.id :> e.state[op.reg]) @@ @]
    [] op.op = "store" -> [e EXCEPT !.state[op.reg] = Value(e, op.val)]
    [] op.op = "push" -> [e EXCEPT !.mem = Append(@, Value(e, op.val))]
    [] op.op = "pop" -> [e EXCEPT !.vals = (op.id :> Last(e.mem)) @@ @, !.mem = Front(@)]
    [] op.op = "use" -> [e EXCEPT !.shown = Value(e, op.val)]
    [] OTHER -> e
After(ops) ==
  FoldLeft(Exec, [state |-> state, vals |-> Top.vals, mem |-> Top.mem, shown |-> Unknown], ops)

Changed(e, more) ==
  [stack EXCEPT ![Len(stack)] = more @@ [vals |-> e.vals, mem |-> e.mem] @@ @]

Killed(regs) == [r \in Regs |-> IF r \in regs THEN Dead ELSE orig[r]]
AllShown == {<<state'[r], orig'[r]>> : r \in Regs}

(* The registers a function preserves at an end, had it any choice.        *)
KeptAt(f, a) == UNION SetsAt(f, a)
KeepsAt(f, a) == \A r \in KeptAt(f, a) : orig[r] = Top.entered[r]

Start ==
  /\ phase = "run" /\ stack = <<>>
  /\ phase' = "running"
  /\ UNCHANGED <<program, ir, tookAway, state, orig, truthful, visible>>
  /\ stack' = <<Activation(Main)>>

Call ==
  /\ phase = "running" /\ CallAt # 0
  /\ LET e == After(SubSeq(Ops, Top.k, CallAt - 1)) IN
     /\ state' = e.state
     /\ orig' = Killed(Here.kills)
     /\ stack' = Append(Changed(e, [k |-> CallAt + 1, before |-> orig]), Activation(Here.to))
  /\ visible' = AllShown
  /\ UNCHANGED <<program, phase, ir, tookAway, truthful>>

(* What an instruction does in the original. After a call, what it         *)
(* preserves is as it was before, unless it was dead for the callee.       *)
OrigStep ==
  LET i == Here
      Sets(r, v) == orig' = [orig EXCEPT ![r] = v]
  IN  CASE Top.at = 0 -> UNCHANGED orig
        [] i.op = "set" -> Sets(i.r, <<"const", Top.at, Top.f>>)
        [] i.op = "move" -> Sets(i.r, orig[i.s])
        [] i.op = "pop" -> Sets(i.r, Last(Top.origMem))
        [] i.op = "call" -> orig' = [r \in Regs |-> IF r \in i.keeps THEN Top.before[r] ELSE orig[r]]
        [] OTHER -> UNCHANGED orig
OrigMem ==
  CASE Top.at # 0 /\ Here.op = "push" -> Append(Top.origMem, orig[Here.s])
    [] Top.at # 0 /\ Here.op = "pop" -> Front(Top.origMem)
    [] OTHER -> Top.origMem
TruthfulHere ==
  LET i == Here IN
  CASE Top.at = 0 -> TRUE
    [] i.op = "use" -> orig[i.s] # Dead
    [] i.op = "call" ->
         \A r \in i.keeps : orig[r] = Top.before[r] \/ (r \in i.kills /\ orig[r] = Dead)
    [] OTHER -> TRUE

GoOn ==
  /\ phase = "running" /\ CallAt = 0 /\ ir[Top.f][Top.at].to # {}
  /\ LET e == After(Todo) IN
     /\ state' = e.state
     /\ \E b \in ir[Top.f][Top.at].to : stack' = Changed(e, [at |-> b, k |-> 1, origMem |-> OrigMem])
     /\ visible' = IF e.shown = Unknown THEN {} ELSE {<<e.shown, orig[Here.s]>>}
  /\ OrigStep
  /\ truthful' = (truthful /\ TruthfulHere)
  /\ UNCHANGED <<program, phase, ir, tookAway>>

Return ==
  /\ phase = "running" /\ CallAt = 0 /\ Top.at # 0 /\ Here.op \in {"return", "tail", "jump"}
  /\ state' = After(Todo).state
  /\ orig' = Killed(IF Here.op = "return" THEN Here.kills ELSE {})
  /\ stack' = Front(stack)
  /\ visible' = AllShown
  /\ truthful' = (truthful /\ KeepsAt(Top.f, Top.at))
  /\ phase' = IF Len(stack) = 1 THEN "done" ELSE phase
  /\ UNCHANGED <<program, ir, tookAway>>

Stopped ==
  /\ \/ phase = "done" \/ ~truthful
     \/ phase = "running" /\ Top.at # 0 /\ Here.op = "abort"
  /\ UNCHANGED vars

Init ==
  /\ program \in Programs
  /\ phase = "lift"
  /\ ir = <<>>
  /\ tookAway = FALSE
  /\ stack = <<>>
  /\ state = [r \in Regs |-> <<"caller", 0, r>>]
  /\ orig = state
  /\ truthful = TRUE
  /\ visible = {}

Next ==
  \/ LiftModule \/ Optimize \/ RemoveDeadRestores \/ RemoveKilledStores
  \/ truthful /\ (Start \/ Call \/ GoOn \/ Return)
  \/ Stopped

Spec == Init /\ [][Next]_vars
-----------------------------------------------------------------------------
(* However much LLVM finds out, callees, callers and every use see in the  *)
(* lifted program the registers that they see in the original, but for     *)
(* dead ones: when what the CFG says of the original is so, the restores   *)
(* and stores that are taken out (Optimize.cpp:723) were not needed. Equal *)
(* arguments are taken to mean that a register never changed (:775); a     *)
(* program that moves one away and back by itself has them too, and loses  *)
(* the move.                                                               *)
Transparent ==
  truthful /\ ~tookAway => \A shown \in visible : shown[2] = Dead \/ shown[1] = shown[2]
=============================================================================
