----------------------------- MODULE RegistersMC -----------------------------
(***************************************************************************)
(* What the lifter, the optimizer and the TLS pass do to the registers     *)
(* around functions, calls and loops, and the runtime to them on the way   *)
(* between lifted and native code: programs for PreservedRegs, beside      *)
(* those of TLSLocalizeMC and the threads of MachineRuntime. A behaviour   *)
(* is one of the three; they share no variable.                            *)
(***************************************************************************)
EXTENDS TLSLocalizeMC, MachineRuntime

VARIABLES program, stage, ir, tookAway, stack, remillState, orig, truthful, visible

registerState == <<program, stage, ir, tookAway, stack, remillState, orig, truthful, visible>>

MCRegs == {"b", "c"}
I(op, r, s, to) == [op |-> op, r |-> r, s |-> s, to |-> to, keeps |-> {}, kills |-> {}]
Set(r) == I("set", r, r, 0)
Move(r, s) == I("move", r, s, 0)
Push(r) == I("push", r, r, 0)
Pop(r) == I("pop", r, r, 0)
Use(r) == I("use", r, r, 0)
Either(a) == I("branch", "b", "b", a)
Calls(keeps, kills) == [I("call", "b", "b", "g") EXCEPT !.keeps = keeps, !.kills = kills]
Jump == I("jump", "b", "b", "g")
Leave == I("tail", "b", "b", "g")
Ret(kills) == [I("return", "b", "b", 0) EXCEPT !.kills = kills]
Abort == I("abort", "b", "b", 0)

(* Functions that call g: with nothing of their own, with a register set   *)
(* and saved on the stack or in the other one, with two ends of which one  *)
(* is a tail call, and with ways that jump or do not return.               *)
Callers(sub, ret) ==
  {<<sub, ret>>,
   <<Set("b"), sub, Use("b"), ret>>,
   <<Push("b"), Set("b"), sub, Pop("b"), ret>>,
   <<Move("c", "b"), Set("b"), sub, Move("b", "c"), ret>>,
   <<sub, Move("c", "b"), Use("c"), ret>>,
   <<Push("b"), Either(5), Pop("b"), ret, Set("b"), sub, Pop("b"), Leave>>,
   <<Either(4), Set("c"), ret, sub, ret>>,
   <<Push("c"), sub, Pop("c"), Jump>>,
   <<Either(3), Abort, sub, ret>>}
Callees ==
  {<<Ret({})>>, <<Set("b"), Ret({})>>, <<Set("c"), Ret({})>>, <<Use("b"), Move("c", "b"), Ret({})>>,
   <<Push("b"), Set("b"), Pop("b"), Ret({})>>}

(* Nothing preserved, both registers at the first end or at each, or two   *)
(* sets at the first end, of which the second does not count.              *)
Kept(body) ==
  LET ends == SelectSeq([a \in DOMAIN body |-> a], LAMBDA a : body[a].op \in {"return", "jump"})
      range(k, kept) == [end |-> ends[k], regs |-> kept]
  IN  {<<>>, <<range(1, MCRegs)>>, [k \in DOMAIN ends |-> range(k, MCRegs)],
       <<range(1, {"b"}), range(1, MCRegs)>>}
CalleeKept(g) ==
  IF g = <<Set("b"), Ret({})>> THEN {<<>>} ELSE {<<>>, <<[end |-> Len(g), regs |-> {"b"}]>>}

Killings == {<<{}, {}>>, <<{"b"}, {}>>, <<{"b"}, {"c"}>>}

MCRegisterPrograms ==
  UNION {{[code |-> [f |-> f, g |-> g], ranges |-> [f |-> rf, g |-> rg], restoreAll |-> all] :
            rf \in Kept(f), rg \in CalleeKept(g), all \in IF Abort \in ToSet(f) THEN BOOLEAN ELSE {FALSE}} :
         f \in UNION {Callers(Calls(keeps, killed[1]), Ret(killed[2])) :
                        keeps \in {{}, {"b"}, MCRegs}, killed \in Killings},
         g \in Callees}

Preserved == INSTANCE PreservedRegs WITH
  Regs <- MCRegs, Main <- "f", Programs <- MCRegisterPrograms, phase <- stage,
  state <- remillState

PreservedIdle ==
  /\ stage = "idle" /\ program = <<>> /\ ir = <<>> /\ stack = <<>> /\ remillState = <<>> /\ orig = <<>>
  /\ tookAway = FALSE /\ truthful = TRUE /\ visible = {}
TLSIdle == Init /\ code = (CHOOSE p \in MCPrograms : TRUE) /\ reg = [x \in Bytes |-> 0]
NoThread == Code("idle")
RuntimeIdle ==
  /\ rip = NoThread /\ regs = <<>> /\ rsp = 0 /\ state = <<>> /\ stateRSP = 0 /\ mem = <<>>
  /\ acts = <<>> /\ calls = 0 /\ passed = Nothing

RegistersInit ==
  \/ Init /\ PreservedIdle /\ RuntimeIdle
  \/ TLSIdle /\ Preserved!Init /\ RuntimeIdle
  \/ TLSIdle /\ PreservedIdle /\ RuntimeInit
RegistersNext ==
  \/ stage = "idle" /\ rip = NoThread /\ Next /\ UNCHANGED <<registerState, runtimeVars>>
  \/ Preserved!Next /\ UNCHANGED <<vars, runtimeVars>>
  \/ rip # NoThread /\ RuntimeNext /\ UNCHANGED <<vars, registerState>>

RegistersSpec == RegistersInit /\ [][RegistersNext]_<<vars, registerState, runtimeVars>>

(* Callees, callers and uses see the original's registers, whatever is     *)
(* saved, restored, killed and taken out again; see PreservedRegs.         *)
Transparent == Preserved!Transparent
=============================================================================
