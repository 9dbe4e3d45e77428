---------------------------- MODULE MachineRuntime ----------------------------
(***************************************************************************)
(* The routines that take a thread between native code and lifted code on  *)
(* 64-bit Linux, as print_ELF_64_linux.cpp prints them (src/mcsema/Arch/   *)
(* X86/Runtime): __mcsema_attach_call and __mcsema_detach_ret around a     *)
(* native call of lifted code, __remill_function_call (also                *)
(* __remill_jump) and __mcsema_attach_ret around a lifted call of native   *)
(* code. Nothing runs __mcsema_exception_ret: it belongs to landing pads,  *)
(* and no program that has one is lifted (see FuncLift).                   *)
(*                                                                         *)
(* Each side has its stack and its stack pointer; the one that is not in   *)
(* use is in State::RSP. Addresses count words. A word is <<what it is,    *)
(* whose>>. The register state and the lifted stack are thread local, so   *)
(* one thread is modelled.                                                 *)
(***************************************************************************)
EXTENDS Integers, Sequences, SequencesExt

CONSTANTS
  LiftedWords,    \* kStackSize, in words
  NativeWords,    \* the room on the native stack
  MaxCalls        \* calls of a behaviour

(* Nothing in the code checks that a stack is deep enough.                 *)
ASSUME RuntimeAssumption ==
  /\ LiftedWords \in Nat /\ NativeWords \in Nat /\ MaxCalls \in Nat
  /\ LiftedWords % 2 = 0 /\ NativeWords % 2 = 0
  /\ LiftedWords >= 10 * MaxCalls + 2 /\ NativeWords >= 8 * MaxCalls + 2

VARIABLES
  regs,           \* the machine's registers
  rsp,            \* its stack pointer
  rip,            \* what it runs next
  state,          \* the same registers in State, and State::RIP
  stateRSP,       \* State::RSP
  mem,            \* both stacks
  acts,           \* the functions that are running, outermost first
  calls,          \* how many calls were made
  passed          \* what the last call or return passed

machine == <<regs, rsp, rip, mem>>
State == <<state, stateRSP>>
observed == <<acts, calls, passed>>
runtimeVars == <<machine, State, observed>>

(* The lifted stack is below the native one. A thread's first attach       *)
(* starts 16 bytes from the end of it.                                     *)
StackTop == LiftedWords
NativeBase == LiftedWords + 2
Addresses == 2 .. NativeBase + NativeWords - 1

Saved == <<"rbx", "rbp", "r12", "r13", "r14", "r15">>
IsSaved == {Saved[i] : i \in DOMAIN Saved}
(* rcx stands for every register that the routines copy and no more.       *)
Args == {"rdi", "rsi", "rdx", "rcx"}
Registers == IsSaved \cup Args \cup {"rax", "flags", "cw"}

Code(name) == <<name, 0>>
Nothing == <<"nothing", 0>>

(* A stack at top after the words are pushed on it, the first one first.   *)
Pushed(m, top, words) ==
  [a \in DOMAIN m |->
     IF a \in top - Len(words) .. top - 1 THEN words[top - a] ELSE m[a]]
Words(from, names) == [i \in DOMAIN names |-> from[names[i]]]
-----------------------------------------------------------------------------
(* What the routines share.                                                *)

(* A mutant: RDX saved after the flags went through it.                    *)
SavedLate(pc) ==
  [r \in DOMAIN state |->
     CASE r = "rip" -> pc [] r = "rdx" -> regs["flags"] [] OTHER -> regs[r]]

(* State with the machine's registers in it. PrintLoadFlags makes the      *)
(* control word, in the machine and in State, what RDX holds, and leaves   *)
(* RDX with the flags; RDX is saved before it.                             *)
Marshalled(pc) ==
  [r \in DOMAIN state |->
     CASE r = "rip" -> pc [] r = "cw" -> regs["rdx"] [] OTHER -> regs[r]]
Loaded == [regs EXCEPT !["cw"] = regs["rdx"], !["rdx"] = regs["flags"]]

(* The machine's registers from State. PrintStoreFlags stores the          *)
(* machine's control word, it does not set it.                             *)
Unmarshalled == [r \in Registers |-> IF r = "cw" THEN regs["cw"] ELSE state[r]]
ControlWordStored == [state EXCEPT !["cw"] = regs["cw"]]

(* What __remill_function_call pushes: the memory pointer twice, so that   *)
(* the stack stays aligned, the callee-saved registers, the return address *)
(* on the native stack.                                                    *)
PushedOnce == <<"rdx">> \o Saved
Pushes == <<"rdx", "rdx">> \o Saved
Stash(returnTo) == Words(regs, Pushes) \o <<returnTo>>
StashSize == Len(Pushes) + 1
-----------------------------------------------------------------------------
(* The routines.                                                           *)

(* Native code called a thunk, which pushed the lifted function and its    *)
(* original address on top of the return address. State::RSP = 0: first    *)
(* call of the thread.                                                     *)
AttachCall ==
  /\ rip = Code("attach_call")
  /\ LET top == IF stateRSP = 0 THEN StackTop ELSE stateRSP
         pc == mem[rsp]
         function == mem[rsp + 1] IN
     /\ mem' = Pushed(mem, top, <<Code("detach_ret"), function>>)
     /\ state' = Marshalled(pc)
     /\ stateRSP' = rsp + 2
     /\ regs' = [Loaded EXCEPT !["rdi"] = Code("State"), !["rsi"] = pc, !["rdx"] = Nothing,
                               !["rax"] = Code("detach_ret")]
     /\ rsp' = top - 1
     /\ rip' = function
  /\ UNCHANGED observed

(* A mutant: the emulated return is not undone.                            *)
NotUndone ==
  /\ rip = Code("detach_ret")
  /\ regs' = Unmarshalled
  /\ rip' = mem[stateRSP]
  /\ rsp' = stateRSP + 1
  /\ stateRSP' = rsp
  /\ UNCHANGED <<state, mem, observed>>

(* The lifted function returned. State::RSP is past the return address     *)
(* that the lifted code emulated a return to.                              *)
DetachRet ==
  /\ rip = Code("detach_ret")
  /\ regs' = Unmarshalled
  /\ state' = ControlWordStored
  /\ rip' = mem[stateRSP - 1]
  /\ rsp' = stateRSP
  /\ stateRSP' = rsp
  /\ UNCHANGED <<mem, observed>>

(* Lifted code calls or jumps to what it has no code for, RSI. The return  *)
(* address that the lifted code emulated a push of makes way for the       *)
(* routine that comes back.                                                *)
FunctionCall ==
  /\ rip = Code("function_call")
  /\ mem' = [Pushed(mem, rsp, Stash(mem[stateRSP])) EXCEPT
               ![stateRSP] = Code("attach_ret"), ![stateRSP - 1] = regs["rsi"]]
  /\ regs' = Unmarshalled
  /\ state' = ControlWordStored
  /\ rip' = regs["rsi"]
  /\ rsp' = stateRSP
  /\ stateRSP' = rsp - StashSize
  /\ UNCHANGED observed

(* It returned: back to the lifted stack.                                  *)
AttachRet ==
  /\ rip = Code("attach_ret")
  /\ LET top == stateRSP
         unstashed(r) == mem[top + StashSize - SelectInSeq(Pushes, LAMBDA x : x = r)] IN
     /\ state' = Marshalled(mem[top])
     /\ regs' = [r \in Registers |->
                   CASE r \in IsSaved -> unstashed(r)
                     [] r = "rax" -> unstashed("rdx")
                     [] r = "rdi" -> Code("State")
                     [] OTHER -> Loaded[r]]
     /\ rip' = mem[top + StashSize]
     /\ rsp' = top + StashSize + 1
     /\ stateRSP' = rsp
  /\ UNCHANGED <<mem, observed>>

-----------------------------------------------------------------------------
(* The code on both sides, which calls by the same convention: arguments   *)
(* in registers, RAX for the result, six registers kept. What a function   *)
(* keeps in them: its own value in each, and for a lifted function also in *)
(* those of State.                                                         *)

Own(kind, id, r) == <<kind, 10 * id + SelectInSeq(Saved, LAMBDA x : x = r)>>
Keeps(kind, id, from) ==
  [r \in DOMAIN from |-> IF r \in IsSaved THEN Own(kind, id, r) ELSE from[r]]
Passes(what, from) == [r \in DOMAIN from |-> IF r \in Args THEN what ELSE from[r]]

RunningFunction == Last(acts)
Runs(kind) == rip = <<kind, RunningFunction.id>> /\ RunningFunction.kind = kind
CanCall == calls < MaxCalls
Argument == <<"argument", calls + 1>>
Result == <<"result", RunningFunction.id>>

(* A frame: the registers its function keeps, and a word that leaves the   *)
(* stack aligned.                                                          *)
Frame(from) == Words(from, Saved) \o <<Nothing>>
FrameSize == Len(Saved) + 1
Framed(at, from) ==
  [r \in DOMAIN from |->
     IF r \in IsSaved
     THEN mem[at + FrameSize - SelectInSeq(Saved, LAMBDA x : x = r)] ELSE from[r]]

EnterFunction(kind) ==
  /\ acts' = Append(acts, [id |-> calls, kind |-> kind, rsp |-> rsp - FrameSize,
       emulated |-> IF kind = "lifted" THEN stateRSP - FrameSize ELSE 0])
  /\ regs' = Keeps(kind, calls, regs)
  /\ rsp' = rsp - FrameSize
  /\ rip' = <<kind, calls>>
  /\ passed' = Nothing
  /\ UNCHANGED calls

NativeEntry ==
  /\ rip = Code("target")
  /\ EnterFunction("native")
  /\ mem' = Pushed(mem, rsp, Frame(regs))
  /\ UNCHANGED State

(* A lifted function has a frame on the lifted stack, and the one that the *)
(* original has on its.                                                    *)
LiftedEntry ==
  /\ rip = Code("function")
  /\ EnterFunction("lifted")
  /\ mem' = Pushed(Pushed(mem, rsp, Frame(regs)), stateRSP, Frame(state))
  /\ state' = Keeps("original", calls, state)
  /\ stateRSP' = stateRSP - FrameSize

(* Through the thunk of a lifted function.                                 *)
NativeCalls ==
  /\ Runs("native") /\ CanCall
  /\ mem' = Pushed(mem, rsp, <<rip, Code("function"), Code("ea")>>)
  /\ rsp' = rsp - 3
  /\ rip' = Code("attach_call")
  /\ regs' = Passes(Argument, regs)
  /\ calls' = calls + 1
  /\ passed' = Argument
  /\ UNCHANGED <<State, acts>>

NativeReturns ==
  /\ Runs("native") /\ Len(acts) > 1
  /\ acts' = Front(acts)
  /\ regs' = [Framed(rsp, regs) EXCEPT !["rax"] = Result]
  /\ rip' = mem[rsp + FrameSize]
  /\ rsp' = rsp + FrameSize + 1
  /\ passed' = Result
  /\ UNCHANGED <<State, mem, calls>>

(* A call pushes the original's return address on the native stack.        *)
LiftedCalls(to) ==
  /\ Runs("lifted") /\ CanCall
  /\ mem' = Pushed(Pushed(mem, rsp, <<rip>>), stateRSP, <<<<"original", RunningFunction.id>>>>)
  /\ rsp' = rsp - 1
  /\ stateRSP' = stateRSP - 1
  /\ state' = Passes(Argument, state)
  /\ regs' = [regs EXCEPT !["rdi"] = Code("State"), !["rsi"] = Code("target"),
                          !["rdx"] = Code("memory")]
  /\ rip' = Code(to)
  /\ calls' = calls + 1
  /\ passed' = Argument
  /\ UNCHANGED acts

(* The function's frames are gone and its returns, emulated and real, are  *)
(* next.                                                                   *)
LeavesFrames ==
  /\ acts' = Front(acts)
  /\ mem' = mem

LiftedReturns ==
  /\ Runs("lifted")
  /\ LeavesFrames
  /\ state' = [Framed(stateRSP, state) EXCEPT !["rip"] = mem[stateRSP + FrameSize],
                                              !["rax"] = Result]
  /\ stateRSP' = stateRSP + FrameSize + 1
  /\ regs' = [Framed(rsp, regs) EXCEPT !["rax"] = Code("memory")]
  /\ rip' = mem[rsp + FrameSize]
  /\ rsp' = rsp + FrameSize + 1
  /\ passed' = Result
  /\ UNCHANGED calls

(* A jump to what has no lifted code ends its function, as a tail call, of *)
(* a function that lifted code called. (What becomes of one that native    *)
(* code called is in the README.)                                          *)
CalledByLifted == acts[Len(acts) - 1].kind = "lifted"

LiftedJumps ==
  /\ Runs("lifted") /\ CanCall /\ CalledByLifted
  /\ LeavesFrames
  /\ state' = Passes(Argument, Framed(stateRSP, state))
  /\ stateRSP' = stateRSP + FrameSize
  /\ regs' = [Framed(rsp, regs) EXCEPT !["rdi"] = Code("State"), !["rsi"] = Code("target"),
                                       !["rdx"] = Code("memory")]
  /\ rip' = Code("function_call")
  /\ rsp' = rsp + FrameSize
  /\ calls' = calls + 1
  /\ passed' = Argument

Finished == Runs("native") /\ Len(acts) = 1 /\ ~CanCall /\ UNCHANGED runtimeVars
-----------------------------------------------------------------------------
(* A thread starts in native code.                                         *)
RuntimeInit ==
  /\ regs = Keeps("native", 0, [r \in Registers |-> Nothing])
  /\ rsp = NativeBase + NativeWords - 2
  /\ rip = <<"native", 0>>
  /\ state = [r \in Registers \cup {"rip"} |-> Nothing]
  /\ stateRSP = 0
  /\ mem = [a \in Addresses |-> Nothing]
  /\ acts = <<[id |-> 0, kind |-> "native", rsp |-> rsp, emulated |-> 0]>>
  /\ calls = 0
  /\ passed = Nothing

RuntimeNext ==
  \/ AttachCall \/ DetachRet \/ FunctionCall \/ AttachRet
  \/ NativeEntry \/ NativeCalls \/ NativeReturns
  \/ LiftedEntry \/ LiftedReturns \/ LiftedJumps
  \/ \E to \in {"function_call", "function"} : LiftedCalls(to)
  \/ Finished

RuntimeSpec == RuntimeInit /\ [][RuntimeNext]_runtimeVars
-----------------------------------------------------------------------------
(* A thread that is in no lifted function has the whole lifted stack for   *)
(* the next one, whatever calls and jumps it has behind it.                *)
StackContinues ==
  (rip[1] = "native" /\ \A i \in DOMAIN acts : acts[i].kind = "native")
    => stateRSP \in {0, StackTop}

(* Both stacks are aligned to 16 bytes where a function is called, however *)
(* deep: the lifted code and the native code use aligned vector moves.     *)
Aligned ==
  /\ rip = Code("function") => rsp % 2 = 1 /\ stateRSP % 2 = 1
  /\ rip = Code("target") => rsp % 2 = 1

(* Control and what a function keeps come back to it: whatever the calls   *)
(* between, the code that runs is the innermost function's, on its own     *)
(* stack pointer and with its own values in the registers it keeps; for a  *)
(* lifted function State also has the original's. Nothing is left on the   *)
(* lifted stack (__mcsema_detach_ret, __mcsema_attach_ret), and every      *)
(* function is called on an aligned one. Tail jumps are those that         *)
(* LiftedJumps makes, of functions that lifted code called.                *)
RunningIntact ==
  LET a == RunningFunction IN
  /\ rip[1] \notin {"original", "ea", "State", "memory", "nothing", "result", "argument"}
  /\ rip[1] \in {"native", "lifted"} =>
       /\ rip = <<a.kind, a.id>>
       /\ rsp = a.rsp
       /\ \A r \in IsSaved : regs[r] = Own(a.kind, a.id, r)
  /\ rip[1] = "lifted" =>
       /\ stateRSP = a.emulated
       /\ \A r \in IsSaved : state[r] = Own("original", a.id, r)
  /\ StackContinues
  /\ Aligned

(* What a caller passes is what the function it called gets, and what that *)
(* returns is what the caller gets, across every crossing: RDI, RSI and    *)
(* RDX carry arguments, and the routines work in them.                     *)
ValuesCarried ==
  /\ (rip = Code("function") /\ passed # Nothing) => \A r \in Args : state[r] = passed
  /\ (rip = Code("target") /\ passed # Nothing) => \A r \in Args : regs[r] = passed
  /\ (rip[1] = "native" /\ passed[1] = "result") => regs["rax"] = passed
  /\ (rip[1] = "lifted" /\ passed[1] = "result") => state["rax"] = passed
=============================================================================
