----------------------------- MODULE NativeEntry -----------------------------
(***************************************************************************)
(* Threads that enter a lifted module from native code: by the entry point *)
(* of --explicit_args, which sets up a thread's State the first time and   *)
(* runs the early initializer then, or by the wrapper of a callback, which *)
(* runs it every time (src/mcsema/BC/Callback.cpp); and lifted code that   *)
(* calls native code (FunctionDecl::CallFromLiftedBlock, src/anvill/src/   *)
(* Decl.cpp), which may enter again.                                       *)
(*                                                                         *)
(* Threads interleave at the test, each store and the end of the early     *)
(* initializer, whose guard is one variable for all of them.               *)
(***************************************************************************)
EXTENDS DataSegments

CONSTANTS
  Threads,
  StackTop,       \* InitialStackPointerValue
  MaxEntries      \* how often a thread enters

ASSUME EntryAssumption == StackTop \in Nat /\ MaxEntries \in Nat /\ StackTop > 4 * MaxEntries

VARIABLES
  pc,             \* thread |-> where it is
  step,           \* thread |-> the next store of the initializer
  entries,        \* thread |-> how often it entered
  rsp,            \* thread |-> State::RSP
  frames,         \* thread |-> its lifted functions, outermost first, each with how
                  \* many entries from its call of native code returned
  cells,          \* what the cross-references of the image hold now
  guard,          \* check_var of __mcsema_early_init
  wrote,          \* the cells that lifted code wrote
  raced           \* two threads were in the early initializer

run == <<pc, step, entries, rsp, frames, cells, guard, wrote, raced>>
vars == <<build, run>>

(* A thread-local segment has a copy for each thread.                      *)
Nobody == "nobody"
Cell(t, x) == <<IF Seg(x[1]).tls THEN t ELSE Nobody, x>>
Cells == {Cell(t, x) : t \in Threads, x \in Xrefs}

Go(t, from, to) == pc[t] = from /\ pc' = [pc EXCEPT ![t] = to]
-----------------------------------------------------------------------------
(* Native code calls an entry point or a callback's wrapper: at first, or  *)
(* from inside a call that lifted code made. Only the former sets State up *)
(* (ImplementExplicitArgsEntryPoint, ImplementNativeToLiftedCallback).     *)
Enter(t, from) ==
  /\ phase = "loaded" /\ entries[t] < MaxEntries
  /\ Go(t, "native", from)
  /\ entries' = [entries EXCEPT ![t] = @ + 1]
  /\ UNCHANGED <<build, step, rsp, frames, cells, guard, wrote, raced>>
EnterEntryPoint(t) == cfg.explicit /\ Enter(t, "verify")
EnterCallback(t) == ~cfg.explicit /\ Enter(t, "test")

(* __mcsema_init_reg_state. State is zero in a new thread.                 *)
VerifyAlways(t) ==
  /\ Go(t, "verify", "test")
  /\ rsp' = [rsp EXCEPT ![t] = StackTop]
  /\ UNCHANGED <<build, step, entries, frames, cells, guard, wrote, raced>>
VerifyRegState(t) ==
  /\ IF rsp[t] = 0
     THEN Go(t, "verify", "test") /\ rsp' = [rsp EXCEPT ![t] = StackTop]
     ELSE Go(t, "verify", "call") /\ UNCHANGED rsp
  /\ UNCHANGED <<build, step, entries, frames, cells, guard, wrote, raced>>

(* __mcsema_early_init: the test, the stores, the guard.                   *)
GuardFirst(t) ==
  /\ IF guard THEN Go(t, "test", "call") /\ UNCHANGED <<step, guard, raced>>
     ELSE /\ Go(t, "test", "store")
          /\ step' = [step EXCEPT ![t] = 1]
          /\ guard' = TRUE
          /\ raced' = (raced \/ \E u \in Threads : pc[u] = "store")
  /\ UNCHANGED <<build, entries, rsp, frames, cells, wrote>>
TestGuard(t) ==
  /\ IF guard THEN Go(t, "test", "call") /\ UNCHANGED <<step, raced>>
     ELSE /\ Go(t, "test", "store")
          /\ step' = [step EXCEPT ![t] = 1]
          /\ raced' = (raced \/ \E u \in Threads : pc[u] = "store")
  /\ UNCHANGED <<build, entries, rsp, frames, cells, guard, wrote>>

InitXref(t) ==
  /\ pc[t] = "store" /\ step[t] <= Len(initCode)
  /\ cells' = [cells EXCEPT ![Cell(t, initCode[step[t]])] = "target"]
  /\ step' = [step EXCEPT ![t] = @ + 1]
  /\ UNCHANGED <<build, pc, entries, rsp, frames, guard, wrote, raced>>

NoGuard(t) ==
  /\ step[t] > Len(initCode)
  /\ Go(t, "store", "call")
  /\ UNCHANGED <<build, step, entries, rsp, frames, cells, guard, wrote, raced>>
SetGuard(t) ==
  /\ step[t] > Len(initCode)
  /\ Go(t, "store", "call")
  /\ guard' = TRUE
  /\ UNCHANGED <<build, step, entries, rsp, frames, cells, wrote, raced>>

(* The entry point pushes no return address; the function takes what is at *)
(* the stack pointer for one, and has one word of its own below it. A      *)
(* callback's stack is the native one, which MachineRuntime is about.      *)
CallLifted(t) ==
  /\ Go(t, "call", "lifted")
  /\ LET own == IF cfg.explicit THEN rsp[t] - 1 ELSE 0 IN
     /\ frames' = [frames EXCEPT ![t] =
                     Append(@, [top |-> rsp[t], rsp |-> own, onExit |-> 0, returned |-> 0])]
     /\ rsp' = [rsp EXCEPT ![t] = own]
  /\ UNCHANGED <<build, step, entries, cells, guard, wrote, raced>>

(* The frame below the last one's call, with one more entry that returned. *)
Counted(below) ==
  IF below = <<>> THEN below
  ELSE Append(Front(below), [Last(below) EXCEPT !.returned = @ + 1])

(* The original's return takes a return address off that no one pushed.    *)
LiftedReturns(t) ==
  /\ Go(t, "lifted", "native")
  /\ rsp' = [rsp EXCEPT ![t] = IF cfg.explicit THEN Last(frames[t]).top + 1 ELSE 0]
  /\ frames' = [frames EXCEPT ![t] = Counted(Front(@))]
  /\ UNCHANGED <<build, step, entries, cells, guard, wrote, raced>>

Writes(t, x) ==
  /\ pc[t] = "lifted" /\ ~Seg(x[1]).readOnly
  /\ cells' = [cells EXCEPT ![Cell(t, x)] = "written"]
  /\ wrote' = wrote \cup {Cell(t, x)}
  /\ UNCHANGED <<build, pc, step, entries, rsp, frames, guard, raced>>

(* A call pushes its return address; the exit point computes where the     *)
(* stack pointer is after the return before it calls, and puts it there    *)
(* after it.                                                               *)
CallNative(t) ==
  /\ Go(t, "lifted", "native")
  /\ entries[t] < MaxEntries
  /\ rsp' = [rsp EXCEPT ![t] = IF cfg.explicit THEN @ - 1 ELSE 0]
  /\ frames' = [frames EXCEPT ![t] =
                  Append(Front(@), [Last(@) EXCEPT !.onExit = rsp'[t] + 1, !.returned = 0])]
  /\ UNCHANGED <<build, step, entries, cells, guard, wrote, raced>>

NativeReturns(t) ==
  /\ frames[t] # <<>>
  /\ Go(t, "native", "lifted")
  /\ rsp' = [rsp EXCEPT ![t] = IF cfg.explicit THEN Last(frames[t]).onExit ELSE 0]
  /\ UNCHANGED <<build, step, entries, frames, cells, guard, wrote, raced>>
-----------------------------------------------------------------------------
Init ==
  /\ BuildInit
  /\ pc = [t \in Threads |-> "native"]
  /\ step = [t \in Threads |-> 0]
  /\ entries = [t \in Threads |-> 0]
  /\ rsp = [t \in Threads |-> 0]
  /\ frames = [t \in Threads |-> <<>>]
  /\ cells = [c \in Cells |-> "unset"]
  /\ guard = FALSE
  /\ wrote = {}
  /\ raced = FALSE

(* The loader puts the image in memory.                                    *)
Load ==
  /\ Link
  /\ cells' = [c \in Cells |-> image[c[2]]]
  /\ UNCHANGED <<pc, step, entries, rsp, frames, guard, wrote, raced>>

Idle ==
  /\ phase = "fatal" \/ \A t \in Threads : pc[t] = "native" /\ entries[t] = MaxEntries
  /\ UNCHANGED vars

Run(t) ==
  \/ EnterEntryPoint(t) \/ EnterCallback(t) \/ VerifyRegState(t)
  \/ TestGuard(t) \/ InitXref(t) \/ SetGuard(t)
  \/ CallLifted(t) \/ LiftedReturns(t)
  \/ CallNative(t) \/ NativeReturns(t)
  \/ \E x \in Xrefs : Writes(t, x)

Next ==
  \/ LiftCodeIntoModule /\ UNCHANGED run
  \/ Load
  \/ \E t \in Threads : Run(t)
  \/ Idle

Spec == Init /\ [][Next]_vars
-----------------------------------------------------------------------------
(* "make sure all lazy cross-reference initializers have been installed    *)
(* before any lifted bitcode is executed" (Callback.cpp:509): no thread is *)
(* in lifted code while a cross-reference outside thread-local segments is *)
(* not written yet, however threads meet in the early initializer. Those   *)
(* of a thread-local segment stay null for all threads but the first.      *)
CodeSeesTargets ==
  \A t \in Threads : pc[t] = "lifted" =>
    \A x \in Xrefs : (~Seg(x[1]).tls /\ ~Xref(x).null) => cells[Cell(t, x)] # "null"

(* The program may overwrite a cross-reference; no entry of a later thread *)
(* or callback undoes that, unless two threads were in the early           *)
(* initializer at once, which its guard does not prevent.                  *)
WritesSurvive == ~raced => \A c \in wrote : cells[c] = "written"

(* With --explicit_args, each lifted function of a thread finds the stack  *)
(* pointer where it left it, whatever its native calls entered again. A    *)
(* function entered from such a call has words of its own below it if it   *)
(* is the first that was, and starts one word higher for each before it.   *)
FramesKept ==
  cfg.explicit => \A t \in Threads :
    /\ pc[t] = "lifted" => rsp[t] = Last(frames[t]).rsp
    /\ \A i \in 1 .. Len(frames[t]) - 1 :
         frames[t][i + 1].top = frames[t][i].rsp - 1 + frames[t][i].returned
=============================================================================
