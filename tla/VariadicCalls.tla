---------------------------- MODULE VariadicCalls ----------------------------
(***************************************************************************)
(* Passes/va_listPass.cpp and va_listHelperFunc.c.  A lifted variadic      *)
(* function hands its va_list, an x86 structure, to vfprintf and its kin.  *)
(* The pass has every direct call of such a function save the argument     *)
(* registers in globals of its own, and turns the call that takes the      *)
(* va_list into a call of a helper that is passed the saved registers and  *)
(* makes a native va_list of them.                                         *)
(*                                                                         *)
(* A behaviour runs the pass on a program, one search for the functions    *)
(* that start a va_list at a time, and then lets its threads run.          *)
(* A value in a register is the call it is an argument of; the result and  *)
(* the stack pointer of the library's call are left out.                   *)
(***************************************************************************)
EXTENDS Integers, Sequences, FiniteSets, SequencesExt

CONSTANTS
  ThreadIds,
  Modules,        \* the lifted programs, see WellFormed
  MaxCalls,       \* how many calls of its own functions a thread makes
  NoCall

Gpr == <<"RDI", "RSI", "RDX", "RCX", "R8", "R9">>
Xmm == <<"XMM0", "XMM1", "XMM2", "XMM3", "XMM4", "XMM5", "XMM6", "XMM7">>

(* The library's functions, and what each names before its va_list.        *)
Library == {"vprintf", "vfprintf", "vsprintf", "vsnprintf", "vfscanf", "vsscanf", "vscanf"}
Named(f) == CASE f \in {"vprintf", "vscanf"} -> 1 [] f = "vsnprintf" -> 3 [] OTHER -> 2

(* A program: where its functions are used, the XMM registers each loads,  *)
(* the other globals it loads, up to the last XMM register if that is all  *)
(* of them, how many arguments it names, and the aliases mcsema made of    *)
(* registers, in their order.  A use of a function is a call or takes its  *)
(* address; stdout says that the block two before it loads stdout, and     *)
(* inlined that it was vprintf.                                            *)
WellFormed(p) ==
  /\ p.uses \subseteq [in : p.functions, to : p.functions \cup Library,
                       how : {"call", "address"}, stdout : BOOLEAN, inlined : BOOLEAN]
  /\ \A u \in p.uses : u.to \in Library => u.how = "call" /\ u.to \notin p.functions
  /\ p.aliases \in Seq([register : STRING, type : STRING, offset : Nat])
  /\ p.loads \in [p.functions -> SUBSET Range(Xmm)]
  /\ p.others \in [p.functions -> SUBSET STRING]
  /\ p.named \in [p.functions -> Nat]
  /\ "main" \in p.functions

ASSUME ModulesAssumption == \A p \in Modules : WellFormed(p)

VARIABLES
  mod,
  phase,        \* "pass", "run", or "undefined"
  todo,         \* the library functions the pass has not come to
  at,           \* the one it is at, or NoCall
  left,         \* its calls that are still to be looked at
  above,        \* the uses of the function that the last one is in, still to be looked at
  met,          \* the names of other globals that RegisterToNum_map has
  filled,       \* met when State was filled in, or NoCall
  state,        \* register |-> the offset of its alias, for those State has
  saving,       \* the uses before which the registers are saved
  rewritten,    \* the calls of the library that were turned into the helper's
  stack,        \* thread |-> its frames
  calls,        \* thread |-> how many calls it made
  saved,        \* thread |-> the call its copy of the globals is from
  printed       \* what the helper called last was given, and should have been

search == <<at, left, above, met>>
static == <<mod, phase, todo, search, filled, state, saving, rewritten>>
callsVars == <<static, stack, calls, saved, printed>>
-----------------------------------------------------------------------------
(* The pass *)

(* What is saved: R9 is the last general register, XMM6 the last other.    *)
SavedGpr == SubSeq(Gpr, 1, 6)
SavedXmm == SubSeq(Xmm, 1, 7)

(* The program has f start a va_list: it stores XMM0 to XMM7.              *)
Starts(f) == mod.loads[f] = Range(Xmm)

(* changeVprintfState: f loads them all, the loads counted that the pass   *)
(* itself put before the uses in f.                                        *)
Loads(f) ==
  mod.loads[f] \cup (IF \E u \in saving : u.in = f THEN Range(SavedXmm) \cap DOMAIN state ELSE {})
FindVarstart(f) == Range(Xmm) \subseteq Loads(f)

UsesOf(f) == {u \in mod.uses : u.to = f}
Calls(f) == {u \in UsesOf(f) : u.how = "call"}

(* State: the last i64 alias of a general register, the last double one of *)
(* the low half of an XMM register.  RegisterToNum_map has every name it   *)
(* was asked for, with RDI's number if it had none.                        *)
IsWholeXmm(a) == a.register \in Range(Xmm) /\ a.type = "double" /\ (a.offset - 16) % 64 = 0
IsWhole(a) == IsWholeXmm(a) \/ (a.register \notin Range(Xmm) /\ a.type = "i64")
Registers == Range(Gpr \o Xmm)
State(aliases, known) ==
  LET names(r) == IF r = "RDI" THEN {r} \cup (known \ Registers) ELSE {r}
      LastOf(r) == SelectLastInSeq(aliases, LAMBDA a : a.register \in names(r) /\ IsWhole(a))
  IN  [r \in {q \in Registers : LastOf(q) # 0} |-> aliases[LastOf(r)].offset]

(* InsertGPRBeforeFundvprintf before each of the uses U, State being       *)
(* filled in before the first of all.  A general register without an alias *)
(* is loaded through a pointer that was never set.                         *)
SaveBefore(U, names) ==
  /\ saving' = saving \cup U
  /\ IF filled = NoCall /\ U # {} THEN filled' = names /\ state' = State(mod.aliases, names)
                                  ELSE UNCHANGED <<filled, state>>
  /\ phase' = IF U # {} /\ ~(Range(SavedGpr) \subseteq DOMAIN state') THEN "undefined" ELSE phase

(* The pass comes to f.                                                    *)
Consider(f) ==
  /\ phase = "pass" /\ at = NoCall /\ f \in todo
  /\ todo' = todo \ {f}
  /\ at' = f /\ left' = Calls(f)
  /\ UNCHANGED <<mod, phase, above, met, filled, state, saving, rewritten, stack, calls, saved, printed>>

(* The first step for a call u of it: the function u is in is looked       *)
(* through for loads that an XMM register's name is on, XMM8 to XMM15 too. *)
(* If it starts no va_list its uses are next.                              *)
UpperXmm == {"XMM8", "XMM9", "XMM10", "XMM11", "XMM12", "XMM13", "XMM14", "XMM15"}
Search(u) ==
  /\ phase = "pass" /\ above = {} /\ u \in left
  /\ left' = left \ {u}
  /\ met' = met \cup (mod.others[u.in] \cap UpperXmm)
  /\ IF FindVarstart(u.in) THEN SaveBefore(UsesOf(u.in), met') /\ UNCHANGED above
     ELSE above' = UsesOf(u.in) /\ UNCHANGED <<phase, filled, state, saving>>
  /\ UNCHANGED <<mod, todo, at, rewritten, stack, calls, saved, printed>>

(* The second step for a use v of that function: every named load counts.  *)
SearchAbove(v) ==
  /\ phase = "pass" /\ v \in above
  /\ above' = above \ {v}
  /\ met' = met \cup mod.others[v.in]
  /\ IF FindVarstart(v.in) THEN SaveBefore(UsesOf(v.in), met')
                           ELSE UNCHANGED <<phase, filled, state, saving>>
  /\ UNCHANGED <<mod, todo, at, left, rewritten, stack, calls, saved, printed>>

(* The calls of the function at hand are erased while its users are        *)
(* iterated over: the freed link may be gone, and the loop ends.  Without  *)
(* a save State was never filled in, and RSP and RAX are what the memory   *)
(* held.                                                                   *)
Rewrite ==
  /\ phase = "pass" /\ at # NoCall /\ left = {} /\ above = {}
  /\ at' = NoCall
  /\ IF filled = NoCall
     THEN phase' = "undefined" /\ UNCHANGED rewritten
     ELSE /\ \E R \in SUBSET Calls(at) : R # {} /\ rewritten' = rewritten \cup R
          /\ UNCHANGED phase
  /\ UNCHANGED <<mod, todo, left, above, met, filled, state, saving, stack, calls, saved, printed>>

PassDone ==
  /\ phase = "pass" /\ at = NoCall /\ todo = {}
  /\ phase' = "run"
  /\ UNCHANGED <<mod, todo, search, filled, state, saving, rewritten, stack, calls, saved, printed>>
-----------------------------------------------------------------------------
(* Execution *)

Top(t) == Last(stack[t])
Frame(f, c, fresh) == [function |-> f, call |-> c, fresh |-> fresh]
Stale(frames) == [i \in DOMAIN frames |-> [frames[i] EXCEPT !.fresh = FALSE]]

(* What a save stores to is thread-local.                                  *)
Save(t, c) == saved' = [saved EXCEPT ![t] = c]

Ready(t) == phase = "run" /\ Len(stack[t]) > 0 /\ calls[t] < MaxCalls

Enter(t, f, save) ==
  LET c == <<t, calls[t] + 1>> IN
  /\ calls' = [calls EXCEPT ![t] = @ + 1]
  /\ IF save THEN Save(t, c) ELSE UNCHANGED saved
  /\ stack' = [stack EXCEPT ![t] = Append(IF save THEN Stale(@) ELSE @, Frame(f, c, save))]

Call(t, u) ==
  /\ Ready(t) /\ u.in = Top(t).function /\ u.how = "call" /\ u.to \in mod.functions
  /\ Enter(t, u.to, u \in saving)
  /\ UNCHANGED <<static, printed>>

(* Through a pointer, to a function whose address is taken.                *)
CallIndirect(t, u) ==
  /\ Ready(t) /\ u.how = "address" /\ u.to \in mod.functions
  /\ Enter(t, u.to, FALSE)
  /\ UNCHANGED <<static, printed>>

(* The use is an instruction like any other: the registers are saved.      *)
TakeAddress(t, u) ==
  /\ Ready(t) /\ u.in = Top(t).function /\ u.how = "address"
  /\ IF u \in saving THEN Save(t, NoCall) /\ stack' = [stack EXCEPT ![t] = Stale(@)]
                      ELSE UNCHANGED <<saved, stack>>
  /\ UNCHANGED <<static, calls, printed>>

Return(t) ==
  /\ phase = "run" /\ Len(stack[t]) > 0
  /\ stack' = [stack EXCEPT ![t] = Front(@)]
  /\ UNCHANGED <<static, calls, saved, printed>>

(* The helper: vscanf and what is no other function's is taken for         *)
(* vfprintf, and that for vprintf when the block loads stdout.             *)
Inlined(u) == u.to \in {"vfprintf", "vscanf"} /\ u.stdout
Helper(u) == IF u.to = "vscanf" THEN "vfprintf" ELSE u.to

(* Mutant: the current RDI is not passed in front.                         *)
WithoutStdout(u) == SavedGpr \o SavedXmm

(* What InsertCalltoShareBeforeFundvprintf passes: RDI as it is now for    *)
(* stdout, then as they were saved RDI to R9 and XMM0 to XMM6.             *)
Passed(u) == (IF Inlined(u) THEN <<"stdout">> ELSE <<>>) \o SavedGpr \o SavedXmm

Starter(t) == SelectLastInSeq(stack[t], LAMBDA frame : Starts(frame.function))

CallLibrary(t, u) ==
  /\ phase = "run" /\ Len(stack[t]) > 0
  /\ u.in = Top(t).function /\ u \in rewritten /\ Starter(t) # 0
  /\ LET frame == stack[t][Starter(t)]
         given == Passed(u)
         Value(r) == IF r \in DOMAIN state THEN state[r] ELSE 0
     IN  printed' = [use |-> u, starter |-> frame, from |-> saved[t],
                     values |-> [i \in DOMAIN given |->
                                   IF given[i] = "stdout" THEN <<"now", Value("RDI")>>
                                                          ELSE <<"saved", Value(given[i])>>]]
  /\ UNCHANGED <<static, stack, calls, saved>>

CallsFinished == (phase = "undefined" \/ \A t \in ThreadIds : stack[t] = <<>>) /\ UNCHANGED callsVars

CallsInit ==
  /\ mod \in Modules
  /\ phase = "pass"
  /\ todo = {f \in Library : Calls(f) # {}}
  /\ at = NoCall /\ left = {} /\ above = {} /\ met = {}
  /\ filled = NoCall /\ state = <<>>
  /\ saving = {} /\ rewritten = {}
  /\ stack = [t \in ThreadIds |-> <<Frame("main", <<t, 0>>, FALSE)>>]
  /\ calls = [t \in ThreadIds |-> 0]
  /\ saved = [t \in ThreadIds |-> NoCall]
  /\ printed = <<>>

CallsNext ==
  \/ \E f \in Library : Consider(f)
  \/ \E u \in mod.uses : Search(u) \/ SearchAbove(u)
  \/ Rewrite
  \/ PassDone
  \/ \E t \in ThreadIds :
        \/ \E u \in mod.uses :
              Call(t, u) \/ CallIndirect(t, u) \/ TakeAddress(t, u) \/ CallLibrary(t, u)
        \/ Return(t)
  \/ CallsFinished

CallsSpec == CallsInit /\ [][CallsNext]_callsVars
-----------------------------------------------------------------------------
(* Properties *)

(* The places of r's whole aliases.                                        *)
WholeOffsets ==
  [r \in Registers |->
     {mod.aliases[i].offset : i \in {j \in DOMAIN mod.aliases :
                                     mod.aliases[j].register = r /\ IsWhole(mod.aliases[j])}}]

(* What the pass takes for granted about a call u for a va_list that f     *)
(* started: f's named arguments are those of the library's function, but   *)
(* for stdout, whether stdout is loaded two blocks before tells an inlined *)
(* vprintf, no other global with an i64 alias was met before State was     *)
(* filled in, and each register is used as a whole somewhere and so has an *)
(* alias.                                                                  *)
Supported(u, f) ==
  /\ u.to # "vscanf" /\ Inlined(u) = u.inlined
  /\ mod.named[f] = IF u.inlined THEN 1 ELSE Named(u.to)
  /\ \A i \in DOMAIN mod.aliases :
       mod.aliases[i].register \in filled \ Registers => ~IsWhole(mod.aliases[i])
  /\ \A r \in Registers : WholeOffsets[r] # {}

Closed(F) == \A u \in mod.uses : u.in \in F /\ u.to \in mod.functions => u.to \in F
Under(f) == {g \in mod.functions :
               \A F \in SUBSET mod.functions : (f \in F /\ Closed(F)) => g \in F}

(* No function is called through a pointer, and a function that starts a   *)
(* va_list calls, however deeply, none that does. main starts none.        *)
Flat ==
  /\ \A u \in mod.uses : u.how = "call"
  /\ ~Starts("main")
  /\ \A f, g \in mod.functions :
        Starts(f) /\ (\E u \in mod.uses : u.in = f /\ u.to \in mod.functions /\ g \in Under(u.to))
          => ~Starts(g)

(* Whoever calls the library for a va_list started it or was handed it by  *)
(* who did: the pass looks one level up.                                   *)
HandedOnce ==
  \A u \in mod.uses : u.to \in Library /\ ~Starts(u.in) =>
    \A v \in UsesOf(u.in) : Starts(v.in)

(* In a flat program that hands va_lists on once every call for one is     *)
(* preceded by the save of the function that started it, whichever         *)
(* functions the pass meets first. And in any program a function that was  *)
(* called directly, and since whose call no registers were saved in its    *)
(* thread, has the helper given stdout if vprintf was inlined, then the    *)
(* registers it was called with, each whole and in the place its va_list   *)
(* has it, whatever other threads do (InsertGPRBeforeFundvprintf,          *)
(* InsertCalltoShareBeforeFundvprintf).                                    *)
PrintsItsOwn ==
  printed # <<>> =>
    LET frame == printed.starter
        first == IF printed.use.inlined THEN 1 ELSE 0
    IN
    /\ Flat /\ HandedOnce => frame.fresh
    /\ frame.fresh /\ Supported(printed.use, frame.function) =>
         /\ printed.from = frame.call
         /\ first = 1 => \E o \in WholeOffsets["RDI"] : printed.values[1] = <<"now", o>>
         /\ \A i \in 1 .. 13 :
              \E o \in WholeOffsets[(Gpr \o Xmm)[i]] : printed.values[first + i] = <<"saved", o>>
=============================================================================
