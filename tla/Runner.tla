------------------------------- MODULE Runner -------------------------------
(***************************************************************************)
(* EC-SBT-Runner-base: the script that takes a program through EFACT, the  *)
(* disassembler, the lifter, the passes and the compiler.  Each stage is   *)
(* judged by one thing, that its output file exists; the directory and     *)
(* EFACT's result outlive a run, a failure and an interruption, and the    *)
(* program may be rebuilt between two runs.                                *)
(*                                                                         *)
(* A file remembers which program it was made from, which program EFACT's  *)
(* complement was, the passes it went through, and the module it holds.    *)
(***************************************************************************)
EXTENDS SymbolPasses, SequencesExt

CONSTANTS
  Programs,       \* the programs $1 may be
  Lifted,         \* program -> the module the lifter makes of it
  MaxRuns,        \* bounds the runs of the script
  MaxFaults       \* bounds the tools that fail, in all runs together

ASSUME RunnerAssumption == MaxRuns \in Nat /\ MaxFaults \in Nat

\* The lifter declares the C library under System V's convention, calls everything
\* under C's, inlines nothing by itself, and calls functions of its own module.
FnRecord == [linkage : STRING, cc : {"C", "sysv"}, inline : {"no"},
             vararg : BOOLEAN, declared : BOOLEAN]
FlagRecord == [reg : STRING, stores : SUBSET STRING, loads : SUBSET STRING]

ASSUME LiftedAssumption ==
  \A p \in Programs :
    LET m == Lifted[p]
    IN  /\ DOMAIN m = {"fns", "calls", "flags", "sites", "body", "lower"}
        /\ \A g \in DOMAIN m.fns : m.fns[g] \in FnRecord
        /\ \A c \in m.calls : c \in [from : DOMAIN m.fns, to : DOMAIN m.fns, cc : {"C"}]
        /\ \A a \in DOMAIN m.flags : m.flags[a] \in FlagRecord

passes == << "FlagRegisterOPT", "EXTInline", "printfPass", "va_listPass",
             "fsRegisterPass", "checkLinkerType", "FunctionNameDirectChange",
             "ExternalEntryPointCheck", "statPass", "fstatPass",
             "changCallingConvension" >>

\* The files, each named for the tool that writes it.
Stages == << "EFACT", "ida", "lift" >> \o passes \o << "tls", "clang" >>
StageFiles == ToSet(Stages)
IsPass(s) == s \in ToSet(passes)

Absent == [made |-> FALSE]
NoModule == [none |-> TRUE]

VARIABLES
  program,        \* the program now at $1
  files,          \* the files: Absent, or what is in them
  stage,          \* the stage about to run, 0 when the script is not running
  current_input,  \* the file the next pass reads
  lists,          \* whether $HOME/CPassUnit holds the passes' lists
  report,         \* what the last run of the script said
  runs, faults,   \* counted for the bounds
  all_worked      \* whether every tool of this run did its work

scriptVars == << program, files, stage, current_input, lists, report, runs, faults, all_worked >>

ScriptInit ==
  /\ program \in Programs
  /\ files = [f \in StageFiles |-> Absent]
  /\ stage = 0
  /\ current_input = "lift"
  /\ lists = TRUE
  /\ report = "none"
  /\ runs = 0
  /\ faults = 0
  /\ all_worked = FALSE

\* Between runs: the program is rebuilt, or the lists come or go.
Rebuild ==
  /\ stage = 0 /\ runs < MaxRuns
  /\ program' \in Programs
  /\ lists' \in BOOLEAN
  /\ UNCHANGED << files, stage, current_input, report, runs, faults, all_worked >>

\* A required variable is missing: the script says so and leaves.
Refuse ==
  /\ stage = 0 /\ runs < MaxRuns
  /\ runs' = runs + 1
  /\ report' = "refused"
  /\ UNCHANGED << program, files, stage, current_input, lists, faults, all_worked >>

Start ==
  /\ stage = 0 /\ runs < MaxRuns
  /\ runs' = runs + 1
  /\ stage' = 1
  /\ current_input' = "lift"
  /\ report' = "running"
  /\ all_worked' = TRUE
  /\ UNCHANGED << program, files, lists, faults >>

Present(s) == files[s].made

(***************************************************************************)
(* What a tool writes when it does its work, from the files it reads.      *)
(***************************************************************************)
Made(from, exf, done, m) ==
  [made |-> TRUE, of |-> from, exf |-> exf, done |-> done, lists |-> lists, mod |-> m]

InputOf(s) == CASE IsPass(s) \/ s = "tls" -> current_input
                [] s = "clang" -> "tls"
                [] OTHER -> "ida"

Outcome(s) == IF IsPass(s) THEN RunPass(s, files[current_input].mod, lists)
                           ELSE Ok(NoModule)

\* A mutant: EFACT's result is taken as it is when there is one.
CachedComplement(s) ==
  LET in == files[InputOf(s)]
  IN  CASE s = "EFACT" -> IF Present(s) THEN files[s] ELSE Made(program, program, << >>, NoModule)
        [] s = "ida" -> Made(program, program, << >>, NoModule)
        [] s = "lift" -> Made(in.of, files["EFACT"].of, << >>, Lifted[in.of])
        [] IsPass(s) -> [in EXCEPT !.done = Append(@, s), !.mod = Outcome(s).mod,
                                   !.lists = @ /\ lists]
        [] OTHER -> [in EXCEPT !.done = Append(@, s)]

Written(s) ==
  LET in == files[InputOf(s)]
  IN  CASE s = "EFACT" -> Made(program, program, << >>, NoModule)
        [] s = "ida" -> Made(program, program, << >>, NoModule)
        [] s = "lift" -> Made(in.of, files["EFACT"].of, << >>, Lifted[in.of])
        [] IsPass(s) -> [in EXCEPT !.done = Append(@, s), !.mod = Outcome(s).mod,
                                   !.lists = @ /\ lists]
        [] OTHER -> [in EXCEPT !.done = Append(@, s)]

(***************************************************************************)
(* The script runs on when the stage's file is there, whoever wrote it.    *)
(***************************************************************************)
\* A mutant: the next pass reads what this one read.
SameInput(s) ==
  /\ IF files'[s].made THEN stage' = stage + 1 /\ report' = report
                       ELSE stage' = 0 /\ report' = "failed"
  /\ current_input' = current_input

Proceed(s) ==
  IF files'[s].made
  THEN /\ stage' = stage + 1
       /\ current_input' = IF IsPass(s) THEN s ELSE current_input
       /\ report' = report
  ELSE /\ stage' = 0
       /\ report' = "failed"
       /\ current_input' = current_input

Running == stage \in 1 .. Len(Stages)

Works ==
  /\ Running
  /\ LET s == Stages[stage]
     IN  /\ Outcome(s).kind = "ok"
         /\ files' = [files EXCEPT ![s] = Written(s)]
         /\ Proceed(s)
  /\ UNCHANGED << program, lists, runs, faults, all_worked >>

\* The tool stops with an error, or crashes, and leaves its output as it was.
Fails ==
  /\ Running
  /\ LET s == Stages[stage]
     IN  /\ \/ Outcome(s).kind = "crash" /\ faults' = faults
            \/ Outcome(s).kind = "ok" /\ faults < MaxFaults /\ faults' = faults + 1
         /\ files' = files
         /\ Proceed(s)
  /\ all_worked' = FALSE
  /\ UNCHANGED << program, lists, runs >>

\* The script is stopped, the only way out of a pass that never ends.
Interrupt ==
  /\ Running
  /\ \/ Outcome(Stages[stage]).kind = "hang" /\ faults' = faults
     \/ faults < MaxFaults /\ faults' = faults + 1
  /\ stage' = 0
  /\ report' = "interrupted"
  /\ UNCHANGED << program, files, current_input, lists, runs, all_worked >>

Finish ==
  /\ stage = Len(Stages) + 1
  /\ stage' = 0
  /\ report' = "All processes completed successfully"
  /\ UNCHANGED << program, files, current_input, lists, runs, faults, all_worked >>

ScriptNext == Rebuild \/ Refuse \/ Start \/ Works \/ Fails \/ Interrupt \/ Finish

ScriptSpec == ScriptInit /\ [][ScriptNext]_scriptVars

-----------------------------------------------------------------------------
FullChain == passes \o << "tls", "clang" >>
Binary == files["clang"]
Bitcodes == {f \in {files[s] : s \in StageFiles \ {"EFACT", "ida"}} : f.made}
Finals == {f \in Bitcodes : f.done = FullChain}

\* Whatever fails, is left over or is run again, a binary went through every
\* pass, once and in the script's order: a later stage never reads a file
\* that a pass before it has not written.
EveryPassApplied == Present("clang") => Binary.done = FullChain

\* When the script completes and each tool worked, the binary is of the program
\* and the complement of this run, with the lists as they are: nothing that an
\* earlier run left behind got into it.
CompletedIsCurrent ==
  [][stage = Len(Stages) + 1 /\ stage' = 0 /\ report' # "interrupted" /\ all_worked =>
       Binary.of = program /\ Binary.exf = program /\ Binary.lists = lists]_scriptVars

\* A flag that some instruction loads keeps all the stores of the lifted code.
ReadFlagsKept ==
  \A f \in Bitcodes : \A a \in DOMAIN f.mod.flags :
    f.mod.flags[a].loads # {} => f.mod.flags[a].stores = Lifted[f.of].flags[a].stores

\* In the last module every call is of a function the module has, under that
\* function's own calling convention: LLVM takes another one as unreachable.
CallsMatch ==
  \A f \in Finals : \A c \in f.mod.calls :
    /\ {c.from, c.to} \subseteq DOMAIN f.mod.fns
    /\ c.cc = f.mod.fns[c.to].cc

\* Replacing functions by their lifted doubles: the calls of the last module are
\* those of the lifted one, made by a double and reaching it under the name of the
\* function it stands for, without those the replaced functions made.
DoublesCalled ==
  \A f \in Finals :
    LET was == Lifted[f.of]
        Gone == {FunctionToBeChangedMap[i][2] :
                   i \in {j \in DOMAIN FunctionToBeChangedMap :
                            FunctionToBeChangedMap[j][1] \in DOMAIN was.fns}}
        Now(g) == IF g \notin Olds THEN g
                  ELSE FunctionToBeChangedMap[CHOOSE i \in DOMAIN FunctionToBeChangedMap :
                                                FunctionToBeChangedMap[i][1] = g][2]
    IN  /\ DOMAIN f.mod.fns = {Now(g) : g \in DOMAIN was.fns}
        /\ f.mod.calls = {[c EXCEPT !.from = Now(@), !.to = Now(@)] :
                            c \in {d \in was.calls : d.from \notin Gone}}

\* A function stays weak through all the passes only if the list has it, and
\* an exit point is inlined only onto a function the last module still has.
SymbolsLinkable ==
  \A f \in Finals :
    /\ f.lists => \A g \in DOMAIN f.mod.fns :
         f.mod.fns[g].linkage = "weak" => g \in WeakList
    /\ \A g \in DOMAIN f.mod.fns :
         f.mod.fns[g].inline = "always" /\ g \in DOMAIN NamePart =>
           NamePart[g] \in DOMAIN f.mod.fns

\* The passes that each look at one thing leave a module that holds together:
\* what a flag's readers read, whom a call reaches and how, what is linked.
PassesAgree == ReadFlagsKept /\ CallsMatch /\ DoublesCalled /\ SymbolsLinkable
=============================================================================
