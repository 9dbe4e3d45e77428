----------------------------- MODULE PrintfCalls -----------------------------
(***************************************************************************)
(* Passes/printfPass.cpp.  mcsema's call of the stub ext_<address>_printf  *)
(* says nothing of its arguments.  The pass looks backwards from the call  *)
(* for the format that RDI points to, reads from it which arguments there  *)
(* are, and calls printf with the registers and stack slots they are in.   *)
(*                                                                         *)
(* A behaviour runs the pass over a function's calls, one block searched   *)
(* in a step, and then runs the function.  A format is the sequence of its *)
(* conversions, each with what stands before its letters and with these:   *)
(* "%.2lf" is [field |-> "precision", letters |-> <<"l", "f">>].           *)
(***************************************************************************)
EXTENDS Integers, Sequences, FiniteSets, FiniteSetsExt

CONSTANTS
  Programs,     \* see WellFormed
  MaxSteps      \* how many instructions of a function are run

(* A function: its blocks in their order, each a sequence of instructions; *)
(* the predecessors of each in the order LLVM has them; and its formats by *)
(* the names of the aliases that point at them.  A store's value is such a *)
(* name, a location that was loaded, or something computed: a pointer or   *)
(* an integer ("opaque").  xmm are the registers with a double alias.      *)
General == {"RAX", "RBX", "RDI", "RSI", "RDX", "RCX", "R8", "R9", "R10", "R11", "R12", "R13",
            "R14", "R15"}
Slots == {"slot1", "slot2"}
Locations == General \cup {"RSP"} \cup Slots
WellFormed(p) ==
  /\ \A b \in DOMAIN p.code : \A i \in DOMAIN p.code[b] :
        p.code[b][i].op = "store" =>
          /\ p.code[b][i].to \in Locations
          /\ ~(p.code[b][i].to = "RDI" /\ p.code[b][i].value = "RDI")
          /\ p.code[b][i].value \in Locations \cup {"computed", "opaque"} \cup DOMAIN p.formats
  /\ p.preds \in [DOMAIN p.code -> Seq(DOMAIN p.code)]
  /\ p.xmm \subseteq 0 .. 7

ASSUME ProgramsAssumption == \A p \in Programs : WellFormed(p)

VARIABLES
  program,
  phase,      \* "pass", "run", "stuck" in a loop, or "crashed"
  todo,       \* the calls that the pass has not come to
  job,        \* the search that is on, or Idle
  found,      \* call |-> the format found for it
  at,         \* the instruction that is run next: <<block, index>>
  holds,      \* location |-> the format it points at
  steps,
  printed     \* the call run last, and the format it was given

static == <<program, phase, todo, job, found>>
vars == <<static, at, holds, steps, printed>>

Code(b) == program.code[b]
Calls == {c \in (DOMAIN program.code) \X (1 .. 9) : c[2] \in DOMAIN Code(c[1]) /\ Code(c[1])[c[2]].op = "call"}
Idle == [call |-> <<0, 0>>, for |-> "none", block |-> 0, before |-> 0]

(* The instructions of b before n that store to x, and the last of them.   *)
Stores(x, b, n) == {i \in 1 .. n - 1 : Code(b)[i].op = "store" /\ Code(b)[i].to = x}
LastStore(x, b, n) == Max(Stores(x, b, n) \cup {0})
Whole(b) == Len(Code(b)) + 1
-----------------------------------------------------------------------------
(* Looking for the format *)

(* Mutant: the search does not leave the block.                            *)
Staying(b) == b

(* The first predecessor; a block without one is taken again.              *)
Previous(b) == IF program.preds[b] = <<>> THEN b ELSE program.preds[b][1]

(* Mutant: the block is searched from its end.                             *)
FromTheEnd(c) == Whole(c[1])

(* In its own block the search begins at the call.                         *)
FromTheCall(c) == c[2]

Begin(c) ==
  /\ phase = "pass" /\ job = Idle /\ c \in todo
  /\ todo' = todo \ {c}
  /\ job' = [call |-> c, for |-> "RDI", block |-> c[1], before |-> FromTheCall(c)]
  /\ UNCHANGED <<program, phase, found>>

(* findGelementPointerInstTypeFormatString: a std::string of NULL is made  *)
(* when no alias has the name.                                             *)
Named(name) ==
  IF name \in DOMAIN program.formats
  THEN /\ found' = [c \in DOMAIN found \cup {job.call} |-> IF c = job.call THEN name ELSE found[c]]
       /\ job' = Idle /\ UNCHANGED phase
  ELSE phase' = "crashed" /\ UNCHANGED <<found, job>>

(* FromPointer: an integer in RDI.  What a register holds is looked for    *)
(* from the load on; what the stack holds from the block before on, for    *)
(* the load itself is a use of the slot.                                   *)
FromPointer(v, b, i) ==
  IF v \in Slots
  THEN /\ job' = [job EXCEPT !.for = v, !.block = Previous(b), !.before = Whole(Previous(b))]
       /\ UNCHANGED <<phase, found>>
  ELSE IF v \in Locations
  THEN job' = [job EXCEPT !.for = v, !.block = b, !.before = i] /\ UNCHANGED <<phase, found>>
  ELSE /\ found' = [c \in DOMAIN found \cup {job.call} |-> IF c = job.call THEN "" ELSE found[c]]
       /\ job' = Idle /\ UNCHANGED phase

GoOn == job' = [job EXCEPT !.block = Previous(@), !.before = Whole(Previous(job.block))] /\ UNCHANGED <<phase, found>>

Searching(Where) == phase = "pass" /\ job # Idle /\ job.for \in Where /\ UNCHANGED <<program, todo>>

(* runOnModule: a store to RDI in the block, the last one first.           *)
SearchRDI ==
  /\ Searching({"RDI"})
  /\ LET i == LastStore("RDI", job.block, job.before)
         v == Code(job.block)[i].value
     IN  IF i = 0 THEN GoOn
         ELSE IF v = "computed" \/ v \in DOMAIN program.formats THEN Named(v)
         ELSE FromPointer(v, job.block, i)

(* A store to the register.  findGeneralPurposeRegister does not know RSP, *)
(* whose pattern is RBP's, and no name matches what it returns.            *)
SearchRegister ==
  /\ Searching((General \ {"RDI"}) \cup {"RSP"})
  /\ LET i == IF job.for = "RSP" THEN 0 ELSE LastStore(job.for, job.block, job.before)
     IN  IF i = 0 THEN GoOn ELSE Named(Code(job.block)[i].value)

Uses(x, b, n) ==
  {i \in 1 .. n - 1 : Code(b)[i].op = "store" /\ x \in {Code(b)[i].to, Code(b)[i].value}}

(* A use of the stack slot: one that reads it ends the search of the       *)
(* block.  The register it was filled from is looked for in the block laid *)
(* out before, the first store to it, and when there is none for ever.     *)
SearchSlot ==
  /\ Searching(Slots)
  /\ LET b == job.block
         i == Max(Uses(job.for, b, job.before) \cup {0})
         r == Code(b)[i].value
     IN  IF i = 0 \/ r = job.for THEN GoOn
         ELSE IF r \notin Locations THEN phase' = "crashed" /\ UNCHANGED <<job, found>>
         ELSE IF b = 1 THEN job' = [job EXCEPT !.before = i] /\ UNCHANGED <<phase, found>>
         ELSE IF Stores(r, b - 1, Whole(b - 1)) = {} \/ r \notin General
         THEN phase' = "stuck" /\ UNCHANGED <<job, found>>
         ELSE Named(Code(b - 1)[Min(Stores(r, b - 1, Whole(b - 1)))].value)

PassDone == phase = "pass" /\ job = Idle /\ todo = {} /\ phase' = "run" /\ UNCHANGED <<program, todo, job, found>>

Search == SearchRDI \/ SearchRegister \/ SearchSlot
-----------------------------------------------------------------------------
(* The arguments *)

(* The type of an argument, and those that go to XMM.                      *)
Floats == {"f", "F", "e", "E", "g", "G", "a", "A"}
TypeOf(letters) ==
  IF letters[2] \notin Floats THEN "int" ELSE IF letters[1] = "L" THEN "long double" ELSE "double"
Doubles == {"double"}
Integral == {"format", "int", "long double"}

(* The lengths and types that printf_format_pattern lists.                 *)
Lengths == {"", "hh", "h", "l", "ll", "j", "z", "t"}
Listed ==
  (Lengths \X {"d", "u", "x", "X", "n"}) \cup ((Lengths \ {"j"}) \X {"o"})
    \cup ({"", "l"} \X {"c", "s"}) \cup ({""} \X {"i", "p"})
    \cup ({"", "l", "L"} \X {"f"}) \cup ({"", "L"} \X (Floats \ {"f"}))

(* What it allows before them: flags, a dot among them, then digits but 0, *)
(* or stars.  So "%12d", "%05d" and "%.2f" match, "%10d" ("zero") and      *)
(* "%5.2f" ("both") do not, and "%%d" ("percent") has a "%d" in it.        *)
Allowed == {"", "digits", "precision", "star", "precision star", "percent"}

(* What analysisPrintfFormatAndGetDecl takes a conversion's arguments for: *)
(* the pattern for a star is to match all of the conversion, and never     *)
(* does.                                                                   *)
Parsed(conversion) ==
  IF conversion.field \in Allowed /\ conversion.letters \in Listed
  THEN <<TypeOf(conversion.letters)>> ELSE <<>>

Flat(format, of(_)) ==
  LET f[n \in 0 .. Len(format)] == IF n = 0 THEN <<>> ELSE f[n - 1] \o of(format[n]) IN f[Len(format)]

ParamList(name) ==
  <<"format">> \o (IF name = "" THEN <<>> ELSE Flat(program.formats[name], Parsed))

CountOf(list, n, Kinds) == Cardinality({i \in 1 .. n : list[i] \in Kinds})
Gpr == <<"RDI", "RSI", "RDX", "RCX", "R8", "R9">>
Xmm == <<"XMM0", "XMM1", "XMM2", "XMM3", "XMM4", "XMM5", "XMM6", "XMM7">>

Positive(n) == IF n > 0 THEN n ELSE 0

(* The low half of XMM0 to XMM<n> has a double alias each.                 *)
HasXmm(n) == 0 .. n \subseteq program.xmm

(* changeExtPrintfToFormalPrintf: rsp_count - sub_offset for the k-th      *)
(* argument, from 0, that is loaded from the stack.                        *)
SlotOf(list, k) ==
  LET rsp_count == Positive(CountOf(list, Len(list), Integral) - 6)
                     + Positive(CountOf(list, Len(list), Doubles) - 8)
      sub_offset == rsp_count - 1 - k
  IN  rsp_count - sub_offset

(* A double for which the register's alias or a register is missing is     *)
(* left out, and all after it.                                             *)
Argument(list, i) ==
  LET general == CountOf(list, i - 1, Integral)
      doubles == CountOf(list, i - 1, Doubles)
  IN  IF list[i] \in Doubles
      THEN IF doubles < 8 /\ HasXmm(doubles) THEN <<<<Xmm[doubles + 1], 0>>>> ELSE <<>>
      ELSE IF general < 6 THEN <<<<Gpr[general + 1], 0>>>> ELSE <<<<"stack", SlotOf(list, general - 6)>>>>

Arguments(list) ==
  LET f[n \in 0 .. Len(list)] == IF n = 0 THEN <<>> ELSE f[n - 1] \o Argument(list, n) IN f[Len(list)]
-----------------------------------------------------------------------------
(* Running the function *)

Successors(b) == {c \in DOMAIN program.code : \E i \in DOMAIN program.preds[c] : program.preds[c][i] = b}

Store ==
  /\ at[2] \in DOMAIN Code(at[1]) /\ Code(at[1])[at[2]].op = "store"
  /\ LET s == Code(at[1])[at[2]] IN
     holds' = [holds EXCEPT ![s.to] = IF s.value \in Locations THEN holds[s.value] ELSE s.value]
  /\ at' = <<at[1], at[2] + 1>>
  /\ UNCHANGED printed

(* The call is printf's, and RSP is set back by the 8 bytes of the return  *)
(* address that the lifted call pushed.                                    *)
Printf ==
  /\ at \in Calls
  /\ printed' = [call |-> at, format |-> holds["RDI"], arguments |-> Arguments(ParamList(found[at]))]
  /\ at' = <<at[1], at[2] + 1>>
  /\ UNCHANGED holds

Leave ==
  /\ at[2] = Whole(at[1])
  /\ \E b \in Successors(at[1]) : at' = <<b, 1>>
  /\ UNCHANGED <<holds, printed>>

Step == phase = "run" /\ steps < MaxSteps /\ steps' = steps + 1 /\ (Store \/ Printf \/ Leave) /\ UNCHANGED static

Running == UNCHANGED <<at, holds, steps, printed>>

Finished ==
  /\ \/ phase \in {"crashed", "stuck"}
     \/ phase = "run" /\ (steps = MaxSteps \/ (at[2] = Whole(at[1]) /\ Successors(at[1]) = {}))
  /\ UNCHANGED vars

Init ==
  /\ program \in Programs
  /\ phase = "pass" /\ todo = Calls /\ job = Idle /\ found = <<>>
  /\ at = <<1, 1>> /\ holds = [x \in Locations |-> "nothing"]
  /\ steps = 0 /\ printed = <<>>

Next ==
  \/ Running /\ \E c \in Calls : Begin(c)
  \/ Running /\ (Search \/ PassDone)
  \/ Step
  \/ Finished

(* The pass is a sequential program: it takes its next step.               *)
Spec == Init /\ [][Next]_vars /\ WF_vars(Next)
-----------------------------------------------------------------------------
(* Properties *)

(* The k-th block above b of those with one predecessor each, or 0.        *)
Above(b) ==
  LET up[k \in 0 .. Len(program.code)] ==
        IF k = 0 THEN b
        ELSE IF up[k - 1] = 0 \/ Len(program.preds[up[k - 1]]) # 1 THEN 0
        ELSE program.preds[up[k - 1]][1]
  IN  up

(* The store to x that is the only one to reach the instruction n of b.    *)
Reaching(x, b, n) ==
  LET up == Above(b)
      K == {k \in DOMAIN up : up[k] # 0 /\ LastStore(x, up[k], IF k = 0 THEN n ELSE Whole(up[k])) # 0}
      k == Min(K)
  IN  IF K = {} THEN <<0, 0>> ELSE <<up[k], LastStore(x, up[k], IF k = 0 THEN n ELSE Whole(up[k]))>>
ValueAt(s) == Code(s[1])[s[2]].value

(* A call that only one format reaches, named in RDI or through one other  *)
(* register.                                                               *)
Straight(c) ==
  LET s == Reaching("RDI", c[1], c[2])
      q == Reaching(ValueAt(s), s[1], s[2])
  IN  /\ s # <<0, 0>>
      /\ \/ ValueAt(s) \in DOMAIN program.formats
         \/ /\ ValueAt(s) \in General \ {"RDI"} /\ q # <<0, 0>>
            /\ ValueAt(q) \in DOMAIN program.formats

(* A call that only one format reaches is taken for a call with that       *)
(* format: what RDI points at when the call is run is what the search      *)
(* found, through as many blocks as it takes (runOnModule).                *)
PrintsItsFormat ==
  (printed # <<>> /\ Straight(printed.call)) => found[printed.call] = printed.format

(* What the psABI passes the arguments of kinds real in.                   *)
SysV(real) ==
  [i \in DOMAIN real |->
     LET general == CountOf(real, i - 1, Integral)
         doubles == CountOf(real, i - 1, Doubles)
     IN  IF real[i] \in Doubles
         THEN IF doubles < 8 THEN <<Xmm[doubles + 1], 0>> ELSE <<"stack", Positive(general - 6) + doubles - 7>>
         ELSE IF general < 6 THEN <<Gpr[general + 1], 0>>
                             ELSE <<"stack", Positive(doubles - 8) + general - 5>>]

Real(conversion) ==
  IF conversion.field = "percent" THEN <<>>
  ELSE (IF conversion.field \in {"star", "precision star"} THEN <<"int">> ELSE <<>>)
         \o <<TypeOf(conversion.letters)>>
RealTypes(name) == Flat(program.formats[name], Real)

(* C's conversions but those the pass overlooks: "%li" and its like, "%jo" *)
(* and "%lg" and its like, a width with a 0 in it, or with a precision.    *)
(* A star and a long double need more than the pass has for them.          *)
Understood(conversion) ==
  /\ conversion.field \in {"", "digits", "precision"}
  /\ conversion.letters[1] # "L"
  /\ conversion.letters[2] = "i" => conversion.letters[1] = ""
  /\ conversion.letters # <<"j", "o">>
  /\ conversion.letters[2] \in Floats \ {"f"} => conversion.letters[1] = ""

Within(name) ==
  /\ \A i \in DOMAIN program.formats[name] : Understood(program.formats[name][i])
  /\ LET n == CountOf(RealTypes(name), Len(RealTypes(name)), Doubles)
     IN  n <= 8 /\ HasXmm(n - 1)

(* The arguments of a call whose format was found are where the psABI has  *)
(* its caller put them, in registers and on the stack, if the format is of *)
(* integers and pointers and at most eight doubles, each asked for in one  *)
(* of the ways that the pass knows (analysisPrintfFormatAndGetDecl,        *)
(* changeExtPrintfToFormalPrintf).                                         *)
ArgumentsAgree ==
  (printed # <<>> /\ found[printed.call] = printed.format /\ Within(printed.format)) =>
     printed.arguments = SysV(<<"format">> \o RealTypes(printed.format))

(* A call that is run is given the format that is there and the arguments  *)
(* that go with it, where only one format reaches the call and its         *)
(* conversions are Understood.                                             *)
PrintsRight == PrintsItsFormat /\ ArgumentsAgree

(* The pass comes to an end on a function whose every call only one format *)
(* reaches.                                                                *)
PassEnds == (\A c \in Calls : Straight(c)) ~> (phase = "run")
=============================================================================
