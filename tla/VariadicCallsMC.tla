--------------------------- MODULE VariadicCallsMC ---------------------------
(***************************************************************************)
(* Programs for VariadicCalls.                                             *)
(***************************************************************************)
EXTENDS VariadicCalls

Use(f, g) == [in |-> f, to |-> g, how |-> "call", stdout |-> FALSE, inlined |-> FALSE]
Stdout(u) == [u EXCEPT !.stdout = TRUE]
Inline(u) == [u EXCEPT !.stdout = TRUE, !.inlined = TRUE]
Address(f, g) == [Use(f, g) EXCEPT !.how = "address"]

Alias(r, type, offset) == [register |-> r, type |-> type, offset |-> offset]
MCAliases ==
  [i \in 1 .. 6 |-> Alias(Gpr[i], "i64", 8 * i)]
    \o <<Alias("RDI", "i32", 8), Alias("RBP", "i64", 900), Alias("XMM0", "double", 24)>>
    \o [i \in 1 .. 8 |-> Alias(Xmm[i], "double", 16 + 64 * (i - 1))]
    \o <<Alias("XMM0", "double", 24), Alias("XMM1", "i64", 80)>>

LoadsOf(F, functions) == [f \in functions |-> IF f \in F THEN Range(Xmm) ELSE {"XMM0"}]
Program(functions, starting, named, uses) ==
  [functions |-> functions, loads |-> LoadsOf(starting, functions), others |-> [f \in functions |-> {}],
   named |-> [f \in functions |-> IF f \in DOMAIN named THEN named[f] ELSE 0],
   aliases |-> MCAliases, uses |-> uses]

(* log calls vprintf, or has it inlined, or it is not seen to be.          *)
OneWrapper ==
  {Program({"main", "log"}, {"log"}, [log |-> 1], {Use("main", "log"), u}) :
     u \in {Use("log", "vprintf"), Inline(Use("log", "vfprintf")),
            Stdout(Use("log", "vfprintf")), Use("log", "vscanf")}}

(* log and fail, each with a use in main, fail perhaps with one in log.    *)
TwoWrappers ==
  {Program({"main", "log", "fail"}, {"log", "fail"}, [log |-> 1, fail |-> 2],
           {Use("main", "log"), Use("main", "fail"), Use("log", "vprintf"), Use("fail", "vfprintf")}
             \cup extra) :
     extra \in {{}, {Use("log", "fail")}, {Address("main", "log")}, {Address("log", "fail")}}}

(* log hands its va_list to vlog, which calls vfprintf; so may fail.       *)
HandedOn ==
  {[Program({"main", "log", "vlog", "fail"}, {"log", "fail"}, [log |-> 2, fail |-> 3],
           {Use("main", "log"), Use("log", "vlog"), Use("vlog", "vfprintf"), Use("main", "fail")}
             \cup extra) EXCEPT !.others["log"] = others] :
     extra \in {{Use("fail", "vsnprintf")}, {Use("fail", "vlog")}}, others \in {{}, {"RBP"}}}

(* vlog hands it to another once more, which fail may call itself.         *)
HandedTwice ==
  {Program({"main", "log", "vlog", "vvlog", "fail"}, {"log", "fail"}, [log |-> 2, fail |-> 3],
           {Use("main", "log"), Use("log", "vlog"), Use("vlog", "vvlog"), Use("vvlog", "vfprintf"),
            Use("main", "fail"), Use("fail", "vvlog")})}

(* XMM8 is met in a function that the library is called in, and has an     *)
(* alias as an integer, or another; or R9 has no alias.                    *)
OneAbove ==
  {[p EXCEPT !.others["vlog"] = {"XMM8"}, !.aliases = @ \o <<Alias("XMM8", type, 528)>>] :
     p \in HandedOn, type \in {"i64", "double"}}
NoAlias == {[p EXCEPT !.aliases = SelectSeq(@, LAMBDA a : a.register # "R9")] : p \in OneWrapper}

(* report calls log and loads XMM7, and so seems to start a va_list once   *)
(* the other registers are saved in it; it calls vlog, or the library, too.*)
SeemsToStart ==
  {[Program({"main", "report", "log", "vlog"}, {"log"}, [log |-> 1],
            {Use("main", "report"), Use("report", "log"), Use("log", "vlog"), Use("vlog", "vprintf")}
              \cup extra) EXCEPT !.loads["report"] = {"XMM7"}] :
     extra \in {{Use("report", "vlog")}, {Use("report", "vfprintf")}, {Use("log", "report")}}}

(* Nothing is seen to start a va_list.                                     *)
Unseen == {Program({"main", "log"}, {}, [log |-> 1], {Use("main", "log"), Use("log", "vprintf")})}

MCModules ==
  OneWrapper \cup TwoWrappers \cup HandedOn \cup HandedTwice \cup OneAbove \cup NoAlias
    \cup SeemsToStart \cup Unseen
=============================================================================
