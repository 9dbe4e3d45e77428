------------------------------ MODULE RunnerMC ------------------------------
(***************************************************************************)
(* Runner on small programs: what the lifter makes of them varies in the   *)
(* functions that have a lifted double, in the flags that are loaded and   *)
(* in the callbacks handed to qsort and signal.  Two of the programs are   *)
(* rebuilt into each other; the others are run once.                       *)
(***************************************************************************)
EXTENDS Runner

MCNamePart == [ext_1_sqrt |-> "sqrt", ext_2_qsort |-> "qsort", ext_3_signal |-> "signal",
               ext_4_pthread_create |-> "pthread_create", ext_5_open |-> "open"]
MCUnderscored == {"pthread_create", "sqrt__original", "sqrtf__original", "__gmon_start__"}
MCWeakList == {"_ITM_registerTMCloneTable"}
MCListedParams == [qsort |-> {4}, signal |-> {2}, pthread_create |-> {3}]
MCChanged == << <<"sqrt__original", "sqrt">>, <<"sqrtf__original", "sqrtf">> >>

Fn(linkage, cc, declared) ==
  [linkage |-> linkage, cc |-> cc, inline |-> "no", vararg |-> FALSE, declared |-> declared]

Base ==
  [f \in DOMAIN MCNamePart |-> Fn("internal", "C", FALSE)] @@
  [f \in {"qsort", "signal", "open", "pthread_create"} |->
     [Fn("external", "sysv", TRUE) EXCEPT !.vararg = f = "open"]] @@
  [f \in {"sub_1", "sub_2", "cb_1", "cb_2"} |-> Fn("internal", "C", FALSE)] @@
  [f \in {"__gmon_start__", "_ITM_registerTMCloneTable"} |-> Fn("weak", "sysv", TRUE)]

\* sqrt called and not lifted, lifted and not called, or lifted and called; and two
\* doubles, where one calls itself and the other one the function that it replaces.
Doubles == <<
  [sqrt |-> Fn("external", "sysv", TRUE)],
  [sqrt__original |-> Fn("internal", "sysv", FALSE)],
  [sqrt |-> Fn("external", "sysv", TRUE), sqrt__original |-> Fn("internal", "C", FALSE)],
  [sqrt |-> Fn("external", "sysv", TRUE), sqrt__original |-> Fn("internal", "C", FALSE),
   sqrtf |-> Fn("internal", "C", FALSE), sqrtf__original |-> Fn("internal", "C", FALSE)] >>

Call(from, to) == [from |-> from, to |-> to, cc |-> "C"]
CallsOf(fns) ==
  {c \in {Call("ext_1_sqrt", "sqrt"), Call("sqrt__original", "sub_2"),
          Call("sub_2", "sqrt__original"), Call("sqrtf__original", "sqrtf__original"),
          Call("sqrtf__original", "sqrt"), Call("sqrtf", "sub_1"), Call("sub_1", "sqrtf"),
          Call("sub_1", "ext_1_sqrt"), Call("ext_2_qsort", "qsort"),
          Call("cb_1", "sub_1"), Call("sub_2", "__gmon_start__")} :
     {c.from, c.to} \subseteq DOMAIN fns}

Stored(r, s) == [p \in 1 .. 6 |-> IF p = r THEN s ELSE << >>]
Site(f, r, s) == [ext |-> f, stored |-> Stored(r, s)]
Sites == <<
  {Site("ext_2_qsort", 4, << "number", "cb_1" >>)},
  {Site("ext_3_signal", 2, << "cb_1", "cb_2", "number" >>)},
  {Site("ext_2_qsort", 4, << "cb_1" >>), Site("ext_3_signal", 2, << "cb_1" >>)},
  {Site("ext_2_qsort", 4, << "cb_1" >>), Site("ext_3_signal", 2, << "cb_2" >>)},
  {Site("ext_2_qsort", 4, << "number" >>)},
  {Site("ext_5_open", 1, << "cb_2" >>), Site("ext_3_signal", 1, << "cb_1" >>),
   Site("ext_2_qsort", 4, << "cb_2" >>)} >>

Bodies == << << <<"other", "sub">>, <<"other">> >>, << <<"indirect", "sub">> >> >>

MadeModule(d, s, b, loads) ==
  LET fns == Base @@ d
  IN  [fns |-> fns, calls |-> CallsOf(fns),
       flags |-> [AF_1_2 |-> [reg |-> "AF", stores |-> {"sub_1"}, loads |-> loads],
                  ZF_3_4 |-> [reg |-> "ZF", stores |-> {"sub_1", "sub_2"}, loads |-> {"sub_2"}],
                  RAX_5_6 |-> [reg |-> "RAX", stores |-> {"sub_1"}, loads |-> {}]],
       sites |-> s,
       body |-> [cb_1 |-> b, cb_2 |-> << <<"sub">> >>],
       lower |-> [cb_1 |-> [i \in DOMAIN b |-> 0], cb_2 |-> << 0 >>]]

\* A program is the choice of these four.
MCPrograms == (1 .. 4) \X (1 .. 6) \X (1 .. 2) \X (0 .. 1)
MCLifted == [p \in MCPrograms |->
               MadeModule(Doubles[p[1]], Sites[p[2]], Bodies[p[3]],
                          IF p[4] = 1 THEN {"sub_2"} ELSE {})]

\* Two programs are rebuilt into each other; the others are run once.
Rebuilt == {<<3, 1, 1, 0>>, <<2, 4, 1, 1>>}
RunOnce == program \in Rebuilt \/ runs <= 1
Rebuilds == program' = program \/ {program, program'} \subseteq Rebuilt
=============================================================================
