---------------------------- MODULE CFGLoaderMC ----------------------------
(***************************************************************************)
(* CFGs for CFGLoader.                                                     *)
(***************************************************************************)
EXTENDS CFGLoader

CFG(funcs, external_funcs, external_vars, segs_) ==
  [funcs |-> funcs, external_funcs |-> external_funcs, external_vars |-> external_vars,
   segments |-> segs_]

Lists(S, n) == UNION {[1..k -> S] : k \in 0..n}

Func(ea, name, entry, blocks) ==
  [ea |-> ea, name |-> name, is_entrypoint |-> entry, blocks |-> blocks]
ExternalFunc(ea, name) == [ea |-> ea, name |-> name]
ExternalVar(ea, name, size) ==
  [ea |-> ea, name |-> name, size |-> size, is_thread_local |-> ea = 4]
Var(ea, name) == [ea |-> ea, name |-> name]
Reference(ea, width, target) == [ea |-> ea, width |-> width, target_ea |-> target]
Segment(ea, data, variable_name, read_only, vars, xrefs) ==
  [ea |-> ea, data |-> data, name |-> "data", variable_name |-> variable_name,
   is_read_only |-> read_only, is_external |-> FALSE, is_exported |-> FALSE,
   is_thread_local |-> FALSE, vars |-> vars, xrefs |-> xrefs]

(* External variables under three names at three addresses, one of which   *)
(* may be a function's, and data that refers to them.                      *)
Externals ==
  {CFG(<<Func(f, "f", FALSE, << >>)>>, << >>, vars,
       <<Segment(9, <<1, 0>>, None, FALSE, << >>, <<Reference(9, 2, 1)>>)>>) :
     f \in {4, 7},
     vars \in Lists({ExternalVar(ea, name, ea) : ea \in {1, 2, 4}, name \in {"a", "b", "c"}}, 4)}

(* Three neighbouring segments, in any order, cut by a variable and        *)
(* cross-references.                                                       *)
Orders == {<<1, 2, 3>>, <<2, 3, 1>>, <<3, 2, 1>>}
Neighbours ==
  {LET parts == <<Segment(2, one, None, TRUE, <<Var(v, "v")>>, <<Reference(x, w, 7)>>),
                  Segment(6, <<0, 1>>, two, FALSE, << >>, << >>),
                  Segment(8, last, None, TRUE, << >>, << >>)>>
   IN  CFG(<< >>, <<ExternalFunc(12, "g")>>, ext, [k \in 1..3 |-> parts[order[k]]]) :
     one \in [1..4 -> {0, 1}], v \in 2..5, x \in 3..5, w \in 1..2,
     two \in {None, "e"}, last \in {<<0>>, <<1>>}, order \in Orders,
     ext \in {<< >>, <<ExternalVar(6, "e", 3)>>}}

Inst(ea, lp, refs) == [ea |-> ea, lp_ea |-> lp, xrefs |-> refs]
Ref(operand, ea) == [operand |-> operand, ea |-> ea]
Block(ea, succs, insts) ==
  [ea |-> ea, successor_eas |-> succs, instructions |-> insts, is_referenced_by_data |-> FALSE]
Code ==
  {CFG(<<Func(2, "f", TRUE, <<Block(2, s1, <<Inst(2, 0, refs), Inst(3, 5, << >>)>>), shared>>),
         Func(6, name, entry, <<Block(6, s2, << >>), Block(4, s2, <<Inst(4, 0, <<Ref("mem", 9)>>)>>)>>),
         Func(again, "h", TRUE, <<shared>>)>>,
       <<ExternalFunc(6, "x"), ExternalFunc(9, None)>>, <<ExternalVar(again, "f", 2)>>,
       <<Segment(2, <<1, 1, 1, 1, 1>>, None, TRUE, <<Var(2, "v"), Var(3, None)>>, << >>)>>) :
     s1 \in Lists({4, 6}, 2), s2 \in Lists({2, 4}, 1),
     shared \in {Block(4, <<6>>, << >>), Block(4, << >>, <<Inst(5, 0, <<Ref("mem", 2)>>)>>)},
     refs \in {<< >>, <<Ref("imm", 2), Ref("imm", 4)>>, [k \in 1..6 |-> Ref("flow", k)]},
     name \in {None, "k"}, entry \in BOOLEAN, again \in {6, 8}}

CFGs == Externals \cup Neighbours \cup Code
=============================================================================
