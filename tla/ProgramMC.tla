----------------------------- MODULE ProgramMC -----------------------------
(***************************************************************************)
(* The instance of Program: ranges are mapped among functions and one      *)
(* variable; or up to three variables are declared and iterated over, and  *)
(* no range is mapped. Iterations see no more of the functions than whether*)
(* they are sorted: two addresses do for the functions among them.         *)
(***************************************************************************)
EXTENDS Program

Iterating == Len(vars) > 1 \/ loops # << >>
Mapping == bytes # << >>
Iterable == ~Mapping /\ Range(funcs) \subseteq {0, 1}

MCNext ==
  \/ /\ ~Iterating
     /\ \E first \in Addr, size \in Addr, executable \in BOOLEAN :
          MapRange(first, size, executable)
  \/ \E a \in Addr, force \in Forces :
       /\ Iterating => a \in {0, 1} /\ ~force
       /\ DeclareFunction(a, force)
  \/ /\ ~Mapping /\ (vars # << >> => Iterable)
     /\ \E a \in Addr, size \in VarSizes : DeclareVariable(a, size)
  \/ /\ Mapping /\ vars = << >>
     /\ \E a \in Addr : DeclareVariable(a, 2)
  \/ \E a \in Addr, is_undef \in BOOLEAN : SetUndefined(a, is_undef)
  \/ Iterable /\ (ForEachFunction \/ ForEachVariable)
  \/ Visit
  \/ Leave

MCSpec == Init /\ [][MCNext]_state
=============================================================================
