---------------------------- MODULE AddressSpace ----------------------------
(***************************************************************************)
(* What anvill's Program promises its clients (anvill/include/anvill/      *)
(* Program.h): addresses are mapped at most once and for good, functions   *)
(* and variables may be declared before or after the bytes they name are   *)
(* mapped, a mapped function is executable, and two variables cannot share *)
(* an address, nor can two functions. The last does not hold of functions  *)
(* declared by force, of which the header says nothing: DeclareByForce is  *)
(* the exception. Module Program is shown to implement it.                 *)
(***************************************************************************)
EXTENDS Integers

CONSTANT Address, Forces

VARIABLES
  mapped,      \* mapped address |-> whether its byte is executable
  declared,    \* the addresses of the declared functions
  shared,      \* those of them that two functions have
  variables    \* the addresses of the declared variables

space == <<mapped, declared, shared, variables>>

Init == mapped = [a \in {} |-> TRUE] /\ declared = {} /\ shared = {} /\ variables = {}

Map(S, executable) ==
  /\ S \cap DOMAIN mapped = {}
  /\ executable \/ S \cap declared = {}
  /\ mapped' = [a \in DOMAIN mapped \cup S |->
                  IF a \in S THEN executable ELSE mapped[a]]
  /\ UNCHANGED <<declared, shared, variables>>

DeclareFunction(a) ==
  /\ a \notin declared
  /\ a \in DOMAIN mapped => mapped[a]
  /\ declared' = declared \cup {a}
  /\ UNCHANGED <<mapped, shared, variables>>

DeclareByForce(a) ==
  /\ TRUE \in Forces
  /\ a \in declared
  /\ shared' = shared \cup {a}
  /\ UNCHANGED <<mapped, declared, variables>>

DeclareVariable(a) ==
  /\ a \notin variables
  /\ variables' = variables \cup {a}
  /\ UNCHANGED <<mapped, declared, shared>>

Next ==
  \/ \E S \in SUBSET Address, executable \in BOOLEAN : Map(S, executable)
  \/ \E a \in Address : DeclareFunction(a) \/ DeclareByForce(a) \/ DeclareVariable(a)

Spec == Init /\ [][Next]_space
=============================================================================
