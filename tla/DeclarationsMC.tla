--------------------------- MODULE DeclarationsMC ---------------------------
(***************************************************************************)
(* What a declaration is made of: its types, which the tools write and     *)
(* read (TypeSpecs), or the places of its values (AllocationMC).           *)
(***************************************************************************)
EXTENDS AllocationMC

CONSTANT MaxTrips
VARIABLES holder, held, spec, was, specs

Leaf(kind, n) == [kind |-> kind, n |-> n, of |-> << >>]
Over(kind, n, of) == [kind |-> kind, n |-> n, of |-> of]
Number(k) == Leaf("struct", k)
Tuples(Set, n) == UNION {[1..k -> Set] : k \in 0..n}
Struct(elems) == [packed |-> FALSE, opaque |-> FALSE, elems |-> elems]

(* Pairs of structures, of which the second is used by the first, and by a *)
(* function; and a union, and structures behind pointers to each other.    *)
FrontEndElems ==
  {Leaf("int", 8), Leaf("int", 32), Leaf("float", 8), Leaf("ptr", 0), Number(1),
   Over("ptr", 0, <<Number(1)>>), Over("alias", 0, <<Number(2)>>),
   Over("array", 2, <<Number(1)>>),
   Over("ptr", 0, <<Over("func", 1, <<Over("ptr", 0, <<Number(2)>>), Leaf("int", 32)>>)>>),
   Over("ptr", 0, <<Over("func", 0, <<Leaf("void", 0)>>)>>)}
FrontEndSeconds ==
  {<< >>, <<Leaf("int", 32), Leaf("int", 32)>>, <<Leaf("int", 64), Over("vector", 4, <<Leaf("int", 16)>>)>>,
   <<Over("ptr", 0, <<Number(2)>>)>>, <<Over("ptr", 0, <<Number(0)>>)>>}
FrontEndUnions ==
  {<< >>, <<Leaf("int", 8), Leaf("int", 64)>>, <<Leaf("int", 64), Leaf("int", 8)>>,
   <<Leaf("float", 10), Number(1)>>}
MCFrontEndTypes ==
  {[type |-> Number(0),
    defs |-> <<Struct(first), Struct(second), Struct(union)>>] :
     first \in Tuples(FrontEndElems, 2), second \in FrontEndSeconds, union \in FrontEndUnions}

ModuleElems ==
  {Leaf("int", n) : n \in {1, 16, 24, 32, 256}}
    \cup {Leaf("x87", 0), Leaf("bfloat", 0), Number(1), Over("ptr", 0, <<Number(1)>>),
          Over("ptr", 0, <<Number(2)>>), Over("vector", 3, <<Leaf("int", 32)>>),
          Over("literal", 0, <<Leaf("int", 8), Number(1)>>),
          Over("ptr", 0, <<Over("func", 0, <<Number(1), Leaf("void", 0)>>)>>)}
ModuleSeconds ==
  {Struct(<<Leaf("int", 8)>>), Struct(<<Leaf("int", 16), Leaf("int", 128)>>), Struct(<< >>),
   [Struct(<<Leaf("int", 8), Leaf("int", 32)>>) EXCEPT !.packed = TRUE]}
MCModuleTypes ==
  {[type |-> Number(0),
    defs |-> <<Struct(first), second, [Struct(<< >>) EXCEPT !.opaque = TRUE]>>] :
     first \in Tuples(ModuleElems, 2), second \in ModuleSeconds}
  \cup {[type |-> e, defs |-> <<Struct(<< >>), second, [Struct(<< >>) EXCEPT !.opaque = TRUE]>>] :
          e \in ModuleElems, second \in ModuleSeconds}

typeState == <<holder, held, spec, was, specs>>

Types == INSTANCE TypeSpecs WITH FrontEndTypes <- MCFrontEndTypes, ModuleTypes <- MCModuleTypes

DeclarationsInit ==
  /\ Init
  /\ \/ Types!TypesIdle
     \/ conv = (CHOOSE c \in Conventions : TRUE) /\ Types!TypesInit

DeclarationsNext ==
  \/ holder = "nobody" /\ MCNext /\ UNCHANGED typeState
  \/ Types!TypesNext /\ UNCHANGED vars

DeclarationsSpec == DeclarationsInit /\ [][DeclarationsNext]_<<vars, typeState>>

(* A type that was written is read as one that has the same fields at the  *)
(* same places, behind pointers and in parameters too; see TypeSpecs.      *)
TypesSurvive == Types!TypesSurvive
=============================================================================
