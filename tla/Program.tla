------------------------------ MODULE Program ------------------------------
(***************************************************************************)
(* The view of a program binary that both lifters read                     *)
(* (anvill/src/Program.cpp): mapped byte ranges with one record of         *)
(* metadata per byte, the declared functions and global variables, and the *)
(* iterators over the two declaration lists.                               *)
(*                                                                         *)
(* A call that the code refuses returns an error and leaves the program    *)
(* unchanged, so it is a stuttering step: every action is the accepted     *)
(* call, and its guard is the conjunction of the negated error conditions. *)
(* The values of the bytes, is_writeable and the checks of a declaration's *)
(* types (CheckValueDecl) are left out: nothing below depends on them.     *)
(*                                                                         *)
(* An operator marked "mutant" is a faulty variant of the one that follows *)
(* it. No specification uses it: it shows which property notices the       *)
(* fault.                                                                  *)
(***************************************************************************)
EXTENDS Integers, Sequences, FiniteSets, Functions

CONSTANTS
  MaxAddr,    \* the largest uint64_t: every address sum is modulo MaxAddr + 1
  PtrMax,     \* the largest pointer of the lifted program's data layout
  VarSizes,   \* the allocation sizes of the types given to variables
  Forces,     \* the values of DeclareFunction's argument `force`
  MaxRanges,  \* bound: how many ranges are mapped
  MaxFuncs,   \* bound: how many functions are declared
  MaxVars,    \* bound: how many variables are declared
  MaxLoops    \* bound: how deeply ForEach... calls nest in their callbacks

ASSUME AddrAssumption == MaxAddr \in Nat /\ PtrMax \in 0..MaxAddr
ASSUME SizeAssumption == VarSizes \subseteq 1..MaxAddr
ASSUME ForceAssumption == Forces \subseteq BOOLEAN
ASSUME BoundAssumption == {MaxRanges, MaxFuncs, MaxVars, MaxLoops} \subseteq Nat

VARIABLES
  bytes,            \* end address (exclusive) of a mapped range |-> its first address
  meta,             \* mapped address |-> Byte::Meta
  funcs,            \* the declared functions' addresses, in declaration order
  funcs_are_sorted,
  ea_to_func,       \* address |-> index in funcs of the declaration FindFunction returns
  vars,             \* the declared variables' addresses, in vector order
  vars_are_sorted,
  ea_to_var,        \* address |-> allocation size of the variable declared there
  loops             \* the running ForEach... calls, innermost last

memory == <<bytes, meta>>
function_decls == <<funcs, funcs_are_sorted, ea_to_func>>
variable_decls == <<vars, vars_are_sorted, ea_to_var>>
state == <<memory, function_decls, variable_decls, loops>>

Addr == 0..MaxAddr

Meta == [is_executable : BOOLEAN, is_undefined : BOOLEAN,
         is_function_head : BOOLEAN, is_variable_head : BOOLEAN,
         next_byte_is_in_range : BOOLEAN, next_byte_starts_new_range : BOOLEAN]

(* uint64_t addition of two addresses.                                     *)
Add(a, n) == IF a + n > MaxAddr THEN a + n - (MaxAddr + 1) ELSE a + n

-----------------------------------------------------------------------------
(* Lookups.                                                                *)

(* e is bytes.upper_bound(a): the least end address above a.               *)
\* mutant
IsLowerBound(m, a, e) ==
  /\ e \in DOMAIN m
  /\ a <= e
  /\ \A f \in DOMAIN m : a <= f => e <= f
IsUpperBound(m, a, e) ==
  /\ e \in DOMAIN m
  /\ a < e
  /\ \A f \in DOMAIN m : a < f => e <= f

(* FindByte finds a byte at a in the map m.                                *)
FindByteIn(m, a) == \E e \in DOMAIN m : IsUpperBound(m, a, e) /\ m[e] <= a

FindByte(a) == FindByteIn(bytes, a)

(* FindNextByte, given the byte at a, returns a valid byte.                *)
FindNextByte(a) ==
  /\ a \in DOMAIN meta
  /\ \/ meta[a].next_byte_is_in_range
     \/ meta[a].next_byte_starts_new_range /\ FindByte(Add(a, 1))

FindFunction(a) == a \in DOMAIN ea_to_func

FindVariable(a) == a \in DOMAIN ea_to_var

(* v is the greatest variable address that is not above a.                 *)
\* mutant
IsFirst(v, a) ==
  /\ v \in DOMAIN ea_to_var
  /\ v <= a
  /\ \A w \in DOMAIN ea_to_var : w <= a => w >= v
IsClosest(v, a) ==
  /\ v \in DOMAIN ea_to_var
  /\ v <= a
  /\ \A w \in DOMAIN ea_to_var : w <= a => w <= v

(* The addresses v for which FindInVariable(a) returns the variable at v.  *)
FindInVariable(a) ==
  {v \in DOMAIN ea_to_var :
     /\ IsClosest(v, a)
     /\ \/ v = a
        \/ LET address_max == Add(v, ea_to_var[v]) % (PtrMax + 1)
           IN  /\ address_max >= v
               /\ address_max >= ea_to_var[v]
               /\ a < address_max}

-----------------------------------------------------------------------------
(* MapRange.                                                               *)

(* The loop over the existing ranges, in the order of their end addresses, *)
(* reaches an overlapping one before it breaks off.                        *)
\* mutant
FindsOverlapAtStart(first, end) ==
  \E e \in DOMAIN bytes : bytes[e] <= first /\ first < e
FindsOverlap(first, end) ==
  \E e \in DOMAIN bytes :
    /\ bytes[e] < end
    /\ first < e
    /\ \A f \in DOMAIN bytes : f < e => bytes[f] < end

(* The metadata of the new range's byte a, with the heads of the functions *)
(* and variables that were declared before the range was mapped.           *)
\* mutant
FreshMetaHeadless(a, end, executable) ==
  [is_executable |-> executable,
   is_undefined |-> FALSE,
   is_function_head |-> FALSE,
   is_variable_head |-> FALSE,
   next_byte_is_in_range |-> a # end - 1,
   next_byte_starts_new_range |-> FALSE]
FreshMeta(a, end, executable) ==
  [is_executable |-> executable,
   is_undefined |-> FALSE,
   is_function_head |-> a \in Range(funcs),
   is_variable_head |-> a \in Range(vars),
   next_byte_is_in_range |-> a # end - 1,
   next_byte_starts_new_range |-> FALSE]

(* The last byte of the range below the new one is told of its successor.  *)
\* mutant
LinkNothing(m, first) == meta
LinkPrevious(m, first) ==
  IF first > 0 /\ FindByteIn(m, first - 1)
  THEN [meta EXCEPT ![first - 1].next_byte_is_in_range = FALSE,
                    ![first - 1].next_byte_starts_new_range = TRUE]
  ELSE meta

MapRange(first, size, executable) ==
  LET end == Add(first, size)
      range == first..(end - 1)
      newBytes == [e \in DOMAIN bytes \cup {end} |->
                     IF e = end THEN first ELSE bytes[e]]
      linked == LinkPrevious(newBytes, first)
  IN
  /\ Cardinality(DOMAIN bytes) < MaxRanges
  /\ size > 0
  /\ MaxAddr - (size - 1) >= first /\ first < end /\ end # 0
  /\ ~FindsOverlap(first, end)
  /\ executable \/ Range(funcs) \cap range = {}
  /\ bytes' = newBytes
  /\ meta' = [a \in DOMAIN meta \cup range |->
                IF a \in range THEN FreshMeta(a, end, executable) ELSE linked[a]]
  /\ UNCHANGED <<function_decls, variable_decls, loops>>

-----------------------------------------------------------------------------
(* Declarations.                                                           *)

(* Whether appending a keeps the vector sorted: only its last is compared. *)
StaysSorted(decls, a) == decls # <<>> => decls[Len(decls)] <= a

\* mutant
Prepended(decls, a) == <<a>> \o decls
Appended(decls, a) == Append(decls, a)

(* A function may be declared at unmapped or executable bytes.             *)
\* mutant
MayHoldAnything(a) == TRUE
MayHoldFunction(a) == FindByte(a) => meta[a].is_executable

(* A forced declaration of a declared address appends a second declaration *)
(* while ea_to_func.emplace keeps the first one.                           *)
DeclareFunction(a, force) ==
  /\ Len(funcs) < MaxFuncs
  /\ MayHoldFunction(a)
  /\ FindFunction(a) => force
  /\ funcs_are_sorted' = (funcs_are_sorted /\ StaysSorted(funcs, a))
  /\ funcs' = Appended(funcs, a)
  /\ ea_to_func' = [x \in DOMAIN ea_to_func \cup {a} |->
                      IF FindFunction(x) THEN ea_to_func[x] ELSE Len(funcs) + 1]
  /\ meta' = IF FindByte(a) THEN [meta EXCEPT ![a].is_function_head = TRUE] ELSE meta
  /\ UNCHANGED <<bytes, variable_decls, loops>>

DeclareVariable(a, size) ==
  /\ Len(vars) < MaxVars
  /\ ~FindVariable(a)
  /\ vars_are_sorted' = (vars_are_sorted /\ StaysSorted(vars, a))
  /\ vars' = Appended(vars, a)
  /\ ea_to_var' = [x \in DOMAIN ea_to_var \cup {a} |->
                     IF FindVariable(x) THEN ea_to_var[x] ELSE size]
  /\ meta' = IF FindByte(a) THEN [meta EXCEPT ![a].is_variable_head = TRUE] ELSE meta
  /\ UNCHANGED <<bytes, function_decls, loops>>

Undefinable(a) == meta[a].is_function_head /\ ~meta[a].is_variable_head

(* Byte::SetUndefined on the byte FindByte returns.                        *)
SetUndefined(a, is_undef) ==
  /\ FindByte(a)
  /\ Undefinable(a)
  /\ meta' = [meta EXCEPT ![a].is_undefined = is_undef]
  /\ UNCHANGED <<bytes, function_decls, variable_decls, loops>>

-----------------------------------------------------------------------------
(* Iterators. A call sorts first, then visits the elements by index; its   *)
(* callback may make any call of this module between two visits.           *)

(* vars in the order std::sort leaves it: the addresses are distinct.      *)
IsSortedVars(s) ==
  /\ Range(s) = Range(vars)
  /\ \A i, j \in DOMAIN s : i < j => s[i] < s[j]

SortVars == \E s \in [1..Len(vars) -> Range(vars)] : IsSortedVars(s) /\ vars' = s

(* A running call is steady while no call inside it reorders vars.         *)
Enter(list) ==
  /\ Len(loops) < MaxLoops
  /\ loops' = Append([k \in DOMAIN loops |->
                        [loops[k] EXCEPT !.steady = @ /\ vars' = vars]],
                     [over |-> list, seen |-> <<>>, steady |-> TRUE])

(* ForEachFunction sorts the variables and calls the functions sorted.     *)
ForEachFunction ==
  /\ IF funcs_are_sorted THEN UNCHANGED vars ELSE SortVars
  /\ Enter("funcs")
  /\ funcs_are_sorted' = TRUE
  /\ UNCHANGED <<memory, funcs, ea_to_func, vars_are_sorted, ea_to_var>>

ForEachVariable ==
  /\ IF vars_are_sorted THEN UNCHANGED vars ELSE SortVars
  /\ Enter("vars")
  /\ vars_are_sorted' = TRUE
  /\ UNCHANGED <<memory, function_decls, ea_to_var>>

ListOf(loop) == IF loop.over = "funcs" THEN funcs ELSE vars

(* The innermost loop calls its callback on the next element.              *)
Visit ==
  LET loop == loops[Len(loops)] IN
  /\ loops # <<>>
  /\ Len(loop.seen) < Len(ListOf(loop))
  /\ loops' = [loops EXCEPT ![Len(loops)].seen =
                 Append(loop.seen, ListOf(loop)[Len(loop.seen) + 1])]
  /\ UNCHANGED <<memory, function_decls, variable_decls>>

(* The list is exhausted, or the callback returned false.                  *)
Leave ==
  /\ loops # <<>>
  /\ loops' = SubSeq(loops, 1, Len(loops) - 1)
  /\ UNCHANGED <<memory, function_decls, variable_decls>>

-----------------------------------------------------------------------------
Init ==
  /\ bytes = << >> /\ meta = << >>
  /\ funcs = << >> /\ funcs_are_sorted = TRUE /\ ea_to_func = << >>
  /\ vars = << >> /\ vars_are_sorted = TRUE /\ ea_to_var = << >>
  /\ loops = << >>

Next ==
  \/ \E first \in Addr, size \in Addr, executable \in BOOLEAN :
       MapRange(first, size, executable)
  \/ \E a \in Addr, force \in Forces : DeclareFunction(a, force)
  \/ \E a \in Addr, size \in VarSizes : DeclareVariable(a, size)
  \/ \E a \in Addr, is_undef \in BOOLEAN : SetUndefined(a, is_undef)
  \/ ForEachFunction
  \/ ForEachVariable
  \/ Visit
  \/ Leave

Spec == Init /\ [][Next]_state

-----------------------------------------------------------------------------
(* Properties.                                                             *)

Mapped == {a \in Addr : \E e \in DOMAIN bytes : bytes[e] <= a /\ a < e}

Loop == [over : {"funcs", "vars"}, seen : Seq(Addr), steady : BOOLEAN]

(* Every variable has its type; there is one record of metadata per mapped *)
(* byte, and the lookup tables index exactly the declarations.             *)
TypeOK ==
  /\ DOMAIN bytes \subseteq Addr /\ \A e \in DOMAIN bytes : bytes[e] \in 0..(e - 1)
  /\ meta \in [Mapped -> Meta]
  /\ funcs \in Seq(Addr) /\ vars \in Seq(Addr)
  /\ ea_to_func \in [Range(funcs) -> DOMAIN funcs]
  /\ ea_to_var \in [Range(vars) -> VarSizes]
  /\ funcs_are_sorted \in BOOLEAN /\ vars_are_sorted \in BOOLEAN
  /\ loops \in Seq(Loop)

(* No address is mapped by two ranges: MapRange's walk over the ranges,    *)
(* which breaks off early, misses no overlap.                              *)
RangesDisjoint ==
  \A e, f \in DOMAIN bytes : e # f => e <= bytes[f] \/ f <= bytes[e]

(* FindByte, which looks at one range only (the first that ends above the  *)
(* address), finds exactly the mapped bytes.                               *)
FindByteExact == \A a \in Addr : FindByte(a) <=> a \in Mapped

(* A byte is marked as the head of a function or a variable exactly when   *)
(* one is declared there, whichever of MapRange and DeclareFunction or     *)
(* DeclareVariable came first.                                             *)
HeadsAgree ==
  \A a \in DOMAIN meta :
    /\ meta[a].is_function_head <=> a \in Range(funcs)
    /\ meta[a].is_variable_head <=> a \in Range(vars)

(* No function is defined by bytes that are not executable, whichever of   *)
(* MapRange and DeclareFunction came first.                                *)
FunctionsExecutable ==
  \A i \in DOMAIN funcs : funcs[i] \in DOMAIN meta => meta[funcs[i]].is_executable

(* FindNextByte never steps past the end of a range's vector: it reaches   *)
(* byte[1] only inside a range, and a successor it promises is mapped.     *)
FindNextByteSound ==
  \A a \in DOMAIN meta :
    /\ meta[a].next_byte_is_in_range =>
         \E e \in DOMAIN bytes : bytes[e] <= a /\ a + 1 < e
    /\ meta[a].next_byte_starts_new_range => FindByte(a + 1)

(* Mapping a range directly above a mapped byte lets FindNextByte cross    *)
(* from that byte into it, and no call takes a successor away again.       *)
FindNextByteCrosses ==
  [][\A a \in DOMAIN meta :
       FindNextByte(a) \/ a + 1 \in (DOMAIN meta') \ DOMAIN meta
         => FindNextByte(a)']_state

(* When the variables do not overlap and none ends at the top of the       *)
(* pointer range, FindInVariable returns exactly the variable whose bytes  *)
(* hold the address.                                                       *)
Extent(v) == v..(v + ea_to_var[v] - 1)
FindInVariableExact ==
  (/\ \A v, w \in DOMAIN ea_to_var : v # w => Extent(v) \cap Extent(w) = {}
   /\ \A v \in DOMAIN ea_to_var : v + ea_to_var[v] <= PtrMax)
  => \A a \in Addr : FindInVariable(a) = {v \in DOMAIN ea_to_var : a \in Extent(v)}

(* The look-ups and the marks are exact together, in whatever order ranges *)
(* and declarations came: FindByte wherever a byte is mapped, FindNextByte *)
(* never past what is mapped, FindInVariable, and what a byte says it is   *)
(* the head of.                                                            *)
LookupsAgree == FindByteExact /\ FindNextByteSound /\ FindInVariableExact /\ HeadsAgree

(* An iteration visits no variable twice, and when it has run to the end it*)
(* has visited every one, those its callback declared included, whatever   *)
(* iterations run in its callback, unless one of these sorts the vector    *)
(* anew. (Then it may visit one twice and miss another.)                   *)
VisitsEachOnce ==
  \A k \in DOMAIN loops :
    loops[k].over = "vars" /\ loops[k].steady =>
      LET seen == loops[k].seen IN
      /\ \A i, j \in DOMAIN seen : seen[i] = seen[j] => i = j
      /\ Len(seen) = Len(vars) => Range(seen) = Range(vars)

(* The addresses that two of the declared functions have.                  *)
SharedByFunctions ==
  {a \in Range(funcs) : \E i, j \in DOMAIN funcs : i # j /\ funcs[i] = a /\ funcs[j] = a}

(* The program implements the promise its header makes, but for functions  *)
(* that are declared by force: those, and only at an address that has one. *)
Promise == INSTANCE AddressSpace WITH
  Address <- Addr,
  mapped <- [a \in Mapped |-> meta[a].is_executable],
  declared <- Range(funcs),
  shared <- SharedByFunctions,
  variables <- Range(vars)
KeepsPromise == Promise!Spec

(* "two variables cannot share the same address, nor can two functions     *)
(* share the same address" (Program.h:171). It does not hold of functions: *)
(* a forced declaration is added beside the one it is to replace.          *)
AddressesUnique ==
  /\ \A i, j \in DOMAIN vars : vars[i] = vars[j] => i = j
  /\ SharedByFunctions = {}

=============================================================================
