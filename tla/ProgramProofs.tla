--------------------------- MODULE ProgramProofs ---------------------------
(* Theorems about module Program, for every value of its constants.        *)
EXTENDS Program, TLAPS

(* The inductive invariant. The lookups and MapRange's early exit are right*)
(* only because the ranges are disjoint, and the ranges stay disjoint only *)
(* because MapRange's walk misses no overlap.                              *)
Inv ==
  /\ TypeOK
  /\ RangesDisjoint
  /\ HeadsAgree
  /\ FunctionsExecutable
  /\ FindNextByteSound

WellFormed(m) ==
  /\ DOMAIN m \subseteq Addr
  /\ \A e \in DOMAIN m : m[e] \in 0..(e - 1)
  /\ \A e, f \in DOMAIN m : e # f => e <= m[f] \/ f <= m[e]

(* upper_bound finds the one range that can hold an address.               *)
LEMMA LookupExact ==
  ASSUME NEW m, WellFormed(m), NEW a \in Int
  PROVE  FindByteIn(m, a) <=> \E e \in DOMAIN m : m[e] <= a /\ a < e
<1>1. ASSUME FindByteIn(m, a)
      PROVE  \E e \in DOMAIN m : m[e] <= a /\ a < e
  BY <1>1 DEF FindByteIn, IsUpperBound
<1>2. ASSUME NEW e \in DOMAIN m, m[e] <= a, a < e
      PROVE  FindByteIn(m, a)
  <2>1. ASSUME NEW f \in DOMAIN m, a < f
        PROVE  e <= f
    BY <1>2, <2>1, AddrAssumption DEF WellFormed, Addr
  <2>2. IsUpperBound(m, a, e)
    BY <1>2, <2>1 DEF IsUpperBound
  <2> QED
    BY <1>2, <2>2 DEF FindByteIn
<1> QED
  BY <1>1, <1>2

LEMMA InvWellFormed == Inv => WellFormed(bytes)
  BY DEF Inv, TypeOK, RangesDisjoint, WellFormed

(* FindByte sees exactly the mapped bytes, which are those with metadata.  *)
LEMMA FindByteIffMapped ==
  ASSUME Inv, NEW a \in Addr
  PROVE  /\ FindByte(a) <=> a \in Mapped
         /\ a \in Mapped <=> a \in DOMAIN meta
<1>1. a \in Int
  BY AddrAssumption DEF Addr
<1> QED
  BY <1>1, InvWellFormed, LookupExact DEF FindByte, Mapped, Inv, TypeOK

(* Breaking off MapRange's loop at the first range that starts at or above *)
(* the new range's end loses no overlap.                                   *)
LEMMA OverlapFound ==
  ASSUME WellFormed(bytes), NEW first \in Addr, NEW end \in Addr,
         ~FindsOverlap(first, end), NEW e \in DOMAIN bytes
  PROVE  end <= bytes[e] \/ e <= first
<1>1. SUFFICES ASSUME bytes[e] < end, first < e PROVE FALSE
  BY AddrAssumption DEF WellFormed, Addr
<1>2. ASSUME NEW f \in DOMAIN bytes, f < e PROVE bytes[f] < end
  BY <1>1, <1>2, AddrAssumption DEF WellFormed, Addr
<1> QED
  BY <1>1, <1>2 DEF FindsOverlap

(* What an accepted MapRange does to the ranges.                           *)
AddsRange(first, end) ==
  /\ end \in Addr /\ first < end
  /\ DOMAIN bytes' = DOMAIN bytes \cup {end} /\ end \notin DOMAIN bytes
  /\ bytes'[end] = first /\ \A e \in DOMAIN bytes : bytes'[e] = bytes[e]
  /\ \A e \in DOMAIN bytes : end <= bytes[e] \/ e <= first
  /\ WellFormed(bytes')
  /\ Mapped' = Mapped \cup first..(end - 1)

LEMMA MapRangeAddsRange ==
  ASSUME Inv, NEW first \in Addr, NEW size \in Addr, NEW executable, executable \in BOOLEAN,
         NEW end, end = first + size,
         MapRange(first, size, executable)
  PROVE  Add(first, size) = end /\ AddsRange(first, end)
<1>1. Add(first, size) = end /\ end \in Addr /\ first < end
  BY AddrAssumption DEF MapRange, Add, Addr
<1>2. \A e \in DOMAIN bytes : end <= bytes[e] \/ e <= first
  BY <1>1, InvWellFormed, OverlapFound DEF MapRange
<1>3. end \notin DOMAIN bytes
  BY <1>1, <1>2, AddrAssumption DEF Inv, TypeOK, Addr
<1>4. /\ DOMAIN bytes' = DOMAIN bytes \cup {end}
      /\ bytes'[end] = first
      /\ \A e \in DOMAIN bytes : bytes'[e] = bytes[e]
  BY <1>1, <1>3 DEF MapRange
<1>5. WellFormed(bytes')
  <2>1. DOMAIN bytes' \subseteq Addr /\ \A e \in DOMAIN bytes' : bytes'[e] \in 0..(e - 1)
    BY <1>1, <1>4, AddrAssumption DEF Inv, TypeOK, Addr
  <2>2. ASSUME NEW e \in DOMAIN bytes', NEW f \in DOMAIN bytes', e # f
        PROVE  e <= bytes'[f] \/ f <= bytes'[e]
    <3>1. CASE e = end
      BY <1>1, <1>2, <1>4, <2>2, <3>1
    <3>2. CASE f = end
      BY <1>1, <1>2, <1>4, <2>2, <3>2
    <3>3. CASE e # end /\ f # end
      BY <1>4, <2>2, <3>3 DEF Inv, RangesDisjoint
    <3> QED
      BY <3>1, <3>2, <3>3
  <2> QED
    BY <2>1, <2>2 DEF WellFormed
<1>6. Mapped' = Mapped \cup first..(end - 1)
  <2>1. ASSUME NEW a \in Addr
        PROVE  a \in Mapped' <=> a \in Mapped \cup first..(end - 1)
    BY <1>1, <1>4, AddrAssumption DEF Mapped, Addr
  <2>2. first..(end - 1) \subseteq Addr
    BY <1>1, AddrAssumption DEF Addr
  <2> QED
    BY <2>1, <2>2 DEF Mapped
<1> QED
  BY <1>1, <1>2, <1>3, <1>4, <1>5, <1>6 DEF AddsRange

-----------------------------------------------------------------------------
(* Each action keeps the invariant.                                        *)

LEMMA InitInv == Init => Inv
  BY DEF Init, Inv, TypeOK, RangesDisjoint, HeadsAgree, FunctionsExecutable,
         FindNextByteSound, Mapped, Range

LEMMA FreshMetaFields ==
  ASSUME NEW a, NEW end, NEW executable, NEW m, m = FreshMeta(a, end, executable)
  PROVE  /\ m.is_executable = executable
         /\ m.is_function_head <=> a \in Range(funcs)
         /\ m.is_variable_head <=> a \in Range(vars)
         /\ m.next_byte_is_in_range <=> a # end - 1
         /\ ~m.next_byte_starts_new_range
  BY Zenon DEF FreshMeta

LEMMA MapRangeInv ==
  ASSUME Inv, NEW first \in Addr, NEW size \in Addr, NEW executable, executable \in BOOLEAN,
         NEW end, end = first + size,
         MapRange(first, size, executable)
  PROVE  Inv'
<1> DEFINE range == first..(end - 1)
<1> DEFINE newBytes == [e \in DOMAIN bytes \cup {end} |->
                          IF e = end THEN first ELSE bytes[e]]
           linked == LinkPrevious(newBytes, first)
<1> HIDE DEF linked, newBytes
<1>0. Add(first, size) = end /\ AddsRange(first, end)
  BY MapRangeAddsRange
<1>1. /\ Add(first, size) = end /\ end \in Addr /\ first < end
      /\ DOMAIN bytes' = DOMAIN bytes \cup {end} /\ end \notin DOMAIN bytes
      /\ bytes'[end] = first /\ \A e \in DOMAIN bytes : bytes'[e] = bytes[e]
      /\ \A e \in DOMAIN bytes : end <= bytes[e] \/ e <= first
      /\ WellFormed(bytes')
      /\ Mapped' = Mapped \cup range
  BY <1>0 DEF AddsRange
<1>2. /\ DOMAIN meta = Mapped /\ meta \in [Mapped -> Meta]
      /\ range \cap Mapped = {}
  <2>1. ASSUME NEW a \in range, a \in Mapped
        PROVE  FALSE
    <3>1. PICK e \in DOMAIN bytes : bytes[e] <= a /\ a < e
      BY <2>1 DEF Mapped
    <3>2. a \in Int /\ first <= a /\ a < end /\ e \in Int /\ bytes[e] \in Int
      BY <1>1, AddrAssumption DEF Inv, TypeOK, Addr
    <3> QED
      BY <1>1, <3>1, <3>2, AddrAssumption DEF Addr
  <2> QED
    BY <2>1 DEF Inv, TypeOK
<1>3. bytes' = newBytes
  BY <1>1 DEF MapRange, newBytes
<1>4. /\ meta' = [a \in DOMAIN meta \cup range |->
                   IF a \in range THEN FreshMeta(a, end, executable) ELSE linked[a]]
      /\ executable \/ Range(funcs) \cap range = {}
      /\ UNCHANGED <<function_decls, variable_decls, loops>>
  BY <1>1 DEF MapRange, linked, newBytes
(* The byte that LinkPrevious changes is the last one of its range.        *)
<1>5. ASSUME NEW a \in DOMAIN meta
      PROVE  /\ linked[a] \in Meta
             /\ linked[a].is_executable = meta[a].is_executable
             /\ linked[a].is_function_head = meta[a].is_function_head
             /\ linked[a].is_variable_head = meta[a].is_variable_head
             /\ linked[a].next_byte_is_in_range => meta[a].next_byte_is_in_range
             /\ linked[a].next_byte_starts_new_range =>
                  meta[a].next_byte_starts_new_range \/ a = first - 1
  BY <1>2 DEF linked, LinkPrevious, Meta
<1>6. meta' \in [Mapped' -> Meta]
  <2>1. \A a \in range : FreshMeta(a, end, executable) \in Meta
    BY DEF FreshMeta, Meta
  <2> QED
    BY <1>1, <1>2, <1>4, <1>5, <2>1
<1>7. TypeOK'
  BY <1>1, <1>4, <1>6
  DEF Inv, TypeOK, WellFormed, function_decls, variable_decls, Mapped
<1>8. RangesDisjoint'
  BY <1>1 DEF WellFormed, RangesDisjoint
<1>9. HeadsAgree'
  <2> SUFFICES ASSUME NEW a \in DOMAIN meta'
               PROVE  /\ meta'[a].is_function_head <=> a \in Range(funcs)
                      /\ meta'[a].is_variable_head <=> a \in Range(vars)
    BY <1>4 DEF HeadsAgree, function_decls, variable_decls
  <2>1. CASE a \in range
    BY <1>4, <2>1, FreshMetaFields
  <2>2. CASE a \notin range
    <3>1. a \in DOMAIN meta /\ meta'[a] = linked[a]
      BY <1>4, <2>2
    <3> QED
      BY <1>5, <3>1 DEF Inv, HeadsAgree
  <2> QED
    BY <2>1, <2>2
<1>10. FunctionsExecutable'
  <2> SUFFICES ASSUME NEW i \in DOMAIN funcs, funcs[i] \in DOMAIN meta'
               PROVE  meta'[funcs[i]].is_executable
    BY <1>4 DEF FunctionsExecutable, function_decls
  <2>1. CASE funcs[i] \in range
    BY <1>4, <2>1 DEF FreshMeta, Range
  <2>2. CASE funcs[i] \notin range
    BY <1>2, <1>4, <1>5, <2>2 DEF Inv, FunctionsExecutable
  <2> QED
    BY <2>1, <2>2
<1>11. FindNextByteSound'
  <2> SUFFICES ASSUME NEW a \in DOMAIN meta'
               PROVE  /\ meta'[a].next_byte_is_in_range =>
                           \E e \in DOMAIN bytes' : bytes'[e] <= a /\ a + 1 < e
                      /\ meta'[a].next_byte_starts_new_range => FindByteIn(bytes', a + 1)
    BY DEF FindNextByteSound, FindByte
  <2>0. a \in Int /\ a + 1 \in Int
    BY <1>1, <1>6, AddrAssumption DEF Mapped, Addr
  <2>1. CASE a \in range
    <3>1. meta'[a] = FreshMeta(a, end, executable)
      BY <1>4, <2>1
    <3>2. meta'[a].next_byte_is_in_range => a # end - 1
      BY <3>1, FreshMetaFields
    <3>3. ~meta'[a].next_byte_starts_new_range
      BY <3>1 DEF FreshMeta
    <3>4. a # end - 1 => bytes'[end] <= a /\ a + 1 < end
      BY <1>1, <2>0, <2>1, AddrAssumption DEF Addr
    <3> QED
      BY <1>1, <3>2, <3>3, <3>4
  <2>2. CASE a \notin range
    <3>1. a \in DOMAIN meta /\ meta'[a] = linked[a]
      BY <1>4, <2>2
    <3>2. meta'[a].next_byte_is_in_range =>
            \E e \in DOMAIN bytes' : bytes'[e] <= a /\ a + 1 < e
      BY <1>1, <1>5, <3>1 DEF Inv, FindNextByteSound
    <3>3. ASSUME meta'[a].next_byte_starts_new_range
          PROVE  FindByteIn(bytes', a + 1)
      <4>1. CASE a = first - 1
        BY <1>1, <2>0, <4>1, LookupExact, AddrAssumption DEF Addr
      <4>2. CASE a # first - 1
        <5>1. FindByteIn(bytes, a + 1)
          BY <1>5, <3>1, <3>3, <4>2 DEF Inv, FindNextByteSound, FindByte
        <5>2. PICK e \in DOMAIN bytes : bytes[e] <= a + 1 /\ a + 1 < e
          BY <2>0, <5>1, InvWellFormed, LookupExact
        <5> QED
          BY <1>1, <2>0, <5>2, LookupExact
      <4> QED
        BY <4>1, <4>2
    <3> QED
      BY <3>2, <3>3
  <2> QED
    BY <2>1, <2>2
<1> QED
  BY <1>7, <1>8, <1>9, <1>10, <1>11 DEF Inv

LEMMA AppendedRange ==
  ASSUME NEW s \in Seq(Addr), NEW a \in Addr, NEW t, t = Appended(s, a)
  PROVE  t \in Seq(Addr) /\ Range(t) = Range(s) \cup {a}
  BY DEF Appended, Range

(* An action that maps nothing and leaves the executable and the successor *)
(* marks alone keeps what the invariant says of them.                      *)
MarksKept ==
  /\ bytes' = bytes
  /\ meta' \in [DOMAIN meta -> Meta]
  /\ \A a \in DOMAIN meta :
       /\ meta'[a].is_executable = meta[a].is_executable
       /\ meta'[a].next_byte_is_in_range = meta[a].next_byte_is_in_range
       /\ meta'[a].next_byte_starts_new_range = meta[a].next_byte_starts_new_range

LEMMA MarksKeptInv ==
  ASSUME Inv, MarksKept
  PROVE  /\ RangesDisjoint' /\ FindNextByteSound'
         /\ meta' \in [Mapped' -> Meta]
         /\ DOMAIN meta' = DOMAIN meta
  BY DEF Inv, TypeOK, MarksKept, RangesDisjoint, FindNextByteSound, Mapped, FindByte

LEMMA DeclareFunctionInv ==
  ASSUME Inv, NEW a \in Addr, NEW force, DeclareFunction(a, force)
  PROVE  Inv'
<1> USE DEF Inv
<1>1. FindByte(a) <=> a \in DOMAIN meta
  BY FindByteIffMapped
<1>2. /\ meta' \in [DOMAIN meta -> Meta]
      /\ \A x \in DOMAIN meta :
           /\ meta'[x].is_executable = meta[x].is_executable
           /\ meta'[x].next_byte_is_in_range = meta[x].next_byte_is_in_range
           /\ meta'[x].next_byte_starts_new_range = meta[x].next_byte_starts_new_range
           /\ meta'[x].is_variable_head = meta[x].is_variable_head
           /\ meta'[x].is_function_head <=> meta[x].is_function_head \/ x = a
  <2>1. CASE FindByte(a)
    <3>1. meta' = [meta EXCEPT ![a].is_function_head = TRUE]
      BY <2>1 DEF DeclareFunction
    <3>2. meta'[a] = [meta[a] EXCEPT !.is_function_head = TRUE] /\ meta[a] \in Meta
      BY <1>1, <2>1, <3>1 DEF TypeOK
    <3>3. \A x \in DOMAIN meta : x # a => meta'[x] = meta[x]
      BY <3>1
    <3>4. meta'[a] \in Meta
      BY <3>2 DEF Meta
    <3>5. meta' \in [DOMAIN meta -> Meta]
      BY <3>1, <3>3, <3>4 DEF TypeOK
    <3>6. /\ meta'[a].is_executable = meta[a].is_executable
          /\ meta'[a].next_byte_is_in_range = meta[a].next_byte_is_in_range
          /\ meta'[a].next_byte_starts_new_range = meta[a].next_byte_starts_new_range
          /\ meta'[a].is_variable_head = meta[a].is_variable_head
          /\ meta'[a].is_function_head
      BY <3>2 DEF Meta
    <3> QED
      BY <3>3, <3>5, <3>6
  <2>2. CASE ~FindByte(a)
    BY <1>1, <2>2 DEF DeclareFunction, TypeOK
  <2> QED
    BY <2>1, <2>2
<1>3. MarksKept
  BY <1>2 DEF MarksKept, DeclareFunction
<1>4. /\ funcs' \in Seq(Addr)
      /\ DOMAIN funcs' = DOMAIN funcs \cup {Len(funcs) + 1}
      /\ Range(funcs') = Range(funcs) \cup {a}
      /\ funcs'[Len(funcs) + 1] = a
      /\ \A i \in DOMAIN funcs : funcs'[i] = funcs[i]
  <2>1. funcs \in Seq(Addr) /\ funcs' = Appended(funcs, a)
    BY DEF DeclareFunction, TypeOK
  <2>2. funcs' \in Seq(Addr) /\ Range(funcs') = Range(funcs) \cup {a}
    BY <2>1, AppendedRange
  <2>3. /\ DOMAIN funcs' = DOMAIN funcs \cup {Len(funcs) + 1}
        /\ funcs'[Len(funcs) + 1] = a
        /\ \A i \in DOMAIN funcs : funcs'[i] = funcs[i]
    BY <2>1 DEF Appended
  <2> QED
    BY <2>2, <2>3
<1>5. TypeOK'
  <2>1. ea_to_func' \in [Range(funcs') -> DOMAIN funcs']
    BY <1>4 DEF DeclareFunction, TypeOK, FindFunction
  <2>2. funcs_are_sorted' \in BOOLEAN
    BY DEF DeclareFunction
  <2> QED
    BY <1>3, <1>4, <2>1, <2>2, MarksKeptInv
    DEF TypeOK, DeclareFunction, variable_decls, Mapped
<1>6. HeadsAgree'
  BY <1>2, <1>4 DEF HeadsAgree, DeclareFunction, variable_decls
<1>7. FunctionsExecutable'
  <2> SUFFICES ASSUME NEW i \in DOMAIN funcs', funcs'[i] \in DOMAIN meta'
               PROVE  meta'[funcs'[i]].is_executable
    BY DEF FunctionsExecutable
  <2>1. CASE i = Len(funcs) + 1
    BY <1>1, <1>2, <1>4, <2>1 DEF DeclareFunction, MayHoldFunction
  <2>2. CASE i \in DOMAIN funcs
    BY <1>2, <1>4, <2>2 DEF FunctionsExecutable
  <2> QED
    BY <1>4, <2>1, <2>2
<1> QED
  BY <1>3, <1>5, <1>6, <1>7, MarksKeptInv

LEMMA DeclareVariableInv ==
  ASSUME Inv, NEW a \in Addr, NEW size \in VarSizes, DeclareVariable(a, size)
  PROVE  Inv'
<1> USE DEF Inv
<1>1. FindByte(a) <=> a \in DOMAIN meta
  BY FindByteIffMapped
<1>2. /\ meta' \in [DOMAIN meta -> Meta]
      /\ \A x \in DOMAIN meta :
           /\ meta'[x].is_executable = meta[x].is_executable
           /\ meta'[x].next_byte_is_in_range = meta[x].next_byte_is_in_range
           /\ meta'[x].next_byte_starts_new_range = meta[x].next_byte_starts_new_range
           /\ meta'[x].is_function_head = meta[x].is_function_head
           /\ meta'[x].is_variable_head <=> meta[x].is_variable_head \/ x = a
  <2>1. CASE FindByte(a)
    <3>1. meta' = [meta EXCEPT ![a].is_variable_head = TRUE]
      BY <2>1 DEF DeclareVariable
    <3>2. meta'[a] = [meta[a] EXCEPT !.is_variable_head = TRUE] /\ meta[a] \in Meta
      BY <1>1, <2>1, <3>1 DEF TypeOK
    <3>3. \A x \in DOMAIN meta : x # a => meta'[x] = meta[x]
      BY <3>1
    <3>4. meta'[a] \in Meta
      BY <3>2 DEF Meta
    <3>5. meta' \in [DOMAIN meta -> Meta]
      BY <3>1, <3>3, <3>4 DEF TypeOK
    <3>6. /\ meta'[a].is_executable = meta[a].is_executable
          /\ meta'[a].next_byte_is_in_range = meta[a].next_byte_is_in_range
          /\ meta'[a].next_byte_starts_new_range = meta[a].next_byte_starts_new_range
          /\ meta'[a].is_function_head = meta[a].is_function_head
          /\ meta'[a].is_variable_head
      BY <3>2 DEF Meta
    <3> QED
      BY <3>3, <3>5, <3>6
  <2>2. CASE ~FindByte(a)
    BY <1>1, <2>2 DEF DeclareVariable, TypeOK
  <2> QED
    BY <2>1, <2>2
<1>3. MarksKept
  BY <1>2 DEF MarksKept, DeclareVariable
<1>4. /\ vars' \in Seq(Addr)
      /\ Range(vars') = Range(vars) \cup {a}
  <2>1. vars \in Seq(Addr) /\ vars' = Appended(vars, a)
    BY DEF DeclareVariable, TypeOK
  <2> QED
    BY <2>1, AppendedRange
<1>5. TypeOK'
  <2>1. ea_to_var' \in [Range(vars') -> VarSizes]
    BY <1>4 DEF DeclareVariable, TypeOK, FindVariable
  <2>2. vars_are_sorted' \in BOOLEAN
    BY DEF DeclareVariable
  <2> QED
    BY <1>3, <1>4, <2>1, <2>2, MarksKeptInv
    DEF TypeOK, DeclareVariable, function_decls, Mapped
<1>6. HeadsAgree'
  BY <1>2, <1>4 DEF HeadsAgree, DeclareVariable, function_decls
<1>7. FunctionsExecutable'
  BY <1>2 DEF FunctionsExecutable, DeclareVariable, function_decls
<1> QED
  BY <1>3, <1>5, <1>6, <1>7, MarksKeptInv

LEMMA SetUndefinedInv ==
  ASSUME Inv, NEW a \in Addr, NEW is_undef \in BOOLEAN, SetUndefined(a, is_undef)
  PROVE  Inv'
<1> USE DEF Inv
<1>1. /\ meta' \in [DOMAIN meta -> Meta]
      /\ \A x \in DOMAIN meta :
           /\ meta'[x].is_executable = meta[x].is_executable
           /\ meta'[x].next_byte_is_in_range = meta[x].next_byte_is_in_range
           /\ meta'[x].next_byte_starts_new_range = meta[x].next_byte_starts_new_range
           /\ meta'[x].is_function_head = meta[x].is_function_head
           /\ meta'[x].is_variable_head = meta[x].is_variable_head
  BY DEF SetUndefined, TypeOK, Meta
<1>2. MarksKept
  BY <1>1 DEF MarksKept, SetUndefined
<1>3. TypeOK'
  BY <1>2, MarksKeptInv DEF TypeOK, SetUndefined, function_decls, variable_decls, Mapped
<1>4. HeadsAgree' /\ FunctionsExecutable'
  BY <1>1 DEF HeadsAgree, FunctionsExecutable, SetUndefined, function_decls, variable_decls
<1> QED
  BY <1>2, <1>3, <1>4, MarksKeptInv

(* The iterators reorder the variables at most: the declarations stay.     *)
LEMMA LoopsInv ==
  ASSUME Inv, bytes' = bytes, meta' = meta, funcs' = funcs, ea_to_func' = ea_to_func,
         ea_to_var' = ea_to_var, vars' \in Seq(Addr), Range(vars') = Range(vars),
         funcs_are_sorted' \in BOOLEAN, vars_are_sorted' \in BOOLEAN,
         loops' \in Seq(Loop)
  PROVE  Inv'
<1>1. TypeOK'
  BY DEF Inv, TypeOK, Mapped
<1>2. RangesDisjoint' /\ HeadsAgree' /\ FunctionsExecutable' /\ FindNextByteSound'
  BY DEF Inv, RangesDisjoint, HeadsAgree, FunctionsExecutable, FindNextByteSound, FindByte
<1> QED
  BY <1>1, <1>2 DEF Inv

LEMMA SortedVars ==
  ASSUME vars \in Seq(Addr), SortVars
  PROVE  vars' \in Seq(Addr) /\ Range(vars') = Range(vars)
<1>1. PICK s \in [1..Len(vars) -> Range(vars)] : IsSortedVars(s) /\ vars' = s
  BY DEF SortVars
<1>2. Range(vars) \subseteq Addr /\ Len(vars) \in Nat
  BY DEF Range
<1>3. s \in Seq(Addr)
  BY <1>1, <1>2
<1> QED
  BY <1>1, <1>3 DEF IsSortedVars

LEMMA EnterType ==
  ASSUME TypeOK, NEW list \in {"funcs", "vars"}, Enter(list)
  PROVE  loops' \in Seq(Loop)
<1> DEFINE kept == [k \in DOMAIN loops |->
                      [loops[k] EXCEPT !.steady = @ /\ vars' = vars]]
           new == [over |-> list, seen |-> <<>>, steady |-> TRUE]
<1>1. new \in Loop
  BY DEF Loop
<1>2. ASSUME NEW k \in DOMAIN loops PROVE kept[k] \in Loop
  <2>1. loops[k] \in Loop
    BY DEF TypeOK
  <2> QED
    BY <2>1 DEF Loop
<1>3. kept \in Seq(Loop)
  <2>1. DOMAIN loops = 1 .. Len(loops) /\ Len(loops) \in Nat
    BY DEF TypeOK
  <2> HIDE DEF kept
  <2>2. kept \in [1 .. Len(loops) -> Loop]
    BY <1>2, <2>1 DEF kept
  <2> QED
    BY <2>1, <2>2
<1>4. loops' = Append(kept, new)
  BY DEF Enter
<1> QED
  BY <1>1, <1>3, <1>4

LEMMA ForEachInv ==
  ASSUME Inv, ForEachFunction \/ ForEachVariable
  PROVE  Inv'
<1>1. TypeOK
  BY DEF Inv
<1>2. vars' \in Seq(Addr) /\ Range(vars') = Range(vars)
  BY <1>1, SortedVars DEF ForEachFunction, ForEachVariable, TypeOK
<1>3. loops' \in Seq(Loop)
  BY <1>1, EnterType DEF ForEachFunction, ForEachVariable
<1>4. /\ bytes' = bytes /\ meta' = meta /\ funcs' = funcs /\ ea_to_func' = ea_to_func
      /\ ea_to_var' = ea_to_var
      /\ funcs_are_sorted' \in BOOLEAN /\ vars_are_sorted' \in BOOLEAN
  BY <1>1 DEF ForEachFunction, ForEachVariable, memory, function_decls, TypeOK
<1> QED
  BY <1>2, <1>3, <1>4, LoopsInv

LEMMA VisitLeaveInv ==
  ASSUME Inv, Visit \/ Leave
  PROVE  Inv'
<1>1. TypeOK
  BY DEF Inv
<1>2. UNCHANGED <<memory, function_decls, variable_decls>>
  BY DEF Visit, Leave
<1>3. loops' \in Seq(Loop)
  <2>1. CASE Visit
    <3>1. /\ Len(loops) \in DOMAIN loops /\ loops[Len(loops)] \in Loop
      BY <1>1, <2>1 DEF Visit, TypeOK
    <3> DEFINE loop == loops[Len(loops)]
               next == ListOf(loop)[Len(loop.seen) + 1]
    <3>2. next \in Addr
      BY <1>1, <2>1, <3>1 DEF Visit, ListOf, TypeOK, Loop
    <3>3. [loop EXCEPT !.seen = Append(loop.seen, next)] \in Loop
      BY <3>1, <3>2 DEF Loop
    <3> QED
      BY <1>1, <2>1, <3>1, <3>3 DEF Visit, TypeOK
  <2>2. CASE Leave
    BY <1>1, <2>2 DEF Leave, TypeOK
  <2> QED
    BY <2>1, <2>2
<1> QED
  BY <1>1, <1>2, <1>3, LoopsInv
  DEF memory, function_decls, variable_decls, TypeOK

LEMMA NextInv == Inv /\ [Next]_state => Inv'
<1> SUFFICES ASSUME Inv, [Next]_state PROVE Inv'
  OBVIOUS
<1>1. ASSUME NEW first \in Addr, NEW size \in Addr, NEW executable \in BOOLEAN,
             MapRange(first, size, executable)
      PROVE  Inv'
  BY <1>1, MapRangeInv
<1>2. ASSUME NEW a \in Addr, NEW force \in Forces, DeclareFunction(a, force)
      PROVE  Inv'
  BY <1>2, DeclareFunctionInv
<1>3. ASSUME NEW a \in Addr, NEW size \in VarSizes, DeclareVariable(a, size)
      PROVE  Inv'
  BY <1>3, DeclareVariableInv
<1>4. ASSUME NEW a \in Addr, NEW is_undef \in BOOLEAN, SetUndefined(a, is_undef)
      PROVE  Inv'
  BY <1>4, SetUndefinedInv
<1>5. CASE ForEachFunction \/ ForEachVariable
  BY <1>5, ForEachInv
<1>6. CASE Visit \/ Leave
  BY <1>6, VisitLeaveInv
<1>7. CASE UNCHANGED state
  BY <1>7, LoopsInv DEF state, memory, function_decls, variable_decls, Inv, TypeOK
<1> QED
  BY <1>1, <1>2, <1>3, <1>4, <1>5, <1>6, <1>7 DEF Next

-----------------------------------------------------------------------------
(* Inv holds in every reachable state of Program.                          *)
THEOREM InvHolds == Spec => []Inv
<1>1. Init => Inv
  BY InitInv
<1>2. Inv /\ [Next]_state => Inv'
  BY NextInv
<1> QED
  BY <1>1, <1>2, PTL DEF Spec

(* Every variable keeps its type, and the lookup tables index exactly the  *)
(* declarations, whatever calls are made of Program.                       *)
THEOREM TypeCorrect == Spec => []TypeOK
  BY InvHolds, PTL DEF Inv

(* MapRange never maps an address twice, although its loop breaks off at   *)
(* the first range above the new one.                                      *)
THEOREM NoOverlap == Spec => []RangesDisjoint
  BY InvHolds, PTL DEF Inv

(* FindByte's single upper_bound probe finds a byte exactly when it is     *)
(* mapped.                                                                 *)
THEOREM LookupsExact == Spec => []FindByteExact
<1>1. Inv => FindByteExact
  BY FindByteIffMapped DEF FindByteExact
<1> QED
  BY <1>1, InvHolds, PTL

(* The marks for function and variable heads agree with the declarations,  *)
(* in whatever order MapRange and the declarations are made.               *)
THEOREM MarksAgree == Spec => []HeadsAgree
  BY InvHolds, PTL DEF Inv

(* A declared function is never at a byte that is not executable.          *)
THEOREM FunctionsAreCode == Spec => []FunctionsExecutable
  BY InvHolds, PTL DEF Inv

(* FindNextByte never reads past a range's vectors.                        *)
THEOREM NextByteSafe == Spec => []FindNextByteSound
  BY InvHolds, PTL DEF Inv

-----------------------------------------------------------------------------
(* Iterations.                                                             *)

(* No variable is twice in the vector, and a running call has visited the  *)
(* first of them, in the vector's order, unless it was reordered under it. *)
VisitInv ==
  /\ \A i, j \in DOMAIN vars : vars[i] = vars[j] => i = j
  /\ \A k \in DOMAIN loops :
       loops[k].over = "vars" /\ loops[k].steady =>
         /\ Len(loops[k].seen) <= Len(vars)
         /\ \A i \in DOMAIN loops[k].seen : loops[k].seen[i] = vars[i]

(* A call that runs no iteration leaves the visited variables in place.    *)
LEMMA DeclaresVisit ==
  ASSUME TypeOK, VisitInv, NEW a \in Addr, NEW size \in VarSizes,
         DeclareVariable(a, size)
  PROVE  VisitInv'
<1>1. /\ vars' = Append(vars, a) /\ loops' = loops /\ vars \in Seq(Addr)
      /\ a \notin Range(vars)
  BY DEF DeclareVariable, Appended, FindVariable, TypeOK
<1>2. /\ DOMAIN vars = 1 .. Len(vars) /\ DOMAIN vars' = 1 .. Len(vars) + 1
      /\ Len(vars) \in Nat /\ Len(vars') = Len(vars) + 1
      /\ \A i \in DOMAIN vars : vars'[i] = vars[i] /\ vars[i] # a
      /\ vars'[Len(vars) + 1] = a
  BY <1>1 DEF Range
<1>3. ASSUME NEW i \in DOMAIN vars', NEW j \in DOMAIN vars', vars'[i] = vars'[j]
      PROVE  i = j
  <2>1. i \in DOMAIN vars \/ i = Len(vars) + 1
    BY <1>2
  <2>2. j \in DOMAIN vars \/ j = Len(vars) + 1
    BY <1>2
  <2> QED
    BY <1>2, <1>3, <2>1, <2>2 DEF VisitInv
<1>4. ASSUME NEW k \in DOMAIN loops, loops[k].over = "vars", loops[k].steady
      PROVE  /\ Len(loops[k].seen) <= Len(vars')
             /\ \A i \in DOMAIN loops[k].seen : loops[k].seen[i] = vars'[i]
  <2>1. /\ Len(loops[k].seen) <= Len(vars)
        /\ \A i \in DOMAIN loops[k].seen : loops[k].seen[i] = vars[i]
    BY <1>4 DEF VisitInv
  <2>2. loops[k].seen \in Seq(Addr)
    <3>1. loops[k] \in Loop
      BY DEF TypeOK
    <3> QED
      BY <3>1 DEF Loop
  <2>3. DOMAIN loops[k].seen \subseteq DOMAIN vars /\ Len(loops[k].seen) \in Nat
    BY <1>2, <2>1, <2>2
  <2> QED
    BY <1>2, <2>1, <2>3
<1> QED
  BY <1>1, <1>3, <1>4 DEF VisitInv

LEMMA SortedDistinct ==
  ASSUME TypeOK, SortVars
  PROVE  \A i, j \in DOMAIN vars' : vars'[i] = vars'[j] => i = j
<1>1. PICK s \in [1 .. Len(vars) -> Range(vars)] : IsSortedVars(s) /\ vars' = s
  BY DEF SortVars
<1>2. Range(vars) \subseteq Int /\ DOMAIN s = 1 .. Len(vars) /\ Len(vars) \in Nat
  BY <1>1, AddrAssumption DEF TypeOK, Range, Addr
<1>3. ASSUME NEW i \in DOMAIN s, NEW j \in DOMAIN s, s[i] = s[j], i # j PROVE FALSE
  <2>1. s[i] \in Int /\ s[j] \in Int /\ i \in Nat /\ j \in Nat
    BY <1>2
  <2>2. i < j \/ j < i
    BY <1>3, <2>1
  <2>3. s[i] < s[j] \/ s[j] < s[i]
    BY <1>1, <2>2 DEF IsSortedVars
  <2> QED
    BY <1>3, <2>1, <2>3
<1> QED
  BY <1>1, <1>3

(* A call's own visits start with none; those it runs inside go on only    *)
(* where it left the vector as it was.                                     *)
LEMMA EntersVisit ==
  ASSUME TypeOK, VisitInv, ForEachFunction \/ ForEachVariable
  PROVE  VisitInv'
<1>1. PICK list \in {"funcs", "vars"} : Enter(list)
  BY DEF ForEachFunction, ForEachVariable
<1>2. vars' = vars \/ SortVars
  BY DEF ForEachFunction, ForEachVariable
<1>3. \A i, j \in DOMAIN vars' : vars'[i] = vars'[j] => i = j
  BY <1>2, SortedDistinct DEF VisitInv
<1> DEFINE kept == [k \in DOMAIN loops |->
                      [loops[k] EXCEPT !.steady = @ /\ vars' = vars]]
           new == [over |-> list, seen |-> <<>>, steady |-> TRUE]
<1>4. /\ loops' = Append(kept, new) /\ Len(kept) = Len(loops) /\ Len(loops) \in Nat
      /\ DOMAIN loops = 1 .. Len(loops)
  BY <1>1 DEF Enter, TypeOK
<1>5. ASSUME NEW k \in DOMAIN loops'
      PROVE  (k \in DOMAIN loops /\ loops'[k] = kept[k]) \/ loops'[k] = new
  BY <1>4
<1>6. ASSUME NEW k \in DOMAIN loops, kept[k].over = "vars", kept[k].steady
      PROVE  /\ Len(kept[k].seen) <= Len(vars')
             /\ \A i \in DOMAIN kept[k].seen : kept[k].seen[i] = vars'[i]
  <2>1. loops[k] \in Loop
    BY DEF TypeOK
  <2>2. /\ kept[k].over = loops[k].over /\ kept[k].seen = loops[k].seen
        /\ kept[k].steady <=> (loops[k].steady /\ vars' = vars)
    BY <2>1 DEF Loop
  <2> QED
    BY <1>6, <2>2 DEF VisitInv
<1>7. /\ Len(new.seen) <= Len(vars')
      /\ \A i \in DOMAIN new.seen : new.seen[i] = vars'[i]
  <2>1. Len(vars') \in Nat
    BY <1>2, SortedVars DEF TypeOK
  <2> QED
    BY <2>1
<1> HIDE DEF kept, new
<1> QED
  BY <1>3, <1>5, <1>6, <1>7 DEF VisitInv

LEMMA VisitsVisit ==
  ASSUME TypeOK, VisitInv, Visit
  PROVE  VisitInv'
<1>1. PICK n \in Nat : n = Len(loops) /\ n \in DOMAIN loops
  <2>1. Len(loops) \in Nat /\ Len(loops) \in DOMAIN loops
    BY DEF Visit, TypeOK
  <2> QED
    BY <2>1
<1>2. PICK old \in Loop : old = loops[n]
  BY <1>1 DEF TypeOK
<1> DEFINE next == ListOf(old)[Len(old.seen) + 1]
           new == [old EXCEPT !.seen = Append(old.seen, next)]
<1>3. vars' = vars /\ Len(old.seen) < Len(ListOf(old))
  BY <1>1, <1>2 DEF Visit, variable_decls
<1>4. loops' = [loops EXCEPT ![n] = new]
  BY <1>1, <1>2 DEF Visit
<1>5. new.over = old.over /\ new.steady = old.steady /\ new.seen = Append(old.seen, next)
  BY DEF Loop
<1>6. ASSUME new.over = "vars", new.steady
      PROVE  /\ Len(new.seen) <= Len(vars)
             /\ \A i \in DOMAIN new.seen : new.seen[i] = vars[i]
  <2>1. ListOf(old) = vars /\ next = vars[Len(old.seen) + 1]
    BY <1>5, <1>6 DEF ListOf
  <2>2. \A i \in DOMAIN old.seen : old.seen[i] = vars[i]
    BY <1>1, <1>2, <1>5, <1>6 DEF VisitInv
  <2>3. old.seen \in Seq(Addr) /\ Len(vars) \in Nat
    BY DEF Loop, TypeOK
  <2> HIDE DEF next
  <2>4. /\ Len(new.seen) = Len(old.seen) + 1 /\ Len(old.seen) \in Nat
        /\ DOMAIN new.seen = 1 .. Len(old.seen) + 1
        /\ DOMAIN old.seen = 1 .. Len(old.seen)
        /\ \A i \in DOMAIN old.seen : new.seen[i] = old.seen[i]
        /\ new.seen[Len(old.seen) + 1] = next
    BY <1>5, <2>3
  <2>5. ASSUME NEW i \in DOMAIN new.seen PROVE new.seen[i] = vars[i]
    <3>1. i \in DOMAIN old.seen \/ i = Len(old.seen) + 1
      BY <2>4
    <3> QED
      BY <2>1, <2>2, <2>4, <3>1
  <2> QED
    BY <1>3, <2>1, <2>3, <2>4, <2>5
<1> HIDE DEF next, new
<1>7. DOMAIN loops' = DOMAIN loops /\ loops'[n] = new
      /\ \A k \in DOMAIN loops : k # n => loops'[k] = loops[k]
  BY <1>1, <1>4
<1> QED
  BY <1>3, <1>6, <1>7 DEF VisitInv

LEMMA LeavesVisit ==
  ASSUME TypeOK, VisitInv, Leave
  PROVE  VisitInv'
<1>1. /\ DOMAIN loops' \subseteq DOMAIN loops /\ vars' = vars
      /\ \A k \in DOMAIN loops' : loops'[k] = loops[k]
  BY DEF Leave, TypeOK, variable_decls
<1> QED
  BY <1>1 DEF VisitInv

LEMMA VisitInvHolds == Spec => []VisitInv
<1>1. Init => VisitInv
  BY DEF Init, VisitInv
<1>2. TypeOK /\ VisitInv /\ [Next]_state => VisitInv'
  <2> SUFFICES ASSUME TypeOK, VisitInv, [Next]_state PROVE VisitInv'
    OBVIOUS
  <2>1. CASE vars' = vars /\ loops' = loops
    BY <2>1 DEF VisitInv
  <2>2. ASSUME NEW a \in Addr, NEW size \in VarSizes, DeclareVariable(a, size)
        PROVE  VisitInv'
    BY <2>2, DeclaresVisit
  <2>3. CASE ForEachFunction \/ ForEachVariable
    BY <2>3, EntersVisit
  <2>4. CASE Visit
    BY <2>4, VisitsVisit
  <2>5. CASE Leave
    BY <2>5, LeavesVisit
  <2> QED
    BY <2>1, <2>2, <2>3, <2>4, <2>5
    DEF Next, MapRange, DeclareFunction, SetUndefined, state, variable_decls
<1> QED
  BY <1>1, <1>2, TypeCorrect, PTL DEF Spec

(* However its callback declares variables, an iteration visits none twice,*)
(* and has visited all of them when it ends, as long as no iteration inside*)
(* its callback sorts the vector under it.                                 *)
THEOREM VisitsOnce == Spec => []VisitsEachOnce
<1>1. TypeOK /\ VisitInv => VisitsEachOnce
  <2> SUFFICES ASSUME TypeOK, VisitInv, NEW k \in DOMAIN loops,
                      loops[k].over = "vars", loops[k].steady
               PROVE  LET seen == loops[k].seen IN
                      /\ \A i, j \in DOMAIN seen : seen[i] = seen[j] => i = j
                      /\ Len(seen) = Len(vars) => Range(seen) = Range(vars)
    BY DEF VisitsEachOnce
  <2> DEFINE seen == loops[k].seen
  <2>1. /\ Len(seen) <= Len(vars)
        /\ \A i \in DOMAIN seen : seen[i] = vars[i]
    BY DEF VisitInv
  <2>2. /\ DOMAIN seen = 1 .. Len(seen) /\ DOMAIN vars = 1 .. Len(vars)
        /\ Len(seen) \in Nat /\ Len(vars) \in Nat
    BY DEF TypeOK, Loop
  <2> HIDE DEF seen
  <2>3. DOMAIN seen \subseteq DOMAIN vars
    BY <2>1, <2>2
  <2>4. \A i, j \in DOMAIN seen : seen[i] = seen[j] => i = j
    BY <2>1, <2>3 DEF VisitInv
  <2>5. Len(seen) = Len(vars) => Range(seen) = Range(vars)
    BY <2>1, <2>2 DEF Range
  <2> QED
    BY <2>4, <2>5 DEF seen
<1> QED
  BY <1>1, VisitInvHolds, TypeCorrect, PTL

-----------------------------------------------------------------------------
(* The links between bytes.                                                *)

NextKept ==
  \A a \in DOMAIN meta :
    FindNextByte(a) \/ a + 1 \in (DOMAIN meta') \ DOMAIN meta => FindNextByte(a)'

LEMMA MarksKeepNext ==
  ASSUME bytes' = bytes, DOMAIN meta' = DOMAIN meta,
         \A x \in DOMAIN meta :
           /\ meta'[x].next_byte_is_in_range = meta[x].next_byte_is_in_range
           /\ meta'[x].next_byte_starts_new_range = meta[x].next_byte_starts_new_range
  PROVE  NextKept
  BY DEF NextKept, FindNextByte, FindByte

LEMMA DeclaresKeepNext ==
  ASSUME Inv, NEW a \in Addr,
         \/ \E force \in Forces : DeclareFunction(a, force)
         \/ \E size \in VarSizes : DeclareVariable(a, size)
         \/ \E is_undef \in BOOLEAN : SetUndefined(a, is_undef)
  PROVE  NextKept
<1>1. FindByte(a) <=> a \in DOMAIN meta
  BY FindByteIffMapped
<1>2. bytes' = bytes /\ meta \in [DOMAIN meta -> Meta]
  BY DEF DeclareFunction, DeclareVariable, SetUndefined, Inv, TypeOK
<1>3. /\ DOMAIN meta' = DOMAIN meta
      /\ \A x \in DOMAIN meta :
           /\ meta'[x].next_byte_is_in_range = meta[x].next_byte_is_in_range
           /\ meta'[x].next_byte_starts_new_range = meta[x].next_byte_starts_new_range
  BY <1>1, <1>2 DEF DeclareFunction, DeclareVariable, SetUndefined, Meta
<1> QED
  BY <1>2, <1>3, MarksKeepNext

(* The byte just below a new range is told of it if it is mapped.          *)
LEMMA MapRangeKeepsNext ==
  ASSUME Inv, NEW first \in Addr, NEW size \in Addr, NEW executable \in BOOLEAN,
         MapRange(first, size, executable)
  PROVE  NextKept
<1>0. PICK end \in Int : end = first + size
  BY AddrAssumption DEF Addr
<1> DEFINE range == first..(end - 1)
           newBytes == [e \in DOMAIN bytes \cup {end} |->
                          IF e = end THEN first ELSE bytes[e]]
           linked == LinkPrevious(newBytes, first)
<1> HIDE DEF linked, newBytes
<1>1. Add(first, size) = end /\ AddsRange(first, end)
  BY <1>0, MapRangeAddsRange
<1>2. /\ end \in Addr /\ first < end /\ WellFormed(bytes')
      /\ DOMAIN bytes' = DOMAIN bytes \cup {end} /\ bytes'[end] = first
      /\ \A e \in DOMAIN bytes : bytes'[e] = bytes[e]
      /\ \A e \in DOMAIN bytes : end <= bytes[e] \/ e <= first
  BY <1>1 DEF AddsRange
<1>3. /\ bytes' = newBytes
      /\ meta' = [a \in DOMAIN meta \cup range |->
                   IF a \in range THEN FreshMeta(a, end, executable) ELSE linked[a]]
  BY <1>1 DEF MapRange, linked, newBytes
<1>4. meta \in [Mapped -> Meta] /\ DOMAIN meta = Mapped
  BY DEF Inv, TypeOK
<1>5. ASSUME NEW x \in Int, FindByteIn(bytes, x) PROVE FindByteIn(bytes', x)
  BY <1>2, <1>5, InvWellFormed, LookupExact
<1>6. FindByteIn(bytes', first)
  BY <1>2, LookupExact, AddrAssumption DEF Addr
<1> SUFFICES ASSUME NEW a \in DOMAIN meta,
                    FindNextByte(a) \/ a + 1 \in (DOMAIN meta') \ DOMAIN meta
             PROVE  FindNextByte(a)'
  BY DEF NextKept
<1>7. PICK e \in DOMAIN bytes : bytes[e] <= a /\ a < e
  BY <1>4 DEF Mapped
<1>8. a \in Addr /\ a \in Int /\ e \in Int /\ bytes[e] \in Int
  BY <1>4, AddrAssumption DEF Mapped, Inv, TypeOK, Addr
<1>9. a \notin range
  BY <1>2, <1>7, <1>8, AddrAssumption DEF Addr
<1>10. a \in DOMAIN meta' /\ meta'[a] = linked[a]
  BY <1>3, <1>9
<1>11. CASE a = first - 1
  <2>1. FindByteIn(newBytes, first - 1) /\ first > 0
    BY <1>2, <1>3, <1>7, <1>8, <1>11, LookupExact, AddrAssumption DEF Addr
  <2>2. linked[a].next_byte_starts_new_range = TRUE
    BY <1>4, <1>11, <2>1 DEF linked, LinkPrevious, Meta
  <2>3. Add(a, 1) = first
    BY <1>8, <1>11, AddrAssumption DEF Add, Addr
  <2> QED
    BY <1>6, <1>10, <2>2, <2>3 DEF FindNextByte, FindByte
<1>12. CASE a # first - 1
  <2>1. linked[a] = meta[a]
    BY <1>4, <1>12 DEF linked, LinkPrevious
  <2>2. a + 1 \notin (DOMAIN meta') \ DOMAIN meta
    BY <1>3, <1>8, <1>9, <1>12, AddrAssumption DEF Addr
  <2>3. Add(a, 1) \in Int
    BY <1>8, AddrAssumption DEF Add, Addr
  <2> QED
    BY <1>5, <1>10, <2>1, <2>2, <2>3 DEF FindNextByte, FindByte
<1> QED
  BY <1>11, <1>12

(* A mapped byte is linked to the range that is mapped just above it, and  *)
(* no call takes a byte's successor away.                                  *)
THEOREM NextByteCrosses == Spec => FindNextByteCrosses
<1>1. Inv /\ [Next]_state =>
        [\A a \in DOMAIN meta :
           FindNextByte(a) \/ a + 1 \in (DOMAIN meta') \ DOMAIN meta
             => FindNextByte(a)']_state
  <2> SUFFICES ASSUME Inv, Next PROVE NextKept
    BY DEF NextKept
  <2>1. ASSUME NEW first \in Addr, NEW size \in Addr, NEW executable \in BOOLEAN,
               MapRange(first, size, executable)
        PROVE  NextKept
    BY <2>1, MapRangeKeepsNext
  <2>2. ASSUME NEW a \in Addr,
               \/ \E force \in Forces : DeclareFunction(a, force)
               \/ \E size \in VarSizes : DeclareVariable(a, size)
               \/ \E is_undef \in BOOLEAN : SetUndefined(a, is_undef)
        PROVE  NextKept
    BY <2>2, DeclaresKeepNext
  <2>3. CASE ForEachFunction \/ ForEachVariable \/ Visit \/ Leave
    <3>1. bytes' = bytes /\ meta' = meta
      BY <2>3 DEF ForEachFunction, ForEachVariable, Visit, Leave, memory
    <3> QED
      BY <3>1, MarksKeepNext
  <2> QED
    BY <2>1, <2>2, <2>3 DEF Next
<1> QED
  BY <1>1, InvHolds, PTL DEF Spec, FindNextByteCrosses

-----------------------------------------------------------------------------
(* FindInVariable's single probe of the closest variable finds exactly the *)
(* variable that holds the address.                                        *)
LEMMA ModBelow ==
  ASSUME NEW n \in Nat, NEW x \in 0..n
  PROVE  x % (n + 1) = x
  OBVIOUS

LEMMA HolderFound ==
  ASSUME TypeOK, NEW a \in Addr, NEW v \in DOMAIN ea_to_var,
         \A x, y \in DOMAIN ea_to_var : x # y => Extent(x) \cap Extent(y) = {},
         \A x \in DOMAIN ea_to_var : x + ea_to_var[x] <= PtrMax
  PROVE  v \in FindInVariable(a) <=> a \in Extent(v)
<1>1. DOMAIN ea_to_var \subseteq Addr /\ \A x \in DOMAIN ea_to_var : ea_to_var[x] \in 1..MaxAddr
  <2>1. vars \in Seq(Addr) /\ ea_to_var \in [Range(vars) -> VarSizes]
    BY DEF TypeOK
  <2>2. Range(vars) \subseteq Addr
    BY <2>1 DEF Range
  <2>3. DOMAIN ea_to_var = Range(vars) /\ \A x \in DOMAIN ea_to_var : ea_to_var[x] \in VarSizes
    BY <2>1
  <2> QED
    BY <2>2, <2>3, SizeAssumption
<1>2. a \in Int /\ v \in Nat /\ ea_to_var[v] \in Nat \ {0} /\ v + ea_to_var[v] <= PtrMax
      /\ PtrMax \in Nat /\ MaxAddr \in Nat /\ PtrMax <= MaxAddr
  BY <1>1, AddrAssumption DEF Addr
<1>3. Add(v, ea_to_var[v]) % (PtrMax + 1) = v + ea_to_var[v]
  <2>1. Add(v, ea_to_var[v]) = v + ea_to_var[v] /\ v + ea_to_var[v] \in 0..PtrMax
    BY <1>2 DEF Add
  <2> QED
    BY <1>2, <2>1, ModBelow
<1>4. ASSUME a \in Extent(v)
      PROVE  IsClosest(v, a)
  <2>1. ASSUME NEW w \in DOMAIN ea_to_var, w <= a, ~(w <= v)
        PROVE  FALSE
    <3>1. w \in Nat /\ ea_to_var[w] \in Nat \ {0} /\ w # v
      BY <1>1, <1>2, <2>1 DEF Addr
    <3>2. w \in Extent(w) /\ w \in Extent(v)
      BY <1>2, <1>4, <2>1, <3>1 DEF Extent
    <3> QED
      BY <3>1, <3>2
  <2> QED
    BY <1>2, <1>4, <2>1 DEF IsClosest, Extent
<1>5. CASE IsClosest(v, a)
  BY <1>2, <1>3, <1>5 DEF FindInVariable, IsClosest, Extent
<1> QED
  BY <1>4, <1>5 DEF FindInVariable

THEOREM VariableLookup == Spec => []FindInVariableExact
<1>1. TypeOK => FindInVariableExact
  <2> SUFFICES ASSUME TypeOK, NEW a \in Addr,
                      \A x, y \in DOMAIN ea_to_var : x # y => Extent(x) \cap Extent(y) = {},
                      \A x \in DOMAIN ea_to_var : x + ea_to_var[x] <= PtrMax
               PROVE  FindInVariable(a) = {v \in DOMAIN ea_to_var : a \in Extent(v)}
    BY DEF FindInVariableExact
  <2>1. \A v \in DOMAIN ea_to_var : v \in FindInVariable(a) <=> a \in Extent(v)
    BY HolderFound
  <2> QED
    BY <2>1 DEF FindInVariable
<1> QED
  BY <1>1, TypeCorrect, PTL

(* The look-ups and the marks are exact, whatever was mapped or declared   *)
(* and in whatever order.                                                  *)
THEOREM AllLookups == Spec => []LookupsAgree
<1>1. FindByteExact /\ FindNextByteSound /\ FindInVariableExact /\ HeadsAgree => LookupsAgree
  BY DEF LookupsAgree
<1> QED
  BY <1>1, LookupsExact, NextByteSafe, VariableLookup, MarksAgree, PTL

-----------------------------------------------------------------------------
(* Refinement: every call is a step of AddressSpace or leaves it alone.    *)

Executables == [a \in Mapped |-> meta[a].is_executable]

LEMMA ExecutablesKept ==
  ASSUME Inv, Mapped' = Mapped,
         \A a \in Mapped : meta'[a].is_executable = meta[a].is_executable
  PROVE  Executables' = Executables
  BY DEF Executables

LEMMA MapRangeRefines ==
  ASSUME Inv, NEW first \in Addr, NEW size \in Addr, NEW executable \in BOOLEAN,
         MapRange(first, size, executable)
  PROVE  \E S \in SUBSET Addr : Promise!Map(S, executable)
<1> DEFINE end == first + size
           range == first..(end - 1)
<1>1. Add(first, size) = end /\ AddsRange(first, end)
  BY MapRangeAddsRange
<1> HIDE DEF end
<1>2. range \subseteq Addr
  BY <1>1, AddrAssumption DEF AddsRange, Addr
<1>3. Mapped' = Mapped \cup range /\ DOMAIN meta = Mapped
  BY <1>1 DEF AddsRange, Inv, TypeOK
<1>4. range \cap Mapped = {}
  <2>1. ASSUME NEW a \in range, a \in Mapped
        PROVE  FALSE
    <3>1. PICK e \in DOMAIN bytes : bytes[e] <= a /\ a < e
      BY <2>1 DEF Mapped
    <3>2. a \in Int /\ first <= a /\ a < end /\ e \in Int /\ bytes[e] \in Int
      BY <1>1, AddrAssumption DEF AddsRange, Inv, TypeOK, Addr
    <3> QED
      BY <1>1, <3>1, <3>2, AddrAssumption DEF AddsRange, Addr
  <2> QED
    BY <2>1
<1>5. /\ executable \/ Range(funcs) \cap range = {}
      /\ funcs' = funcs /\ vars' = vars
  BY <1>1 DEF MapRange, function_decls, variable_decls
<1>6. ASSUME NEW a \in Mapped'
      PROVE  meta'[a].is_executable = IF a \in range THEN executable ELSE Executables[a]
  <2>1. CASE a \in range
    <3>1. meta'[a] = FreshMeta(a, end, executable)
      BY <1>1, <2>1 DEF MapRange
    <3> QED
      BY <2>1, <3>1, FreshMetaFields
  <2>2. CASE a \notin range
    <3>1. a \in DOMAIN meta /\ a \in Mapped
      BY <1>3, <2>2
    <3> DEFINE newBytes == [e \in DOMAIN bytes \cup {end} |->
                              IF e = end THEN first ELSE bytes[e]]
               linked == LinkPrevious(newBytes, first)
    <3> HIDE DEF linked, newBytes
    <3>2. meta'[a] = linked[a]
      BY <1>1, <2>2, <3>1 DEF MapRange, linked, newBytes
    <3>3. linked[a].is_executable = meta[a].is_executable
      BY <3>1 DEF linked, LinkPrevious, Inv, TypeOK, Meta
    <3> QED
      BY <2>2, <3>1, <3>2, <3>3 DEF Executables
  <2> QED
    BY <2>1, <2>2
<1>7. Executables' = [a \in Mapped \cup range |->
                        IF a \in range THEN executable ELSE Executables[a]]
  BY <1>3, <1>6 DEF Executables
<1>8. SharedByFunctions' = SharedByFunctions
  BY <1>5 DEF SharedByFunctions
<1> QED
  BY <1>2, <1>3, <1>4, <1>5, <1>7, <1>8 DEF Promise!Map, Executables

LEMMA AppendedShared ==
  ASSUME funcs \in Seq(Addr), NEW a \in Addr, funcs' = Appended(funcs, a)
  PROVE  SharedByFunctions' = SharedByFunctions \cup (Range(funcs) \cap {a})
<1>1. /\ DOMAIN funcs = 1..Len(funcs) /\ DOMAIN funcs' = 1..(Len(funcs) + 1)
      /\ Len(funcs) \in Nat /\ funcs'[Len(funcs) + 1] = a
      /\ \A i \in DOMAIN funcs : funcs'[i] = funcs[i]
  BY DEF Appended
<1>2. Range(funcs') = Range(funcs) \cup {a}
  BY AppendedRange
<1>3. ASSUME NEW x \in SharedByFunctions'
      PROVE  x \in SharedByFunctions \cup (Range(funcs) \cap {a})
  <2>1. PICK i \in DOMAIN funcs', j \in DOMAIN funcs' :
          i # j /\ funcs'[i] = x /\ funcs'[j] = x
    BY <1>3 DEF SharedByFunctions
  <2>2. CASE i \in DOMAIN funcs /\ j \in DOMAIN funcs
    BY <1>1, <2>1, <2>2 DEF SharedByFunctions, Range
  <2>3. CASE i \in DOMAIN funcs /\ j = Len(funcs) + 1
    BY <1>1, <2>1, <2>3 DEF Range
  <2>4. CASE i = Len(funcs) + 1 /\ j \in DOMAIN funcs
    BY <1>1, <2>1, <2>4 DEF Range
  <2> QED
    BY <1>1, <2>1, <2>2, <2>3, <2>4
<1>4. ASSUME NEW x \in SharedByFunctions
      PROVE  x \in SharedByFunctions'
  <2>1. PICK i \in DOMAIN funcs, j \in DOMAIN funcs :
          i # j /\ funcs[i] = x /\ funcs[j] = x
    BY <1>4 DEF SharedByFunctions
  <2>2. i \in DOMAIN funcs' /\ j \in DOMAIN funcs' /\ funcs'[i] = x /\ funcs'[j] = x
    BY <1>1, <2>1
  <2>3. x \in Range(funcs')
    BY <1>2, <1>4 DEF SharedByFunctions
  <2> QED
    BY <2>1, <2>2, <2>3 DEF SharedByFunctions
<1>5. ASSUME a \in Range(funcs)
      PROVE  a \in SharedByFunctions'
  <2>1. PICK i \in DOMAIN funcs : funcs[i] = a
    BY <1>5 DEF Range
  <2>2. /\ i \in DOMAIN funcs' /\ Len(funcs) + 1 \in DOMAIN funcs' /\ i # Len(funcs) + 1
        /\ funcs'[i] = a /\ a \in Range(funcs')
    BY <1>1, <1>2, <2>1
  <2> QED
    BY <1>1, <2>2 DEF SharedByFunctions
<1> QED
  BY <1>3, <1>4, <1>5

(* Program, for every address space and in whatever order it is called,    *)
(* keeps the promise of its header, except that a function declared by     *)
(* force shares the address of the one that is there.                      *)
THEOREM Implements == Spec => KeepsPromise
<1>1. Init => Promise!Init
  BY DEF Init, Promise!Init, Mapped, Range, SharedByFunctions
<1>2. Inv /\ [Next]_state => [Promise!Next]_Promise!space
  <2> SUFFICES ASSUME Inv, [Next]_state PROVE [Promise!Next]_Promise!space
    OBVIOUS
  <2> DEFINE stutters == Executables' = Executables /\ Range(funcs') = Range(funcs)
                         /\ SharedByFunctions' = SharedByFunctions
                         /\ Range(vars') = Range(vars)
  <2>0. stutters => [Promise!Next]_Promise!space
    BY DEF Promise!space, Executables
  <2>1. ASSUME NEW first \in Addr, NEW size \in Addr, NEW executable \in BOOLEAN,
               MapRange(first, size, executable)
        PROVE  Promise!Next
    BY <2>1, MapRangeRefines DEF Promise!Next
  <2>2. ASSUME NEW a \in Addr, NEW force \in Forces, DeclareFunction(a, force)
        PROVE  Promise!Next
    <3>1. FindByte(a) <=> a \in Mapped
      BY FindByteIffMapped
    <3>2. /\ Range(funcs') = Range(funcs) \cup {a}
          /\ SharedByFunctions' = SharedByFunctions \cup (Range(funcs) \cap {a})
      <4>1. funcs \in Seq(Addr) /\ funcs' = Appended(funcs, a)
        BY <2>2 DEF DeclareFunction, Inv, TypeOK
      <4> QED
        BY <4>1, AppendedRange, AppendedShared
    <3>3. bytes' = bytes /\ vars' = vars
      BY <2>2 DEF DeclareFunction, variable_decls
    <3>4. Mapped' = Mapped /\ \A x \in Mapped : meta'[x].is_executable = meta[x].is_executable
      BY <2>2, <3>3 DEF DeclareFunction, Mapped, Inv, TypeOK, Meta
    <3>5. Executables' = Executables
      BY <3>4, ExecutablesKept
    <3>6. a \in Mapped => meta[a].is_executable
      BY <2>2, <3>1 DEF DeclareFunction, MayHoldFunction
    <3>7. a \in Range(funcs) => TRUE \in Forces
      BY <2>2, ForceAssumption DEF DeclareFunction, FindFunction, Inv, TypeOK
    <3>8. CASE a \in Range(funcs)
      <4>1. Range(funcs') = Range(funcs) /\ SharedByFunctions' = SharedByFunctions \cup {a}
        BY <3>2, <3>8
      <4> QED
        BY <3>3, <3>5, <3>7, <3>8, <4>1
        DEF Promise!Next, Promise!DeclareByForce, Executables
    <3>9. CASE a \notin Range(funcs)
      <4>1. SharedByFunctions' = SharedByFunctions
        BY <3>2, <3>9
      <4> QED
        BY <3>2, <3>3, <3>5, <3>6, <3>9, <4>1
        DEF Promise!Next, Promise!DeclareFunction, Executables
    <3> QED
      BY <3>8, <3>9
  <2>3. ASSUME NEW a \in Addr, NEW size \in VarSizes, DeclareVariable(a, size)
        PROVE  Promise!Next
    <3>1. a \notin Range(vars)
      BY <2>3 DEF DeclareVariable, FindVariable, Inv, TypeOK
    <3>2. Range(vars') = Range(vars) \cup {a}
      BY <2>3, AppendedRange DEF DeclareVariable, Inv, TypeOK
    <3>3. bytes' = bytes /\ funcs' = funcs
      BY <2>3 DEF DeclareVariable, function_decls
    <3>4. Mapped' = Mapped /\ \A x \in Mapped : meta'[x].is_executable = meta[x].is_executable
      BY <2>3, <3>3 DEF DeclareVariable, Mapped, Inv, TypeOK, Meta
    <3>5. Executables' = Executables
      BY <3>4, ExecutablesKept
    <3>6. SharedByFunctions' = SharedByFunctions
      BY <3>3 DEF SharedByFunctions
    <3> QED
      BY <3>1, <3>2, <3>3, <3>5, <3>6
      DEF Promise!Next, Promise!DeclareVariable, Executables
  <2>4. ASSUME NEW a \in Addr, NEW is_undef \in BOOLEAN, SetUndefined(a, is_undef)
        PROVE  stutters
    <3>1. bytes' = bytes /\ funcs' = funcs /\ vars' = vars
      BY <2>4 DEF SetUndefined, function_decls, variable_decls
    <3>2. Mapped' = Mapped /\ \A x \in Mapped : meta'[x].is_executable = meta[x].is_executable
      BY <2>4, <3>1 DEF SetUndefined, Mapped, Inv, TypeOK, Meta
    <3> QED
      BY <3>1, <3>2, ExecutablesKept DEF SharedByFunctions
  <2>5. CASE ForEachFunction \/ ForEachVariable \/ Visit \/ Leave \/ UNCHANGED state
    <3>1. bytes' = bytes /\ meta' = meta /\ funcs' = funcs
      BY <2>5 DEF ForEachFunction, ForEachVariable, Visit, Leave, state,
                  memory, function_decls
    <3>2. Range(vars') = Range(vars)
      <4>1. CASE vars' = vars
        BY <4>1
      <4>2. CASE SortVars
        BY <4>2, SortedVars DEF Inv, TypeOK
      <4> QED
        BY <2>5, <4>1, <4>2 DEF ForEachFunction, ForEachVariable, Visit, Leave, state,
                                variable_decls
    <3>3. stutters
      BY <3>1, <3>2 DEF Executables, Mapped, SharedByFunctions
    <3> QED
      BY <2>0, <3>3
  <2> QED
    BY <2>0, <2>1, <2>2, <2>3, <2>4, <2>5 DEF Next
<1> QED
  BY <1>1, <1>2, InvHolds, PTL DEF Spec, KeepsPromise, Promise!Spec

(* Where no function is declared by force, no two functions and no two     *)
(* variables share an address.                                             *)
THEOREM UniqueUnforced ==
  ASSUME TRUE \notin Forces
  PROVE  Spec => []AddressesUnique
<1> DEFINE Unshared == SharedByFunctions = {}
<1>1. Init => Unshared
  BY DEF Init, SharedByFunctions, Range
<1>2. Inv /\ Unshared /\ [Next]_state => Unshared'
  <2> SUFFICES ASSUME Inv, Unshared, [Next]_state PROVE Unshared'
    OBVIOUS
  <2>1. CASE funcs' = funcs
    BY <2>1 DEF SharedByFunctions
  <2>2. ASSUME NEW a \in Addr, NEW force \in Forces, DeclareFunction(a, force)
        PROVE  Unshared'
    <3>1. funcs \in Seq(Addr) /\ funcs' = Appended(funcs, a)
      BY <2>2 DEF DeclareFunction, Inv, TypeOK
    <3>2. a \notin Range(funcs)
      BY <2>2, ForceAssumption DEF DeclareFunction, FindFunction, Inv, TypeOK
    <3> QED
      BY <3>1, <3>2, AppendedShared
  <2> QED
    BY <2>1, <2>2
    DEF Next, MapRange, DeclareVariable, SetUndefined, ForEachFunction, ForEachVariable,
        Visit, Leave, state, function_decls
<1>3. VisitInv /\ Unshared => AddressesUnique
  BY DEF VisitInv, AddressesUnique
<1> QED
  BY <1>1, <1>2, <1>3, InvHolds, VisitInvHolds, PTL DEF Spec
=============================================================================
