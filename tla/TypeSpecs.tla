------------------------------ MODULE TypeSpecs ------------------------------
(***************************************************************************)
(* Types on their way between the tools. The front end writes a type as a  *)
(* specification (src/anvill/python/anvill/type.py), anvill reads it as a  *)
(* type of LLVM (src/anvill/src/TypeParser.cpp), and writes types of LLVM  *)
(* in the same language (src/anvill/src/TypePrinter.cpp), to be read again.*)
(* Writers and readers number the structures of a specification on their   *)
(* own, in the order they meet them.                                       *)
(*                                                                         *)
(* A type is a node: an integer has its bits, a float its bytes, an array  *)
(* its length, a variadic function a one; a structure or union its place   *)
(* in defs, counted from zero. A specification is a sequence of tokens;    *)
(* signedness and the letters are left out.                                *)
(***************************************************************************)
EXTENDS Integers, Sequences, SequencesExt, FiniteSetsExt

CONSTANTS
  FrontEndTypes,    \* [type, defs] as the front end has them
  ModuleTypes,      \* and as they are in a module of LLVM
  MaxTrips          \* how often a type is written

VARIABLES
  holder,           \* who has the type: "python", "llvm", or nobody if it was "refused"
  held,             \* [type, defs]
  spec,             \* the specification written last
  was,              \* what it was written of: [by, type, defs]
  specs             \* the specifications written so far

Node(kind, n, of) == [kind |-> kind, n |-> n, of |-> of]
Byte == Node("int", 8, <<>>)
Def(packed, opaque, elems) == [packed |-> packed, opaque |-> opaque, elems |-> elems]
Body(t, d) == IF t.kind = "literal" THEN Def(FALSE, FALSE, t.of) ELSE d[t.n + 1]
IsStructure(t) == t.kind \in {"struct", "literal", "union"}
Children(t, d) == IF IsStructure(t) THEN Body(t, d).elems ELSE t.of

(* What a writer has so far: its tokens and the structures it numbered.    *)
Empty == [text |-> <<>>, ids |-> <<>>]
Put(out, letter, n) == [out EXCEPT !.text = Append(@, <<letter, n>>)]
Numbered(t, out) == \E k \in DOMAIN out.ids : out.ids[k] = t
Number(t, out) == (CHOOSE k \in DOMAIN out.ids : out.ids[k] = t) - 1
NewNumber(t, out) ==
  Put([out EXCEPT !.ids = Append(@, t)], "=", Len(out.ids))
-----------------------------------------------------------------------------
(* The front end.                                                          *)

RECURSIVE Size(_, _)
Size(t, d) ==
  CASE t.kind = "int" -> t.n \div 8
    [] t.kind = "float" -> t.n
    [] t.kind = "ptr" -> 8
    [] t.kind \in {"array", "vector"} -> t.n * Size(t.of[1], d)
    [] t.kind = "alias" -> Size(t.of[1], d)
    [] t.kind = "struct" ->
         Max({1, FoldLeft(LAMBDA sum, e : sum + Size(e, d), 0, Body(t, d).elems)})
    [] t.kind = "union" -> Max({1} \cup {Size(e, d) : e \in ToSet(Body(t, d).elems)})

RECURSIVE Serialize(_, _, _)
SerializeAll(types, d, out) == FoldLeft(LAMBDA o, t : Serialize(t, d, o), out, types)

SerializePointer(t, d, out) ==
  LET o == Put(out, "*", 0) IN
  IF t.of = <<>> THEN Put(o, "void", 0) ELSE Serialize(t.of[1], d, o)

SerializeSequential(t, d, out) ==
  LET opened == Put(out, IF t.kind = "vector" THEN "<" ELSE "[", 0) IN
  Put(Serialize(t.of[1], d, opened), IF t.kind = "vector" THEN ">" ELSE "]", t.n)

SerializeStructure(t, d, out) ==
  LET elems == Body(t, d).elems
      opened == Put(NewNumber(t, out), "{", 0)
  IN  Put(IF elems = <<>> THEN Put(opened, "int", 8) ELSE SerializeAll(elems, d, opened), "}", 0)

SerializeInteger(t, out) == Put(out, "int", t.n)
SerializeFloatingPoint(t, out) ==
  IF t.n \in {10, 12} THEN Put(out, "x87", 0) ELSE Put(out, "float", t.n)

(* max_size stays 1, so the last member is taken and not the largest.      *)
SerializeUnion(t, d, out) ==
  LET elems == SelectSeq(Body(t, d).elems, LAMBDA e : Size(e, d) >= 1)
      opened == Put(NewNumber(t, out), "{", 0)
  IN  Put(IF elems = <<>> THEN Put(opened, "int", 8) ELSE Serialize(Last(elems), d, opened), "}", 0)

SerializeFunction(t, d, out) ==
  LET params == SerializeAll(Front(t.of), d, Put(out, "(", 0))
      end == IF t.n = 1 THEN Put(params, "&", 0)
             ELSE IF Len(t.of) = 1 THEN Put(params, "void", 0) ELSE params
  IN  Put(Serialize(Last(t.of), d, end), ")", 0)

Serialize(t, d, out) ==
  CASE t.kind = "ptr" -> SerializePointer(t, d, out)
    [] t.kind \in {"array", "vector"} -> SerializeSequential(t, d, out)
    [] t.kind = "alias" -> Serialize(t.of[1], d, out)
    [] t.kind = "func" -> SerializeFunction(t, d, out)
    [] IsStructure(t) /\ Numbered(t, out) -> Put(out, "%", Number(t, out))
    [] t.kind = "struct" /\ ~Numbered(t, out) -> SerializeStructure(t, d, out)
    [] t.kind = "union" /\ ~Numbered(t, out) -> SerializeUnion(t, d, out)
    [] t.kind = "int" -> SerializeInteger(t, out)
    [] t.kind = "float" -> SerializeFloatingPoint(t, out)
    [] t.kind = "void" -> Put(out, "void", 0)
-----------------------------------------------------------------------------
(* LLVM's sizes for x86_64.                                                *)

RoundTo(n, a) == ((n + a - 1) \div a) * a
Power(n) == CHOOSE p \in {1, 2, 4, 8, 16, 32, 64, 128} : p >= n /\ p < 2 * n

RECURSIVE IsSized(_, _)
IsSized(t, d) ==
  /\ t.kind \notin {"void", "func", "&", "nothing"}
  /\ t.kind \in {"array", "vector"} => IsSized(t.of[1], d)
  /\ IsStructure(t) => ~Body(t, d).opaque /\ \A e \in ToSet(Body(t, d).elems) : IsSized(e, d)

(* [store, align]: the bytes that are written, and what divides addresses. *)
RECURSIVE Layout(_, _)
AllocSize(t, d) == LET l == Layout(t, d) IN RoundTo(l.store, l.align)
Align(t, d, packed) == IF packed THEN 1 ELSE Layout(t, d).align

(* Where each element of a structure begins and, last, where they end.     *)
Offsets(t, d) ==
  LET body == Body(t, d)
      place(ends, e) ==
        LET at == RoundTo(Last(ends), Align(e, d, body.packed))
        IN  Append(Front(ends), at) \o <<at + AllocSize(e, d)>>
  IN  FoldLeft(place, <<0>>, body.elems)

Layout(t, d) ==
  LET L(store, align) == [store |-> store, align |-> align] IN
  CASE t.kind = "int" -> LET bytes == (t.n + 7) \div 8 IN L(bytes, Min({8, Power(bytes)}))
    [] t.kind = "float" -> IF t.n \in {10, 12} THEN L(10, 16) ELSE L(t.n, t.n)
    [] t.kind = "x87" -> L(10, 16)
    [] t.kind \in {"ptr", "mmx"} -> L(8, 8)
    [] t.kind = "bfloat" -> L(2, 2)
    [] t.kind = "alias" -> Layout(t.of[1], d)
    [] t.kind = "array" -> L(t.n * AllocSize(t.of[1], d), Layout(t.of[1], d).align)
    [] t.kind = "vector" ->
         LET bytes == t.n * Layout(t.of[1], d).store IN L(bytes, Power(bytes))
    [] t.kind = "union" -> Layout(Last(Body(t, d).elems), d)
    [] t.kind \in {"struct", "literal"} ->
         LET body == Body(t, d)
             align == Max({1} \cup {Align(e, d, body.packed) : e \in ToSet(body.elems)})
         IN  L(RoundTo(Last(Offsets(t, d)), align), align)
-----------------------------------------------------------------------------
(* TypePrinter. What has no letter is bytes, and a structure's padding is  *)
(* written out.                                                            *)

Bytes(n, out) == IF n = 0 THEN out ELSE Put(Put(Put(out, "[", 0), "int", 8), "]", n)
PaddingOf(n, out) == IF n = 1 THEN Put(out, "int", 8) ELSE Bytes(n, out)

TranslateInteger(t, out) ==
  IF t.n <= 128 THEN Put(out, "int", Max({8, Power(t.n)})) ELSE Bytes((t.n + 7) \div 8, out)

RECURSIVE TranslateType(_, _, _)
TranslateAll(types, d, out) == FoldLeft(LAMBDA o, t : TranslateType(t, d, o), out, types)

TranslateFunction(t, d, out) ==
  LET params == TranslateAll(Front(t.of), d, Put(out, "(", 0))
      end == IF t.n = 1 THEN Put(params, "&", 0)
             ELSE IF Len(t.of) = 1 THEN Put(params, "void", 0) ELSE params
  IN  Put(TranslateType(Last(t.of), d, end), ")", 0)

TranslateStructure(t, d, out) ==
  LET elems == Body(t, d).elems
      offsets == Offsets(t, d)
      expected(k) ==
        IF k = 1 THEN 0 ELSE offsets[k - 1] + Layout(elems[k - 1], d).store
      element(o, k) ==
        TranslateType(elems[k], d, PaddingOf(Max({0, offsets[k] - expected(k)}), o))
      opened == Put(NewNumber(t, out), "{", 0)
      written == FoldLeft(element, opened, [k \in DOMAIN elems |-> k])
      rest == AllocSize(t, d) - expected(Len(elems) + 1)
  IN  Put(PaddingOf(Max({0, rest}), written), "}", 0)

TranslateOther(t, d, out) ==
  LET l == Layout(t, d)
      more == RoundTo(l.store, l.align) - l.store
  IN  IF more = 0 THEN Bytes(l.store, out)
      ELSE Put(Bytes(more, Bytes(l.store, Put(out, "{", 0))), "}", 0)

TranslateType(t, d, out) ==
  CASE t.kind = "int" -> TranslateInteger(t, out)
    [] t.kind \in {"void", "float", "x87", "mmx"} -> Put(out, t.kind, t.n)
    [] t.kind = "func" -> TranslateFunction(t, d, out)
    [] t.kind = "ptr" ->
         IF IsSized(t.of[1], d) THEN TranslateType(t.of[1], d, Put(out, "*", 0))
         ELSE Put(Put(out, "*", 0), "void", 0)
    [] t.kind \in {"array", "vector"} ->
         LET vec == t.kind = "vector" IN
         Put(TranslateType(t.of[1], d, Put(out, IF vec THEN "<" ELSE "[", 0)),
             IF vec THEN ">" ELSE "]", t.n)
    [] IsStructure(t) /\ Numbered(t, out) -> Put(out, "%", Number(t, out))
    [] IsStructure(t) /\ ~Numbered(t, out) -> TranslateStructure(t, d, out)
    [] OTHER -> TranslateOther(t, d, out)
-----------------------------------------------------------------------------
(* TypeParser. A reader is at the i-th token of s, with the structures it  *)
(* has numbered in defs; it returns where it is then and the type, or the  *)
(* types of a list. An "error" has no type.                                *)

Nothing == Node("nothing", 0, <<>>)
Read(i, d, t) == [i |-> i, defs |-> d, type |-> t, types |-> <<>>]
Error(s, d) == Read(Len(s) + 1, d, Node("error", 0, <<>>))
Failed(r) == r.type.kind = "error"
Is(s, i, letter) == i \in DOMAIN s /\ s[i][1] = letter

RECURSIVE ParseType(_, _, _)

(* The types up to the closing token, which have to be sized in structures.*)
RECURSIVE ParseTypes(_, _, _, _, _)
ParseTypes(s, i, d, close, types) ==
  IF i \notin DOMAIN s \/ Is(s, i, close) THEN [Read(i, d, Nothing) EXCEPT !.types = types]
  ELSE LET r == ParseType(s, i, d) IN
       IF Failed(r) \/ (close = "}" /\ ~IsSized(r.type, r.defs)) THEN Error(s, d)
       ELSE ParseTypes(s, r.i, r.defs, close, Append(types, r.type))

ParseStructure(s, i, d) ==
  LET r == ParseTypes(s, i + 1, d, "}", <<>>) IN
  IF Failed(r) \/ r.types = <<>> \/ ~Is(s, r.i, "}") THEN Error(s, d)
  ELSE Read(r.i + 1, r.defs, Node("literal", 0, r.types))

\* mutant: the structure gets its number when its body was read.
ParseAssignmentAfter(s, i, d) ==
  IF s[i][2] # Len(d) \/ ~Is(s, i + 1, "{") THEN Error(s, d)
  ELSE LET r == ParseStructure(s, i + 1, d) IN
       IF Failed(r) THEN r
       ELSE Read(r.i, Append(r.defs, Def(FALSE, FALSE, r.type.of)),
                 Node("struct", Len(r.defs), <<>>))

(* The structure has its number, and no body yet, while its body is read.  *)
ParseAssignment(s, i, d) ==
  IF s[i][2] # Len(d) \/ ~Is(s, i + 1, "{") THEN Error(s, d)
  ELSE LET r == ParseStructure(s, i + 1, Append(d, Def(FALSE, TRUE, <<>>))) IN
       IF Failed(r) THEN r
       ELSE Read(r.i, [r.defs EXCEPT ![Len(d) + 1] = Def(FALSE, FALSE, r.type.of)],
                 Node("struct", Len(d), <<>>))

ParseUse(s, i, d) ==
  IF s[i][2] >= Len(d) THEN Error(s, d) ELSE Read(i + 1, d, Node("struct", s[i][2], <<>>))

ParseSequential(s, i, d, kind, close) ==
  LET r == ParseType(s, i + 1, d) IN
  IF Failed(r) \/ ~IsSized(r.type, r.defs) \/ ~Is(s, r.i, close) THEN Error(s, d)
  ELSE IF s[r.i][2] = 0 THEN Error(s, d)
  ELSE Read(r.i + 1, r.defs, Node(kind, s[r.i][2], <<r.type>>))

ParsePointer(s, i, d) ==
  LET r == ParseType(s, i + 1, d) IN
  CASE Failed(r) \/ r.type = Nothing -> Error(s, d)
    [] r.type.kind = "void" -> Read(r.i, r.defs, Node("ptr", 0, <<Byte>>))
    [] r.type.kind = "func" \/ IsSized(r.type, r.defs) ->
         Read(r.i, r.defs, Node("ptr", 0, <<r.type>>))
    [] OTHER -> Error(s, d)

(* At least a parameter and the returned type; the last parameter may be   *)
(* an ellipsis, and the only one void.                                     *)
ParseFunction(s, i, d) ==
  LET r == ParseTypes(s, i + 1, d, ")", <<>>) IN
  IF Failed(r) \/ Len(r.types) < 2 \/ ~Is(s, r.i, ")") THEN Error(s, d)
  ELSE LET last == Last(Front(r.types)).kind
           params == IF last = "&" \/ (last = "void" /\ Len(r.types) = 2)
                     THEN Front(Front(r.types)) ELSE Front(r.types)
       IN  IF \/ Last(r.types).kind = "&"
              \/ \E t \in ToSet(params) : t.kind \in {"void", "&", "func"}
           THEN Error(s, d)
           ELSE Read(r.i + 1, r.defs,
                     Node("func", IF last = "&" THEN 1 ELSE 0, Append(params, Last(r.types))))

ParseType(s, i, d) ==
  IF i \notin DOMAIN s THEN Read(i, d, Nothing)
  ELSE CASE s[i][1] = "{" -> ParseStructure(s, i, d)
         [] s[i][1] = "=" -> ParseAssignment(s, i, d)
         [] s[i][1] = "%" -> ParseUse(s, i, d)
         [] s[i][1] = "[" -> ParseSequential(s, i, d, "array", "]")
         [] s[i][1] = "<" -> ParseSequential(s, i, d, "vector", ">")
         [] s[i][1] = "*" -> ParsePointer(s, i, d)
         [] s[i][1] = "(" -> ParseFunction(s, i, d)
         [] s[i][1] \in {"int", "float", "x87", "mmx", "void", "&"} ->
              Read(i + 1, d, Node(s[i][1], s[i][2], <<>>))
         [] OTHER -> Error(s, d)

ParseSpec(s) ==
  LET r == ParseType(s, 1, <<>>) IN
  IF r.i <= Len(s) \/ ~IsSized(r.type, r.defs) THEN Error(s, r.defs) ELSE r
-----------------------------------------------------------------------------
Was(by) == [by |-> by, type |-> held.type, defs |-> held.defs]
Write(out) ==
  /\ spec' = out.text
  /\ specs' = Append(specs, out.text)
  /\ holder' = "text"
  /\ UNCHANGED held

(* The front end writes a type.                                            *)
Proto ==
  /\ holder = "python"
  /\ Write(Serialize(held.type, held.defs, Empty))
  /\ was' = Was("python")

(* anvill writes one.                                                      *)
Translate ==
  /\ holder = "llvm" /\ Len(specs) < MaxTrips
  /\ Write(TranslateType(held.type, held.defs, Empty))
  /\ was' = Was("llvm")

(* anvill reads what was written.                                          *)
Parse ==
  /\ holder = "text"
  /\ LET r == ParseSpec(spec) IN
     /\ holder' = IF Failed(r) THEN "refused" ELSE "llvm"
     /\ held' = IF Failed(r) THEN held ELSE [type |-> r.type, defs |-> r.defs]
  /\ UNCHANGED <<spec, was, specs>>

TypesIdle ==
  /\ holder = "nobody"
  /\ held = [type |-> Nothing, defs |-> <<>>]
  /\ spec = <<>> /\ was = [by |-> "nobody"] /\ specs = <<>>

TypesInit ==
  /\ \/ holder = "python" /\ held \in FrontEndTypes
     \/ holder = "llvm" /\ held \in ModuleTypes
  /\ spec = <<>> /\ was = [by |-> "nobody"] /\ specs = <<>>

TypesNext == Proto \/ Translate \/ Parse
-----------------------------------------------------------------------------
(* What a type is, whoever has it: a set of leaves, each at its offset. A  *)
(* byte of padding is a leaf, and void, where it is pointed to, is a byte. *)
(* A writer of LLVM's types says nothing of a pointee that has no size.    *)

FilledIn(d) == [k \in DOMAIN d |-> IF d[k].elems = <<>> THEN [d[k] EXCEPT !.elems = <<Byte>>] ELSE d[k]]

RECURSIVE Leaves(_, _, _, _)
Pointee(by, t, d) ==
  IF t.of = <<>> \/ t.of[1].kind = "void" \/ (by = "written" /\ ~IsSized(t.of[1], d))
  THEN {<<0, "int", 1>>} ELSE Leaves(by, t.of[1], d, 0)

Leaves(by, t, d, at) ==
  CASE t.kind = "int" -> {<<at, "int", (t.n + 7) \div 8>>}
    [] t.kind \in {"array", "vector"} ->
         UNION {Leaves(by, t.of[1], d, at + (k - 1) * AllocSize(t.of[1], d)) : k \in 1 .. t.n}
    [] t.kind = "ptr" -> {<<at, "ptr", Pointee(by, t, d)>>}
    [] t.kind = "alias" -> Leaves(by, t.of[1], d, at)
    [] t.kind = "union" -> Leaves(by, Last(Body(t, d).elems), d, at)
    [] t.kind \in {"struct", "literal"} ->
         LET elems == Body(t, d).elems
             first(k) == Offsets(t, d)[k]
             room(k) == first(k) .. first(k) + AllocSize(elems[k], d) - 1
             padding == (0 .. AllocSize(t, d) - 1) \ UNION {room(k) : k \in DOMAIN elems}
         IN  UNION {Leaves(by, elems[k], d, at + first(k)) : k \in DOMAIN elems}
               \cup {<<at + p, "int", 1>> : p \in padding}
    [] t.kind = "func" ->
         {<<0, "func", t.n>>} \cup {<<k, "value", Leaves(by, t.of[k], d, 0)>> : k \in DOMAIN t.of}
    [] t.kind = "void" -> {}
    [] OTHER -> {<<at, t.kind, t.n>>}

RECURSIVE Within(_, _, _)
Within(t, d, seen) ==
  IF t \in seen THEN seen
  ELSE FoldLeft(LAMBDA all, c : Within(c, d, all), seen \cup {t}, Children(t, d))
Below(t, d) == FoldLeft(LAMBDA all, c : Within(c, d, all), {}, Children(t, d))

(* Types that the language can say. Structures do not contain themselves,  *)
(* not even behind a pointer; integers have a letter; arrays have          *)
(* elements. What the front end has, fills its place without LLVM adding   *)
(* any, a union with its last member; in LLVM's structures no element has  *)
(* room behind it.                                                         *)
Sayable(by, t, d) ==
  \A u \in Within(t, d, {}) :
    /\ IsStructure(u) => u \notin Below(u, d)
    /\ u.kind = "int" => u.n \in {1, 8, 16, 32, 64, 128}
    /\ u.kind \in {"array", "vector"} => u.n > 0
    /\ u.kind # "bfloat"
    /\ by = "python" /\ u.kind \notin {"void", "func"} => Size(u, d) = AllocSize(u, d)
    /\ by = "llvm" /\ IsStructure(u) /\ ~Body(u, d).opaque =>
         /\ ~Body(u, d).packed /\ Body(u, d).elems # <<>>
         /\ \A e \in ToSet(Body(u, d).elems) : Layout(e, d).store = AllocSize(e, d)

(* A type that was written is read as one that has the same fields at the  *)
(* same places, behind pointers and in parameters too, with the same size; *)
(* and writing and reading it again does not change it for ever.           *)
TypesSurvive ==
  /\ was.by # "nobody" /\ holder # "text" =>
       LET d == IF was.by = "python" THEN FilledIn(was.defs) ELSE was.defs IN
       Sayable(was.by, was.type, d) =>
         /\ holder = "llvm"
         /\ AllocSize(held.type, held.defs) = AllocSize(was.type, d)
         /\ Leaves("read", held.type, held.defs, 0) =
              Leaves(IF was.by = "llvm" THEN "written" ELSE "python", was.type, d, 0)
         /\ Len(specs) = 4 => specs[4] = specs[3]
=============================================================================
