---------------------------- MODULE AllocationMC ----------------------------
(***************************************************************************)
(* Types, architectures and conventions for AllocationState.               *)
(***************************************************************************)
EXTENDS AllocationState

T(kind, bits, elems, size) == [kind |-> kind, bits |-> bits, elems |-> elems, size |-> size]
I(w) == T("int", w, << >>, w \div 8)
F(w) == T("float", w, << >>, w \div 8)
P(w) == T("ptr", w, << >>, w \div 8)
BitsOf(elems) == FoldLeft(LAMBDA b, e : b + e.bits, 0, elems)
S(elems, size) == T("struct", BitsOf(elems), elems, size)
A(n, elem) == S([k \in 1..n |-> elem], n * elem.size)
V(n, elem) == LET elems == [k \in 1..n |-> elem] IN T("vec", BitsOf(elems), elems, n * elem.size)

Pair == S(<<I(32), I(16)>>, 8)
Nested == S(<<I(16), S(<<I(16), I(32)>>, 8)>>, 12)
Mixed == S(<<I(64), F(64)>>, 16)
Ragged == S(<<I(16), I(32), I(16)>>, 12)
Big == A(9, I(64))

Arch(family, ext, os) == [family |-> family, ext |-> ext, os |-> os]
Linux == {Arch(f, "none", "linux") : f \in {"x86", "amd64", "aarch64", "sparc32", "sparc64"}}
SysV == ConventionsOf("C", Arch("amd64", "none", "linux"))
Cdecl == ConventionsOf("C", Arch("x86", "none", "linux"))
Aarch64 == ConventionsOf("C", Arch("aarch64", "none", "linux"))
AVX == ConventionsOf("C", Arch("amd64", "avx", "linux"))
FastCall == ConventionsOf("X86_FastCall", Arch("x86", "none", "windows"))
OneByOne == UNION {ConventionsOf("C", a) : a \in Linux} \ Cdecl
AllConventions ==
  UNION {ConventionsOf(cc, a) : cc \in {"C", "X86_ThisCall"}, a \in Linux}
    \cup ConventionsOf("C", Arch("x86", "none", "windows")) \cup FastCall

Family(conventions, returned, arguments, n) ==
  [conventions |-> conventions, returned |-> returned, arguments |-> arguments, n |-> n]

(* Four arguments of every kind but vectors and bytes, with and without a  *)
(* struct that is returned through memory.                                 *)
Mingled == Family(AllConventions, {Void, Big}, {I(32), I(64), I(96), F(64), Pair, A(3, I(64))}, 4)

(* Every kind of return value and more scalars than there are registers.   *)
Scalars ==
  Family(SysV \cup Cdecl \cup ConventionsOf("C", Arch("sparc32", "none", "linux")),
         {I(16), I(64), I(96), I(128), I(256), P(32), F(32), F(64), F(128),
          T("x87", 80, << >>, 16), Pair, Nested, Mixed, S(<<F(32), F(64)>>, 16), A(2, I(32)), A(3, I(16)), S(<< >>, 0)},
         {I(32), F(32)}, 9)

(* Vectors packed, spread, given up, and within a struct.                  *)
Vectors ==
  Family(OneByOne \cup AVX,
         {V(4, I(32)), V(3, I(64)), V(4, F(32)), V(2, I(128)), Ragged, Nested, V(16, I(32))},
         {V(4, I(32)), V(3, I(64)), V(5, I(64)), S(<<I(32), V(2, I(64)), I(16)>>, 48), Pair}, 3)

(* Floats of every width, in SPARC's three names for one file, and more of *)
(* one width than it has names for.                                        *)
Sparc64 == ConventionsOf("C", Arch("sparc64", "none", "linux"))
Floats ==
  Family(Sparc64, {Void, S(<<F(32), F(64)>>, 16), S(<<F(64), F(128), F(32)>>, 48)},
         {F(32), F(64), F(128), S(<<F(32), F(64)>>, 16)}, 4)
ManyFloats == Family(Sparc64, {Void}, {F(32)}, 18)

Families == {Mingled, Scalars, Vectors, Floats, ManyFloats}
MCConventions == UNION {f.conventions : f \in Families}
MCReturnTypes == UNION {f.returned \ {Void} : f \in Families}
MCArgumentTypes == UNION {f.arguments : f \in Families}
MCMaxParams == 18

(* The signature bound so far is the beginning of one of a family.         *)
InFamily(f, types) ==
  /\ conv \in f.conventions
  /\ types[1] \in f.returned
  /\ Len(types) - 1 <= f.n
  /\ \A k \in 2..Len(types) : types[k] \in f.arguments \cup {Pointer}
Familiar(t) == \E f \in Families : InFamily(f, Append(signature, t))

MCBindReturnValues ==
  \/ \E i \in 1..2 : ReturnsSret(i) \/ \E t \in ReturnTypes : SretNotVoid(i, t)
  \/ ReturnsVoid
  \/ \E t \in {t \in ReturnTypes : Familiar(t)} :
       ReturnsDirectly(t) \/ ReturnsUnsupported(t) \/ ReturnsAllocated(t)
MCBindParameters ==
  \E t \in {t \in IF sret = Len(signature) THEN {Pointer} ELSE ArgumentTypes : Familiar(t)} :
    BindArgument(t) \/ BindStackArgument(t)
MCNext == MCBindReturnValues \/ MCBindParameters \/ TryRegisterAllocate \/ FinishSignature
=============================================================================
