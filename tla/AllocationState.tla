-------------------------- MODULE AllocationState --------------------------
(***************************************************************************)
(* How anvill declares where a function's return value and parameters are  *)
(* (anvill/src/Arch/AllocationState.cpp and the calling conventions'       *)
(* AllocateSignature): one behaviour binds the return value and then the   *)
(* parameters of one function, one register at a time.                     *)
(*                                                                         *)
(* TryRegisterAllocate walks a type's tree recursively; here `pending`     *)
(* holds the parts still to be placed, from left to right, and `taken` the *)
(* declarations made so far for the type at hand.                          *)
(*                                                                         *)
(* A type is [kind, bits, elems, size]: bits counts those of its scalars,  *)
(* elems are a struct's, an array's or a vector's parts in order, size is  *)
(* the data layout's getTypeAllocSize in bytes. An array is a "struct".    *)
(* Offsets in a register are in bits, those on the stack in bytes.         *)
(***************************************************************************)
EXTENDS Integers, SequencesExt, CallingConventions

CONSTANTS Conventions,    \* what ConventionsOf yields for the modules at hand
          ReturnTypes, ArgumentTypes,
          MaxParams       \* bounds the number of parameters

Stack == <<"stack", 0>>

(* The widths that AssignSizeAndType rounds a type up to.                  *)
Sizes == {16, 32, 64, 80, 128, 256, 512}

(* A table lists every register once, none of them the stack, and only     *)
(* SPARC64's lists storage under two names. RAX, which may hold the        *)
(* address of a struct return, takes no parameters besides.                *)
IsTable(table) ==
  \A i \in DOMAIN table :
    /\ table[i].reg # Stack
    /\ \A j \in DOMAIN table : table[i].reg = table[j].reg => i = j
    /\ DOMAIN table[i].widths = 1..Len(table[i].widths) /\ Len(table[i].widths) \in Nat \ {0}
    /\ \A k \in DOMAIN table[i].widths : table[i].widths[k] \in Nat
    /\ Width(table[i]) \in Sizes
Places(table) == {Stack, <<"RAX", 0>>} \cup {table[i].reg : i \in DOMAIN table}
ASSUME ConventionsAssumption ==
  \A c \in Conventions :
    /\ c.ptr \in Nat /\ c.params.stack \in Nat /\ c.params.split \in Nat
    /\ IsTable(c.params.table)
    /\ c.params.injected # "stack" =>
         \A i \in DOMAIN c.params.table : c.params.table[i].reg # <<"RAX", 0>>
    /\ \A p, q \in Places(c.params.table) :
         p # q /\ Share(p, q) => c.id = "SPARC64_C" /\ InTwoBanks(p, q)
ASSUME TypesAssumption == \A t \in ReturnTypes \cup ArgumentTypes : t.size \in Nat /\ t.bits \in Nat

VARIABLES conv,           \* the calling convention
          phase,
          signature,      \* the types bound so far: the return type first
          sret,           \* the parameter with an sret attribute, 0 if none
          injected_sret,
          fill, reserved, \* of AllocationState, by position in the table
          pending, taken,
          mark,           \* how many were taken when the vector at hand began
          returns, params, stack_offset,
          return_stack_pointer_offset

vars == <<conv, phase, signature, sret, injected_sret, fill, reserved, pending,
          taken, mark, returns, params, stack_offset, return_stack_pointer_offset>>
outputs == <<returns, params, stack_offset, return_stack_pointer_offset>>

Void == [kind |-> "void", bits |-> 0, elems |-> << >>, size |-> 0]
Pointer == [kind |-> "ptr", bits |-> conv.ptr, elems |-> << >>, size |-> conv.ptr \div 8]
Integer(w) == [kind |-> "int", bits |-> w, elems |-> << >>, size |-> w \div 8]
IsComposite(t) == t.kind \in {"struct", "vec"}

(* An integer of up to a byte gets kMinBit8, which equals kMaxBit512: 512. *)
SizeOf(t) ==
  IF (t.kind = "int" /\ t.bits <= 8) \/ ~\E w \in Sizes : t.bits <= w THEN 512
  ELSE CHOOSE w \in Sizes : t.bits <= w /\ \A v \in Sizes : t.bits <= v => w <= v
ClassesOf(t) ==
  CASE t.kind = "int" -> {"int"} [] t.kind = "float" -> {"float"} [] OTHER -> Integral

(* A type of which AssignSizeAndType, TryVectorRegisterAllocate or         *)
(* ProcessIntVecX86_64SysV has LOG(FATAL).                                 *)
IsFatal(t) ==
  \/ t.kind = "int" /\ t.bits > 512
  \/ /\ t.kind = "vec"
     /\ \/ t.elems[1].kind # "int"
        \/ conv.id = "X86_64_SysV" /\ t.elems[1].bits \notin {8, 16, 32, 64}

Rule == IF Len(signature) = 1 THEN conv.returns ELSE conv.params
Table == Rule.table

Item(t, pack, classes, in_vec) ==
  [type |-> t, pack |-> pack, classes |-> classes, in_vec |-> in_vec]
Decl(place, from, to, bits, t) ==
  [arg |-> Len(signature) - 1, place |-> place, from |-> from, to |-> to,
   bits |-> bits, type |-> t]
StackDecl(t) == Decl(Stack, stack_offset, stack_offset + t.size, 8 * t.size, t)

(* The first variant of a register wide enough, 0 if there is none.        *)
GetSmallestVariant(c, size) ==
  IF \E k \in DOMAIN c.widths : c.widths[k] >= size
    THEN c.widths[CHOOSE k \in DOMAIN c.widths :
                    c.widths[k] >= size /\ \A j \in 1..(k - 1) : c.widths[j] < size]
    ELSE 0

-----------------------------------------------------------------------------
Init ==
  /\ conv \in Conventions
  /\ phase = "returns"
  /\ signature = << >>
  /\ sret = 0 /\ injected_sret = FALSE
  /\ fill = << >> /\ reserved = << >>
  /\ pending = << >> /\ taken = << >> /\ mark = 0
  /\ returns = << >> /\ params = << >>
  /\ stack_offset = 0 /\ return_stack_pointer_offset = 0

Stop(outcome) ==
  /\ phase' = outcome
  /\ UNCHANGED <<conv, injected_sret, fill, reserved, pending, taken, mark, outputs>>

(* A fresh AllocationState over the table.                                 *)
Fresh(table) ==
  /\ fill' = [i \in DOMAIN table |-> 0]
  /\ reserved' = [i \in DOMAIN table |-> FALSE]

(* BindParameters up to its loop over the arguments. The slot of an        *)
(* injected struct return has the size of the struct; `t` is its type.     *)
StartParameters(injected, t) ==
  LET p == conv.params
      first == [arg |-> 0, place |-> IF p.injected = "stack" THEN Stack ELSE <<"RAX", 0>>,
                from |-> IF p.injected = "stack" THEN p.stack ELSE 0,
                to |-> IF p.injected = "stack" THEN p.stack + t.size ELSE 64,
                bits |-> IF p.injected = "stack" THEN 8 * t.size ELSE 64,
                type |-> t] IN
  /\ phase' = "params"
  /\ injected_sret' = injected
  /\ params' = IF injected THEN <<first>> ELSE << >>
  /\ stack_offset' = p.stack + IF injected /\ p.injected = "stack" THEN t.size ELSE 0
  /\ fill' = [i \in DOMAIN p.table |-> 0]
  /\ reserved' = [i \in DOMAIN p.table |-> injected /\ p.injected = "register" /\ i = 1]
  /\ pending' = << >> /\ taken' = << >> /\ mark' = 0
  /\ UNCHANGED <<conv, return_stack_pointer_offset>>

-----------------------------------------------------------------------------
(* BindReturnValues.                                                       *)
ReturnsSret(i) ==
  /\ phase = "returns" /\ i <= MaxParams
  /\ signature' = <<Void>> /\ sret' = i
  /\ returns' = <<[arg |-> 0, place |-> conv.returns.sret, from |-> 0, to |-> conv.ptr,
                   bits |-> conv.ptr, type |-> Pointer]>>
  /\ StartParameters(FALSE, Void)

SretNotVoid(i, t) ==
  /\ phase = "returns" /\ i <= MaxParams /\ t # Void
  /\ signature' = <<t>> /\ sret' = i
  /\ Stop("failed")

ReturnsVoid ==
  /\ phase = "returns"
  /\ signature' = <<Void>>
  /\ StartParameters(FALSE, Void)
  /\ UNCHANGED <<sret, returns>>

(* The registers of a return value that is not allocated from the table:   *)
(* << >> when the convention has none for it.                              *)
Chunks(t) == (t.bits + conv.returns.int_bits - 1) \div conv.returns.int_bits
DirectReturn(t) ==
  LET r == conv.returns
      Whole(reg) == <<[arg |-> 0, place |-> reg, from |-> 0, to |-> t.bits,
                       bits |-> t.bits, type |-> t]>> IN
  CASE t.kind = "ptr" -> Whole(r.ints[1])
    [] t.kind = "int" /\ t.bits <= r.int_bits -> Whole(r.ints[1])
    [] t.kind = "int" /\ t.bits > r.int_bits /\ Chunks(t) <= Len(r.ints) ->
         [k \in 1..Chunks(t) |->
            [arg |-> 0, place |-> r.ints[k], from |-> 0, to |-> r.int_type,
             bits |-> r.int_bits, type |-> Integer(r.int_type)]]
    [] t.kind \in {"float", "x87"} /\ t.bits \in DOMAIN r.floats -> Whole(r.floats[t.bits])
    [] OTHER -> << >>

ReturnsDirectly(t) ==
  /\ phase = "returns" /\ DirectReturn(t) # << >>
  /\ signature' = <<t>>
  /\ returns' = DirectReturn(t)
  /\ StartParameters(FALSE, Void)
  /\ UNCHANGED sret

Allocates(t) == IsComposite(t) \/ (t.kind = "int" /\ conv.returns.big_int = "allocate")

ReturnsUnsupported(t) ==
  /\ phase = "returns" /\ t # Void /\ DirectReturn(t) = << >> /\ ~Allocates(t)
  /\ signature' = <<t>>
  /\ Stop(IF t.kind = "int" /\ conv.returns.big_int = "abort" THEN "aborted" ELSE "failed")
  /\ UNCHANGED sret

ReturnsAllocated(t) ==
  /\ phase = "returns" /\ DirectReturn(t) = << >> /\ Allocates(t)
  /\ signature' = <<t>>
  /\ phase' = "placing"
  /\ Fresh(conv.returns.table)
  /\ pending' = <<Item(t, FALSE, ClassesOf(t), FALSE)>> /\ taken' = << >>
  /\ UNCHANGED <<conv, sret, injected_sret, mark, outputs>>

(* The next argument of BindParameters' loop.                              *)
BindArgument(t) ==
  /\ phase = "params" /\ Len(signature) <= MaxParams
  /\ conv.params.in_registers
  /\ signature' = Append(signature, t)
  /\ phase' = "placing"
  /\ pending' = <<Item(t, FALSE, ClassesOf(t), FALSE)>> /\ taken' = << >>
  /\ UNCHANGED <<conv, sret, injected_sret, fill, reserved, mark, outputs>>

BindStackArgument(t) ==
  /\ phase = "params" /\ Len(signature) <= MaxParams
  /\ ~conv.params.in_registers
  /\ signature' = Append(signature, t)
  /\ params' = Append(params, [StackDecl(t) EXCEPT !.arg = Len(signature)])
  /\ stack_offset' = stack_offset + t.size
  /\ UNCHANGED <<conv, phase, sret, injected_sret, fill, reserved, pending, taken,
                 mark, returns, return_stack_pointer_offset>>

-----------------------------------------------------------------------------
(* TryRegisterAllocate, one part at a time.                                *)
Part == pending[1]
Rest == Tail(pending)
Placing == phase = "placing" /\ pending # << >> /\ ~IsFatal(Part.type)

(* The elements of a struct, which may share registers.                    *)
OpenStruct ==
  /\ Placing /\ Part.type.kind = "struct"
  /\ pending' = [k \in DOMAIN Part.type.elems |->
                   LET e == Part.type.elems[k] IN Item(e, TRUE, ClassesOf(e), FALSE)] \o Rest
  /\ UNCHANGED <<conv, phase, signature, sret, injected_sret, fill, reserved, taken,
                 mark, outputs>>

(* The table of ProcessIntVecX86_64SysV: registers of their own, packed    *)
(* into vector registers, or not at all.                                   *)
SpreadVectors == {<<64, 3>>, <<16, 3>>, <<8, 3>>}
PackedVectors ==
  ({64} \X {2, 4}) \cup ({32} \X {2, 3, 4, 8, 16})
    \cup ({16} \X {2, 4, 5, 6, 7, 8, 16}) \cup ({8} \X {2, 16, 32})

OpenVector ==
  LET elem == Part.type.elems[1]
      shape == <<elem.bits, Len(Part.type.elems)>>
      sysv == conv.id = "X86_64_SysV"
      packed == sysv /\ shape \in PackedVectors
      item == Item(elem, packed \/ ~sysv, IF packed THEN FloatOrVec ELSE ClassesOf(elem), TRUE)
      parts == IF sysv /\ shape \notin PackedVectors \cup SpreadVectors THEN << >>
               ELSE [k \in DOMAIN Part.type.elems |-> item] IN
  /\ Placing /\ Part.type.kind = "vec"
  /\ mark' = Len(taken)
  /\ pending' = parts \o Rest
  /\ UNCHANGED <<conv, phase, signature, sret, injected_sret, fill, reserved, taken, outputs>>

RemainingSpace(i) == Width(Table[i]) - fill[i]
IsFree(i) ==
  /\ ~reserved[i] /\ RemainingSpace(i) # 0
  /\ Table[i].types \cap Part.classes # {}
  /\ Part.pack \/ fill[i] = 0
IsRoomyStrictly(i) == IsFree(i) /\ SizeOf(Part.type) < RemainingSpace(i)   \* mutant
IsRoomy(i) == IsFree(i) /\ SizeOf(Part.type) <= RemainingSpace(i)
IsBasic == Placing /\ ~IsComposite(Part.type)
NoRoom == IsBasic /\ \A i \in DOMAIN Table : ~IsRoomy(i)

(* TryBasicRegisterAllocate.                                               *)
FilledAnew(i) == SizeOf(Part.type)  \* mutant
Filled(i) == fill[i] + SizeOf(Part.type)
PlaceBasic(i) ==
  LET full == Filled(i) IN
  /\ IsBasic /\ i \in DOMAIN Table /\ IsRoomy(i)
  /\ \A j \in 1..(i - 1) : ~IsRoomy(j)
  /\ fill' = [fill EXCEPT ![i] = full]
  /\ reserved' = [reserved EXCEPT ![i] = @ \/ full = Width(Table[i])]
  /\ taken' = Append(taken, Decl(Table[i].reg, fill[i], full,
                                 GetSmallestVariant(Table[i], full), Part.type))
  /\ pending' = Rest
  /\ UNCHANGED <<conv, phase, signature, sret, injected_sret, mark, outputs>>

(* The IntegerTypeSplitter of the convention applies.                      *)
CanSplit ==
  /\ Rule.split # 0
  /\ Part.type.kind = "int" /\ Part.type.bits > Rule.split
  /\ \E i \in DOMAIN Table : IsFree(i)

PiecesRoundedDown == Part.type.bits \div Rule.split  \* mutant
Pieces == (Part.type.bits + Rule.split - 1) \div Rule.split

Split ==
  LET item == Item(Integer(Rule.split), TRUE, {"int"}, Part.in_vec) IN
  /\ NoRoom /\ CanSplit
  /\ pending' = [k \in 1..Pieces |-> item] \o Rest
  /\ UNCHANGED <<conv, phase, signature, sret, injected_sret, fill, reserved, taken,
                 mark, outputs>>

(* An element of a vector finds no place: TryCompositeRegisterAllocate     *)
(* goes on as if the vector had no elements.                               *)
VectorFails ==
  /\ NoRoom /\ ~CanSplit /\ Part.in_vec
  /\ \E n \in 1..Len(pending) :
       /\ \A k \in 1..n : pending[k].in_vec
       /\ n < Len(pending) => ~pending[n + 1].in_vec
       /\ pending' = SubSeq(pending, n + 1, Len(pending))
  /\ taken' = SubSeq(taken, 1, mark)
  /\ UNCHANGED <<conv, phase, signature, sret, injected_sret, fill, reserved, mark, outputs>>

TypeFails == NoRoom /\ ~CanSplit /\ ~Part.in_vec
ForReturn == Len(signature) = 1
Bound == signature[Len(signature)]

(* The registers taken so far stay filled.                                 *)
ArgumentOnStack ==
  /\ TypeFails /\ ~ForReturn
  /\ phase' = "params"
  /\ params' = Append(params, StackDecl(Bound))
  /\ stack_offset' = stack_offset + Bound.size
  /\ pending' = << >> /\ taken' = << >> /\ mark' = 0
  /\ UNCHANGED <<conv, signature, sret, injected_sret, fill, reserved, returns,
                 return_stack_pointer_offset>>

ArgumentInRegisters ==
  /\ phase = "placing" /\ pending = << >> /\ ~ForReturn
  /\ phase' = "params"
  /\ params' = params \o taken
  /\ taken' = << >> /\ mark' = 0
  /\ UNCHANGED <<conv, signature, sret, injected_sret, fill, reserved, pending, returns,
                 stack_offset, return_stack_pointer_offset>>

ReturnFails ==
  /\ TypeFails /\ ForReturn /\ ~(IsComposite(Bound) /\ conv.returns.rvo)
  /\ Stop("failed") /\ UNCHANGED <<signature, sret>>

ReturnByRVO ==
  /\ TypeFails /\ ForReturn /\ IsComposite(Bound) /\ conv.returns.rvo
  /\ returns' = <<[arg |-> 0, place |-> conv.returns.sret, from |-> 0, to |-> conv.ptr,
                   bits |-> conv.ptr, type |-> Pointer]>>
  /\ StartParameters(TRUE, Bound)
  /\ UNCHANGED <<signature, sret>>

(* CoalescePacking: the values in one register become a struct, in the     *)
(* smallest variant that holds it with its padding (a scalar is aligned to *)
(* its size); `bits` is 0 when there is none.                              *)
RoundUp(n, a) == ((n + a - 1) \div a) * a
StructSize(decls) ==
  LET end == FoldLeft(LAMBDA e, d : RoundUp(e, d.type.size) + d.type.size, 0, decls) IN
  RoundUp(end, Max({d.type.size : d \in ToSet(decls)}))
Group(i) == SelectSeq(taken, LAMBDA d : d.place = Table[i].reg)
Coalesced(i) ==
  LET g == Group(i) IN
  IF Len(g) = 1 THEN g[1]
  ELSE [arg |-> 0, place |-> Table[i].reg, from |-> 0, to |-> 8 * StructSize(g),
        bits |-> GetSmallestVariant(Table[i], 8 * StructSize(g)),
        type |-> [kind |-> "struct",
                  bits |-> FoldLeft(LAMBDA b, d : b + d.type.bits, 0, g),
                  elems |-> [k \in DOMAIN g |-> g[k].type], size |-> StructSize(g)]]
CoalescePacking ==
  LET used == SelectSeq([i \in DOMAIN Table |-> i], LAMBDA i : Group(i) # << >>) IN
  [k \in DOMAIN used |-> Coalesced(used[k])]

ReturnPlaced == phase = "placing" /\ pending = << >> /\ ForReturn
HasNullRegister == \E k \in DOMAIN taken : ~IsRegister(taken[k].place)

ReturnInRegisters ==
  LET decls == IF IsComposite(Bound) THEN CoalescePacking ELSE taken IN
  /\ ReturnPlaced
  /\ IsComposite(Bound) => ~HasNullRegister
  /\ \A k \in DOMAIN decls : decls[k].bits # 0
  /\ returns' = decls
  /\ StartParameters(FALSE, Void)
  /\ UNCHANGED <<signature, sret>>

CoalescingFails ==
  /\ ReturnPlaced /\ IsComposite(Bound) /\ ~HasNullRegister
  /\ \E k \in DOMAIN CoalescePacking : CoalescePacking[k].bits = 0
  /\ Stop("failed") /\ UNCHANGED <<signature, sret>>

(* LOG(FATAL), or the name of a null register.                             *)
Abort ==
  /\ \/ phase = "placing" /\ pending # << >> /\ IsFatal(Part.type)
     \/ ReturnPlaced /\ IsComposite(Bound) /\ HasNullRegister
  /\ Stop("aborted") /\ UNCHANGED <<signature, sret>>

(* The end of AllocateSignature.                                           *)
Popped ==
  CASE conv.pops = "return_address" -> 8
    [] conv.pops = "sret" -> IF sret = 1 \/ injected_sret THEN 8 ELSE 4
    [] conv.pops = "arguments" -> stack_offset
    [] OTHER -> 0
FinishSignature ==
  /\ phase = "params" /\ sret < Len(signature)
  /\ phase' = "done"
  /\ return_stack_pointer_offset' = Popped
  /\ UNCHANGED <<conv, signature, sret, injected_sret, fill, reserved, pending, taken,
                 mark, returns, params, stack_offset>>

BindReturnValues ==
  \/ \E i \in 1..2 : ReturnsSret(i) \/ \E t \in ReturnTypes : SretNotVoid(i, t)
  \/ ReturnsVoid
  \/ \E t \in ReturnTypes : ReturnsDirectly(t) \/ ReturnsUnsupported(t) \/ ReturnsAllocated(t)
BindParameters ==
  \E t \in IF sret = Len(signature) THEN {Pointer} ELSE ArgumentTypes :
    BindArgument(t) \/ BindStackArgument(t)
TryRegisterAllocate ==
  \/ OpenStruct \/ OpenVector \/ Split \/ VectorFails
  \/ \E i \in DOMAIN fill : PlaceBasic(i)
  \/ ArgumentOnStack \/ ArgumentInRegisters
  \/ ReturnFails \/ ReturnByRVO \/ ReturnInRegisters \/ CoalescingFails \/ Abort

Next == BindReturnValues \/ BindParameters \/ TryRegisterAllocate \/ FinishSignature
Spec == Init /\ [][Next]_vars

-----------------------------------------------------------------------------
(* Properties.                                                             *)

Values(decls) == {decls[k] : k \in DOMAIN decls}
SumOver(f(_), decls) == FoldLeft(LAMBDA n, d : n + f(d), 0, decls)

(* Parameters that share storage, be it a register or the stack, follow    *)
(* one another in it without overlapping, over all of a function's         *)
(* arguments, whatever was packed, split, spread or given up in between.   *)
(* Floats on SPARC64 are bound under two names of one storage, f1 and d0,  *)
(* which the README lists; nothing else is.                                *)
ValuesApart ==
  \A i, j \in DOMAIN params :
    i < j /\ Share(params[i].place, params[j].place) =>
      \/ params[i].place = params[j].place /\ params[i].to <= params[j].from
      \/ conv.id = "SPARC64_C" /\ InTwoBanks(params[i].place, params[j].place)

(* The variant a parameter is declared in holds it: GetSmallestVariantName *)
(* is asked about what the register is filled to, not about the value.     *)
NamedCovers ==
  \A d \in Values(params) : d.place # Stack => d.from < d.to /\ d.to <= d.bits

(* An argument bound is declared whole: on the stack in one slot of its    *)
(* size or in registers by all of its parts, which a split rounds up. A    *)
(* vector, which may be one of a struct's parts, is declared whole or,     *)
(* when it was given up, not at all: see EveryArgumentDeclared.            *)
SplitBits(t) ==
  IF t.kind = "int" /\ conv.params.split # 0 /\ t.bits > conv.params.split
    THEN RoundUp(t.bits, conv.params.split) ELSE t.bits
GivenUpBits(t) ==
  {0} \cup (IF t.kind = "vec" THEN {t.bits} ELSE {})
      \cup {t.elems[k].bits : k \in {k \in DOMAIN t.elems : t.elems[k].kind = "vec"}}
ArgumentsWhole ==
  phase \in {"params", "done"} =>
    \A k \in 1..(Len(signature) - 1) :
      LET t == signature[k + 1]
          decls == SelectSeq(params, LAMBDA d : d.arg = k)
          declared == SumOver(LAMBDA d : d.type.bits, decls)
      IN  IF \E d \in Values(decls) : d.place = Stack
            THEN Len(decls) = 1 /\ declared = t.bits
            ELSE \E lost \in GivenUpBits(t) : declared = SplitBits(t) - lost

(* No two returned values share a register but in SPARC's floats, and the  *)
(* values coalesced into one fit the variant it is declared with.          *)
ReturnsWhole ==
  \A i \in DOMAIN returns :
    /\ returns[i].to <= returns[i].bits
    /\ \A j \in DOMAIN returns :
         i # j /\ Share(returns[i].place, returns[j].place) =>
           /\ conv.id \in {"SPARC32_C", "SPARC64_C"}
           /\ InTwoBanks(returns[i].place, returns[j].place)

(* Nothing of an argument but a vector is lost between the parts it is     *)
(* taken apart into, and no returned part is put where another is.         *)
DeclaredWhole == ArgumentsWhole /\ ReturnsWhole

(* X86_64_SysV::BindParameters says of itself "If we run our of registers  *)
(* then pass the rest of the arguments on the stack"                       *)
(* (X86_64_SysV.cpp:371): no argument is left undeclared. It does not hold *)
(* of a vector, which TryCompositeRegisterAllocate gives up as if it had   *)
(* no elements.                                                            *)
EveryArgumentDeclared ==
  conv.id = "X86_64_SysV" /\ phase \in {"params", "done"} =>
    \A k \in 1..(Len(signature) - 1) :
      signature[k + 1].size > 0 => \E d \in Values(params) : d.arg = k

(* A scalar goes to the stack only when every register that could hold it  *)
(* is taken by an earlier argument, provided those are scalars that each   *)
(* fit a register: what does not fit keeps the registers it tried. (Of an  *)
(* integer of up to a byte, taken for one of 512 bits, the README speaks.) *)
IsSimple(t) == ~IsComposite(t) /\ (conv.params.split # 0 => t.bits <= conv.params.split)
StackOnlyWhenFull ==
  \A d \in Values(params) :
    /\ d.arg > 0 /\ d.place = Stack
    /\ \A k \in 1..d.arg : IsSimple(signature[k + 1])
    => \A i \in DOMAIN conv.params.table :
         LET c == conv.params.table[i] IN
         /\ conv.params.in_registers
         /\ c.types \cap ClassesOf(d.type) # {} /\ d.type.bits <= Width(c)
         /\ d.type.kind = "int" => d.type.bits > 8
         => \E e \in Values(params) :
              e.arg < d.arg /\ (e.place = c.reg \/ (e.arg = 0 /\ i = 1))

=============================================================================
