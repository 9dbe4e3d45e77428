------------------------- MODULE CallingConventions -------------------------
(***************************************************************************)
(* The calling conventions anvill knows (anvill/src/Arch), as data for     *)
(* AllocationState: for each one what its BindReturnValues and its         *)
(* BindParameters do where they differ from the others', and what its      *)
(* AllocateSignature says the callee pops.                                 *)
(*                                                                         *)
(* A register is <<name, number>>, the same for all of its variants: EDI   *)
(* is the 32-bit variant of <<"RDI", 0>>.                                  *)
(***************************************************************************)
EXTENDS Integers, Sequences

Integral == {"int", "ptr"}
Numeric == {"int", "ptr", "float"}
Float == {"float"}
Vec == {"vec"}
FloatOrVec == {"float", "vec"}

(* RegisterConstraint: a register, the widths of its variants in the order *)
(* of the table, and the types it may hold.                                *)
Constraint(reg, widths, types) == [reg |-> reg, widths |-> widths, types |-> types]
Named(names, widths, types) ==
  [i \in DOMAIN names |-> Constraint(<<names[i], 0>>, widths, types)]
Bank(name, numbers, widths, types) ==
  [i \in DOMAIN numbers |-> Constraint(<<name, numbers[i]>>, widths, types)]

(* first, first + step, ...: n numbers in all.                             *)
From(first, step, n) == [i \in 1..n |-> first + step * (i - 1)]

(* RemainingSpace takes the last variant for the largest.                  *)
Width(c) == c.widths[Len(c.widths)]

(* The AVX tables name their registers after the last character of the XMM *)
(* register's name, which std::to_string prints as a character code.       *)
CharCode(digit) == 48 + digit
ApplyX86Ext(constraints, ext) ==
  [i \in DOMAIN constraints |->
     LET c == constraints[i] IN
     IF c.reg[1] = "XMM" /\ Len(c.widths) = 1 /\ ext # "none"
       THEN Constraint(<<"XMM", CharCode(c.reg[2])>>,
                       IF ext = "avx" THEN <<128, 256>> ELSE <<128, 256, 512>>,
                       FloatOrVec)
       ELSE c]

(* The registers remill names: XMM48 is not among them.                    *)
IsRegister(reg) == reg[1] = "XMM" => reg[2] < 32

(* What a register is kept in. SPARC has one file of words for its floats, *)
(* in which d<n> is f<n> and the next one, and q<n> is four of them.       *)
FloatBanks == {"f", "d", "q"}
WordsOf(bank) == CASE bank = "f" -> 1 [] bank = "d" -> 2 [] bank = "q" -> 4
Storage(reg) ==
  IF reg[1] \in FloatBanks THEN {<<"f", reg[2] + k>> : k \in 0..(WordsOf(reg[1]) - 1)}
  ELSE {reg}
Share(r, s) == Storage(r) \cap Storage(s) # {}

(* The tables name that file once for each width, and AllocationState      *)
(* keeps no account of what two names share.                               *)
InTwoBanks(r, s) == r[1] # s[1] /\ {r[1], s[1]} \subseteq FloatBanks

-----------------------------------------------------------------------------
(* A returns rule: the table; the width above which an integer is split    *)
(* (0: never); the registers integers are returned in, the bits each is    *)
(* taken to hold, the width of the type it is declared with when there are *)
(* several, and what happens when they do not suffice; where floats are    *)
(* returned, by width; the register of a struct's address; rvo, whether    *)
(* composites fall back on it.                                             *)
(* A parameters rule: the table; split; in_registers, whether the table is *)
(* used at all; stack, the offset of the first stack argument; injected,   *)
(* what an injected struct return takes.                                   *)

X86Ints == <<8, 16, 32>>
X64Ints == <<8, 16, 32, 64>>
X87(reg) == [w \in {32, 64, 80} |-> IF w = 80 THEN <<"ST", 0>> ELSE reg]

SysVParamTable ==
  Named(<<"RDI", "RSI", "RDX", "RCX", "R8", "R9">>, X64Ints, Integral)
    \o Bank("XMM", From(0, 1, 8), <<128>>, FloatOrVec)
SysVReturnTable ==
  Named(<<"RAX", "RDX", "RCX">>, X64Ints, Integral)
    \o Bank("XMM", From(0, 1, 2), <<128>>, Vec) \o Bank("ST", From(0, 1, 2), <<80>>, Vec)

SysVReturns(ext) ==
  [table |-> ApplyX86Ext(SysVReturnTable, ext), split |-> 0,
   ints |-> <<<<"RAX", 0>>, <<"RDX", 0>>, <<"RCX", 0>>>>,
   int_bits |-> 64, int_type |-> 64, big_int |-> "allocate",
   floats |-> X87(<<"XMM", 0>>), sret |-> <<"RAX", 0>>, rvo |-> TRUE]
SysVParams(ext) ==
  [table |-> ApplyX86Ext(SysVParamTable, ext), split |-> 0,
   in_registers |-> TRUE, stack |-> 8, injected |-> "register"]
X86_64_SysV(ext) ==
  [id |-> "X86_64_SysV", ptr |-> 64, returns |-> SysVReturns(ext),
   params |-> SysVParams(ext), pops |-> "return_address"]

-----------------------------------------------------------------------------
(* The four conventions of 32-bit x86. Their tables name registers for     *)
(* parameters, but their BindParameters put every one on the stack.        *)
X86ParamTable(integral) ==
  Named(integral, <<32>>, Integral) \o Bank("XMM", From(0, 1, 8), <<128>>, Vec)
X86ReturnTable ==
  Named(<<"RAX", "RDX", "RCX">>, X86Ints, Integral) \o Bank("ST", From(0, 1, 2), <<80>>, Vec)

CdeclReturns(ext) ==
  [table |-> ApplyX86Ext(X86ReturnTable, ext), split |-> 0,
   ints |-> <<<<"RAX", 0>>, <<"RDX", 0>>, <<"RCX", 0>>>>,
   int_bits |-> 32, int_type |-> 32, big_int |-> "allocate",
   floats |-> X87(<<"ST", 0>>), sret |-> <<"RAX", 0>>, rvo |-> TRUE]
OnTheStack(table) ==
  [table |-> table, split |-> 0, in_registers |-> FALSE, stack |-> 4, injected |-> "stack"]
CdeclParams(ext) == OnTheStack(ApplyX86Ext(X86ParamTable(<< >>), ext))
X86_C(ptr, ext) ==
  [id |-> "X86_C", ptr |-> ptr, returns |-> CdeclReturns(ext),
   params |-> CdeclParams(ext), pops |-> "sret"]

StdCallReturns(ext) == CdeclReturns(ext)
StdCallParams(ext) == CdeclParams(ext)
X86_StdCall(ext) ==
  [id |-> "X86_StdCall", ptr |-> 32, returns |-> StdCallReturns(ext),
   params |-> StdCallParams(ext), pops |-> "arguments"]

FastCallReturns(ext) == CdeclReturns(ext)
FastCallParams(ext) == OnTheStack(ApplyX86Ext(X86ParamTable(<<"RCX", "RDX">>), ext))
X86_FastCall(ext) ==
  [id |-> "X86_FastCall", ptr |-> 32, returns |-> FastCallReturns(ext),
   params |-> FastCallParams(ext), pops |-> "arguments"]

ThisCallReturns(ext) == CdeclReturns(ext)
ThisCallParams(ext) == OnTheStack(ApplyX86Ext(X86ParamTable(<<"RCX">>), ext))
X86_ThisCall(ext) ==
  [id |-> "X86_ThisCall", ptr |-> 32, returns |-> ThisCallReturns(ext),
   params |-> ThisCallParams(ext), pops |-> "arguments"]

-----------------------------------------------------------------------------
InRegisters(table, split, stack) ==
  [table |-> table, split |-> split, in_registers |-> TRUE,
   stack |-> stack, injected |-> "never"]

AArch64ParamTable ==
  Bank("X", From(0, 1, 8), <<32, 64>>, Integral)
    \o Bank("V", From(0, 1, 8), <<16, 32, 64>>, Float)
AArch64ReturnTable == AArch64ParamTable
AArch64Split == 64
AArch64Returns ==
  [table |-> AArch64ReturnTable, split |-> AArch64Split,
   ints |-> [i \in 1..8 |-> <<"X", i - 1>>],
   int_bits |-> 64, int_type |-> 32, big_int |-> "abort",
   floats |-> [w \in {16, 32, 64, 128} |-> <<"V", 0>>],
   sret |-> <<"X", 8>>, rvo |-> FALSE]
AArch64Params == InRegisters(AArch64ParamTable, AArch64Split, 0)
AArch64_C ==
  [id |-> "AArch64_C", ptr |-> 64, returns |-> AArch64Returns,
   params |-> AArch64Params, pops |-> "nothing"]

SPARC32ParamTable == Bank("o", From(0, 1, 6), <<32>>, Numeric)
SPARC32ReturnTable ==
  Bank("o", From(0, 1, 6), <<32>>, Integral) \o Bank("f", From(0, 1, 4), <<32>>, Float)
    \o Bank("d", From(0, 2, 2), <<64>>, Float)
SPARC32Split == 32
SPARC32Returns ==
  [table |-> SPARC32ReturnTable, split |-> SPARC32Split,
   ints |-> [i \in 1..6 |-> <<"o", i - 1>>],
   int_bits |-> 32, int_type |-> 32, big_int |-> "error",
   floats |-> [w \in {16, 32, 64} |-> IF w = 64 THEN <<"d", 0>> ELSE <<"f", 0>>],
   sret |-> <<"o", 0>>, rvo |-> FALSE]
SPARC32Params == InRegisters(SPARC32ParamTable, SPARC32Split, 92)
SPARC32_C ==
  [id |-> "SPARC32_C", ptr |-> 32, returns |-> SPARC32Returns,
   params |-> SPARC32Params, pops |-> "nothing"]

SPARC64ParamTable ==
  Bank("o", From(0, 1, 6), <<64>>, Integral) \o Bank("f", From(1, 2, 16), <<32>>, Float)
    \o Bank("d", From(0, 2, 16), <<64>>, Float) \o Bank("q", From(0, 4, 8), <<128>>, Float)
SPARC64ReturnTable ==
  Bank("o", From(0, 1, 6), <<64>>, Integral) \o Bank("f", From(0, 1, 32), <<32>>, Float)
    \o Bank("d", From(0, 2, 16), <<64>>, Float) \o Bank("q", From(0, 4, 8), <<128>>, Float)
SPARC64Split == 64
SPARC64Returns ==
  [table |-> SPARC64ReturnTable, split |-> SPARC64Split,
   ints |-> [i \in 1..6 |-> <<"o", i - 1>>],
   int_bits |-> 64, int_type |-> 32, big_int |-> "error",
   floats |-> [w \in {16, 32, 64, 128} |->
     CASE w = 64 -> <<"d", 0>> [] w = 128 -> <<"q", 0>> [] OTHER -> <<"f", 0>>],
   sret |-> <<"o", 0>>, rvo |-> FALSE]
SPARC64Params == InRegisters(SPARC64ParamTable, SPARC64Split, 2227)
SPARC64_C ==
  [id |-> "SPARC64_C", ptr |-> 64, returns |-> SPARC64Returns,
   params |-> SPARC64Params, pops |-> "nothing"]

-----------------------------------------------------------------------------
(* An architecture is [family, ext, os]. The conventions a function of a   *)
(* module for it may have: none when anvill reports an unsupported pair.   *)
Unix == {"macos", "linux", "solaris"}

CreateCCFromArch(arch) ==
  CASE arch.family = "x86" /\ arch.os \in Unix -> {X86_C(32, arch.ext)}
    [] arch.family = "x86" /\ arch.os = "windows" -> {X86_StdCall(arch.ext)}
    [] arch.family = "amd64" /\ arch.os \in Unix -> {X86_64_SysV(arch.ext)}
    [] arch.family = "aarch64" -> {AArch64_C}
    [] arch.family = "sparc32" /\ arch.os \in Unix \ {"macos"} -> {SPARC32_C}
    [] arch.family = "sparc64" /\ arch.os \in Unix \ {"macos"} -> {SPARC64_C}
    [] OTHER -> {}

X86OnlyCCs == {"X86_StdCall", "X86_FastCall", "X86_ThisCall"}

CreateCCFromCCID(cc_id, arch) ==
  CASE arch.family = "amd64" /\ cc_id \in X86OnlyCCs -> {X86_C(64, arch.ext)}
    [] arch.family = "amd64" /\ cc_id \in {"C", "X86_64_SysV"} -> {X86_64_SysV(arch.ext)}
    [] arch.family = "x86" /\ cc_id = "C" -> {X86_C(32, arch.ext)}
    [] arch.family = "x86" /\ cc_id = "X86_StdCall" -> {X86_StdCall(arch.ext)}
    [] arch.family = "x86" /\ cc_id = "X86_FastCall" -> {X86_FastCall(arch.ext)}
    [] arch.family = "x86" /\ cc_id = "X86_ThisCall" -> {X86_ThisCall(arch.ext)}
    [] arch.family = "aarch64" /\ cc_id = "C" -> {AArch64_C}
    [] arch.family = "sparc32" /\ cc_id = "C" -> {SPARC32_C}
    [] arch.family = "sparc64" /\ cc_id = "C" -> {SPARC64_C}
    [] OTHER -> {}

(* FunctionDecl::Create: C means the default of the architecture.          *)
ConventionsOf(cc_id, arch) ==
  IF cc_id = "C" THEN CreateCCFromArch(arch) ELSE CreateCCFromCCID(cc_id, arch)
=============================================================================
