---------------------------- MODULE DataSegments ----------------------------
(***************************************************************************)
(* The data of a lifted module (src/mcsema/BC/Segment.cpp): one variable   *)
(* for each segment, its cross-references either in its initializer or     *)
(* stored by __mcsema_early_init, the calls of the original's constructor  *)
(* and destructor, and the merge of all segments into one variable; then   *)
(* the addresses a linker gives the variables.                             *)
(*                                                                         *)
(* The module is what the CFG loader leaves. A cross-reference is known by *)
(* the place of its segment and its own place in it.                       *)
(***************************************************************************)
EXTENDS Integers, Sequences, SequencesExt, FiniteSetsExt

CONSTANTS
  Modules,        \* what Init chooses from
  Page,           \* 4096
  ShiftWidth,     \* how far an unsigned can be shifted
  LastAddress     \* where the linker stops

ASSUME SegmentsAssumption ==
  /\ Page \in Nat \ {0} /\ ShiftWidth \in Nat \ {0} /\ LastAddress \in Nat
  /\ \A m \in Modules :
       /\ m.segments \in Seq(Range(m.segments))
       /\ \A s \in DOMAIN m.segments :
            /\ m.segments[s].xrefs \in Seq(Range(m.segments[s].xrefs))
            /\ m.segments[s].external => m.segments[s].xrefs = <<>>

VARIABLES
  cfg,            \* the NativeModule and the flags of mcsema-lift
  phase,          \* what LiftCodeIntoModule does next
  filled,         \* how many segments it filled
  placed,         \* how many cross-references of the next one
  image,          \* cross-reference |-> what the initializer has in its place
  initCode,       \* the stores of __mcsema_early_init, in the order they run
  constants,      \* the segments whose variables are constant
  calls,          \* what __mcsema_constructor and __mcsema_destructor call
  offset,         \* segment |-> its place in __mcsema_all_segments
  base            \* segment |-> the address of its variable

build == <<cfg, phase, filled, placed, image, initCode, constants, calls, offset, base>>

Segments == DOMAIN cfg.segments
Seg(s) == cfg.segments[s]
Internal == {s \in Segments : ~Seg(s).external}
Merged == {s \in Internal : cfg.merge /\ ~Seg(s).tls}
XrefsOf(s) == {<<s, i>> : i \in DOMAIN Seg(s).xrefs}
Xrefs == UNION {XrefsOf(s) : s \in Segments}
Xref(x) == Seg(x[1]).xrefs[x[2]]

(* Segments begin on a page of their own, which bytes in front of them     *)
(* fill, so that what they hold keeps its place in the page.               *)
Padding(s) == IF Seg(s).external \/ cfg.merge THEN 0 ELSE Seg(s).ea % Page
-----------------------------------------------------------------------------
(* The initializers.                                                       *)

(* What an xref leads to is not in the image when its address is not known *)
(* before the program runs, or when it has to be cut to the xref's width.  *)
ToLazy(x) ==
  /\ Xref(x).kind \in {"variable", "location"}
  /\ Seg(Xref(x).to).external \/ Seg(Xref(x).to).tls
BeLazy(x) == ~cfg.embed /\ (ToLazy(x) \/ ~Xref(x).wide)

(* No code can be made for it: an absolute fixup of a thread-local         *)
(* variable, or a thread-local one, which only fits such variables and     *)
(* subtracts a number from a pointer. No fixup is made of a null.          *)
Unfit(x) ==
  LET toThreads == Xref(x).kind = "variable" /\ Seg(Xref(x).to).tls IN
  /\ BeLazy(x) /\ ~Xref(x).null
  /\ toThreads \/ Xref(x).fixup = "thread_offset"

Stored(x) == BeLazy(x) /\ ~Xref(x).null

(* A variable with a lazy xref cannot be constant.                         *)
StaysConstant(x) == constants
LazilyWritten(x) == IF BeLazy(x) THEN constants \ {x[1]} ELSE constants

(* FillDataSegment takes the xrefs of a segment in the order of their      *)
(* addresses. LazyInitXRef puts each store in front of those that are      *)
(* there.                                                                  *)
FillXref(x) ==
  /\ phase = "fill" /\ x \in Xrefs /\ x = <<filled + 1, placed + 1>>
  /\ IF Unfit(x)
     THEN phase' = "fatal" /\ UNCHANGED <<image, initCode, constants>>
     ELSE /\ image' = [image EXCEPT ![x] = IF BeLazy(x) \/ Xref(x).null THEN "null" ELSE "target"]
          /\ initCode' = IF Stored(x) THEN Cons(x, initCode) ELSE initCode
          /\ constants' = LazilyWritten(x)
          /\ phase' = phase
  /\ placed' = placed + 1
  /\ UNCHANGED <<cfg, filled, calls, offset, base>>

FillSegment(s) ==
  /\ phase = "fill" /\ s = filled + 1 /\ s \in Segments
  /\ placed = Len(Seg(s).xrefs)
  /\ filled' = s
  /\ placed' = 0
  /\ UNCHANGED <<cfg, phase, image, initCode, constants, calls, offset, base>>

DefineDataSegments ==
  /\ phase = "fill" /\ filled = Len(cfg.segments)
  /\ phase' = "calls"
  /\ UNCHANGED <<cfg, filled, placed, image, initCode, constants, calls, offset, base>>
-----------------------------------------------------------------------------
(* Without names on the command line, the first pair of which both are     *)
(* there.                                                                  *)
Pairs == <<<<"init", "fini">>, <<"__libc_csu_init", "__libc_csu_fini">>>>
DetectInitFiniCode ==
  LET found == SelectSeq(Pairs, LAMBDA p : {p[1], p[2]} \subseteq cfg.functions) IN
  IF found = <<>> THEN <<"", "">> ELSE found[1]

CallInitFiniCode ==
  /\ phase = "calls"
  /\ LET named == cfg.named
         pair == IF named = <<"", "">> THEN DetectInitFiniCode ELSE named IN
     calls' = [i \in 1 .. 2 |-> IF pair[i] \in cfg.functions THEN <<pair[i]>> ELSE <<>>]
  /\ phase' = "merge"
  /\ UNCHANGED <<cfg, filled, placed, image, initCode, constants, offset, base>>
-----------------------------------------------------------------------------
(* One variable for all that have an initializer and are not thread local, *)
(* in the order of their addresses, from the first one's page.             *)
ByAddress == SetToSortSeq(Merged, LAMBDA s, t : Seg(s).ea < Seg(t).ea)

Put(m, s) ==
  LET gap == Seg(s).ea - m.ea IN
  [at |-> (s :> m.length + gap) @@ m.at, length |-> m.length + gap + Seg(s).size,
   ea |-> Seg(s).ea + Seg(s).size, fits |-> m.fits /\ gap >= 0]

Layout ==
  LET first == Seg(ByAddress[1]).ea IN
  FoldLeft(Put, [at |-> <<>>, length |-> 0, ea |-> first - (first % Page), fits |-> TRUE], ByAddress)

MergeSegments ==
  /\ phase = "merge"
  /\ IF Merged = {} THEN phase' = "link" /\ UNCHANGED offset
     ELSE IF ~Layout.fits THEN phase' = "fatal" /\ UNCHANGED offset
     ELSE phase' = "link" /\ offset' = Layout.at
  /\ UNCHANGED <<cfg, filled, placed, image, initCode, constants, calls, base>>
-----------------------------------------------------------------------------
(* 1u << __builtin_ctzl(ea - padding): the shift is taken modulo the       *)
(* width of the unsigned, and of 0 the count is anything.                  *)
Shift(n) == CHOOSE k \in 0 .. n : n % 2^k = 0 /\ n % 2^(k + 1) # 0
ShiftFits(s) == (Seg(s).ea - Padding(s)) % 2^ShiftWidth # 0
AlignmentOfEa(s) == IF s \in Merged THEN 1 ELSE 2^(Shift(Seg(s).ea) % ShiftWidth)
Alignment(s) ==
  LET n == Seg(s).ea - Padding(s) IN
  IF n = 0 \/ s \in Merged THEN 1 ELSE 2^(Shift(n) % ShiftWidth)
VariableSize(s) == Seg(s).size + Padding(s)

(* The linker puts each variable where its alignment lets it and where no  *)
(* other is; the merged ones are one variable, which has no alignment.     *)
Leader(s) == IF s \in Merged THEN ByAddress[1] ELSE s
Bytes(b, s) ==
  IF s \in Merged THEN b .. b + Layout.length - 1 ELSE b .. b + VariableSize(s) - 1

Link ==
  /\ phase = "link"
  /\ \E b \in [Internal -> 0 .. LastAddress] :
       /\ \A s \in Internal : b[s] % Alignment(s) = 0 /\ b[s] = b[Leader(s)]
       /\ \A s, t \in Internal :
            Leader(s) # Leader(t) => Bytes(b[s], s) \cap Bytes(b[t], t) = {}
       /\ base' = b
  /\ phase' = "loaded"
  /\ UNCHANGED <<cfg, filled, placed, image, initCode, constants, calls, offset>>

(* Where the segment's first byte is.                                      *)
AddressOf(s) == base[s] + IF s \in Merged THEN offset[s] ELSE Padding(s)
-----------------------------------------------------------------------------
BuildInit ==
  /\ cfg \in Modules
  /\ phase = "fill"
  /\ filled = 0
  /\ placed = 0
  /\ image = [x \in Xrefs |-> "unset"]
  /\ initCode = <<>>
  /\ constants = {s \in Internal : Seg(s).readOnly}
  /\ calls = <<<<>>, <<>>>>
  /\ offset = <<>>
  /\ base = <<>>

LiftCodeIntoModule ==
  \/ \E x \in Xrefs : FillXref(x)
  \/ \E s \in Segments : FillSegment(s)
  \/ DefineDataSegments \/ CallInitFiniCode \/ MergeSegments
-----------------------------------------------------------------------------
(* Every cross-reference of a segment gets its target, once: it is in the  *)
(* segment's initializer, or that has a null and one store of the early    *)
(* initializer writes it, to a variable that can be written.               *)
XrefsResolved ==
  phase = "loaded" => \A x \in Xrefs : ~Xref(x).null =>
    LET stores == {i \in DOMAIN initCode : initCode[i] = x} IN
    \/ image[x] = "target" /\ stores = {}
    \/ image[x] = "null" /\ (\E i \in DOMAIN initCode : stores = {i}) /\ x[1] \notin constants

(* Wherever the linker puts the variables, what was at an offset in a page *)
(* is at that offset in a page, as instructions that build an address from *)
(* its high and low bits need (CFG.h:99). Of the addresses the alignment   *)
(* cannot express only the README speaks.                                  *)
PageOffsetsKept ==
  (phase = "loaded" /\ ~cfg.merge) => \A s \in Internal :
    ShiftFits(s) => AddressOf(s) % Page = Seg(s).ea % Page

(* Merged segments are as far from each other as in the original.          *)
DistancesKept ==
  phase = "loaded" => \A s, t \in Merged :
    AddressOf(s) - AddressOf(t) = Seg(s).ea - Seg(t).ea

(* What code knows of where data is, an offset in a page or a distance     *)
(* between two segments, is still so of the variables.                     *)
LayoutKept == PageOffsetsKept /\ DistancesKept
=============================================================================
