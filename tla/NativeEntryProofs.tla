------------------------- MODULE NativeEntryProofs -------------------------
(* Theorems about module NativeEntry, and what it takes from DataSegments, *)
(* for every value of their constants.                                     *)
EXTENDS NativeEntry, TLAPS

IsSeq(s) == \E S : s \in Seq(S)

LEMMA ConsSeq ==
  ASSUME NEW s, NEW e, IsSeq(s)
  PROVE  /\ IsSeq(Cons(e, s)) /\ Len(s) \in Nat /\ DOMAIN s = 1 .. Len(s)
         /\ DOMAIN Cons(e, s) = 1 .. Len(s) + 1
         /\ Cons(e, s)[1] = e /\ \A i \in 1 .. Len(s) : Cons(e, s)[i + 1] = s[i]
<1>1. PICK S : s \in Seq(S)
  BY DEF IsSeq
<1>2. s \in Seq(S \cup {e}) /\ <<e>> \in Seq(S \cup {e}) /\ Len(<<e>>) = 1 /\ <<e>>[1] = e
  BY <1>1
<1>3. /\ <<e>> \o s \in Seq(S \cup {e}) /\ Len(<<e>> \o s) = Len(s) + 1
      /\ (<<e>> \o s)[1] = e
      /\ \A i \in 1 .. Len(s) : (<<e>> \o s)[i + 1] = s[i]
  BY <1>2
<1> QED
  BY <1>2, <1>3 DEF Cons, IsSeq

LEMMA SeqOfNone ==
  ASSUME NEW s, s = << >>
  PROVE  IsSeq(s) /\ DOMAIN s = {}
<1>1. s \in Seq({}) /\ DOMAIN s = {}
  OBVIOUS
<1> QED
  BY <1>1 DEF IsSeq

-----------------------------------------------------------------------------
(* The lifting of the data.                                                *)

(* FillDataSegment was at x.                                               *)
Handled(x) == x[1] <= filled \/ (x[1] = filled + 1 /\ x[2] <= placed)
Past == {"calls", "merge", "link", "loaded"}

BuildTyped ==
  /\ cfg \in Modules /\ phase \in {"fill", "fatal"} \cup Past
  /\ filled \in Nat /\ placed \in Nat /\ filled <= Len(cfg.segments)
  /\ phase \in Past => filled = Len(cfg.segments)
  /\ DOMAIN image = Xrefs /\ IsSeq(initCode)

(* What the loop over the cross-references leaves behind it: each one's    *)
(* place in the initializer, and each store it made once.                  *)
Placed(x) ==
  /\ image[x] = IF BeLazy(x) \/ Xref(x).null THEN "null" ELSE "target"
  /\ BeLazy(x) => x[1] \notin constants
  /\ Stored(x) => \E i \in DOMAIN initCode : initCode[i] = x

StoresOnce ==
  /\ \A i \in DOMAIN initCode :
       initCode[i] \in Xrefs /\ Stored(initCode[i]) /\ Handled(initCode[i])
  /\ \A i, j \in DOMAIN initCode : initCode[i] = initCode[j] => i = j

BuildInv ==
  /\ BuildTyped
  /\ phase # "fatal" => StoresOnce /\ \A x \in Xrefs : Handled(x) => Placed(x)

LEMMA XrefsAre ==
  ASSUME cfg \in Modules
  PROVE  /\ Len(cfg.segments) \in Nat /\ Segments = 1 .. Len(cfg.segments)
         /\ \A s \in Segments :
              /\ Len(Seg(s).xrefs) \in Nat /\ DOMAIN Seg(s).xrefs = 1 .. Len(Seg(s).xrefs)
         /\ \A x \in Xrefs : /\ x = <<x[1], x[2]>> /\ x[1] \in 1 .. Len(cfg.segments)
                             /\ x[2] \in 1 .. Len(Seg(x[1]).xrefs)
<1>1. Len(cfg.segments) \in Nat /\ Segments = 1 .. Len(cfg.segments)
  BY SegmentsAssumption DEF Segments
<1>2. ASSUME NEW s \in Segments
      PROVE  Len(Seg(s).xrefs) \in Nat /\ DOMAIN Seg(s).xrefs = 1 .. Len(Seg(s).xrefs)
  BY SegmentsAssumption DEF Segments, Seg
<1>3. ASSUME NEW x \in Xrefs
      PROVE  /\ x = <<x[1], x[2]>> /\ x[1] \in Segments /\ x[2] \in DOMAIN Seg(x[1]).xrefs
  BY DEF Xrefs, XrefsOf
<1> QED
  BY <1>1, <1>2, <1>3

LEMMA CfgSame ==
  ASSUME UNCHANGED cfg
  PROVE  /\ Xrefs' = Xrefs
         /\ \A x : (BeLazy(x)' <=> BeLazy(x)) /\ Xref(x)' = Xref(x) /\ Seg(x)' = Seg(x)
         /\ \A x : Stored(x)' <=> Stored(x)
BY DEF Xrefs, XrefsOf, Segments, Seg, Xref, BeLazy, ToLazy, Stored

LEMMA BuildInitially == BuildInit => BuildInv
<1> SUFFICES ASSUME BuildInit PROVE BuildInv
  OBVIOUS
<1>1. BuildTyped
  <2>1. cfg \in Modules /\ phase = "fill" /\ filled = 0 /\ placed = 0 /\ initCode = <<>>
    BY DEF BuildInit
  <2>2. filled <= Len(cfg.segments) /\ phase \notin Past
    BY <2>1, XrefsAre DEF Past
  <2>3. DOMAIN image = Xrefs
    BY DEF BuildInit
  <2> QED
    BY <2>1, <2>2, <2>3, SeqOfNone DEF BuildTyped
<1>2. \A x \in Xrefs : ~Handled(x)
  BY XrefsAre DEF BuildInit, Handled
<1> QED
  BY <1>1, <1>2, SeqOfNone DEF BuildInit, BuildInv, StoresOnce

(* A later phase of the build leaves the data as it is.                    *)
LEMMA BuildFrame ==
  ASSUME BuildInv, UNCHANGED <<cfg, filled, placed, image, initCode, constants>>,
         phase' \in {"fill", "fatal"} \cup Past,
         phase # "fatal" \/ phase' = "fatal", phase' \in Past => filled = Len(cfg.segments)
  PROVE  BuildInv'
<1> USE CfgSame
<1>1. BuildTyped'
  BY DEF BuildInv, BuildTyped
<1>2. ASSUME phase' # "fatal" PROVE StoresOnce'
  BY <1>2 DEF BuildInv, StoresOnce, Handled
<1>3. ASSUME phase' # "fatal", NEW x \in Xrefs, Handled(x)' PROVE Placed(x)'
  BY <1>3 DEF BuildInv, Placed, Handled
<1> QED
  BY <1>1, <1>2, <1>3 DEF BuildInv

LEMMA FillXrefStep ==
  ASSUME BuildInv, NEW x \in Xrefs, FillXref(x)
  PROVE  BuildInv'
<1> USE CfgSame
<1>1. /\ phase = "fill" /\ UNCHANGED <<cfg, filled>> /\ placed' = placed + 1
      /\ x = <<filled + 1, placed + 1>>
  BY DEF FillXref
<1>2. CASE Unfit(x)
  BY <1>1, <1>2 DEF FillXref, BuildInv, BuildTyped, Past
<1>3. CASE ~Unfit(x)
  <2>1. /\ image' = [image EXCEPT ![x] = IF BeLazy(x) \/ Xref(x).null THEN "null" ELSE "target"]
        /\ initCode' = IF Stored(x) THEN Cons(x, initCode) ELSE initCode
        /\ constants' = IF BeLazy(x) THEN constants \ {x[1]} ELSE constants
        /\ phase' = "fill"
    BY <1>1, <1>3 DEF FillXref, LazilyWritten
  <2>2. BuildTyped'
    BY <1>1, <2>1, ConsSeq DEF BuildInv, BuildTyped, Past
  <2>3. ASSUME NEW y \in Xrefs PROVE Handled(y)' <=> Handled(y) \/ y = x
    BY <1>1, <2>3, XrefsAre DEF Handled, BuildInv, BuildTyped
  <2>4. ~Handled(x)
    BY <1>1 DEF Handled, BuildInv, BuildTyped
  <2>5. \A i \in DOMAIN initCode : initCode[i] # x
    BY <1>1, <2>4 DEF BuildInv, StoresOnce
  <2>6. IsSeq(initCode)
    BY DEF BuildInv, BuildTyped
  <2>7. StoresOnce'
    <3>1. CASE ~Stored(x)
      BY <1>1, <2>1, <2>3, <3>1 DEF BuildInv, StoresOnce
    <3>2. CASE Stored(x)
      <4>1. /\ Len(initCode) \in Nat /\ DOMAIN initCode = 1 .. Len(initCode)
            /\ DOMAIN initCode' = 1 .. Len(initCode) + 1 /\ initCode'[1] = x
            /\ \A i \in 1 .. Len(initCode) : initCode'[i + 1] = initCode[i]
        BY <2>1, <2>6, <3>2, ConsSeq
      <4>2. ASSUME NEW i \in DOMAIN initCode'
            PROVE  i = 1 \/ (i - 1 \in DOMAIN initCode /\ initCode'[i] = initCode[i - 1])
        <5>1. i = 1 \/ (i - 1 \in 1 .. Len(initCode) /\ (i - 1) + 1 = i)
          BY <4>1
        <5> QED
          BY <4>1, <5>1
      <4>3. ASSUME NEW i \in DOMAIN initCode'
            PROVE  /\ initCode'[i] \in Xrefs /\ Stored(initCode'[i])
                   /\ initCode'[i] = x \/ Handled(initCode'[i])
        BY <1>1, <3>2, <4>1, <4>2 DEF BuildInv, StoresOnce
      <4>4. ASSUME NEW i \in DOMAIN initCode', NEW j \in DOMAIN initCode', initCode'[i] = initCode'[j]
            PROVE  i = j
        <5>1. CASE i = 1
          BY <2>5, <4>1, <4>2, <4>4, <5>1
        <5>2. CASE j = 1
          BY <2>5, <4>1, <4>2, <4>4, <5>2
        <5>3. CASE i # 1 /\ j # 1
          <6>1. i - 1 = j - 1
            BY <1>1, <4>2, <4>4, <5>3 DEF BuildInv, StoresOnce
          <6> QED
            BY <4>1, <6>1
        <5> QED
          BY <5>1, <5>2, <5>3
      <4> QED
        BY <1>1, <2>3, <4>3, <4>4 DEF StoresOnce
    <3> QED
      BY <3>1, <3>2
  <2>8. ASSUME NEW y \in Xrefs, Handled(y)' PROVE Placed(y)'
    <3>1. ASSUME NEW i \in DOMAIN initCode
          PROVE  \E j \in DOMAIN initCode' : initCode'[j] = initCode[i]
      <4>1. CASE Stored(x)
        <5>1. i + 1 \in DOMAIN initCode' /\ initCode'[i + 1] = initCode[i]
          BY <2>1, <2>6, <4>1, ConsSeq
        <5> QED
          BY <5>1
      <4> QED
        BY <2>1, <4>1
    <3>2. CASE y = x
      <4>1. image'[x] = IF BeLazy(x) \/ Xref(x).null THEN "null" ELSE "target"
        BY <2>1 DEF BuildInv, BuildTyped
      <4>2. BeLazy(x) => x[1] \notin constants'
        BY <2>1
      <4>3. ASSUME Stored(x) PROVE \E i \in DOMAIN initCode' : initCode'[i] = x
        <5>1. 1 \in DOMAIN initCode' /\ initCode'[1] = x
          BY <2>1, <2>6, <4>3, ConsSeq
        <5> QED
          BY <5>1
      <4> QED
        BY <1>1, <3>2, <4>1, <4>2, <4>3 DEF Placed
    <3>3. CASE y # x
      <4>1. Placed(y)
        BY <1>1, <2>3, <2>8, <3>3 DEF BuildInv
      <4>2. image'[y] = image[y] /\ constants' \subseteq constants
        BY <2>1, <3>3 DEF BuildInv, BuildTyped
      <4> QED
        BY <1>1, <3>1, <4>1, <4>2 DEF Placed
    <3> QED
      BY <3>2, <3>3
  <2> QED
    BY <1>1, <2>2, <2>7, <2>8 DEF BuildInv
<1> QED
  BY <1>2, <1>3

LEMMA FillSegmentStep ==
  ASSUME BuildInv, NEW s \in Segments, FillSegment(s)
  PROVE  BuildInv'
<1> USE CfgSame
<1>1. /\ phase = "fill" /\ phase' = "fill" /\ UNCHANGED <<cfg, image, initCode, constants>>
      /\ s = filled + 1 /\ filled' = s /\ placed' = 0 /\ placed = Len(Seg(s).xrefs)
  BY DEF FillSegment
<1>2. BuildTyped'
  BY <1>1, XrefsAre DEF BuildInv, BuildTyped, Past
<1>3. ASSUME NEW y \in Xrefs PROVE Handled(y)' <=> Handled(y)
  BY <1>1, <1>3, XrefsAre DEF Handled, BuildInv, BuildTyped
<1> QED
  BY <1>1, <1>2, <1>3 DEF BuildInv, StoresOnce, Placed

LEMMA LinkStep ==
  ASSUME BuildInv, Link
  PROVE  BuildInv' /\ phase = "link" /\ phase' = "loaded" /\ UNCHANGED <<cfg, image, initCode>>
<1>1. /\ phase = "link" /\ phase' = "loaded"
      /\ UNCHANGED <<cfg, filled, placed, image, initCode, constants>>
  BY DEF Link
<1> QED
  BY <1>1, BuildFrame DEF BuildInv, BuildTyped, Past

LEMMA BuildStep ==
  ASSUME BuildInv, LiftCodeIntoModule
  PROVE  BuildInv' /\ phase # "loaded" /\ phase' # "loaded" /\ UNCHANGED cfg
<1> USE BuildFrame
<1>1. ASSUME NEW x \in Xrefs, FillXref(x)
      PROVE  BuildInv' /\ phase # "loaded" /\ phase' # "loaded" /\ UNCHANGED cfg
  <2>1. phase = "fill" /\ phase' \in {"fill", "fatal"} /\ UNCHANGED cfg
    BY <1>1 DEF FillXref
  <2> QED
    BY <1>1, <2>1, FillXrefStep
<1>2. ASSUME NEW s \in Segments, FillSegment(s)
      PROVE  BuildInv' /\ phase # "loaded" /\ phase' # "loaded" /\ UNCHANGED cfg
  <2>1. phase = "fill" /\ phase' = "fill" /\ UNCHANGED cfg
    BY <1>2 DEF FillSegment
  <2> QED
    BY <1>2, <2>1, FillSegmentStep
<1>3. ASSUME DefineDataSegments
      PROVE  BuildInv' /\ phase # "loaded" /\ phase' # "loaded" /\ UNCHANGED cfg
  <2>1. /\ phase = "fill" /\ filled = Len(cfg.segments) /\ phase' = "calls"
        /\ UNCHANGED <<cfg, filled, placed, image, initCode, constants>>
    BY <1>3 DEF DefineDataSegments
  <2> QED
    BY <2>1 DEF Past
<1>4. ASSUME CallInitFiniCode
      PROVE  BuildInv' /\ phase # "loaded" /\ phase' # "loaded" /\ UNCHANGED cfg
  <2>1. /\ phase = "calls" /\ phase' = "merge"
        /\ UNCHANGED <<cfg, filled, placed, image, initCode, constants>>
    BY <1>4 DEF CallInitFiniCode
  <2> QED
    BY <2>1 DEF Past, BuildInv, BuildTyped
<1>5. ASSUME MergeSegments
      PROVE  BuildInv' /\ phase # "loaded" /\ phase' # "loaded" /\ UNCHANGED cfg
  <2>1. /\ phase = "merge" /\ phase' \in {"link", "fatal"}
        /\ UNCHANGED <<cfg, filled, placed, image, initCode, constants>>
    BY <1>5 DEF MergeSegments
  <2> QED
    BY <2>1 DEF Past, BuildInv, BuildTyped
<1> QED
  BY <1>1, <1>2, <1>3, <1>4, <1>5 DEF LiftCodeIntoModule

LEMMA BuildSame ==
  ASSUME BuildInv, UNCHANGED build
  PROVE  BuildInv' /\ UNCHANGED <<cfg, phase, image, initCode>>
<1>1. UNCHANGED <<cfg, filled, placed, image, initCode, constants, phase>>
  BY DEF build
<1> QED
  BY <1>1, BuildFrame DEF BuildInv, BuildTyped

(* What threads do leaves the module as it was lifted.                     *)
LEMMA RunKeepsBuild ==
  ASSUME NEW t \in Threads, Run(t)
  PROVE  UNCHANGED build
BY DEF Run, EnterEntryPoint, EnterCallback, Enter, VerifyRegState, TestGuard, InitXref, SetGuard,
       CallLifted, LiftedReturns, CallNative, NativeReturns, Writes

LEMMA BuildAlways == BuildInv /\ [Next]_vars => BuildInv'
<1> SUFFICES ASSUME BuildInv, [Next]_vars PROVE BuildInv'
  OBVIOUS
<1>1. CASE LiftCodeIntoModule
  BY <1>1, BuildStep
<1>2. CASE Load
  BY <1>2, LinkStep DEF Load
<1>3. CASE UNCHANGED build
  BY <1>3, BuildSame
<1> QED
  BY <1>1, <1>2, <1>3, RunKeepsBuild DEF Next, Idle, vars

(* In a loaded module each cross-reference has its target in the           *)
(* initializer or one store of it in the early initializer.                *)
LEMMA LoadedPlaced ==
  ASSUME BuildInv, phase = "loaded", NEW x \in Xrefs
  PROVE  Placed(x) /\ StoresOnce
<1>1. Handled(x)
  BY XrefsAre DEF BuildInv, BuildTyped, Past, Handled
<1> QED
  BY <1>1 DEF BuildInv

(* Every cross-reference of a loaded module gets its target exactly once:  *)
(* in the initializer, or by a store to a variable that can be written.    *)
THEOREM XrefsResolvedHolds == Spec => []XrefsResolved
<1>1. ASSUME BuildInv, phase = "loaded", NEW x \in Xrefs, ~Xref(x).null
      PROVE  LET stores == {i \in DOMAIN initCode : initCode[i] = x} IN
             \/ image[x] = "target" /\ stores = {}
             \/ image[x] = "null" /\ (\E i \in DOMAIN initCode : stores = {i}) /\ x[1] \notin constants
  <2>1. Placed(x) /\ StoresOnce
    BY <1>1, LoadedPlaced
  <2>2. CASE BeLazy(x)
    <3>1. image[x] = "null" /\ x[1] \notin constants
      BY <2>1, <2>2 DEF Placed
    <3>2. PICK i \in DOMAIN initCode : initCode[i] = x
      BY <1>1, <2>1, <2>2 DEF Placed, Stored
    <3>3. {j \in DOMAIN initCode : initCode[j] = x} = {i}
      BY <2>1, <3>2 DEF StoresOnce
    <3> QED
      BY <3>1, <3>3
  <2>3. CASE ~BeLazy(x)
    <3>1. image[x] = "target"
      BY <1>1, <2>1, <2>3 DEF Placed
    <3>2. \A i \in DOMAIN initCode : initCode[i] # x
      BY <2>1, <2>3 DEF StoresOnce, Stored
    <3> QED
      BY <3>1, <3>2
  <2> QED
    BY <2>2, <2>3
<1>2. BuildInv => XrefsResolved
  BY <1>1 DEF XrefsResolved
<1>3. Init => BuildInv
  BY BuildInitially DEF Init
<1> QED
  BY <1>2, <1>3, BuildAlways, PTL DEF Spec
-----------------------------------------------------------------------------
(* The early initializer.                                                  *)

Steps == {"native", "verify", "test", "store", "call", "lifted"}

RunTyped ==
  /\ pc \in [Threads -> Steps] /\ step \in [Threads -> Nat]
  /\ DOMAIN frames = Threads /\ DOMAIN rsp = Threads /\ DOMAIN cells = Cells
  /\ guard \in BOOLEAN /\ raced \in BOOLEAN /\ wrote \subseteq Cells

(* The i-th store was made, unless it is to a thread's own copy.           *)
Done(i) == ~Seg(initCode[i][1]).tls => cells[<<Nobody, initCode[i]>>] # "null"

BeforeLoad ==
  phase # "loaded" =>
    ~guard /\ wrote = {} /\ \A t \in Threads : pc[t] = "native" /\ frames[t] = << >> /\ rsp[t] = 0

(* The guard is set only when all stores were made, and a thread in or     *)
(* below lifted code, or with its State set up, found it set.              *)
Through(t) ==
  \/ pc[t] \in {"call", "lifted"} \/ frames[t] # << >>
  \/ pc[t] \in {"native", "verify"} /\ rsp[t] # 0

AfterLoad ==
  phase = "loaded" =>
    /\ \A t \in Threads, x \in Xrefs : cells[Cell(t, x)] = "null" => image[x] = "null"
    /\ guard => \A i \in DOMAIN initCode : Done(i)
    /\ \A t \in Threads : pc[t] = "store" => \A i \in DOMAIN initCode : i < step[t] => Done(i)
    /\ \A t \in Threads : Through(t) => guard
    /\ wrote # {} => guard

(* While no two threads were in the early initializer, the one that is     *)
(* runs before any lifted code did.                                        *)
NotRaced ==
  ~raced =>
    /\ \A t \in Threads : pc[t] = "store" => ~guard /\ \A u \in Threads : pc[u] = "store" => u = t
    /\ \A c \in wrote : cells[c] = "written"

GuardInv == RunTyped /\ BeforeLoad /\ AfterLoad /\ NotRaced

LEMMA CellFacts ==
  ASSUME NEW t \in Threads, NEW x \in Xrefs
  PROVE  Cell(t, x) \in Cells /\ (~Seg(x[1]).tls => Cell(t, x) = <<Nobody, x>>)
BY DEF Cell, Cells

LEMMA CellsSame ==
  ASSUME UNCHANGED cfg
  PROVE  Cells' = Cells /\ \A t, x : Cell(t, x)' = Cell(t, x)
<1>1. \A t, x : Cell(t, x)' = Cell(t, x)
  BY DEF Cell, Seg
<1> QED
  BY <1>1, CfgSame DEF Cells

LEMMA GuardInit == Init => GuardInv
<1> SUFFICES ASSUME Init PROVE GuardInv
  OBVIOUS
<1>1. /\ phase = "fill" /\ wrote = {} /\ guard = FALSE /\ raced = FALSE
      /\ \A t \in Threads : pc[t] = "native" /\ frames[t] = << >> /\ rsp[t] = 0
  BY DEF Init, BuildInit
<1>2. RunTyped
  BY DEF Init, RunTyped, Steps
<1> QED
  BY <1>1, <1>2 DEF GuardInv, BeforeLoad, AfterLoad, NotRaced

LEMMA LoadedStores ==
  ASSUME BuildInv, phase = "loaded", NEW i \in DOMAIN initCode
  PROVE  initCode[i] \in Xrefs
BY DEF BuildInv, StoresOnce

(* A thread's step between entry and lifted code, with its guard's facts:  *)
(* it touches neither the cells nor the guard.                             *)
LEMMA GuardFrame ==
  ASSUME BuildInv, GuardInv, phase = "loaded", NEW t \in Threads, NEW to \in Steps \ {"store"},
         UNCHANGED <<build, step, cells, guard, wrote, raced>>,
         DOMAIN frames' = Threads, DOMAIN rsp' = Threads,
         pc' = [pc EXCEPT ![t] = to],
         \A u \in Threads \ {t} : frames'[u] = frames[u] /\ rsp'[u] = rsp[u],
         Through(t)' => guard
  PROVE  GuardInv'
<1>1. UNCHANGED <<cfg, phase, image, initCode>>
  BY BuildSame
<1>2. Xrefs' = Xrefs /\ Cells' = Cells /\ (\A u, x : Cell(u, x)' = Cell(u, x)) /\ \A x : Seg(x)' = Seg(x)
  BY <1>1, CfgSame, CellsSame
<1>3. RunTyped'
  BY <1>2 DEF GuardInv, RunTyped
<1>4. BeforeLoad'
  BY <1>1 DEF BeforeLoad
<1>5. \A u \in Threads : pc'[u] = IF u = t THEN to ELSE pc[u]
  BY DEF GuardInv, RunTyped
<1>6. \A i \in DOMAIN initCode : Done(i)' <=> Done(i)
  BY <1>1, <1>2 DEF Done
<1>7. AfterLoad'
  BY <1>1, <1>2, <1>5, <1>6 DEF GuardInv, AfterLoad, Through
<1>8. NotRaced'
  BY <1>5 DEF GuardInv, NotRaced
<1> QED
  BY <1>3, <1>4, <1>7, <1>8 DEF GuardInv

LEMMA GuardTest ==
  ASSUME BuildInv, GuardInv, phase = "loaded", NEW t \in Threads, TestGuard(t)
  PROVE  GuardInv'
<1>1. CASE guard
  <2>1. pc' = [pc EXCEPT ![t] = "call"] /\ UNCHANGED <<build, step, cells, guard, wrote, raced, frames, rsp>>
    BY <1>1 DEF TestGuard, Go
  <2> QED
    BY <1>1, <2>1, GuardFrame DEF Steps, GuardInv, RunTyped
<1>2. CASE ~guard
  <2>1. /\ pc' = [pc EXCEPT ![t] = "store"] /\ step' = [step EXCEPT ![t] = 1]
        /\ raced' = (raced \/ \E u \in Threads : pc[u] = "store")
        /\ UNCHANGED <<build, cells, guard, wrote, frames, rsp>>
    BY <1>2 DEF TestGuard, Go
  <2>2. UNCHANGED <<cfg, phase, image, initCode>>
    BY <2>1, BuildSame
  <2>3. Xrefs' = Xrefs /\ Cells' = Cells /\ (\A u, x : Cell(u, x)' = Cell(u, x)) /\ \A x : Seg(x)' = Seg(x)
    BY <2>2, CfgSame, CellsSame
  <2>4. RunTyped'
    BY <2>1, <2>3 DEF GuardInv, RunTyped, Steps
  <2>5. /\ \A u \in Threads : pc'[u] = IF u = t THEN "store" ELSE pc[u]
        /\ \A u \in Threads : step'[u] = IF u = t THEN 1 ELSE step[u]
    BY <2>1 DEF GuardInv, RunTyped
  <2>6. \A i \in DOMAIN initCode : Done(i)' <=> Done(i)
    BY <2>1, <2>2, <2>3 DEF Done
  <2>7. \A i \in DOMAIN initCode : ~(i < 1)
    <3>1. DOMAIN initCode = 1 .. Len(initCode)
      BY DEF BuildInv, BuildTyped, IsSeq
    <3> QED
      BY <3>1
  <2>8. AfterLoad'
    BY <1>2, <2>1, <2>2, <2>3, <2>5, <2>6, <2>7 DEF GuardInv, AfterLoad, Through
  <2>9. ASSUME ~raced' PROVE /\ ~raced /\ \A u \in Threads : pc[u] # "store"
    BY <2>1, <2>9
  <2>10. NotRaced'
    <3>1. ASSUME ~raced', NEW u \in Threads, pc'[u] = "store"
          PROVE  ~guard' /\ \A v \in Threads : pc'[v] = "store" => v = u
      BY <1>2, <2>1, <2>5, <2>9, <3>1
    <3>2. ASSUME ~raced' PROVE \A c \in wrote' : cells'[c] = "written"
      BY <2>1, <2>9, <3>2 DEF GuardInv, NotRaced
    <3> QED
      BY <3>1, <3>2 DEF NotRaced
  <2> QED
    BY <2>2, <2>4, <2>8, <2>10 DEF GuardInv, BeforeLoad
<1> QED
  BY <1>1, <1>2
(* A store of the early initializer undoes what a cell has only if another *)
(* thread was there too.                                                   *)
LEMMA GuardStore ==
  ASSUME BuildInv, GuardInv, phase = "loaded", NEW t \in Threads, InitXref(t)
  PROVE  GuardInv'
<1> DEFINE x == initCode[step[t]]
           c == Cell(t, x)
<1>1. /\ pc[t] = "store" /\ step[t] \in 1 .. Len(initCode) \cup {0} /\ step[t] <= Len(initCode)
      /\ cells' = [cells EXCEPT ![c] = "target"] /\ step' = [step EXCEPT ![t] = step[t] + 1]
      /\ UNCHANGED <<build, pc, frames, rsp, guard, wrote, raced>>
  <2>1. step[t] \in Nat /\ Len(initCode) \in Nat
    BY DEF GuardInv, RunTyped, BuildInv, BuildTyped, IsSeq
  <2> QED
    BY <2>1 DEF InitXref
<1>2. UNCHANGED <<cfg, phase, image, initCode>>
  BY <1>1, BuildSame
<1>3. Xrefs' = Xrefs /\ Cells' = Cells /\ (\A u, y : Cell(u, y)' = Cell(u, y)) /\ \A y : Seg(y)' = Seg(y)
  BY <1>2, CfgSame, CellsSame
<1>4. RunTyped'
  BY <1>1, <1>3 DEF GuardInv, RunTyped
<1>5. \A d \in Cells : cells'[d] = IF d = c THEN "target" ELSE cells[d]
  BY <1>1 DEF GuardInv, RunTyped
<1>6. DOMAIN initCode = 1 .. Len(initCode) /\ Len(initCode) \in Nat
  BY DEF BuildInv, BuildTyped, IsSeq
<1>7. ASSUME NEW i \in DOMAIN initCode
      PROVE  (Done(i) => Done(i)') /\ (i = step[t] => Done(i)')
  <2>1. initCode[i] \in Xrefs
    BY LoadedStores
  <2>2. ~Seg(initCode[i][1]).tls =>
          Cell(t, initCode[i]) = <<Nobody, initCode[i]>> /\ <<Nobody, initCode[i]>> \in Cells
    BY <2>1, CellFacts
  <2> QED
    BY <1>2, <1>3, <1>5, <2>2 DEF Done
<1>8. AfterLoad'
  <2>1. ASSUME NEW u \in Threads, NEW y \in Xrefs, cells'[Cell(u, y)] = "null" PROVE image[y] = "null"
    BY <1>5, <2>1, CellFacts DEF GuardInv, AfterLoad, Through
  <2>2. ASSUME NEW u \in Threads, pc[u] = "store", NEW i \in DOMAIN initCode, i < step'[u]
        PROVE  Done(i)'
    <3>1. CASE u = t
      <4>1. i < step[t] \/ i = step[t]
        BY <1>1, <1>6, <2>2, <3>1 DEF GuardInv, RunTyped
      <4> QED
        BY <1>1, <1>7, <4>1 DEF GuardInv, AfterLoad, Through
    <3>2. CASE u # t
      <4>1. i < step[u]
        BY <1>1, <2>2, <3>2 DEF GuardInv, RunTyped
      <4> QED
        BY <1>7, <2>2, <4>1 DEF GuardInv, AfterLoad, Through
    <3> QED
      BY <3>1, <3>2
  <2> QED
    BY <1>1, <1>2, <1>3, <1>7, <2>1, <2>2 DEF GuardInv, AfterLoad, Through
<1>9. NotRaced'
  <2>1. ~raced => wrote = {}
    BY <1>1 DEF GuardInv, NotRaced, AfterLoad, Through
  <2> QED
    BY <1>1, <2>1 DEF GuardInv, NotRaced
<1> QED
  BY <1>2, <1>4, <1>8, <1>9 DEF GuardInv, BeforeLoad

LEMMA GuardSet ==
  ASSUME BuildInv, GuardInv, phase = "loaded", NEW t \in Threads, SetGuard(t)
  PROVE  GuardInv'
<1>1. /\ pc[t] = "store" /\ step[t] > Len(initCode) /\ pc' = [pc EXCEPT ![t] = "call"] /\ guard' = TRUE
      /\ UNCHANGED <<build, step, frames, rsp, cells, wrote, raced>>
  BY DEF SetGuard, Go
<1>2. UNCHANGED <<cfg, phase, image, initCode>>
  BY <1>1, BuildSame
<1>3. Xrefs' = Xrefs /\ Cells' = Cells /\ (\A u, y : Cell(u, y)' = Cell(u, y)) /\ \A y : Seg(y)' = Seg(y)
  BY <1>2, CfgSame, CellsSame
<1>4. RunTyped'
  BY <1>1, <1>3 DEF GuardInv, RunTyped, Steps
<1>5. \A u \in Threads : pc'[u] = IF u = t THEN "call" ELSE pc[u]
  BY <1>1 DEF GuardInv, RunTyped
<1>6. \A i \in DOMAIN initCode : Done(i)
  <2>1. DOMAIN initCode = 1 .. Len(initCode) /\ Len(initCode) \in Nat /\ step[t] \in Nat
    BY DEF BuildInv, BuildTyped, IsSeq, GuardInv, RunTyped
  <2>2. \A i \in DOMAIN initCode : i < step[t]
    BY <1>1, <2>1
  <2> QED
    BY <1>1, <2>2 DEF GuardInv, AfterLoad, Through
<1>7. \A i \in DOMAIN initCode : Done(i)'
  BY <1>1, <1>2, <1>3, <1>6 DEF Done
<1>8. AfterLoad'
  BY <1>1, <1>2, <1>3, <1>5, <1>7 DEF GuardInv, AfterLoad, Through
<1>9. NotRaced'
  <2>1. ASSUME ~raced, NEW u \in Threads PROVE pc'[u] # "store"
    BY <1>1, <1>5, <2>1 DEF GuardInv, NotRaced
  <2> QED
    BY <1>1, <2>1 DEF GuardInv, NotRaced
<1> QED
  BY <1>2, <1>4, <1>8, <1>9 DEF GuardInv, BeforeLoad

LEMMA GuardWrite ==
  ASSUME BuildInv, GuardInv, phase = "loaded", NEW t \in Threads, NEW x \in Xrefs, Writes(t, x)
  PROVE  GuardInv'
<1>1. /\ pc[t] = "lifted" /\ cells' = [cells EXCEPT ![Cell(t, x)] = "written"]
      /\ wrote' = wrote \cup {Cell(t, x)} /\ UNCHANGED <<build, pc, step, frames, rsp, guard, raced>>
  BY DEF Writes
<1>2. UNCHANGED <<cfg, phase, image, initCode>>
  BY <1>1, BuildSame
<1>3. Xrefs' = Xrefs /\ Cells' = Cells /\ (\A u, y : Cell(u, y)' = Cell(u, y)) /\ \A y : Seg(y)' = Seg(y)
  BY <1>2, CfgSame, CellsSame
<1>4. Cell(t, x) \in Cells
  BY CellFacts
<1>5. RunTyped'
  BY <1>1, <1>3, <1>4 DEF GuardInv, RunTyped
<1>6. \A d \in Cells : cells'[d] = IF d = Cell(t, x) THEN "written" ELSE cells[d]
  BY <1>1 DEF GuardInv, RunTyped
<1>7. ASSUME NEW i \in DOMAIN initCode, Done(i) PROVE Done(i)'
  <2>1. initCode[i] \in Xrefs
    BY LoadedStores
  <2>2. ~Seg(initCode[i][1]).tls => <<Nobody, initCode[i]>> \in Cells
    BY <2>1, CellFacts
  <2> QED
    BY <1>2, <1>3, <1>6, <1>7, <2>2 DEF Done
<1>8. AfterLoad'
  <2>1. ASSUME NEW u \in Threads, NEW y \in Xrefs, cells'[Cell(u, y)] = "null" PROVE image[y] = "null"
    BY <1>6, <2>1, CellFacts DEF GuardInv, AfterLoad, Through
  <2> QED
    BY <1>1, <1>2, <1>3, <1>7, <2>1 DEF GuardInv, AfterLoad, Through
<1>9. NotRaced'
  <2>1. ASSUME ~raced, NEW d \in wrote' PROVE cells'[d] = "written"
    BY <1>1, <1>4, <1>6, <2>1 DEF GuardInv, NotRaced, RunTyped
  <2>2. ~raced => \A u \in Threads : pc[u] # "store"
    BY <1>1 DEF GuardInv, NotRaced, AfterLoad, Through
  <2> QED
    BY <1>1, <2>1, <2>2 DEF GuardInv, NotRaced
<1> QED
  BY <1>2, <1>5, <1>8, <1>9 DEF GuardInv, BeforeLoad

LEMMA GuardLoad ==
  ASSUME BuildInv, GuardInv, Load
  PROVE  GuardInv'
<1>1. /\ phase = "link" /\ phase' = "loaded" /\ UNCHANGED <<cfg, image, initCode>>
      /\ cells' = [c \in Cells |-> image[c[2]]]
      /\ UNCHANGED <<pc, step, frames, rsp, guard, wrote, raced>>
  BY LinkStep DEF Load
<1>2. Xrefs' = Xrefs /\ Cells' = Cells /\ (\A u, y : Cell(u, y)' = Cell(u, y)) /\ \A y : Seg(y)' = Seg(y)
  BY <1>1, CfgSame, CellsSame
<1>3. RunTyped'
  BY <1>1, <1>2 DEF GuardInv, RunTyped
<1>4. ASSUME NEW t \in Threads, NEW x \in Xrefs PROVE cells'[Cell(t, x)] = image[x]
  <2>1. Cell(t, x) \in Cells /\ Cell(t, x)[2] = x
    BY CellFacts DEF Cell
  <2> QED
    BY <1>1, <2>1
<1>5. ~guard /\ wrote = {} /\ \A t \in Threads : pc[t] = "native" /\ frames[t] = << >> /\ rsp[t] = 0
  BY <1>1 DEF GuardInv, BeforeLoad
<1>6. AfterLoad' /\ NotRaced' /\ BeforeLoad'
  BY <1>1, <1>2, <1>4, <1>5 DEF AfterLoad, NotRaced, BeforeLoad, Through
<1> QED
  BY <1>3, <1>6 DEF GuardInv

(* No thread runs before the module is loaded.                             *)
LEMMA RunsLoaded ==
  ASSUME GuardInv, NEW t \in Threads, Run(t)
  PROVE  phase = "loaded"
<1>1. pc[t] # "native" \/ frames[t] # << >> \/ phase = "loaded"
  BY DEF Run, EnterEntryPoint, EnterCallback, Enter, VerifyRegState, TestGuard, InitXref, SetGuard,
         CallLifted, LiftedReturns, CallNative, NativeReturns, Writes, Go
<1> QED
  BY <1>1 DEF GuardInv, BeforeLoad

LEMMA GuardRun ==
  ASSUME BuildInv, GuardInv, NEW t \in Threads, Run(t)
  PROVE  GuardInv'
<1>1. phase = "loaded"
  BY RunsLoaded
<1>2. DOMAIN frames = Threads /\ DOMAIN rsp = Threads /\ (Through(t) => guard)
  BY <1>1 DEF GuardInv, AfterLoad, RunTyped
<1>3. ASSUME NEW to \in {"verify", "test"}, Enter(t, to) PROVE GuardInv'
  <2>1. /\ pc[t] = "native" /\ pc' = [pc EXCEPT ![t] = to] /\ pc'[t] = to
        /\ UNCHANGED <<build, step, cells, guard, wrote, raced, frames, rsp>>
    BY <1>3 DEF Enter, Go, GuardInv, RunTyped
  <2> QED
    BY <1>1, <1>2, <2>1, GuardFrame DEF Steps, Through
<1>4. CASE VerifyRegState(t)
  <2>1. PICK to \in {"test", "call"} :
          pc[t] = "verify" /\ pc' = [pc EXCEPT ![t] = to] /\ (to = "call" => rsp[t] # 0)
    BY <1>4 DEF VerifyRegState, Go
  <2>2. /\ UNCHANGED <<build, step, cells, guard, wrote, raced, frames>> /\ pc'[t] = to
        /\ DOMAIN rsp' = Threads /\ \A u \in Threads \ {t} : rsp'[u] = rsp[u]
    BY <1>2, <1>4, <2>1 DEF VerifyRegState, GuardInv, RunTyped
  <2>3. Through(t)' => guard
    BY <1>2, <2>1, <2>2 DEF Through
  <2> QED
    BY <1>1, <1>2, <2>1, <2>2, <2>3, GuardFrame DEF Steps
<1>5. ASSUME pc[t] = "call" \/ pc[t] = "lifted" \/ frames[t] # << >>,
             NEW to \in {"native", "lifted"}, pc' = [pc EXCEPT ![t] = to],
             UNCHANGED <<build, step, cells, guard, wrote, raced>>,
             DOMAIN frames' = Threads, DOMAIN rsp' = Threads,
             \A u \in Threads \ {t} : frames'[u] = frames[u] /\ rsp'[u] = rsp[u]
      PROVE  GuardInv'
  <2>1. guard
    BY <1>2, <1>5 DEF Through
  <2> QED
    BY <1>1, <1>5, <2>1, GuardFrame DEF Steps
<1>6. CASE CallLifted(t)
  BY <1>2, <1>5, <1>6 DEF CallLifted, Go
<1>7. CASE LiftedReturns(t)
  BY <1>2, <1>5, <1>7 DEF LiftedReturns, Go
<1>8. CASE CallNative(t)
  BY <1>2, <1>5, <1>8 DEF CallNative, Go
<1>9. CASE NativeReturns(t)
  BY <1>2, <1>5, <1>9 DEF NativeReturns, Go
<1>10. CASE EnterEntryPoint(t) \/ EnterCallback(t)
  BY <1>3, <1>10 DEF EnterEntryPoint, EnterCallback
<1> QED
  BY <1>1, <1>4, <1>6, <1>7, <1>8, <1>9, <1>10, GuardTest, GuardStore, GuardSet, GuardWrite DEF Run

LEMMA GuardAlways == BuildInv /\ GuardInv /\ [Next]_vars => GuardInv'
<1> SUFFICES ASSUME BuildInv, GuardInv, [Next]_vars PROVE GuardInv'
  OBVIOUS
<1>1. CASE LiftCodeIntoModule /\ UNCHANGED run
  <2>1. phase # "loaded" /\ phase' # "loaded" /\ UNCHANGED cfg
    BY <1>1, BuildStep
  <2>2. Cells' = Cells /\ UNCHANGED <<pc, step, frames, rsp, cells, guard, wrote, raced>>
    BY <1>1, <2>1, CellsSame DEF run
  <2> QED
    BY <2>1, <2>2 DEF GuardInv, RunTyped, BeforeLoad, AfterLoad, NotRaced
<1>2. CASE UNCHANGED vars
  <2>1. UNCHANGED <<cfg, phase, image, initCode>>
    BY <1>2, BuildSame DEF vars
  <2>2. Xrefs' = Xrefs /\ Cells' = Cells /\ (\A u, y : Cell(u, y)' = Cell(u, y)) /\ \A y : Seg(y)' = Seg(y)
    BY <2>1, CfgSame, CellsSame
  <2>3. UNCHANGED <<pc, step, frames, rsp, cells, guard, wrote, raced>>
    BY <1>2 DEF vars, run
  <2>4. (\A i \in DOMAIN initCode : Done(i)' <=> Done(i)) /\ \A t : Through(t)' <=> Through(t)
    BY <2>1, <2>2, <2>3 DEF Done, Through
  <2>5. RunTyped' /\ BeforeLoad' /\ NotRaced'
    BY <2>1, <2>2, <2>3 DEF GuardInv, RunTyped, BeforeLoad, NotRaced
  <2>6. AfterLoad'
    BY <2>1, <2>2, <2>3, <2>4 DEF GuardInv, AfterLoad
  <2> QED
    BY <2>5, <2>6 DEF GuardInv
<1> QED
  BY <1>1, <1>2, GuardLoad, GuardRun DEF Next, Idle

(* No lifted code sees a null where a cross-reference's target belongs, in *)
(* any segment that is not thread-local.                                   *)
THEOREM CodeSeesTargetsHolds == Spec => []CodeSeesTargets
<1>1. ASSUME BuildInv, GuardInv, NEW t \in Threads, pc[t] = "lifted", NEW x \in Xrefs,
             ~Seg(x[1]).tls, ~Xref(x).null
      PROVE  cells[Cell(t, x)] # "null"
  <2>1. phase = "loaded"
    BY <1>1 DEF GuardInv, BeforeLoad
  <2>2. \A i \in DOMAIN initCode : Done(i)
    BY <1>1, <2>1 DEF GuardInv, AfterLoad, Through
  <2>3. Placed(x)
    BY <1>1, <2>1, LoadedPlaced
  <2>4. CASE BeLazy(x)
    <3>1. PICK i \in DOMAIN initCode : initCode[i] = x
      BY <1>1, <2>3, <2>4 DEF Placed, Stored
    <3>2. cells[<<Nobody, x>>] # "null"
      BY <1>1, <2>2, <3>1 DEF Done
    <3> QED
      BY <1>1, <3>2, CellFacts
  <2>5. CASE ~BeLazy(x)
    <3>1. image[x] # "null"
      BY <1>1, <2>3, <2>5 DEF Placed
    <3> QED
      BY <1>1, <2>1, <3>1 DEF GuardInv, AfterLoad
  <2> QED
    BY <2>4, <2>5
<1>2. BuildInv /\ GuardInv => CodeSeesTargets
  BY <1>1 DEF CodeSeesTargets
<1>3. Init => BuildInv /\ GuardInv
  BY BuildInitially, GuardInit DEF Init
<1> QED
  BY <1>2, <1>3, BuildAlways, GuardAlways, PTL DEF Spec

(* While no two threads met in the early initializer, what lifted code     *)
(* wrote over a cross-reference stays.                                     *)
THEOREM WritesSurviveHolds == Spec => []WritesSurvive
<1>1. GuardInv => WritesSurvive
  BY DEF GuardInv, NotRaced, WritesSurvive
<1>2. Init => BuildInv /\ GuardInv
  BY BuildInitially, GuardInit DEF Init
<1> QED
  BY <1>1, <1>2, BuildAlways, GuardAlways, PTL DEF Spec
-----------------------------------------------------------------------------
(* The stacks of explicit arguments.                                       *)

Frame == [top : Int, rsp : Int, onExit : Int, returned : Nat]

(* Lifted functions from the outermost on: each but the last is to find    *)
(* the pointer where it left it, and the next one starts below its words.  *)
Chain(F) ==
  /\ F \in Seq(Frame)
  /\ \A i \in 1 .. Len(F) : F[i].rsp = F[i].top - 1 /\ F[i].rsp >= StackTop - 2 * i
  /\ \A i \in 1 .. Len(F) - 1 :
       F[i].onExit = F[i].rsp /\ F[i + 1].top = F[i].rsp - 1 + F[i].returned
  /\ F # << >> => F[1].top >= StackTop

(* What holds of a thread that is where, with these functions on its stack,*)
(* this stack pointer and so many entries. It never has its stack set up   *)
(* again below a function: the pointer cannot be 0 there.                  *)
StackOK(where, F, sp, count) ==
  /\ Chain(F) /\ sp \in Int /\ count \in 0 .. MaxEntries
  /\ Len(F) + (IF where \in {"native", "lifted"} THEN 0 ELSE 1) <= count
  /\ F = << >> =>
       /\ where # "lifted"
       /\ sp >= StackTop \/ (sp = 0 /\ where \in {"native", "verify"})
  /\ F # << >> /\ where = "lifted" => sp = F[Len(F)].rsp
  /\ F # << >> /\ where # "lifted" =>
       sp = F[Len(F)].rsp - 1 + F[Len(F)].returned /\ F[Len(F)].onExit = F[Len(F)].rsp

LEMMA PrefixSeq ==
  ASSUME NEW S, NEW s \in Seq(S), NEW n \in 0 .. Len(s)
  PROVE  /\ SubSeq(s, 1, n) \in Seq(S) /\ Len(SubSeq(s, 1, n)) = n
         /\ \A i \in 1 .. n : SubSeq(s, 1, n)[i] = s[i]
<1>1. SubSeq(s, 1, n) \in Seq(S)
  OBVIOUS
<1> QED
  BY <1>1

LEMMA FrontSeq ==
  ASSUME NEW S, NEW s \in Seq(S), s # << >>
  PROVE  /\ Len(s) \in Nat \ {0} /\ Last(s) = s[Len(s)] /\ s[Len(s)] \in S
         /\ Front(s) \in Seq(S) /\ Len(Front(s)) = Len(s) - 1
         /\ \A i \in 1 .. Len(s) - 1 : Front(s)[i] = s[i]
<1>1. Len(s) \in Nat \ {0} /\ s[Len(s)] \in S
  OBVIOUS
<1>2. Len(s) - 1 \in 0 .. Len(s)
  BY <1>1
<1> QED
  BY <1>1, <1>2, PrefixSeq DEF Front, Last

LEMMA PushSeq ==
  ASSUME NEW S, NEW s \in Seq(S), NEW e \in S
  PROVE  /\ Append(s, e) \in Seq(S) /\ Len(Append(s, e)) = Len(s) + 1 /\ Len(s) \in Nat
         /\ Append(s, e) # << >> /\ Append(s, e)[Len(s) + 1] = e
         /\ \A i \in 1 .. Len(s) : Append(s, e)[i] = s[i]
OBVIOUS

(* What one more function on the stack must satisfy.                       *)
OnTop(F, f) ==
  /\ f \in Frame /\ f.rsp = f.top - 1 /\ f.rsp >= StackTop - 2 * (Len(F) + 1)
  /\ IF F = << >> THEN f.top >= StackTop
     ELSE /\ F[Len(F)].onExit = F[Len(F)].rsp
          /\ f.top = F[Len(F)].rsp - 1 + F[Len(F)].returned

LEMMA ChainPush ==
  ASSUME NEW F, NEW f, Chain(F), OnTop(F, f)
  PROVE  Chain(Append(F, f))
<1> DEFINE G == Append(F, f)
<1>1. /\ G \in Seq(Frame) /\ Len(G) = Len(F) + 1 /\ Len(F) \in Nat /\ G # << >> /\ G[Len(F) + 1] = f
      /\ \A i \in 1 .. Len(F) : G[i] = F[i]
  BY PushSeq DEF Chain, OnTop
<1> HIDE DEF G
<1>2. ASSUME NEW i \in 1 .. Len(G) PROVE G[i].rsp = G[i].top - 1 /\ G[i].rsp >= StackTop - 2 * i
  <2>1. CASE i = Len(F) + 1
    BY <1>1, <2>1 DEF OnTop
  <2>2. CASE i # Len(F) + 1
    <3>1. i \in 1 .. Len(F)
      BY <1>1, <2>2
    <3> QED
      BY <1>1, <3>1 DEF Chain
  <2> QED
    BY <2>1, <2>2
<1>3. ASSUME NEW i \in 1 .. Len(G) - 1
      PROVE  G[i].onExit = G[i].rsp /\ G[i + 1].top = G[i].rsp - 1 + G[i].returned
  <2>1. CASE i = Len(F)
    <3>1. G[i] = F[Len(F)] /\ G[i + 1] = f /\ F # << >>
      BY <1>1, <2>1
    <3> QED
      BY <3>1 DEF OnTop
  <2>2. CASE i # Len(F)
    <3>1. i \in 1 .. Len(F) - 1 /\ G[i] = F[i] /\ G[i + 1] = F[i + 1]
      BY <1>1, <2>2
    <3> QED
      BY <3>1 DEF Chain
  <2> QED
    BY <2>1, <2>2
<1>4. G[1].top >= StackTop
  <2>1. CASE F = << >>
    BY <1>1, <2>1 DEF OnTop
  <2>2. CASE F # << >>
    <3>1. G[1] = F[1]
      BY <1>1, <2>2 DEF Chain
    <3> QED
      BY <2>2, <3>1 DEF Chain
  <2> QED
    BY <2>1, <2>2
<1>5. Chain(G)
  BY <1>1, <1>2, <1>3, <1>4 DEF Chain
<1> QED
  BY <1>5 DEF G

LEMMA ChainFront ==
  ASSUME NEW F, Chain(F), F # << >>
  PROVE  Chain(Front(F)) /\ OnTop(Front(F), Last(F))
<1> DEFINE B == Front(F)
<1>1. /\ Len(F) \in Nat \ {0} /\ Last(F) = F[Len(F)] /\ F[Len(F)] \in Frame
      /\ B \in Seq(Frame) /\ Len(B) = Len(F) - 1 /\ \A i \in 1 .. Len(F) - 1 : B[i] = F[i]
  BY FrontSeq DEF Chain
<1> HIDE DEF B
<1>2. \A i \in 1 .. Len(B) : i \in 1 .. Len(F) /\ B[i] = F[i]
  BY <1>1
<1>3. \A i \in 1 .. Len(B) - 1 : i \in 1 .. Len(F) - 1 /\ B[i] = F[i] /\ B[i + 1] = F[i + 1]
  BY <1>1
<1>4. B = << >> => Len(F) = 1
  BY <1>1
<1>5. B # << >> => /\ 1 \in 1 .. Len(B) /\ B[Len(B)] = F[Len(B)] /\ Len(B) \in 1 .. Len(F) - 1
                   /\ F[Len(B) + 1] = F[Len(F)]
  BY <1>1
<1>6. Chain(B)
  BY <1>1, <1>2, <1>3, <1>5 DEF Chain
<1>7. OnTop(B, Last(F))
  <2>1. Len(F) = Len(B) + 1 /\ Len(F) \in 1 .. Len(F)
    BY <1>1
  <2> QED
    BY <1>1, <1>4, <1>5, <2>1 DEF OnTop, Chain
<1> QED
  BY <1>6, <1>7 DEF B

LEMMA StackEnter ==
  ASSUME NEW F, NEW sp, NEW count, StackOK("native", F, sp, count), count < MaxEntries
  PROVE  StackOK("verify", F, sp, count + 1)
<1>1. Len(F) \in Nat
  BY DEF StackOK, Chain
<1> QED
  BY <1>1, EntryAssumption DEF StackOK

(* The last function of a stack, as far as arithmetic needs it.            *)
LEMMA LastOf ==
  ASSUME NEW F, Chain(F), F # << >>
  PROVE  /\ Len(F) \in Nat \ {0} /\ Last(F) = F[Len(F)]
         /\ F[Len(F)] \in Frame /\ F[Len(F)].top \in Int /\ F[Len(F)].rsp \in Int
         /\ F[Len(F)].returned \in Nat /\ F[Len(F)].onExit \in Int
         /\ F[Len(F)].rsp = F[Len(F)].top - 1 /\ F[Len(F)].rsp >= StackTop - 2 * Len(F)
<1>1. Len(F) \in Nat \ {0} /\ Last(F) = F[Len(F)] /\ F[Len(F)] \in Frame
  BY FrontSeq DEF Chain
<1>2. Len(F) \in 1 .. Len(F)
  BY <1>1
<1> QED
  BY <1>1, <1>2 DEF Chain, Frame

LEMMA StackVerify ==
  ASSUME NEW F, NEW sp, NEW count, StackOK("verify", F, sp, count)
  PROVE  IF sp = 0 THEN StackOK("test", F, StackTop, count) ELSE StackOK("call", F, sp, count)
<1>1. CASE F = << >>
  BY <1>1, EntryAssumption DEF StackOK
<1>2. CASE F # << >>
  <2>1. Len(F) + 1 <= count /\ count <= MaxEntries /\ count \in Nat /\ Chain(F)
    BY EntryAssumption DEF StackOK
  <2>2. sp = F[Len(F)].rsp - 1 + F[Len(F)].returned
    BY <1>2 DEF StackOK
  <2>3. sp # 0
    <3>1. Len(F) \in Nat /\ 2 * Len(F) <= 2 * MaxEntries - 2
      BY <1>2, <2>1, LastOf, EntryAssumption
    <3>2. F[Len(F)].rsp \in Int /\ F[Len(F)].returned \in Nat /\ F[Len(F)].rsp >= StackTop - 2 * Len(F)
      BY <1>2, <2>1, LastOf
    <3> QED
      BY <2>2, <3>1, <3>2, EntryAssumption
  <2> QED
    BY <1>2, <2>3 DEF StackOK
<1> QED
  BY <1>1, <1>2

LEMMA StackInitializer ==
  ASSUME NEW F, NEW sp, NEW count, NEW from \in {"test", "store", "call"},
         NEW to \in {"test", "store", "call"}, StackOK(from, F, sp, count)
  PROVE  StackOK(to, F, sp, count)
BY DEF StackOK

LEMMA StackCall ==
  ASSUME NEW F, NEW sp, NEW count, StackOK("call", F, sp, count)
  PROVE  StackOK("lifted", Append(F, [top |-> sp, rsp |-> sp - 1, onExit |-> 0, returned |-> 0]),
                 sp - 1, count)
<1> DEFINE f == [top |-> sp, rsp |-> sp - 1, onExit |-> 0, returned |-> 0]
<1>1. f \in Frame /\ f.top = sp /\ f.rsp = sp - 1 /\ sp \in Int
  BY DEF StackOK, Frame
<1>2. /\ Append(F, f) \in Seq(Frame) /\ Len(Append(F, f)) = Len(F) + 1 /\ Len(F) \in Nat
      /\ Append(F, f) # << >> /\ Append(F, f)[Len(F) + 1] = f
  BY <1>1, PushSeq DEF StackOK, Chain
<1> HIDE DEF f
<1>3. CASE F = << >>
  <2>1. sp >= StackTop /\ Len(F) = 0
    BY <1>3 DEF StackOK
  <2>2. OnTop(F, f)
    BY <1>1, <1>3, <2>1, EntryAssumption DEF OnTop
  <2> QED
    BY <1>1, <1>2, <2>2, ChainPush DEF StackOK, f
<1>4. CASE F # << >>
  <2>1. sp = F[Len(F)].rsp - 1 + F[Len(F)].returned /\ F[Len(F)].onExit = F[Len(F)].rsp /\ Chain(F)
    BY <1>4 DEF StackOK
  <2>2. F[Len(F)].rsp \in Int /\ F[Len(F)].returned \in Nat /\ F[Len(F)].rsp >= StackTop - 2 * Len(F)
    BY <1>4, <2>1, LastOf
  <2>3. f.rsp >= StackTop - 2 * (Len(F) + 1)
    BY <1>1, <1>2, <2>1, <2>2, EntryAssumption
  <2>4. OnTop(F, f)
    BY <1>1, <1>4, <2>1, <2>3 DEF OnTop
  <2> QED
    BY <1>1, <1>2, <2>4, ChainPush DEF StackOK, f
<1> QED
  BY <1>3, <1>4

(* A function that returns leaves the stack pointer where the frame below  *)
(* it, or native code, expects it.                                         *)
LEMMA StackReturns ==
  ASSUME NEW F, NEW sp, NEW count, StackOK("lifted", F, sp, count)
  PROVE  StackOK("native", Counted(Front(F)), Last(F).top + 1, count)
<1> DEFINE B == Front(F)
<1>1. /\ F # << >> /\ Chain(F) /\ Len(F) <= count /\ count \in 0 .. MaxEntries
  BY DEF StackOK
<1>2. /\ Len(F) \in Nat \ {0} /\ Last(F).top \in Int /\ Chain(B) /\ OnTop(B, Last(F))
      /\ Len(B) = Len(F) - 1
  BY <1>1, LastOf, ChainFront, FrontSeq DEF Chain
<1> HIDE DEF B
<1>3. CASE B = << >>
  <2>1. Counted(B) = B /\ Last(F).top >= StackTop /\ Len(B) = 0
    BY <1>2, <1>3 DEF Counted, OnTop
  <2>2. Last(F).top + 1 >= StackTop /\ Last(F).top + 1 \in Int
    BY <1>2, <2>1, EntryAssumption
  <2>3. StackOK("native", B, Last(F).top + 1, count)
    BY <1>1, <1>2, <1>3, <2>1, <2>2 DEF StackOK
  <2> QED
    BY <2>1, <2>3 DEF B
<1>4. CASE B # << >>
  <2> DEFINE g == [Last(B) EXCEPT !.returned = @ + 1]
             D == Front(B)
  <2>1. /\ Chain(D) /\ OnTop(D, Last(B)) /\ Len(D) = Len(B) - 1 /\ Last(B) = B[Len(B)] /\ Last(B) \in Frame
        /\ Len(B) \in Nat
    <3>1. Chain(D) /\ OnTop(D, Last(B))
      BY <1>2, <1>4, ChainFront
    <3>2. Len(B) \in Nat /\ Last(B) = B[Len(B)] /\ B[Len(B)] \in Frame
      BY <1>2, <1>4, LastOf
    <3>3. B \in Seq(Frame)
      BY <1>2 DEF Chain
    <3>4. Len(D) = Len(B) - 1
      BY <1>4, <3>3, FrontSeq
    <3> QED
      BY <3>1, <3>2, <3>4
  <2>2. /\ g \in Frame /\ g.top = Last(B).top /\ g.rsp = Last(B).rsp /\ g.onExit = Last(B).onExit
        /\ g.returned = Last(B).returned + 1
    BY <2>1 DEF Frame
  <2>3. Counted(B) = Append(D, g)
    BY <1>4 DEF Counted
  <2> HIDE DEF g, D
  <2>4. OnTop(D, g)
    BY <2>1, <2>2 DEF OnTop
  <2>5. /\ Len(Append(D, g)) = Len(B) /\ Append(D, g)[Len(B)] = g /\ Append(D, g) # << >>
    <3>1. Len(D) + 1 = Len(B)
      BY <2>1
    <3> QED
      BY <2>1, <2>2, <3>1, PushSeq DEF Chain
  <2>6. /\ Last(F).top = Last(B).rsp - 1 + Last(B).returned /\ Last(B).onExit = Last(B).rsp
    BY <1>2, <1>4, <2>1 DEF OnTop
  <2>7. Last(F).top + 1 = g.rsp - 1 + g.returned /\ Last(F).top + 1 \in Int
    BY <1>2, <2>1, <2>2, <2>6 DEF Frame
  <2>8. Chain(Append(D, g))
    BY <2>1, <2>4, ChainPush
  <2>9. Len(B) <= count
    BY <1>1, <1>2
  <2>10. StackOK("native", Append(D, g), Last(F).top + 1, count)
    BY <1>1, <2>2, <2>5, <2>6, <2>7, <2>8, <2>9 DEF StackOK
  <2> QED
    BY <2>3, <2>10 DEF B
<1> QED
  BY <1>3, <1>4

(* A call of native code notes where the pointer is to be after it.        *)
LEMMA StackCallsNative ==
  ASSUME NEW F, NEW sp, NEW count, StackOK("lifted", F, sp, count)
  PROVE  StackOK("native", Append(Front(F), [Last(F) EXCEPT !.onExit = sp - 1 + 1, !.returned = 0]),
                 sp - 1, count)
<1> DEFINE B == Front(F)
           g == [Last(F) EXCEPT !.onExit = sp - 1 + 1, !.returned = 0]
<1>1. /\ F # << >> /\ Chain(F) /\ Len(F) <= count /\ count \in 0 .. MaxEntries /\ sp \in Int
      /\ sp = F[Len(F)].rsp
  BY DEF StackOK
<1>2. /\ Len(F) \in Nat \ {0} /\ Last(F) \in Frame /\ Last(F) = F[Len(F)] /\ Chain(B) /\ OnTop(B, Last(F))
      /\ Len(B) = Len(F) - 1
  BY <1>1, LastOf, ChainFront, FrontSeq DEF Chain
<1>3. /\ g \in Frame /\ g.top = Last(F).top /\ g.rsp = Last(F).rsp /\ g.returned = 0
      /\ g.onExit = sp - 1 + 1
  <2>1. ASSUME NEW f \in Frame, NEW e \in Int
        PROVE  LET h == [f EXCEPT !.onExit = e, !.returned = 0] IN
               h \in Frame /\ h.top = f.top /\ h.rsp = f.rsp /\ h.returned = 0 /\ h.onExit = e
    BY DEF Frame
  <2>2. sp - 1 + 1 \in Int
    BY <1>1
  <2> QED
    BY <1>2, <2>1, <2>2
<1> HIDE DEF B, g
<1>4. g.onExit = g.rsp /\ sp - 1 = g.rsp - 1 + g.returned /\ sp - 1 \in Int
  BY <1>1, <1>2, <1>3
<1>5. OnTop(B, g)
  BY <1>2, <1>3 DEF OnTop
<1>6. /\ Len(Append(B, g)) = Len(F) /\ Append(B, g)[Len(F)] = g /\ Append(B, g) # << >>
  <2>1. Len(B) + 1 = Len(F)
    BY <1>2
  <2> QED
    BY <1>2, <1>3, <2>1, PushSeq DEF Chain
<1>7. Chain(Append(B, g))
  BY <1>2, <1>5, ChainPush
<1>8. StackOK("native", Append(B, g), sp - 1, count)
  BY <1>1, <1>4, <1>6, <1>7 DEF StackOK
<1> QED
  BY <1>8 DEF B, g

LEMMA StackNativeReturns ==
  ASSUME NEW F, NEW sp, NEW count, StackOK("native", F, sp, count), F # << >>
  PROVE  StackOK("lifted", F, Last(F).onExit, count)
<1>1. Chain(F) /\ F[Len(F)].onExit = F[Len(F)].rsp
  BY DEF StackOK
<1>2. Last(F) = F[Len(F)] /\ F[Len(F)].rsp \in Int
  BY <1>1, LastOf
<1> QED
  BY <1>1, <1>2 DEF StackOK

StackInv ==
  cfg.explicit =>
    /\ DOMAIN entries = Threads
    /\ \A t \in Threads : StackOK(pc[t], frames[t], rsp[t], entries[t])

LEMMA StackInitially == Init => StackInv
<1>1. ASSUME Init, NEW t \in Threads PROVE StackOK(pc[t], frames[t], rsp[t], entries[t])
  <2>1. pc[t] = "native" /\ frames[t] = << >> /\ rsp[t] = 0 /\ entries[t] = 0
    BY <1>1 DEF Init
  <2>2. frames[t] \in Seq(Frame) /\ Len(frames[t]) = 0
    BY <2>1
  <2> QED
    BY <2>1, <2>2, EntryAssumption DEF StackOK, Chain
<1>2. Init => DOMAIN entries = Threads
  BY DEF Init
<1> QED
  BY <1>1, <1>2 DEF StackInv

(* A step of one thread leaves the stacks of the others as they are.       *)
LEMMA StackOthers ==
  ASSUME StackInv, GuardInv, cfg.explicit, UNCHANGED cfg, NEW t \in Threads,
         DOMAIN entries' = Threads,
         \A u \in Threads \ {t} : /\ pc'[u] = pc[u] /\ frames'[u] = frames[u]
                                  /\ rsp'[u] = rsp[u] /\ entries'[u] = entries[u],
         StackOK(pc'[t], frames'[t], rsp'[t], entries'[t])
  PROVE  StackInv'
<1>1. ASSUME NEW u \in Threads PROVE StackOK(pc'[u], frames'[u], rsp'[u], entries'[u])
  <2>1. CASE u = t
    BY <2>1
  <2>2. CASE u # t
    <3>1. /\ pc'[u] = pc[u] /\ frames'[u] = frames[u] /\ rsp'[u] = rsp[u] /\ entries'[u] = entries[u]
      BY <2>2
    <3>2. StackOK(pc[u], frames[u], rsp[u], entries[u])
      BY DEF StackInv
    <3> QED
      BY <3>1, <3>2
  <2> QED
    BY <2>1, <2>2
<1> QED
  BY <1>1 DEF StackInv

LEMMA StackRun ==
  ASSUME BuildInv, GuardInv, StackInv, cfg.explicit, NEW t \in Threads, Run(t)
  PROVE  StackInv'
<1> DEFINE F == frames[t]
           Here(where) == StackOK(where, F, rsp[t], entries[t])
<1>1. /\ Here(pc[t]) /\ DOMAIN entries = Threads /\ DOMAIN pc = Threads
      /\ DOMAIN frames = Threads /\ DOMAIN rsp = Threads
  BY DEF StackInv, GuardInv, RunTyped
<1>2. UNCHANGED <<cfg, build>>
  BY RunKeepsBuild, BuildSame
<1> USE StackOthers
<1>3. CASE EnterEntryPoint(t)
  <2>1. /\ pc[t] = "native" /\ pc' = [pc EXCEPT ![t] = "verify"] /\ UNCHANGED <<rsp, frames>>
        /\ entries[t] < MaxEntries /\ entries' = [entries EXCEPT ![t] = entries[t] + 1]
    BY <1>3 DEF EnterEntryPoint, Enter, Go
  <2>2. StackOK("verify", F, rsp[t], entries[t] + 1)
    BY <1>1, <2>1, StackEnter
  <2> QED
    BY <1>1, <1>2, <2>1, <2>2
<1>4. CASE VerifyRegState(t)
  <2>1. pc[t] = "verify" /\ UNCHANGED <<frames, entries>>
    BY <1>4 DEF VerifyRegState, Go
  <2>2. CASE rsp[t] = 0
    <3>1. pc' = [pc EXCEPT ![t] = "test"] /\ rsp' = [rsp EXCEPT ![t] = StackTop]
      BY <1>4, <2>2 DEF VerifyRegState, Go
    <3>2. StackOK("test", F, StackTop, entries[t])
      BY <1>1, <2>1, <2>2, StackVerify
    <3> QED
      BY <1>1, <1>2, <2>1, <3>1, <3>2
  <2>3. CASE rsp[t] # 0
    <3>1. pc' = [pc EXCEPT ![t] = "call"] /\ UNCHANGED rsp
      BY <1>4, <2>3 DEF VerifyRegState, Go
    <3>2. Here("call")
      BY <1>1, <2>1, <2>3, StackVerify
    <3> QED
      BY <1>1, <1>2, <2>1, <3>1, <3>2
  <2> QED
    BY <2>2, <2>3
<1>5. CASE TestGuard(t) \/ InitXref(t) \/ SetGuard(t)
  <2>1. UNCHANGED <<rsp, frames, entries>> /\ pc[t] \in {"test", "store", "call"}
    BY <1>5 DEF TestGuard, InitXref, SetGuard, Go
  <2>2. PICK to \in {"test", "store", "call"} : pc' = [pc EXCEPT ![t] = to]
    <3>1. CASE InitXref(t)
      <4>1. pc' = [pc EXCEPT ![t] = "store"]
        BY <1>1, <3>1 DEF InitXref, GuardInv, RunTyped
      <4> QED
        BY <4>1
    <3> QED
      BY <1>5, <3>1 DEF TestGuard, SetGuard, Go
  <2>3. Here(to)
    BY <1>1, <2>1, StackInitializer
  <2> QED
    BY <1>1, <1>2, <2>1, <2>2, <2>3
<1>6. CASE CallLifted(t)
  <2> DEFINE G == Append(F, [top |-> rsp[t], rsp |-> rsp[t] - 1, onExit |-> 0, returned |-> 0])
  <2>1. /\ pc[t] = "call" /\ pc' = [pc EXCEPT ![t] = "lifted"] /\ UNCHANGED entries
        /\ frames' = [frames EXCEPT ![t] = G] /\ rsp' = [rsp EXCEPT ![t] = rsp[t] - 1]
    BY <1>6 DEF CallLifted, Go
  <2>2. StackOK("lifted", G, rsp[t] - 1, entries[t])
    BY <1>1, <2>1, StackCall
  <2> HIDE DEF G
  <2> QED
    BY <1>1, <1>2, <2>1, <2>2
<1>7. CASE LiftedReturns(t)
  <2>1. /\ pc[t] = "lifted" /\ pc' = [pc EXCEPT ![t] = "native"] /\ UNCHANGED entries
        /\ frames' = [frames EXCEPT ![t] = Counted(Front(F))]
        /\ rsp' = [rsp EXCEPT ![t] = Last(F).top + 1]
    BY <1>7 DEF LiftedReturns, Go
  <2>2. StackOK("native", Counted(Front(F)), Last(F).top + 1, entries[t])
    BY <1>1, <2>1, StackReturns
  <2> QED
    BY <1>1, <1>2, <2>1, <2>2
<1>8. CASE CallNative(t)
  <2> DEFINE G == Append(Front(F), [Last(F) EXCEPT !.onExit = rsp[t] - 1 + 1, !.returned = 0])
  <2>1. /\ pc[t] = "lifted" /\ pc' = [pc EXCEPT ![t] = "native"] /\ UNCHANGED entries
        /\ rsp' = [rsp EXCEPT ![t] = rsp[t] - 1]
        /\ frames' = [frames EXCEPT ![t] =
             Append(Front(F), [Last(F) EXCEPT !.onExit = rsp'[t] + 1, !.returned = 0])]
    BY <1>8 DEF CallNative, Go
  <2>2. rsp'[t] = rsp[t] - 1
    BY <1>1, <2>1
  <2>3. frames' = [frames EXCEPT ![t] = G]
    BY <2>1, <2>2
  <2>4. StackOK("native", G, rsp[t] - 1, entries[t])
    BY <1>1, <2>1, StackCallsNative
  <2>5. /\ pc[t] = "lifted" /\ pc' = [pc EXCEPT ![t] = "native"] /\ UNCHANGED entries
        /\ rsp' = [rsp EXCEPT ![t] = rsp[t] - 1]
    BY <2>1
  <2> HIDE DEF G
  <2> QED
    BY <1>1, <1>2, <2>3, <2>4, <2>5
<1>9. CASE NativeReturns(t)
  <2>1. /\ pc[t] = "native" /\ pc' = [pc EXCEPT ![t] = "lifted"] /\ UNCHANGED <<frames, entries>>
        /\ rsp' = [rsp EXCEPT ![t] = Last(F).onExit] /\ F # << >>
    BY <1>9 DEF NativeReturns, Go
  <2>2. StackOK("lifted", F, Last(F).onExit, entries[t])
    BY <1>1, <2>1, StackNativeReturns
  <2> QED
    BY <1>1, <1>2, <2>1, <2>2
<1>10. ASSUME NEW x \in Xrefs, Writes(t, x) PROVE StackInv'
  <2>1. UNCHANGED <<pc, rsp, frames, entries>>
    BY <1>10 DEF Writes
  <2> QED
    BY <1>1, <1>2, <2>1
<1>11. ~EnterCallback(t)
  BY DEF EnterCallback
<1> QED
  BY <1>3, <1>4, <1>5, <1>6, <1>7, <1>8, <1>9, <1>10, <1>11 DEF Run

LEMMA StackAlways == BuildInv /\ GuardInv /\ StackInv /\ [Next]_vars => StackInv'
<1> SUFFICES ASSUME BuildInv, GuardInv, StackInv, [Next]_vars PROVE StackInv'
  OBVIOUS
<1>1. ASSUME UNCHANGED <<cfg, pc, rsp, frames, entries>> PROVE StackInv'
  BY <1>1 DEF StackInv
<1>2. CASE LiftCodeIntoModule /\ UNCHANGED run
  BY <1>1, <1>2, BuildStep DEF run
<1>3. CASE Load
  BY <1>1, <1>3, LinkStep DEF Load
<1>4. CASE UNCHANGED vars
  BY <1>1, <1>4, BuildSame DEF vars, run
<1>5. ASSUME NEW t \in Threads, Run(t) PROVE StackInv'
  <2>1. CASE cfg.explicit
    BY <1>5, <2>1, StackRun
  <2>2. CASE ~cfg.explicit
    <3>1. UNCHANGED cfg
      BY <1>5, RunKeepsBuild, BuildSame
    <3> QED
      BY <2>2, <3>1 DEF StackInv
  <2> QED
    BY <2>1, <2>2
<1> QED
  BY <1>2, <1>3, <1>4, <1>5 DEF Next, Idle

(* Under --explicit_args each lifted function finds State::RSP where it    *)
(* left it, however deep native code enters again from its calls, and the  *)
(* functions entered from one of them start one word higher each.          *)
THEOREM FramesKeptHolds == Spec => []FramesKept
<1>1. StackInv => FramesKept
  <2> SUFFICES ASSUME StackInv, cfg.explicit, NEW t \in Threads
               PROVE  /\ pc[t] = "lifted" => rsp[t] = Last(frames[t]).rsp
                      /\ \A i \in 1 .. Len(frames[t]) - 1 :
                           frames[t][i + 1].top = frames[t][i].rsp - 1 + frames[t][i].returned
    BY DEF FramesKept
  <2>1. StackOK(pc[t], frames[t], rsp[t], entries[t])
    BY DEF StackInv
  <2>2. ASSUME pc[t] = "lifted" PROVE rsp[t] = Last(frames[t]).rsp
    BY <2>1, <2>2, LastOf DEF StackOK
  <2> QED
    BY <2>1, <2>2 DEF StackOK, Chain
<1>2. Init => BuildInv /\ GuardInv /\ StackInv
  BY BuildInitially, GuardInit, StackInitially DEF Init
<1> QED
  BY <1>1, <1>2, BuildAlways, GuardAlways, StackAlways, PTL DEF Spec
=============================================================================
