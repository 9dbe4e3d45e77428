---------------------------- MODULE PassesProofs ----------------------------
(* Theorems about what EC-SBT adds to the lifter: the host calls that its  *)
(* passes put into lifted code (HostCalls), for every value of the         *)
(* constants; the script that applies the passes (Runner), for every       *)
(* number of runs and of faults, every set of programs and all that the    *)
(* lifter may make of them; and the calls that one of them, va_listPass,   *)
(* has save their registers (VariadicCalls), for every program and set of  *)
(* threads. The three share no variable.                                   *)
EXTENDS HostCalls, Runner, VariadicCalls, TLAPS, WellFoundedInduction, SequenceTheorems

(* The host calls.                                                         *)

(* Each thread's variables and its memory, seen byte by byte.              *)
FSTyped ==
  /\ DOMAIN fsVar = Threads /\ DOMAIN memory = Threads
  /\ \A t \in Threads : DOMAIN fsVar[t] = Offsets /\ DOMAIN memory[t] = Bytes
  /\ \A t \in Threads, o \in Offsets : DOMAIN fsVar[t][o] = Word

FSAgrees ==
  \A t \in Threads, x \in Accesses, k \in 0 .. 7 :
    k < x[2] => fsVar[t][x[1]][k] = memory[t][x[1] + k]

FSInv == FSTyped /\ FSAgrees

(* Two accesses reach one byte only at one offset, and then at one place.  *)
LEMMA OneByte ==
  ASSUME NEW x \in Accesses, NEW y \in Accesses, NEW k \in 0 .. 7, k < y[2],
         y[1] + k - x[1] \in 0 .. x[2] - 1
  PROVE  x[1] = y[1]
<1>1. x[1] \in Int /\ x[2] \in 1 .. 8 /\ y[1] \in Int /\ y[2] \in 1 .. 8
  BY HostAssumption
<1>2. y[1] + k \in x[1] .. x[1] + x[2] - 1 /\ y[1] + k \in y[1] .. y[1] + y[2] - 1
  BY <1>1
<1> QED
  BY <1>2, HostAssumption

LEMMA FSInit == Init => FSInv
<1> SUFFICES ASSUME Init PROVE FSInv
  OBVIOUS
<1>1. FSTyped
  BY DEF Init, FSTyped
<1>2. ASSUME NEW t \in Threads, NEW x \in Accesses, NEW k \in 0 .. 7, k < x[2]
      PROVE  fsVar[t][x[1]][k] = memory[t][x[1] + k]
  <2>1. x[1] \in Offsets /\ k \in Word
    BY DEF Offsets, Word
  <2>2. x[1] + k \in x[1] .. x[1] + x[2] - 1
    BY <1>2, HostAssumption
  <2>3. x[1] + k \in Bytes
    BY <2>2 DEF Bytes
  <2> QED
    BY <2>1, <2>3 DEF Init
<1> QED
  BY <1>1, <1>2 DEF FSInv, FSAgrees

(* A store puts the same bytes into the variable and into memory.          *)
LEMMA FSStore ==
  ASSUME FSInv, NEW t \in Threads, NEW x \in Accesses, NEW v, StoreFS(t, x, v)
  PROVE  FSInv'
<1>1. x[1] \in Int /\ x[2] \in 1 .. 8 /\ x[1] \in Offsets
  BY HostAssumption DEF Offsets
<1>2. FSTyped'
  BY <1>1 DEF StoreFS, FSInv, FSTyped, CopiesOf
<1>3. /\ \A b \in Bytes :
           memory'[t][b] = IF b - x[1] \in 0 .. x[2] - 1 THEN v ELSE memory[t][b]
      /\ \A u \in Threads \ {t} : memory'[u] = memory[u] /\ fsVar'[u] = fsVar[u]
  BY DEF StoreFS, FSInv, FSTyped, CopiesOf
<1>4. ASSUME NEW u \in Threads, NEW y \in Accesses, NEW k \in 0 .. 7, k < y[2]
      PROVE  fsVar'[u][y[1]][k] = memory'[u][y[1] + k]
  <2>1. /\ y[1] \in Int /\ y[2] \in 1 .. 8 /\ y[1] \in Offsets /\ k \in Word
        /\ fsVar[u][y[1]][k] = memory[u][y[1] + k]
    BY <1>4, HostAssumption DEF Offsets, Word, FSInv, FSAgrees
  <2>2. y[1] + k \in Bytes
    <3>1. y[1] + k \in y[1] .. y[1] + y[2] - 1
      BY <2>1, <1>4
    <3> QED
      BY <3>1 DEF Bytes
  <2>3. CASE u # t
    BY <2>3, <2>1, <1>3
  <2>4. CASE u = t /\ y[1] # x[1]
    <3>1. y[1] + k - x[1] \notin 0 .. x[2] - 1
      BY <2>4, OneByte, <1>4
    <3>2. fsVar'[u][y[1]] = fsVar[u][y[1]]
      BY <2>4, <2>1, <1>1 DEF StoreFS, CopiesOf, FSInv, FSTyped
    <3>3. memory'[u][y[1] + k] = memory[u][y[1] + k]
      BY <3>1, <2>1, <2>4, <2>2, <1>1, <1>3
    <3> QED
      BY <3>2, <3>3, <2>1
  <2>5. CASE u = t /\ y[1] = x[1]
    <3>1. fsVar'[u][y[1]][k] = IF k < x[2] THEN v ELSE fsVar[u][y[1]][k]
      BY <2>5, <2>1, <1>1 DEF StoreFS, CopiesOf, FSInv, FSTyped
    <3>2. memory'[u][y[1] + k] =
            IF y[1] + k - x[1] \in 0 .. x[2] - 1 THEN v ELSE memory[u][y[1] + k]
      BY <2>5, <2>1, <2>2, <1>1, <1>3
    <3>3. y[1] + k - x[1] \in 0 .. x[2] - 1 <=> k < x[2]
      BY <2>5, <1>1
    <3> QED
      BY <3>1, <3>2, <3>3, <2>1
  <2> QED
    BY <2>3, <2>4, <2>5
<1> QED
  BY <1>2, <1>4 DEF FSInv, FSAgrees

LEMMA FSStep == FSInv /\ [Next]_vars => FSInv'
<1> SUFFICES ASSUME FSInv, [Next]_vars PROVE FSInv'
  OBVIOUS
<1>1. ASSUME UNCHANGED fsState PROVE FSInv'
  BY <1>1 DEF fsState, FSInv, FSTyped, FSAgrees
<1>2. ASSUME NEW t \in Threads, NEW x \in Accesses, NEW v \in Values, StoreFS(t, x, v)
      PROVE  FSInv'
  BY <1>2, FSStore
<1>3. ASSUME NEW t \in Threads,
             \/ CallRdtsc(t) \/ StoreResult(t) \/ LoadFirst(t) \/ CallRdtscp(t) \/ CopyOut(t)
             \/ \E kind \in Kinds : CopyIn(t, kind)
             \/ \E f \in DOMAIN Files : HostStat(t, f) \/ \E kind \in Kinds : StatUnconverted(t, kind, f)
      PROVE  UNCHANGED fsState
  BY <1>3 DEF CallRdtsc, StoreResult, LoadFirst, CallRdtscp, CopyOut, CopyIn, HostStat, StatUnconverted
<1>4. ASSUME UNCHANGED vars PROVE UNCHANGED fsState
  BY <1>4 DEF vars
<1> QED
  BY <1>1, <1>2, <1>3, <1>4 DEF Next, Finished

(* What a thread loads relative to FS is what it stored there last, if the *)
(* accesses are as the pass takes them to be (HostAssumption): of at most  *)
(* eight bytes each, and overlapping at one offset only.                   *)
THEOREM FSIsTheThreadsHolds == Spec => []FSIsTheThreads
<1>1. FSInv => FSIsTheThreads
  <2> SUFFICES ASSUME FSInv, NEW t \in Threads, NEW x \in Accesses
               PROVE  LoadFS(t, x) = [k \in 0 .. x[2] - 1 |-> memory[t][x[1] + k]]
    BY DEF FSIsTheThreads
  <2>0. x[2] \in 1 .. 8
    BY HostAssumption
  <2>1. ASSUME NEW k \in 0 .. x[2] - 1
        PROVE  fsVar[t][x[1]][k] = memory[t][x[1] + k]
    <3>1. k \in 0 .. 7 /\ k < x[2]
      BY <2>0
    <3> QED
      BY <3>1 DEF FSInv, FSAgrees
  <2> QED
    BY <2>1 DEF LoadFS
<1> QED
  BY <1>1, FSInit, FSStep, PTL DEF Spec
-----------------------------------------------------------------------------
Steps == {"idle", "store", "load"} \cup Kinds \cup {Out(k) : k \in Kinds}

(* A thread about to load the global, that none has stored over since, has *)
(* its own helper's answer before it.                                      *)
TscInv ==
  /\ pc \in [Threads -> Steps]
  /\ clock \in Nat /\ gVar \in Nat \X Nat /\ result \in [Threads -> Nat \X Nat]
  /\ DOMAIN regs = Threads /\ DOMAIN alone = Threads
  /\ \A t \in Threads : pc[t] = "load" /\ alone[t] => gVar = result[t]

LEMMA StepsAre == Steps = {"idle", "store", "load", "stat", "fstat", "stat-out", "fstat-out"}
BY DEF Steps, Kinds, Out

(* What no action but one puts a thread at: the load of the global.        *)
LEMMA TscFrame ==
  ASSUME TscInv, UNCHANGED <<clock, gVar, result>>, DOMAIN regs' = Threads,
         pc' \in [Threads -> Steps], DOMAIN alone' = Threads,
         \A t \in Threads : pc'[t] = "load" => pc[t] = "load" /\ (alone'[t] => alone[t])
  PROVE  TscInv'
BY DEF TscInv

LEMMA TscStep == TscInv /\ [Next]_vars => TscInv'
<1> SUFFICES ASSUME TscInv, [Next]_vars PROVE TscInv'
  OBVIOUS
<1> USE StepsAre
<1>1. ASSUME UNCHANGED <<pc, tscState, alone>> PROVE TscInv'
  BY <1>1 DEF TscInv, tscState
<1>2. ASSUME NEW t \in Threads, NEW x \in Accesses, NEW v \in Values, StoreFS(t, x, v)
      PROVE  TscInv'
  <2>1. pc' = [pc EXCEPT ![t] = "idle"] /\ UNCHANGED <<tscState, alone>>
    BY <1>2 DEF StoreFS, Begin
  <2> QED
    BY <2>1, TscFrame DEF TscInv, tscState
<1>3. ASSUME NEW t \in Threads, CallRdtsc(t) PROVE TscInv'
  <2>1. clock' \in Nat /\ gVar' \in Nat \X Nat /\ result' \in [Threads -> Nat \X Nat]
    BY <1>3 DEF CallRdtsc, TscInv
  <2>2. /\ pc' = [pc EXCEPT ![t] = "store"] /\ alone' = [alone EXCEPT ![t] = TRUE]
        /\ \A u \in Threads \ {t} : result'[u] = result[u]
        /\ regs' = regs /\ gVar' = gVar
    BY <1>3 DEF CallRdtsc, Begin, TscInv
  <2> QED
    BY <2>1, <2>2 DEF TscInv
<1>4. ASSUME NEW t \in Threads, StoreResult(t) PROVE TscInv'
  BY <1>4 DEF StoreResult, Go, Disturb, TscInv
<1>5. ASSUME NEW t \in Threads, LoadFirst(t) PROVE TscInv'
  <2>1. /\ pc' = [pc EXCEPT ![t] = "idle"] /\ UNCHANGED <<clock, gVar, result, alone>>
        /\ DOMAIN regs' = Threads
    BY <1>5 DEF LoadFirst, Go, TscInv
  <2> QED
    BY <2>1, TscFrame DEF TscInv
<1>6. ASSUME NEW t \in Threads, CallRdtscp(t) PROVE TscInv'
  <2>1. /\ pc' = [pc EXCEPT ![t] = "idle"] /\ UNCHANGED <<gVar, result, alone>>
        /\ DOMAIN regs' = Threads /\ clock' \in Nat
    BY <1>6 DEF CallRdtscp, Begin, TscInv
  <2> QED
    BY <2>1 DEF TscInv
<1>7. ASSUME NEW t \in Threads, NEW kind \in Kinds, CopyIn(t, kind) PROVE TscInv'
  <2>1. /\ pc' = [pc EXCEPT ![t] = kind] /\ UNCHANGED tscState
        /\ alone' = [alone EXCEPT ![t] = TRUE] /\ kind \in {"stat", "fstat"}
    BY <1>7 DEF CopyIn, Begin, Kinds
  <2> QED
    BY <2>1, TscFrame DEF TscInv, tscState
<1>8. ASSUME NEW t \in Threads, NEW f \in DOMAIN Files, HostStat(t, f) PROVE TscInv'
  <2>1. PICK kind \in Kinds : Go(t, kind, Out(kind))
    BY <1>8 DEF HostStat
  <2>2. /\ pc' = [pc EXCEPT ![t] = Out(kind)] /\ UNCHANGED <<tscState, alone>>
        /\ Out(kind) \in {"stat-out", "fstat-out"}
    BY <1>8, <2>1 DEF HostStat, Go, Out
  <2> QED
    BY <2>2, TscFrame DEF TscInv, tscState
<1>9. ASSUME NEW t \in Threads, CopyOut(t) PROVE TscInv'
  <2>1. /\ pc' = [pc EXCEPT ![t] = "idle"] /\ UNCHANGED tscState
        /\ Disturb(t, Kinds \cup {Out(k) : k \in Kinds})
    BY <1>9 DEF CopyOut, Go
  <2>2. DOMAIN alone' = Threads /\ \A u \in Threads : alone'[u] => alone[u]
    BY <2>1 DEF Disturb
  <2> QED
    BY <2>1, <2>2, TscFrame DEF TscInv, tscState
<1>10. ASSUME NEW t \in Threads, NEW f \in DOMAIN Files, NEW kind \in Kinds,
              StatUnconverted(t, kind, f)
       PROVE  TscInv'
  <2>1. /\ pc' = [pc EXCEPT ![t] = "idle"] /\ UNCHANGED tscState
        /\ Disturb(t, Kinds \cup {Out(k) : k \in Kinds})
    BY <1>10 DEF StatUnconverted, Begin
  <2>2. DOMAIN alone' = Threads /\ \A u \in Threads : alone'[u] => alone[u]
    BY <2>1 DEF Disturb
  <2> QED
    BY <2>1, <2>2, TscFrame DEF TscInv, tscState
<1> QED
  BY <1>1, <1>2, <1>3, <1>4, <1>5, <1>6, <1>7, <1>8, <1>9, <1>10 DEF Next, Finished, vars

LEMMA TscInit == Init => TscInv
BY StepsAre DEF Init, TscInv

(* The halves of a reading, put together again, are the reading.           *)
LEMMA HalvesTogether ==
  ASSUME NEW time \in Nat
  PROVE  Halves(time)[1] + Half * Halves(time)[2] = time
BY HostAssumption DEF Halves

(* A thread whose reading no other has stored over gets it in EDX:EAX.     *)
THEOREM ReadsItsClockHolds == Spec => ReadsItsClock
<1>1. ASSUME TscInv, [Next]_vars
      PROVE  [\A t \in Threads :
                LoadFirst(t) /\ alone[t] => regs'[t][1] + Half * regs'[t][2] = result[t][1]]_vars
  <2> SUFFICES ASSUME NEW t \in Threads, LoadFirst(t), alone[t]
               PROVE  regs'[t][1] + Half * regs'[t][2] = result[t][1]
    OBVIOUS
  <2>1. gVar = result[t] /\ gVar[1] \in Nat
    BY <1>1 DEF LoadFirst, Go, TscInv
  <2>2. regs'[t][1] = Halves(gVar[1])[1] /\ regs'[t][2] = Halves(gVar[1])[2]
    BY <1>1 DEF LoadFirst, TscInv
  <2> QED
    BY <2>1, <2>2, HalvesTogether
<1> QED
  BY <1>1, TscInit, TscStep, PTL DEF Spec, ReadsItsClock
-----------------------------------------------------------------------------
(* The field of the host's structure for each field of x86's, in StatIn's  *)
(* order; the narrow ones among them.                                      *)
Pairs == StatIn
NarrowIndex == {2, 9}

(* Both passes copy by one table, in both directions.                      *)
LEMMA OneTable == StatOut = Pairs /\ FstatIn = Pairs /\ FstatOut = Pairs
BY DEF Pairs, StatIn, StatOut, FstatIn, FstatOut

(* The table is one to one, within the structures, and pairs fields of one *)
(* name.                                                                   *)
LEMMA PairsFacts ==
  ASSUME NEW p \in Pairs
  PROVE  /\ p = <<p[1], p[2]>> /\ p[1] \in 0 .. 14 /\ p[2] \in 0 .. 15
         /\ \A q \in Pairs : p[1] = q[1] => q = p
         /\ \A q \in Pairs : p[2] = q[2] => q = p
<1>1. p = <<p[1], p[2]>> /\ p[1] \in 0 .. 14 /\ p[2] \in 0 .. 15
  BY DEF Pairs, StatIn
<1>2. ASSUME NEW q \in Pairs, p[1] = q[1] PROVE q = p
  BY <1>2 DEF Pairs, StatIn
<1>3. ASSUME NEW q \in Pairs, p[2] = q[2] PROVE q = p
  BY <1>3 DEF Pairs, StatIn
<1> QED
  BY <1>1, <1>2, <1>3

LEMMA PickedByFirst ==
  ASSUME NEW p \in Pairs
  PROVE  {q \in Pairs : q[1] = p[1]} = {p}
BY PairsFacts

LEMMA PickedBySecond ==
  ASSUME NEW p \in Pairs
  PROVE  {q \in Pairs : q[2] = p[2]} = {p}
BY PairsFacts

LEMMA OnlyOne ==
  ASSUME NEW p
  PROVE  Only({p}) = p
BY DEF Only

LEMMA Layouts == DOMAIN X86 = 1 .. 15 /\ DOMAIN Arm = 1 .. 16
BY DEF X86, Arm

LEMMA SameField ==
  ASSUME NEW p \in Pairs
  PROVE  X86[p[1] + 1] = Arm[p[2] + 1]
BY DEF Pairs, StatIn, X86, Arm

LEMMA CopiedArePaired ==
  ASSUME NEW i \in DOMAIN X86, X86[i] \in Copied
  PROVE  /\ \E p \in Pairs : p[1] = i - 1
         /\ i - 1 \in NarrowIndex => X86[i] \in {"nlink", "blksize"}
<1>1. i \in 1 .. 15
  BY Layouts
<1> QED
  BY <1>1 DEF X86, Copied, Pairs, StatIn, NarrowIndex

(* What a copy in makes of the field at index i of the x86 structure.      *)
In(b, i) == IF i \in NarrowIndex THEN Truncated(b[i + 1]) ELSE b[i + 1]

(* No field is below what the host's narrow fields hold.                   *)
Sized(b) == \A i \in 1 .. 15 : b[i] \in Int /\ -(Narrow \div 2) <= b[i]

(* The host's structure has what the buffer had, or what it says of a file.*)
HasBefore(t) ==
  /\ Sized(before[t])
  /\ \A p \in Pairs : native[t][p[2] + 1] = In(before[t], p[1])

HasFile(t, f) ==
  /\ answer[t] = <<f>>
  /\ \A p \in Pairs : native[t][p[2] + 1] = Files[f][Arm[p[2] + 1]]

StatInv ==
  /\ pc \in [Threads -> Steps]
  /\ DOMAIN native = Threads /\ DOMAIN answer = Threads /\ DOMAIN before = Threads
  /\ Sized(buffer)
  /\ \A t \in Threads :
       /\ pc[t] \in Kinds => HasBefore(t)
       /\ pc[t] \in {Out(k) : k \in Kinds} =>
            \/ answer[t] = <<>> /\ HasBefore(t)
            \/ \E f \in DOMAIN Files : HasFile(t, f)

LEMMA NarrowFacts ==
  /\ Narrow \div 2 \in Nat \ {0} /\ Narrow = 2 * (Narrow \div 2)
BY HostAssumption

(* Sign-extending a field that was cut to the host's width gives it back,  *)
(* and never gives less than the width holds.                              *)
LEMMA CutAndExtended ==
  ASSUME NEW v \in Int, -(Narrow \div 2) <= v
  PROVE  /\ Truncated(v) \in Nat
         /\ Fits(v) => Extended(Truncated(v)) = v
<1>1. Narrow \in Nat \ {0} /\ Narrow \div 2 \in Nat \ {0} /\ Narrow = 2 * (Narrow \div 2)
  BY NarrowFacts, HostAssumption
<1>2. v % Narrow \in Nat
  BY <1>1
<1>3. CASE v \in 0 .. (Narrow \div 2) - 1
  <2>1. v % Narrow = v
    BY <1>1, <1>3
  <2> QED
    BY <1>1, <1>2, <1>3, <2>1 DEF Truncated, Extended, Fits
<1>4. CASE v < 0
  <2>1. v % Narrow = v + Narrow
    BY <1>1, <1>4
  <2> QED
    BY <1>1, <1>2, <1>4, <2>1 DEF Truncated, Extended, Fits
<1> QED
  BY <1>1, <1>2, <1>3, <1>4 DEF Truncated, Fits

LEMMA ExtendedSized ==
  ASSUME NEW v \in Nat
  PROVE  /\ Extended(v) \in Int /\ -(Narrow \div 2) <= Extended(v)
         /\ Fits(v) => Extended(v) = v
BY NarrowFacts, HostAssumption DEF Extended, Fits

LEMMA FileFields ==
  ASSUME NEW f \in DOMAIN Files, NEW p \in Pairs
  PROVE  Files[f][Arm[p[2] + 1]] \in Nat
BY PairsFacts, Layouts, FieldAssumption

(* A copy in puts each paired field in its place.                          *)
LEMMA CopyInGives ==
  ASSUME StatInv, NEW t \in Threads, NEW kind \in Kinds, CopyIn(t, kind)
  PROVE  \A p \in Pairs : native'[t][p[2] + 1] = In(buffer, p[1])
<1> DEFINE table == IF kind = "stat" THEN StatIn ELSE FstatIn
           Cell(j) == LET pairs == {p \in table : p[2] = j - 1} IN
                      IF pairs = {} THEN Undefined
                      ELSE LET i == Only(pairs)[1] IN
                           IF i \in {2, 9} THEN Truncated(buffer[i + 1]) ELSE buffer[i + 1]
<1>1. native'[t] = [j \in DOMAIN Arm |-> Cell(j)]
  BY DEF CopyIn, StatInv
<1>2. table = Pairs
  BY OneTable DEF Pairs
<1>3. ASSUME NEW p \in Pairs PROVE native'[t][p[2] + 1] = In(buffer, p[1])
  <2>1. p[2] + 1 \in DOMAIN Arm /\ (p[2] + 1) - 1 = p[2]
    BY PairsFacts, Layouts
  <2>2. {q \in table : q[2] = (p[2] + 1) - 1} = {p}
    BY <1>2, <2>1, PickedBySecond
  <2>3. Only({q \in table : q[2] = (p[2] + 1) - 1}) = p
    BY <2>2, OnlyOne
  <2>4. Cell(p[2] + 1) = In(buffer, p[1])
    BY <2>2, <2>3 DEF In, NarrowIndex
  <2> QED
    BY <1>1, <2>1, <2>4
<1> QED
  BY <1>3

(* A copy out takes each paired field from its place.                      *)
LEMMA CopyOutGives ==
  ASSUME NEW t \in Threads, CopyOut(t)
  PROVE  /\ \A p \in Pairs :
              LET v == native[t][p[2] + 1] IN
              buffer'[p[1] + 1] = IF p[1] \in NarrowIndex THEN Extended(v) ELSE v
         /\ \A i \in 1 .. 15 : (~ \E p \in Pairs : p[1] = i - 1) => buffer'[i] = buffer[i]
<1>1. PICK kind \in Kinds :
        LET table == IF kind = "stat" THEN StatOut ELSE FstatOut IN
        buffer' = [i \in DOMAIN X86 |->
          LET pairs == {p \in table : p[1] = i - 1} IN
          IF pairs = {} THEN buffer[i]
          ELSE LET v == native[t][Only(pairs)[2] + 1] IN
               IF i - 1 \in {2, 9} THEN Extended(v) ELSE v]
  BY DEF CopyOut
<1>2. (IF kind = "stat" THEN StatOut ELSE FstatOut) = Pairs
  BY OneTable DEF Pairs
<1> DEFINE Cell(i) == LET pairs == {p \in Pairs : p[1] = i - 1} IN
                      IF pairs = {} THEN buffer[i]
                      ELSE LET v == native[t][Only(pairs)[2] + 1] IN
                           IF i - 1 \in {2, 9} THEN Extended(v) ELSE v
<1>3. buffer' = [i \in DOMAIN X86 |-> Cell(i)]
  BY <1>1, <1>2
<1>4. ASSUME NEW p \in Pairs
      PROVE  LET v == native[t][p[2] + 1] IN
             buffer'[p[1] + 1] = IF p[1] \in NarrowIndex THEN Extended(v) ELSE v
  <2>1. p[1] + 1 \in DOMAIN X86 /\ (p[1] + 1) - 1 = p[1]
    BY PairsFacts, Layouts
  <2>2. {q \in Pairs : q[1] = (p[1] + 1) - 1} = {p}
    BY <2>1, PickedByFirst
  <2>3. Only({q \in Pairs : q[1] = (p[1] + 1) - 1}) = p
    BY <2>2, OnlyOne
  <2> QED
    BY <1>3, <2>1, <2>2, <2>3 DEF NarrowIndex
<1>5. ASSUME NEW i \in 1 .. 15, ~ \E p \in Pairs : p[1] = i - 1
      PROVE  buffer'[i] = buffer[i]
  BY <1>3, <1>5, Layouts
<1> QED
  BY <1>4, <1>5
LEMMA StatInit == Init => StatInv
<1> SUFFICES ASSUME Init PROVE StatInv
  OBVIOUS
<1>1. Sized(buffer)
  <2>1. ASSUME NEW i \in 1 .. 15 PROVE buffer[i] = Garbage[X86[i]] /\ Garbage[X86[i]] \in Nat
    BY Layouts, FieldAssumption DEF Init
  <2>2. ASSUME NEW i \in 1 .. 15 PROVE buffer[i] \in Int /\ -(Narrow \div 2) <= buffer[i]
    BY <2>1, NarrowFacts
  <2> QED
    BY <2>2 DEF Sized
<1> QED
  BY <1>1, StepsAre DEF Init, StatInv, Kinds, Out

(* A step that leaves the structures alone puts no thread in a call.       *)
LEMMA StatFrame ==
  ASSUME StatInv, UNCHANGED <<native, answer, before>>, Sized(buffer)', pc' \in [Threads -> Steps],
         \A t \in Threads : pc'[t] = pc[t] \/ pc'[t] \notin Kinds \cup {Out(k) : k \in Kinds}
  PROVE  StatInv'
BY DEF StatInv, HasBefore, HasFile

LEMMA StatOutSized ==
  ASSUME StatInv, NEW t \in Threads, CopyOut(t)
  PROVE  Sized(buffer)'
<1>1. pc[t] \in {Out(k) : k \in Kinds}
  BY DEF CopyOut, Go
<1>2. ASSUME NEW p \in Pairs
      PROVE  LET v == native[t][p[2] + 1] IN
             /\ v \in Int /\ -(Narrow \div 2) <= v
             /\ p[1] \in NarrowIndex => v \in Nat
  <2>1. p[1] + 1 \in 1 .. 15
    BY PairsFacts
  <2>2. CASE HasBefore(t)
    <3>1. /\ before[t][p[1] + 1] \in Int /\ -(Narrow \div 2) <= before[t][p[1] + 1]
          /\ native[t][p[2] + 1] = In(before[t], p[1])
      BY <2>1, <2>2 DEF HasBefore, Sized
    <3> QED
      BY <3>1, CutAndExtended, NarrowFacts DEF In
  <2>3. CASE \E f \in DOMAIN Files : HasFile(t, f)
    BY <2>3, FileFields, NarrowFacts DEF HasFile
  <2> QED
    BY <1>1, <2>2, <2>3 DEF StatInv
<1>3. ASSUME NEW i \in 1 .. 15 PROVE buffer'[i] \in Int /\ -(Narrow \div 2) <= buffer'[i]
  <2>1. CASE \E p \in Pairs : p[1] = i - 1
    <3>1. PICK p \in Pairs : p[1] = i - 1
      BY <2>1
    <3>2. LET v == native[t][p[2] + 1] IN
          buffer'[i] = IF p[1] \in NarrowIndex THEN Extended(v) ELSE v
      <4>1. p[1] + 1 = i
        BY <3>1
      <4> QED
        BY <4>1, CopyOutGives
    <3> QED
      BY <1>2, <3>2, ExtendedSized
  <2>2. CASE ~ \E p \in Pairs : p[1] = i - 1
    BY <2>2, CopyOutGives DEF StatInv, Sized
  <2> QED
    BY <2>1, <2>2
<1> QED
  BY <1>3 DEF Sized

LEMMA StatStep == StatInv /\ [Next]_vars => StatInv'
<1> SUFFICES ASSUME StatInv, [Next]_vars PROVE StatInv'
  OBVIOUS
<1> USE StepsAre DEF Kinds, Out
<1>1. ASSUME UNCHANGED <<pc, statState>> PROVE StatInv'
  <2>1. /\ Sized(buffer) => Sized(buffer')
        /\ \A t \in Threads : HasBefore(t) => HasBefore(t)'
        /\ \A t \in Threads, f \in DOMAIN Files : HasFile(t, f) => HasFile(t, f)'
    BY <1>1 DEF statState, HasBefore, HasFile
  <2> QED
    BY <1>1, <2>1 DEF StatInv, statState
<1>2. ASSUME NEW t \in Threads, NEW to \in {"idle", "store", "load"},
             pc' = [pc EXCEPT ![t] = to], UNCHANGED statState
      PROVE  StatInv'
  BY <1>2, StatFrame DEF StatInv, statState, Sized
<1>3. ASSUME NEW t \in Threads, NEW x \in Accesses, NEW v \in Values, StoreFS(t, x, v)
      PROVE  StatInv'
  BY <1>2, <1>3 DEF StoreFS, Begin
<1>4. ASSUME NEW t \in Threads, CallRdtsc(t) PROVE StatInv'
  BY <1>2, <1>4 DEF CallRdtsc, Begin
<1>5. ASSUME NEW t \in Threads, StoreResult(t) PROVE StatInv'
  BY <1>2, <1>5 DEF StoreResult, Go
<1>6. ASSUME NEW t \in Threads, LoadFirst(t) PROVE StatInv'
  BY <1>2, <1>6 DEF LoadFirst, Go
<1>7. ASSUME NEW t \in Threads, CallRdtscp(t) PROVE StatInv'
  BY <1>2, <1>7 DEF CallRdtscp, Begin
<1>8. ASSUME NEW t \in Threads, NEW kind \in Kinds, CopyIn(t, kind) PROVE StatInv'
  <2>1. /\ pc' = [pc EXCEPT ![t] = kind] /\ before' = [before EXCEPT ![t] = buffer]
        /\ UNCHANGED <<buffer, answer>> /\ DOMAIN native' = Threads
        /\ \A u \in Threads \ {t} : native'[u] = native[u]
    BY <1>8 DEF CopyIn, Begin, StatInv
  <2>2. HasBefore(t)'
    <3>1. before'[t] = buffer
      BY <2>1 DEF StatInv
    <3>2. Sized(before'[t])
      BY <3>1 DEF StatInv
    <3> QED
      BY <1>8, <3>1, <3>2, CopyInGives DEF HasBefore
  <2>3. ASSUME NEW u \in Threads \ {t}
        PROVE  /\ pc'[u] = pc[u] /\ (HasBefore(u) => HasBefore(u)')
               /\ \A f \in DOMAIN Files : HasFile(u, f) => HasFile(u, f)'
    BY <2>1, <2>3 DEF StatInv, HasBefore, HasFile
  <2>4. pc'[t] \in {"stat", "fstat"} /\ pc' \in [Threads -> Steps]
    BY <2>1 DEF StatInv
  <2> QED
    BY <2>1, <2>2, <2>3, <2>4 DEF StatInv, Sized
<1>9. ASSUME NEW t \in Threads, NEW f \in DOMAIN Files, HostStat(t, f) PROVE StatInv'
  <2>1. PICK kind \in Kinds : Go(t, kind, Out(kind))
    BY <1>9 DEF HostStat
  <2>2. /\ pc[t] \in Kinds /\ pc' = [pc EXCEPT ![t] = Out(kind)] /\ Out(kind) \in Steps
        /\ UNCHANGED <<buffer, before>>
        /\ DOMAIN native' = Threads /\ DOMAIN answer' = Threads
        /\ \A u \in Threads \ {t} : native'[u] = native[u] /\ answer'[u] = answer[u]
    BY <1>9, <2>1 DEF HostStat, Go, StatInv
  <2>3. \/ answer'[t] = <<>> /\ HasBefore(t)'
        \/ HasFile(t, f)'
    <3>1. CASE answer' = [answer EXCEPT ![t] = <<>>] /\ UNCHANGED native
      BY <2>2, <3>1 DEF StatInv, HasBefore
    <3>2. CASE /\ native' = [native EXCEPT ![t] = [j \in DOMAIN Arm |-> Files[f][Arm[j]]]]
               /\ answer' = [answer EXCEPT ![t] = <<f>>]
      <4>1. answer'[t] = <<f>>
            /\ \A j \in DOMAIN Arm : native'[t][j] = Files[f][Arm[j]]
        BY <3>2 DEF StatInv
      <4>2. \A p \in Pairs : p[2] + 1 \in DOMAIN Arm
        BY PairsFacts, Layouts
      <4> QED
        BY <4>1, <4>2 DEF HasFile
    <3> QED
      BY <1>9, <3>1, <3>2 DEF HostStat
  <2>4. ASSUME NEW u \in Threads \ {t}
        PROVE  /\ pc'[u] = pc[u] /\ answer'[u] = answer[u] /\ (HasBefore(u) => HasBefore(u)')
               /\ \A g \in DOMAIN Files : HasFile(u, g) => HasFile(u, g)'
    BY <2>2, <2>4 DEF StatInv, HasBefore, HasFile
  <2>5. pc' \in [Threads -> Steps] /\ pc'[t] = Out(kind) /\ Sized(buffer)'
    BY <2>2 DEF StatInv, Sized
  <2>6. pc'[t] \notin Kinds
    BY <2>5
  <2> QED
    BY <2>2, <2>3, <2>4, <2>5, <2>6 DEF StatInv
<1>10. ASSUME NEW t \in Threads, CopyOut(t) PROVE StatInv'
  <2>1. pc' = [pc EXCEPT ![t] = "idle"] /\ UNCHANGED <<native, answer, before>>
    BY <1>10 DEF CopyOut, Go
  <2>2. Sized(buffer)'
    BY <1>10, StatOutSized
  <2> QED
    BY <2>1, <2>2, StatFrame DEF StatInv
<1>11. ASSUME NEW t \in Threads, NEW f \in DOMAIN Files, NEW kind \in Kinds,
              StatUnconverted(t, kind, f)
       PROVE  StatInv'
  <2>1. pc' = [pc EXCEPT ![t] = "idle"] /\ UNCHANGED <<native, answer, before>>
    BY <1>11 DEF StatUnconverted, Begin
  <2>2. \A i \in 1 .. 15 : buffer'[i] = IF X86[i] \in SamePlace THEN Files[f][X86[i]] ELSE -1
    BY <1>11, Layouts DEF StatUnconverted, Undefined
  <2>3. \A i \in 1 .. 15 : X86[i] \in SamePlace => \E j \in DOMAIN Arm : X86[i] = Arm[j]
    <3>1. ASSUME NEW i \in 1 .. 15, X86[i] \in SamePlace PROVE \E j \in DOMAIN Arm : X86[i] = Arm[j]
      <4>1. X86[i] \in Copied
        BY <3>1 DEF SamePlace, Copied
      <4>2. PICK p \in Pairs : p[1] = i - 1
        BY <4>1, CopiedArePaired, Layouts
      <4>3. p[1] + 1 = i /\ p[2] + 1 \in DOMAIN Arm
        BY <4>2, PairsFacts, Layouts
      <4> QED
        BY <4>2, <4>3, SameField
    <3> QED
      BY <3>1
  <2>4. Sized(buffer)'
    BY <2>2, <2>3, FieldAssumption, NarrowFacts DEF Sized
  <2> QED
    BY <2>1, <2>4, StatFrame DEF StatInv
<1> QED
  BY <1>1, <1>3, <1>4, <1>5, <1>6, <1>7, <1>8, <1>9, <1>10, <1>11 DEF Next, Finished, vars

(* A converted call of stat or fstat that no other thread writes the       *)
(* buffer under ends with what the host says of the file in the copied     *)
(* fields of the x86 structure, or with what was there when the host       *)
(* failed, if the fields that are narrower on the host fit there.          *)
THEOREM StatTellsTheFileHolds == Spec => StatTellsTheFile
<1> DEFINE Right(t, i) == IF answer[t] = <<>> THEN before[t][i] ELSE Files[answer[t][1]][X86[i]]
<1>1. ASSUME StatInv, NEW t \in Threads, CopyOut(t), NEW i \in DOMAIN X86, X86[i] \in Copied,
             X86[i] \in {"nlink", "blksize"} => Fits(Right(t, i))
      PROVE  buffer'[i] = Right(t, i)
  <2>1. PICK p \in Pairs : p[1] = i - 1
    BY <1>1, CopiedArePaired
  <2>2. /\ i \in 1 .. 15 /\ i = p[1] + 1
        /\ p[1] \in NarrowIndex => Fits(Right(t, i))
    BY <1>1, <2>1, CopiedArePaired, Layouts
  <2>3. LET v == native[t][p[2] + 1] IN
        buffer'[i] = IF p[1] \in NarrowIndex THEN Extended(v) ELSE v
    BY <1>1, <2>2, CopyOutGives
  <2>4. pc[t] \in {Out(k) : k \in Kinds}
    BY <1>1 DEF CopyOut, Go
  <2>5. CASE answer[t] = <<>> /\ HasBefore(t)
    <3>1. /\ Right(t, i) \in Int /\ -(Narrow \div 2) <= Right(t, i)
          /\ native[t][p[2] + 1] = IF p[1] \in NarrowIndex THEN Truncated(Right(t, i)) ELSE Right(t, i)
      BY <2>2, <2>5 DEF HasBefore, Sized, In
    <3> HIDE DEF Right
    <3> QED
      BY <2>2, <2>3, <3>1, CutAndExtended
  <2>6. ASSUME NEW f \in DOMAIN Files, HasFile(t, f) PROVE buffer'[i] = Right(t, i)
    <3>1. /\ answer[t] # <<>> /\ Right(t, i) = Files[f][Arm[p[2] + 1]]
      BY <2>2, <2>6, SameField DEF HasFile
    <3>2. native[t][p[2] + 1] = Right(t, i) /\ Right(t, i) \in Nat
      BY <2>6, <3>1, FileFields DEF HasFile
    <3> HIDE DEF Right
    <3> QED
      BY <2>2, <2>3, <3>2, ExtendedSized
  <2> QED
    BY <1>1, <2>4, <2>5, <2>6 DEF StatInv
<1>2. ASSUME StatInv, [Next]_vars
      PROVE  [\A t \in Threads :
                CopyOut(t) /\ alone[t] =>
                  \A i \in DOMAIN X86 :
                    LET field == X86[i]
                        right == IF answer[t] = <<>> THEN before[t][i] ELSE Files[answer[t][1]][field]
                    IN  field \in Copied /\ (field \in {"nlink", "blksize"} => Fits(right)) =>
                          buffer'[i] = right]_vars
  BY <1>1, <1>2
<1> QED
  BY <1>2, StatInit, StatStep, PTL DEF Spec, StatTellsTheFile
-----------------------------------------------------------------------------
(* The script.                                                             *)


Shape == {"made", "of", "exf", "done", "lists", "mod"}

(* The passes that stage k and those before it have applied.               *)
Chain(k) == [i \in 1 .. (IF k < 4 THEN 0 ELSE k - 3) |-> Stages[i + 3]]

(* The file that holds the module stage k starts from.                     *)
InputAt(k) == Stages[IF k <= 4 THEN 3 ELSE IF k <= 15 THEN k - 1 ELSE 14]

(* A stage's file, whichever run left it, is what the stage makes of a     *)
(* file that went through the stages before; a stage is reached only over  *)
(* the files of all the stages before it; and current_input names the file *)
(* of the last pass. The second and third make the first inductive.        *)
FileOK(k) ==
  \/ files[Stages[k]] = Absent
  \/ /\ DOMAIN files[Stages[k]] = Shape
     /\ files[Stages[k]].made = TRUE
     /\ files[Stages[k]].done = Chain(k)

StagesInv ==
  /\ stage \in 0 .. 17
  /\ DOMAIN files = StageFiles
  /\ \A k \in 1 .. 16 : FileOK(k)
  /\ \A k \in 1 .. 16 : k < stage => files[Stages[k]].made = TRUE
  /\ stage # 0 => current_input = InputAt(stage)

(* While every tool of a run has done its work, the files behind the       *)
(* stage about to run are this run's, whatever lies in those ahead of it.  *)
Fresh(k) ==
  /\ files[Stages[k]].of = program
  /\ files[Stages[k]].exf = program
  /\ files[Stages[k]].lists = lists

FreshInv ==
  /\ lists \in BOOLEAN
  /\ all_worked => \A k \in 1 .. 16 : k < stage => Fresh(k)

-----------------------------------------------------------------------------
(* The stages.                                                             *)

LEMMA StagesAre ==
  /\ Len(Stages) = 16 /\ DOMAIN Stages = 1 .. 16
  /\ Stages[1] = "EFACT" /\ Stages[2] = "ida" /\ Stages[3] = "lift"
  /\ Stages[4] = "FlagRegisterOPT" /\ Stages[5] = "EXTInline"
  /\ Stages[6] = "printfPass" /\ Stages[7] = "va_listPass"
  /\ Stages[8] = "fsRegisterPass" /\ Stages[9] = "checkLinkerType"
  /\ Stages[10] = "FunctionNameDirectChange" /\ Stages[11] = "ExternalEntryPointCheck"
  /\ Stages[12] = "statPass" /\ Stages[13] = "fstatPass"
  /\ Stages[14] = "changCallingConvension" /\ Stages[15] = "tls" /\ Stages[16] = "clang"
  BY DEF passes, Stages

(* No two stages write the same file.                                      *)
LEMMA StagesDistinct ==
  \A i, j \in 1 .. 16 : Stages[i] = Stages[j] => i = j
  BY StagesAre

LEMMA FilesAre == StageFiles = {Stages[k] : k \in 1 .. 16}
  BY StagesAre DEF StageFiles, ToSet

LEMMA PassesStages ==
  \A k \in 1 .. 16 : IsPass(Stages[k]) <=> k \in 4 .. 14
<1>1. DOMAIN passes = 1 .. 11
  BY DEF passes
<1>2. \A i \in 1 .. 11 : passes[i] = Stages[i + 3]
  BY StagesAre DEF passes
<1>3. ASSUME NEW k \in 4 .. 14 PROVE IsPass(Stages[k])
  <2>1. k - 3 \in 1 .. 11 /\ passes[k - 3] = Stages[k]
    BY <1>2
  <2> QED
    BY <1>1, <2>1 DEF IsPass, ToSet
<1>4. ASSUME NEW k \in 1 .. 16, IsPass(Stages[k]) PROVE k \in 4 .. 14
  <2>1. PICK i \in 1 .. 11 : passes[i] = Stages[k]
    BY <1>1, <1>4 DEF IsPass, ToSet
  <2>2. Stages[i + 3] = Stages[k] /\ i + 3 \in 1 .. 16
    BY <1>2, <2>1
  <2> QED
    BY <2>2, StagesDistinct
<1> QED
  BY <1>3, <1>4

(* Applying one more pass.                                                 *)
LEMMA ChainGrows ==
  ASSUME NEW k \in 4 .. 16
  PROVE  Append(Chain(k - 1), Stages[k]) = Chain(k)
<1>1. Chain(k - 1) = [i \in 1 .. k - 4 |-> Stages[i + 3]]
  BY DEF Chain
<1>2. Chain(k) = [i \in 1 .. k - 3 |-> Stages[i + 3]]
  BY DEF Chain
<1>3. Len(Chain(k - 1)) = k - 4
  BY <1>1
<1> QED
  BY <1>1, <1>2, <1>3

LEMMA ChainEmpty == \A k \in 1 .. 3 : Chain(k) = << >>
  BY DEF Chain

(* What the last stage is asked for is what all the stages apply.          *)
LEMMA FullChainIs == FullChain = Chain(16)
<1>1. Chain(16) = [i \in 1 .. 13 |-> Stages[i + 3]]
  BY DEF Chain
<1>2. Len(FullChain) = 13 /\ FullChain = [i \in 1 .. 13 |-> FullChain[i]]
  BY DEF FullChain, passes
<1>3. \A i \in 1 .. 13 : FullChain[i] = Stages[i + 3]
  BY StagesAre DEF FullChain, passes
<1> QED
  BY <1>1, <1>2, <1>3
-----------------------------------------------------------------------------
(* A step that touches no file and starts no stage.                        *)
LEMMA FileKept ==
  ASSUME files' = files
  PROVE  \A k : FileOK(k)' = FileOK(k)
  BY DEF FileOK

LEMMA FilesKept ==
  ASSUME StagesInv, files' = files, current_input' = current_input,
         stage' = stage \/ stage' = 0
  PROVE  StagesInv'
<1>1. DOMAIN files' = StageFiles /\ \A k \in 1 .. 16 : FileOK(k)'
  BY FileKept DEF StagesInv
<1>2. stage' \in 0 .. 17 /\ \A k \in 1 .. 16 : k < stage' => files'[Stages[k]].made = TRUE
  BY DEF StagesInv
<1>3. stage' # 0 => current_input' = InputAt(stage')
  BY DEF StagesInv
<1> QED
  BY <1>1, <1>2, <1>3 DEF StagesInv, InputAt

LEMMA FreshKept ==
  ASSUME StagesInv, FreshInv, files' = files,
         \/ /\ all_worked' = all_worked /\ stage' = stage
            /\ program' = program /\ lists' = lists
         \/ stage' \in {0, 1} /\ lists' \in BOOLEAN
         \/ all_worked' = FALSE /\ lists' \in BOOLEAN
  PROVE  FreshInv'
  BY DEF FreshInv, Fresh, StagesInv

(* A pass, and a stage after the passes, reads the file of the stage before*)
(* it.                                                                     *)
LEMMA InputIs ==
  ASSUME StagesInv, NEW k \in 4 .. 16, stage = k
  PROVE  LET in == files[InputOf(Stages[k])] IN
         /\ in = files[Stages[k - 1]]
         /\ DOMAIN in = Shape
         /\ in.made = TRUE
         /\ in.done = Chain(k - 1)
<1> DEFINE in == files[InputOf(Stages[k])]
<1>1. in = files[Stages[k - 1]]
  BY StagesAre, PassesStages DEF InputOf, StagesInv, InputAt
<1>2. k - 1 \in 1 .. 16 /\ k - 1 < stage
  OBVIOUS
<1>3. FileOK(k - 1) /\ files[Stages[k - 1]].made = TRUE
  BY <1>2 DEF StagesInv
<1>4. files[Stages[k - 1]] # Absent
  BY <1>3 DEF Absent
<1> QED
  BY <1>1, <1>3, <1>4 DEF FileOK

(* What a stage writes has the shape of a file and one more tool behind it.*)
LEMMA WrittenOK ==
  ASSUME StagesInv, NEW k \in 1 .. 16, stage = k
  PROVE  /\ DOMAIN Written(Stages[k]) = Shape
         /\ Written(Stages[k]).made = TRUE
         /\ Written(Stages[k]).done = Chain(k)
<1>1. CASE k \in 1 .. 3
  <2>1. CASE k = 1
    <3>1. Written(Stages[k]) = Made(program, program, << >>, NoModule)
      BY <1>1, <2>1, StagesAre, PassesStages DEF Written
    <3> QED
      BY <1>1, <3>1, ChainEmpty DEF Made, Shape
  <2>2. CASE k = 2
    <3>1. Written(Stages[k]) = Made(program, program, << >>, NoModule)
      BY <1>1, <2>2, StagesAre, PassesStages DEF Written
    <3> QED
      BY <1>1, <3>1, ChainEmpty DEF Made, Shape
  <2>3. CASE k = 3
    <3> DEFINE in == files[InputOf(Stages[k])]
    <3>1. Written(Stages[k]) = Made(in.of, files["EFACT"].of, << >>, Lifted[in.of])
      BY <1>1, <2>3, StagesAre, PassesStages DEF Written
    <3> QED
      BY <1>1, <3>1, ChainEmpty DEF Made, Shape
  <2>4. k = 1 \/ k = 2 \/ k = 3
    BY <1>1
  <2> QED
    BY <2>1, <2>2, <2>3, <2>4
<1>2. CASE k \in 4 .. 16
  <2> DEFINE in == files[InputOf(Stages[k])]
  <2>2. /\ DOMAIN in = Shape
        /\ in.made = TRUE
        /\ in.done = Chain(k - 1)
    BY <1>2, InputIs
  <2>3. CASE IsPass(Stages[k])
    <3>1. Written(Stages[k]) =
            [in EXCEPT !.done = Append(@, Stages[k]), !.mod = Outcome(Stages[k]).mod,
                       !.lists = @ /\ lists]
      BY <1>2, <2>3, StagesAre DEF Written
    <3> QED
      BY <1>2, <2>2, <3>1, ChainGrows DEF Shape
  <2>4. CASE ~IsPass(Stages[k])
    <3>1. Written(Stages[k]) = [in EXCEPT !.done = Append(@, Stages[k])]
      BY <1>2, <2>4, StagesAre, StagesDistinct DEF Written
    <3> QED
      BY <1>2, <2>2, <3>1, ChainGrows DEF Shape
  <2> QED
    BY <2>3, <2>4
<1>3. k \in 1 .. 3 \/ k \in 4 .. 16
  OBVIOUS
<1> QED
  BY <1>1, <1>2, <1>3

(* The next stage starts from the file the script says.                    *)
LEMMA ProceedsOK ==
  ASSUME StagesInv, NEW k \in 1 .. 16, stage = k, Proceed(Stages[k])
  PROVE  \/ /\ files'[Stages[k]].made = TRUE
            /\ stage' = k + 1
            /\ current_input' = InputAt(k + 1)
         \/ stage' = 0
<1>1. CASE files'[Stages[k]].made
  <2>1. stage' = k + 1
        /\ current_input' = IF IsPass(Stages[k]) THEN Stages[k] ELSE current_input
    BY <1>1 DEF Proceed
  <2>2. current_input = InputAt(k)
    BY DEF StagesInv
  <2> QED
    BY <1>1, <2>1, <2>2, PassesStages DEF InputAt
<1>2. CASE ~files'[Stages[k]].made
  BY <1>2 DEF Proceed
<1> QED
  BY <1>1, <1>2

(* What a stage writes over this run's files is this run's.                *)
LEMMA WrittenFresh ==
  ASSUME StagesInv, FreshInv, all_worked, NEW k \in 1 .. 16, stage = k
  PROVE  /\ Written(Stages[k]).of = program
         /\ Written(Stages[k]).exf = program
         /\ Written(Stages[k]).lists = lists
<1>1. \A j \in 1 .. 16 : j < k => Fresh(j)
  BY DEF FreshInv
<1>2. lists \in BOOLEAN
  BY DEF FreshInv
<1>3. CASE k = 1 \/ k = 2
  <2>1. Written(Stages[k]) = Made(program, program, << >>, NoModule)
    BY <1>3, StagesAre, PassesStages DEF Written
  <2> QED
    BY <2>1 DEF Made
<1>4. CASE k = 3
  <2> DEFINE in == files[InputOf(Stages[k])]
  <2>1. Written(Stages[k]) = Made(in.of, files["EFACT"].of, << >>, Lifted[in.of])
    BY <1>4, StagesAre, PassesStages DEF Written
  <2>2. in = files["ida"]
    BY <1>4, StagesAre, PassesStages DEF InputOf
  <2>3. files["EFACT"].of = program /\ files["ida"].of = program
    BY <1>1, <1>4, StagesAre DEF Fresh
  <2> QED
    BY <2>1, <2>2, <2>3 DEF Made
<1>5. CASE k \in 4 .. 16
  <2> DEFINE in == files[InputOf(Stages[k])]
  <2>1. in = files[Stages[k - 1]] /\ DOMAIN in = Shape
    BY <1>5, InputIs
  <2>2. Fresh(k - 1)
    BY <1>1, <1>5
  <2>3. in.of = program /\ in.exf = program /\ in.lists = lists
    BY <2>1, <2>2 DEF Fresh
  <2>4. CASE IsPass(Stages[k])
    <3>1. Written(Stages[k]) =
            [in EXCEPT !.done = Append(@, Stages[k]), !.mod = Outcome(Stages[k]).mod,
                       !.lists = @ /\ lists]
      BY <1>5, <2>4, StagesAre, StagesDistinct DEF Written
    <3>2. /\ Written(Stages[k]).of = in.of /\ Written(Stages[k]).exf = in.exf
          /\ Written(Stages[k]).lists = (in.lists /\ lists)
      BY <2>1, <3>1 DEF Shape
    <3> QED
      BY <1>2, <2>3, <3>2
  <2>5. CASE ~IsPass(Stages[k])
    <3>1. Written(Stages[k]) = [in EXCEPT !.done = Append(@, Stages[k])]
      BY <1>5, <2>5, StagesAre, StagesDistinct DEF Written
    <3> QED
      BY <2>1, <2>3, <3>1 DEF Shape
  <2> QED
    BY <2>4, <2>5
<1>6. k = 1 \/ k = 2 \/ k = 3 \/ k \in 4 .. 16
  OBVIOUS
<1> QED
  BY <1>3, <1>4, <1>5, <1>6
-----------------------------------------------------------------------------
(* The steps.                                                              *)

LEMMA RunningAt ==
  ASSUME StagesInv, Running
  PROVE  stage \in 1 .. 16 /\ Stages[stage] \in DOMAIN files
  BY StagesAre, FilesAre DEF Running, StagesInv

LEMMA WorksOK ==
  ASSUME StagesInv, Works
  PROVE  StagesInv' /\ (FreshInv => FreshInv')
<1>1. PICK k \in 1 .. 16 : stage = k /\ Stages[k] \in DOMAIN files
  BY RunningAt DEF Works
<1> DEFINE w == Written(Stages[k])
<1>2. /\ files' = [files EXCEPT ![Stages[k]] = w] /\ Proceed(Stages[k])
      /\ program' = program /\ lists' = lists /\ all_worked' = all_worked
  BY <1>1 DEF Works
<1>3. DOMAIN w = Shape /\ w.made = TRUE /\ w.done = Chain(k)
  BY <1>1, WrittenOK
<1>4. /\ DOMAIN files' = DOMAIN files
      /\ files'[Stages[k]] = w
      /\ \A j \in 1 .. 16 : j # k => files'[Stages[j]] = files[Stages[j]]
  BY <1>1, <1>2, StagesDistinct, FilesAre DEF StagesInv
<1>5. stage' = k + 1 /\ current_input' = InputAt(k + 1)
  <2>1. files'[Stages[k]].made
    BY <1>3, <1>4
  <2>2. stage' = k + 1
    BY <1>1, <1>2, <2>1 DEF Proceed
  <2>3. \/ stage' = 0
        \/ current_input' = InputAt(k + 1)
    BY <1>1, <1>2, ProceedsOK
  <2> QED
    BY <2>2, <2>3
<1> HIDE DEF w
<1>6. StagesInv'
  <2>1. ASSUME NEW j \in 1 .. 16 PROVE FileOK(j)'
    BY <1>3, <1>4 DEF StagesInv, FileOK
  <2>2. ASSUME NEW j \in 1 .. 16, j < k + 1 PROVE files'[Stages[j]].made = TRUE
    BY <1>1, <1>3, <1>4, <2>2 DEF StagesInv
  <2>3. k + 1 \in 0 .. 17
    BY <1>1
  <2> QED
    BY <1>4, <1>5, <2>1, <2>2, <2>3 DEF StagesInv
<1>7. ASSUME FreshInv, all_worked, NEW j \in 1 .. 16, j < k + 1 PROVE Fresh(j)'
  <2>1. CASE j = k
    <3>1. w.of = program /\ w.exf = program /\ w.lists = lists
      BY <1>1, <1>7, WrittenFresh DEF w
    <3> QED
      BY <1>2, <1>4, <2>1, <3>1 DEF Fresh
  <2>2. CASE j # k
    <3>1. j < k
      BY <1>1, <1>7, <2>2
    <3>2. Fresh(j)
      BY <1>1, <1>7, <3>1 DEF FreshInv
    <3> QED
      BY <1>2, <1>4, <2>2, <3>2 DEF Fresh
  <2> QED
    BY <2>1, <2>2
<1>8. FreshInv => FreshInv'
  BY <1>2, <1>5, <1>7 DEF FreshInv
<1> QED
  BY <1>6, <1>8

(* A tool that fails over the file of an earlier run lets the script go on:*)
(* the run is no longer one whose tools worked.                            *)
LEMMA FailsOK ==
  ASSUME StagesInv, Fails
  PROVE  StagesInv' /\ (FreshInv => FreshInv')
<1>1. PICK k \in 1 .. 16 : stage = k
  BY RunningAt DEF Fails
<1>2. /\ files' = files /\ Proceed(Stages[k])
      /\ lists' = lists /\ all_worked' = FALSE
  BY <1>1 DEF Fails
<1>3. ASSUME stage' = 0 PROVE StagesInv'
  BY <1>2, <1>3 DEF StagesInv, FileOK
<1>4. ASSUME files'[Stages[k]].made = TRUE, stage' = k + 1, current_input' = InputAt(k + 1)
      PROVE  StagesInv'
  <2>1. ASSUME NEW j \in 1 .. 16, j < k + 1 PROVE files'[Stages[j]].made = TRUE
    BY <1>1, <1>2, <1>4, <2>1 DEF StagesInv
  <2>2. k + 1 \in 0 .. 17
    BY <1>1
  <2>3. \A j \in 1 .. 16 : FileOK(j)'
    BY <1>2 DEF StagesInv, FileOK
  <2> QED
    BY <1>2, <1>4, <2>1, <2>2, <2>3 DEF StagesInv
<1>5. StagesInv'
  BY <1>1, <1>2, <1>3, <1>4, ProceedsOK
<1>6. FreshInv => FreshInv'
  BY <1>2 DEF FreshInv
<1> QED
  BY <1>5, <1>6

LEMMA ScriptInitOK == ScriptInit => StagesInv /\ FreshInv
<1> SUFFICES ASSUME ScriptInit PROVE StagesInv /\ FreshInv
  OBVIOUS
<1>1. \A k \in 1 .. 16 : files[Stages[k]] = Absent
  BY FilesAre DEF ScriptInit
<1> QED
  BY <1>1 DEF ScriptInit, StagesInv, FreshInv, FileOK

LEMMA ScriptNextOK == StagesInv /\ FreshInv /\ [ScriptNext]_scriptVars => StagesInv' /\ FreshInv'
<1> SUFFICES ASSUME StagesInv, FreshInv, [ScriptNext]_scriptVars
             PROVE  StagesInv' /\ FreshInv'
  OBVIOUS
<1>1. CASE Rebuild
  <2>1. stage = 0 /\ stage' = 0 /\ files' = files /\ current_input' = current_input
        /\ lists' \in BOOLEAN
    BY <1>1 DEF Rebuild
  <2> QED
    BY <2>1, FilesKept, FreshKept
<1>2. CASE Refuse
  BY <1>2, FilesKept, FreshKept DEF Refuse
<1>3. CASE Start
  <2>1. stage' = 1 /\ files' = files /\ lists' = lists /\ current_input' = "lift"
    BY <1>3 DEF Start
  <2>2. InputAt(1) = "lift"
    BY StagesAre DEF InputAt
  <2>3. DOMAIN files' = StageFiles /\ \A k \in 1 .. 16 : FileOK(k)'
    BY <2>1, FileKept DEF StagesInv
  <2>4. \A k \in 1 .. 16 : ~(k < stage')
    BY <2>1
  <2>5. StagesInv'
    BY <2>1, <2>2, <2>3, <2>4 DEF StagesInv, InputAt
  <2> QED
    BY <2>1, <2>5, FreshKept DEF FreshInv
<1>4. CASE Works
  BY <1>4, WorksOK
<1>5. CASE Fails
  BY <1>5, FailsOK
<1>6. CASE Interrupt \/ Finish
  <2>1. stage' = 0 /\ files' = files /\ current_input' = current_input /\ lists' = lists
    BY <1>6 DEF Interrupt, Finish
  <2> QED
    BY <2>1, FilesKept, FreshKept DEF FreshInv
<1>7. CASE UNCHANGED scriptVars
  BY <1>7, FilesKept, FreshKept DEF scriptVars
<1> QED
  BY <1>1, <1>2, <1>3, <1>4, <1>5, <1>6, <1>7 DEF ScriptNext

LEMMA StagesHold == ScriptSpec => [](StagesInv /\ FreshInv)
<1>1. ScriptInit => StagesInv /\ FreshInv
  BY ScriptInitOK
<1>2. StagesInv /\ FreshInv /\ [ScriptNext]_scriptVars => (StagesInv /\ FreshInv)'
  BY ScriptNextOK
<1> QED
  BY <1>1, <1>2, PTL DEF ScriptSpec
-----------------------------------------------------------------------------
(* Whatever tools fail, whatever lies about from earlier runs and wherever *)
(* they were stopped, a binary went through every pass, once and in the    *)
(* script's order.                                                         *)
THEOREM EveryPass == ScriptSpec => []EveryPassApplied
<1>1. StagesInv => EveryPassApplied
  <2> SUFFICES ASSUME StagesInv, Present("clang") PROVE Binary.done = FullChain
    BY DEF EveryPassApplied
  <2>1. FileOK(16) /\ files[Stages[16]] # Absent
    BY StagesAre DEF StagesInv, Present, Absent
  <2> QED
    BY <2>1, StagesAre, FullChainIs DEF FileOK, Binary
<1> QED
  BY <1>1, StagesHold, PTL

(* A run that completes with every tool at work ships the binary of the    *)
(* program, the complement and the lists it was started with.              *)
THEOREM CompletesCurrent == ScriptSpec => CompletedIsCurrent
<1>1. StagesInv /\ FreshInv /\ stage = Len(Stages) + 1 /\ all_worked =>
        Binary.of = program /\ Binary.exf = program /\ Binary.lists = lists
  <2> SUFFICES ASSUME StagesInv, FreshInv, stage = Len(Stages) + 1, all_worked
               PROVE  Binary.of = program /\ Binary.exf = program /\ Binary.lists = lists
    OBVIOUS
  <2>1. Fresh(16)
    BY StagesAre DEF FreshInv
  <2> QED
    BY <2>1, StagesAre DEF Fresh, Binary
<1>2. StagesInv /\ FreshInv =>
        [stage = Len(Stages) + 1 /\ stage' = 0 /\ report' # "interrupted" /\ all_worked =>
           Binary.of = program /\ Binary.exf = program /\ Binary.lists = lists]_scriptVars
  BY <1>1
<1> QED
  BY <1>2, StagesHold, PTL DEF CompletedIsCurrent
-----------------------------------------------------------------------------
(* What the passes make of the lifted module.                              *)

FMap == FunctionToBeChangedMap

(* The table's i-th pair applied, and the ones before it.                  *)
Renaming(m, n) ==
  CHOOSE after : after = [i \in 0 .. n |->
                   IF i = 0 THEN m ELSE RenameOne(after[i - 1], FMap[i])]

(* What a set of naturals holds whenever it holds 0 and what follows.      *)
LEMMA Counting ==
  ASSUME NEW K \in SUBSET Nat, 0 \in K, \A k \in K : k + 1 \in K
  PROVE  K = Nat
<1> SUFFICES ASSUME Nat \ K # {} PROVE FALSE
  OBVIOUS
<1>1. Nat \ K \subseteq Nat /\ Nat \ K # {}
  OBVIOUS
<1>2. PICK k \in Nat \ K : \A j \in Nat \ K : ~(<<j, k>> \in OpToRel(<, Nat))
  BY <1>1, NatLessThanWellFounded, WFMin
<1>3. \A j \in Nat \ K : ~(j < k)
  BY <1>2 DEF OpToRel
<1>4. k # 0 /\ k - 1 \in Nat /\ k - 1 < k
  OBVIOUS
<1>5. k - 1 \in K
  BY <1>3, <1>4
<1>6. (k - 1) + 1 \in K
  BY <1>5
<1> QED
  BY <1>4, <1>6

LEMMA RenamingIs ==
  ASSUME NEW m, NEW n \in Nat
  PROVE  Renaming(m, n) = [i \in 0 .. n |->
           IF i = 0 THEN m ELSE RenameOne(Renaming(m, n)[i - 1], FMap[i])]
<1> DEFINE Is(g, k) == g = [i \in 0 .. k |-> IF i = 0 THEN m ELSE RenameOne(g[i - 1], FMap[i])]
           K == {k \in Nat : \E g : Is(g, k)}
<1>1. 0 \in K
  <2>1. Is([i \in 0 .. 0 |-> m], 0)
    OBVIOUS
  <2> QED
    BY <2>1
<1>2. ASSUME NEW k \in K PROVE k + 1 \in K
  <2>1. PICK g : Is(g, k)
    BY <1>2
  <2> DEFINE h == [i \in 0 .. k + 1 |-> IF i = k + 1 THEN RenameOne(g[k], FMap[k + 1]) ELSE g[i]]
  <2>2. \A i \in 0 .. k : h[i] = g[i]
    OBVIOUS
  <2>3. ASSUME NEW i \in 0 .. k + 1
        PROVE  h[i] = IF i = 0 THEN m ELSE RenameOne(h[i - 1], FMap[i])
    <3>1. CASE i = 0
      <4>1. g[0] = m
        BY <2>1
      <4> QED
        BY <2>2, <3>1, <4>1
    <3>2. CASE i \in 1 .. k
      <4>1. g[i] = RenameOne(g[i - 1], FMap[i])
        BY <2>1, <3>2
      <4>2. h[i - 1] = g[i - 1] /\ h[i] = g[i]
        BY <2>2, <3>2
      <4> QED
        BY <3>2, <4>1, <4>2
    <3>3. CASE i = k + 1
      <4>1. h[k] = g[k] /\ h[k + 1] = RenameOne(g[k], FMap[k + 1])
        BY <2>2
      <4> QED
        BY <3>3, <4>1
    <3> QED
      BY <3>1, <3>2, <3>3
  <2>4. h = [i \in 0 .. k + 1 |-> h[i]]
    OBVIOUS
  <2> HIDE DEF h
  <2>5. Is(h, k + 1)
    BY <2>3, <2>4
  <2>6. k + 1 \in Nat
    OBVIOUS
  <2> HIDE DEF Is
  <2> QED
    BY <2>5, <2>6
<1>3. K \in SUBSET Nat
  OBVIOUS
<1> HIDE DEF K
<1>4. n \in K
  BY <1>1, <1>2, <1>3, Counting
<1> USE DEF K
<1>5. \E g : Is(g, n)
  BY <1>4
<1>6. Is(CHOOSE g : Is(g, n), n)
  <2> HIDE DEF Is
  <2> QED
    BY <1>5
<1> QED
  BY <1>6 DEF Renaming

-----------------------------------------------------------------------------
(* What the lifted module's names and calls have become once the first i   *)
(* pairs are applied.                                                      *)
NowAt(i, g) ==
  IF \E j \in 1 .. i : FMap[j][1] = g
  THEN FMap[CHOOSE j \in 1 .. i : FMap[j][1] = g][2] ELSE g

GoneAt(i, was) == {FMap[j][2] : j \in {k \in 1 .. i : FMap[k][1] \in DOMAIN was.fns}}

NamesAt(i, was) == {NowAt(i, g) : g \in DOMAIN was.fns}

ACall(a, b, x) == [from |-> a, to |-> b, cc |-> x]

CallsAt(i, was) ==
  {ACall(NowAt(i, c.from), NowAt(i, c.to), c.cc) :
     c \in {d \in was.calls : d.from \notin GoneAt(i, was)}}

CallsIn(m) == \A c \in m.calls : c \in [from : DOMAIN m.fns, to : DOMAIN m.fns, cc : {"C"}]

LEMMA MapIs ==
  /\ Len(FMap) \in Nat /\ DOMAIN FMap = 1 .. Len(FMap)
  /\ \A i, j \in 1 .. Len(FMap) :
       /\ i # j => FMap[i][1] # FMap[j][1] /\ FMap[i][2] # FMap[j][2]
       /\ FMap[i][1] # FMap[j][2]
<1>1. Len(FMap) \in Nat /\ DOMAIN FMap = 1 .. Len(FMap)
  BY ChangedAssumption DEF FMap
<1>2. ASSUME NEW i \in 1 .. Len(FMap), NEW j \in 1 .. Len(FMap), FMap[i][1] = FMap[j][2] PROVE FALSE
  <2>1. FMap[i][1] \in Olds /\ FMap[j][2] \in News
    BY <1>1 DEF Olds, News, FMap
  <2> QED
    BY <1>2, <2>1, ChangedAssumption
<1> QED
  BY <1>1, <1>2, ChangedAssumption DEF FMap

LEMMA NowIs ==
  ASSUME NEW i \in 0 .. Len(FMap), NEW j \in 1 .. i
  PROVE  NowAt(i, FMap[j][1]) = FMap[j][2]
<1> DEFINE k == CHOOSE l \in 1 .. i : FMap[l][1] = FMap[j][1]
<1>1. k \in 1 .. i /\ FMap[k][1] = FMap[j][1]
  OBVIOUS
<1>2. k = j
  BY <1>1, MapIs
<1> QED
  BY <1>1, <1>2 DEF NowAt

LEMMA NowStays ==
  ASSUME NEW i \in 0 .. Len(FMap), NEW g, \A j \in 1 .. i : FMap[j][1] # g
  PROVE  NowAt(i, g) = g
  BY DEF NowAt

(* One more pair: its double is the only function it renames.              *)
LEMMA NowGrows ==
  ASSUME NEW i \in 1 .. Len(FMap), NEW g
  PROVE  NowAt(i, g) = IF NowAt(i - 1, g) = FMap[i][1] THEN FMap[i][2] ELSE NowAt(i - 1, g)
<1> i - 1 \in 0 .. Len(FMap) /\ i \in 0 .. Len(FMap) /\ i \in 1 .. i
  BY MapIs
<1>1. CASE g = FMap[i][1]
  <2>1. \A j \in 1 .. i - 1 : FMap[j][1] # g
    BY <1>1, MapIs
  <2>2. NowAt(i - 1, g) = g
    BY <2>1, NowStays
  <2> QED
    BY <1>1, <2>2, NowIs
<1>2. CASE g # FMap[i][1] /\ \E j \in 1 .. i - 1 : FMap[j][1] = g
  <2>1. PICK j \in 1 .. i - 1 : FMap[j][1] = g
    BY <1>2
  <2>2. NowAt(i - 1, g) = FMap[j][2] /\ NowAt(i, g) = FMap[j][2]
    BY <2>1, NowIs
  <2>3. FMap[j][2] # FMap[i][1]
    BY <2>1, MapIs
  <2> QED
    BY <2>2, <2>3
<1>3. CASE g # FMap[i][1] /\ \A j \in 1 .. i - 1 : FMap[j][1] # g
  <2>1. \A j \in 1 .. i : FMap[j][1] # g
    BY <1>3
  <2>2. NowAt(i - 1, g) = g /\ NowAt(i, g) = g
    BY <1>3, <2>1, NowStays
  <2> QED
    BY <1>3, <2>2
<1> QED
  BY <1>1, <1>2, <1>3

(* Only the double itself is at its name before its turn, and only the     *)
(* function it stands for at the other one.                                *)
LEMMA BeforeItsTurn ==
  ASSUME NEW i \in 1 .. Len(FMap), NEW g
  PROVE  /\ NowAt(i - 1, g) = FMap[i][1] <=> g = FMap[i][1]
         /\ NowAt(i - 1, g) = FMap[i][2] <=> g = FMap[i][2]
<1> i - 1 \in 0 .. Len(FMap)
  BY MapIs
<1>1. CASE \E j \in 1 .. i - 1 : FMap[j][1] = g
  <2>1. PICK j \in 1 .. i - 1 : FMap[j][1] = g
    BY <1>1
  <2>2. NowAt(i - 1, g) = FMap[j][2]
    BY <2>1, NowIs
  <2>3. /\ FMap[j][2] # FMap[i][1] /\ FMap[j][2] # FMap[i][2]
        /\ FMap[j][1] # FMap[i][1] /\ FMap[j][1] # FMap[i][2]
    BY <2>1, MapIs
  <2> QED
    BY <2>1, <2>2, <2>3
<1>2. CASE \A j \in 1 .. i - 1 : FMap[j][1] # g
  BY <1>2, NowStays
<1> QED
  BY <1>1, <1>2

-----------------------------------------------------------------------------
(* What one renaming does to a module.                                     *)
ModuleFields == {"fns", "calls", "flags", "sites", "body", "lower"}

Swap(g, old, new) == IF g = old THEN new ELSE g

SwapCall(c, old, new) == [c EXCEPT !.from = Swap(@, old, new), !.to = Swap(@, old, new)]

SwapCalls(S, old, new) == {SwapCall(c, old, new) : c \in S}

SwapTo(c, old, new) == [c EXCEPT !.to = Swap(@, old, new)]

LEMMA SwapCallIs ==
  ASSUME NEW a, NEW b, NEW x, NEW old, NEW new
  PROVE  /\ SwapCall(ACall(a, b, x), old, new) = ACall(Swap(a, old, new), Swap(b, old, new), x)
         /\ SwapTo(ACall(a, b, x), old, new) = ACall(a, Swap(b, old, new), x)
<1> DEFINE c == ACall(a, b, x)
<1>1. DOMAIN c = {"from", "to", "cc"} /\ c.from = a /\ c.to = b /\ c.cc = x
  BY DEF ACall
<1> HIDE DEF c
<1>2. SwapCall(c, old, new) = ACall(Swap(a, old, new), Swap(b, old, new), x)
  <2> DEFINE e == SwapCall(c, old, new)
  <2>1. /\ DOMAIN e = {"from", "to", "cc"}
        /\ e.from = Swap(a, old, new) /\ e.to = Swap(b, old, new) /\ e.cc = x
    BY <1>1 DEF SwapCall
  <2>2. e = [f \in DOMAIN e |-> e[f]]
    BY DEF SwapCall
  <2> HIDE DEF e
  <2>3. e = ACall(Swap(a, old, new), Swap(b, old, new), x)
    BY <2>1, <2>2 DEF ACall
  <2> QED
    BY <2>3 DEF e
<1>3. SwapTo(c, old, new) = ACall(a, Swap(b, old, new), x)
  BY <1>1 DEF SwapTo, ACall
<1> QED
  BY <1>2, <1>3 DEF c

IsRenamed(r, m, old, new) ==
  /\ DOMAIN r = ModuleFields
  /\ r.flags = m.flags
  /\ r.calls = SwapCalls(m.calls, old, new)
  /\ r.fns = [g \in (DOMAIN m.fns \ {old}) \cup {new} |->
                IF g = new THEN m.fns[old] ELSE m.fns[g]]

IsReplaced(r, m, old, new) ==
  /\ DOMAIN r = ModuleFields
  /\ r.flags = m.flags
  /\ r.calls = {d \in {SwapTo(c, new, old) : c \in m.calls} : d.from # new}
  /\ r.fns = [g \in DOMAIN m.fns \ {new} |-> m.fns[g]]

LEMMA RenamedGives ==
  ASSUME NEW m, DOMAIN m = ModuleFields, NEW old, NEW new
  PROVE  IsRenamed(Renamed(m, old, new), m, old, new)
<1> DEFINE s == Substitute(m, old, new)
<1>1. /\ DOMAIN s = ModuleFields /\ s.flags = m.flags /\ s.fns = m.fns
      /\ s.calls = SwapCalls(m.calls, old, new)
  BY DEF Substitute, ModuleFields, SwapCalls, SwapCall, Swap
<1>2. Renamed(m, old, new) =
        [s EXCEPT !.fns = [g \in (DOMAIN @ \ {old}) \cup {new} |->
                             IF g = new THEN m.fns[old] ELSE @[g]]]
  BY DEF Renamed
<1> HIDE DEF s
<1> QED
  BY <1>1, <1>2 DEF ModuleFields, IsRenamed

LEMMA ReplacedGives ==
  ASSUME NEW m, DOMAIN m = ModuleFields, NEW old, NEW new
  PROVE  IsReplaced(Erased(UsesReplaced(m, new, old), new), m, old, new)
<1> DEFINE s == UsesReplaced(m, new, old)
           e == Erased(s, new)
<1>1. /\ DOMAIN s = ModuleFields /\ s.flags = m.flags /\ s.fns = m.fns
      /\ s.calls = {SwapTo(c, new, old) : c \in m.calls}
  BY DEF UsesReplaced, ModuleFields, Swap, SwapTo
<1> HIDE DEF s
<1>2. /\ DOMAIN e = ModuleFields /\ e.flags = s.flags
      /\ e.fns = [g \in DOMAIN s.fns \ {new} |-> s.fns[g]]
  BY <1>1 DEF Erased, ModuleFields
<1>3. e.calls = {c \in s.calls : c.from # new}
  BY <1>1 DEF Erased, ModuleFields
<1> HIDE DEF e
<1>4. IsReplaced(e, m, old, new)
  BY <1>1, <1>2, <1>3 DEF IsReplaced
<1> QED
  BY <1>4 DEF e, s

(* The module once the pairs before the i-th are applied, its functions    *)
(* apart.                                                                  *)
At(i, m, was, flags) ==
  /\ DOMAIN m = ModuleFields
  /\ m.flags = flags
  /\ DOMAIN m.fns = NamesAt(i, was)
  /\ m.calls = CallsAt(i, was)

(* A replaced function's name is in the module until its turn, and so is   *)
(* the double's.                                                           *)
LEMMA ThereBefore ==
  ASSUME NEW i \in 1 .. Len(FMap), NEW was
  PROVE  /\ FMap[i][1] \in NamesAt(i - 1, was) <=> FMap[i][1] \in DOMAIN was.fns
         /\ FMap[i][2] \in NamesAt(i - 1, was) <=> FMap[i][2] \in DOMAIN was.fns
  BY BeforeItsTurn DEF NamesAt

LEMMA NamesGrow ==
  ASSUME NEW i \in 1 .. Len(FMap), NEW was
  PROVE  NamesAt(i, was) = {Swap(g, FMap[i][1], FMap[i][2]) : g \in NamesAt(i - 1, was)}
  BY NowGrows DEF NamesAt, Swap

LEMMA GoneGrows ==
  ASSUME NEW i \in 1 .. Len(FMap), NEW was
  PROVE  GoneAt(i, was) = GoneAt(i - 1, was) \cup
                          (IF FMap[i][1] \in DOMAIN was.fns THEN {FMap[i][2]} ELSE {})
<1>1. i \in Nat /\ 1 .. i = (1 .. i - 1) \cup {i}
  BY MapIs
<1> QED
  BY <1>1 DEF GoneAt

(* One more pair in the calls.                                             *)
LEMMA CallsGrow ==
  ASSUME NEW i \in 1 .. Len(FMap), NEW was, CallsIn(was)
  PROVE  LET old == FMap[i][1]
             new == FMap[i][2]
         IN  CallsAt(i, was) =
               SwapCalls({c \in CallsAt(i - 1, was) : old \in DOMAIN was.fns => c.from # new},
                         old, new)
<1> DEFINE old == FMap[i][1]
           new == FMap[i][2]
           Seen(j, c) == ACall(NowAt(j, c.from), NowAt(j, c.to), c.cc)
           Old(c) == Seen(i - 1, c)
           Kept(j) == {d \in was.calls : d.from \notin GoneAt(j, was)}
<1>1. ASSUME NEW c \in was.calls
      PROVE  Seen(i, c) = SwapCall(Old(c), old, new)
  <2>1. /\ NowAt(i, c.from) = Swap(NowAt(i - 1, c.from), old, new)
        /\ NowAt(i, c.to) = Swap(NowAt(i - 1, c.to), old, new)
    BY NowGrows DEF Swap
  <2> QED
    BY <2>1, SwapCallIs
<1>2. ASSUME NEW c \in was.calls
      PROVE  Old(c).from = new <=> c.from = new
  BY BeforeItsTurn DEF ACall
<1>3. Kept(i) = {c \in Kept(i - 1) : old \in DOMAIN was.fns => c.from # new}
  BY GoneGrows
<1>4. CallsAt(i, was) = {Seen(i, c) : c \in Kept(i)}
      /\ CallsAt(i - 1, was) = {Old(c) : c \in Kept(i - 1)}
  BY DEF CallsAt
<1>5. \A c \in Kept(i - 1) : c \in was.calls
  OBVIOUS
<1> HIDE DEF Seen, Old, Kept, old, new
<1>6. {c \in CallsAt(i - 1, was) : old \in DOMAIN was.fns => c.from # new} =
        {Old(c) : c \in Kept(i)}
  BY <1>2, <1>3, <1>4, <1>5
<1>7. SwapCalls({Old(c) : c \in Kept(i)}, old, new) = {Seen(i, c) : c \in Kept(i)}
  BY <1>1, <1>3, <1>5 DEF SwapCalls
<1> QED
  BY <1>4, <1>6, <1>7 DEF old, new

(* Where each function of the module is after the i-th pair.               *)
LEMMA RenameOneGives ==
  ASSUME NEW i \in 1 .. Len(FMap), NEW was, CallsIn(was), NEW flags, NEW m, At(i - 1, m, was, flags)
  PROVE  LET r == RenameOne(m, FMap[i]) IN
         /\ At(i, r, was, flags)
         /\ \A g \in DOMAIN r.fns :
              \/ g \in DOMAIN m.fns /\ r.fns[g] = m.fns[g]
              \/ /\ g = FMap[i][2] /\ FMap[i][1] \in DOMAIN m.fns
                 /\ r.fns[g] = m.fns[FMap[i][1]]
<1> DEFINE old == FMap[i][1]
           new == FMap[i][2]
           r == RenameOne(m, FMap[i])
           Same(S) == {c \in S : old \in DOMAIN was.fns => c.from # new}
<1>1. /\ DOMAIN m = ModuleFields /\ m.flags = flags
      /\ DOMAIN m.fns = NamesAt(i - 1, was) /\ m.calls = CallsAt(i - 1, was)
  BY DEF At
<1>2. /\ old \in DOMAIN m.fns <=> old \in DOMAIN was.fns
      /\ new \in DOMAIN m.fns <=> new \in DOMAIN was.fns
      /\ old # new
  BY <1>1, ThereBefore, MapIs
<1>3. NamesAt(i, was) = {Swap(g, old, new) : g \in DOMAIN m.fns}
      /\ CallsAt(i, was) = SwapCalls(Same(m.calls), old, new)
  BY <1>1, NamesGrow, CallsGrow
<1>4. \A c \in m.calls : /\ DOMAIN c = {"from", "to", "cc"}
                         /\ c = ACall(c.from, c.to, c.cc)
                         /\ c.from \in DOMAIN m.fns /\ c.to \in DOMAIN m.fns
  <2> SUFFICES ASSUME NEW c \in CallsAt(i - 1, was)
               PROVE  /\ DOMAIN c = {"from", "to", "cc"}
                      /\ c = ACall(c.from, c.to, c.cc)
                      /\ c.from \in NamesAt(i - 1, was) /\ c.to \in NamesAt(i - 1, was)
    BY <1>1
  <2>1. PICK d \in was.calls :
          c = ACall(NowAt(i - 1, d.from), NowAt(i - 1, d.to), d.cc)
    BY DEF CallsAt
  <2>2. d.from \in DOMAIN was.fns /\ d.to \in DOMAIN was.fns
    BY DEF CallsIn
  <2> QED
    BY <2>1, <2>2 DEF NamesAt, ACall
<1> HIDE DEF old, new
<1>5. r = IF old \notin DOMAIN m.fns THEN m
          ELSE IF new \notin DOMAIN m.fns THEN Renamed(m, old, new)
          ELSE Renamed(Erased(UsesReplaced(m, new, old), new), old, new)
  BY DEF RenameOne, old, new
<1> HIDE DEF r
<1>6. CASE old \notin DOMAIN m.fns
  <2>1. r = m
    BY <1>5, <1>6
  <2>2. NamesAt(i, was) = DOMAIN m.fns
    BY <1>3, <1>6 DEF Swap
  <2>3. SwapCalls(m.calls, old, new) = m.calls
    <3>1. ASSUME NEW c \in m.calls
          PROVE  SwapCall(c, old, new) = c
      <4>1. c = ACall(c.from, c.to, c.cc) /\ c.from # old /\ c.to # old
        BY <1>4, <1>6
      <4> QED
        BY <4>1, SwapCallIs DEF Swap
    <3> QED
      BY <3>1 DEF SwapCalls
  <2>4. Same(m.calls) = m.calls
    BY <1>2, <1>6
  <2> QED
    BY <1>1, <1>3, <2>1, <2>2, <2>3, <2>4 DEF At, r
<1>7. CASE old \in DOMAIN m.fns /\ new \notin DOMAIN m.fns
  <2>1. r = Renamed(m, old, new)
    BY <1>5, <1>7
  <2>2. /\ DOMAIN r = ModuleFields /\ r.flags = m.flags
        /\ r.calls = SwapCalls(m.calls, old, new)
        /\ r.fns = [g \in (DOMAIN m.fns \ {old}) \cup {new} |->
                      IF g = new THEN m.fns[old] ELSE m.fns[g]]
    <3>1. IsRenamed(r, m, old, new)
      BY <1>1, <2>1, RenamedGives
    <3> QED
      BY <3>1 DEF IsRenamed
  <2>3. Same(m.calls) = m.calls
    BY <1>4, <1>7
  <2>4. NamesAt(i, was) = (DOMAIN m.fns \ {old}) \cup {new}
    BY <1>3, <1>7 DEF Swap
  <2>5. At(i, r, was, flags)
    BY <1>1, <1>3, <2>2, <2>3, <2>4 DEF At
  <2>6. \A g \in DOMAIN r.fns : \/ g \in DOMAIN m.fns /\ r.fns[g] = m.fns[g]
                                \/ g = new /\ old \in DOMAIN m.fns /\ r.fns[g] = m.fns[old]
    BY <1>7, <2>2
  <2> QED
    BY <2>5, <2>6 DEF r, old, new
<1>8. CASE old \in DOMAIN m.fns /\ new \in DOMAIN m.fns
  <2> DEFINE e == Erased(UsesReplaced(m, new, old), new)
             To(c) == SwapTo(c, new, old)
             Both(c) == SwapCall(c, old, new)
  <2>1. /\ DOMAIN e = ModuleFields /\ e.flags = m.flags
        /\ e.calls = {d \in {To(c) : c \in m.calls} : d.from # new}
        /\ e.fns = [g \in DOMAIN m.fns \ {new} |-> m.fns[g]]
    <3>1. IsReplaced(e, m, old, new)
      BY <1>1, ReplacedGives
    <3> QED
      BY <3>1 DEF IsReplaced
  <2>2. r = Renamed(e, old, new)
    BY <1>5, <1>8
  <2> HIDE DEF e
  <2>3. /\ DOMAIN r = ModuleFields /\ r.flags = e.flags
        /\ r.calls = SwapCalls(e.calls, old, new)
        /\ r.fns = [g \in (DOMAIN e.fns \ {old}) \cup {new} |->
                      IF g = new THEN e.fns[old] ELSE e.fns[g]]
    <3>1. IsRenamed(r, e, old, new)
      BY <2>1, <2>2, RenamedGives
    <3> QED
      BY <3>1 DEF IsRenamed
  <2>4. r.fns = [g \in DOMAIN m.fns \ {old} |-> IF g = new THEN m.fns[old] ELSE m.fns[g]]
    <3>1. DOMAIN e.fns = DOMAIN m.fns \ {new} /\ \A g \in DOMAIN m.fns \ {new} : e.fns[g] = m.fns[g]
      BY <2>1
    <3>2. (DOMAIN e.fns \ {old}) \cup {new} = DOMAIN m.fns \ {old}
      BY <1>2, <1>8, <3>1
    <3> QED
      BY <1>2, <1>8, <2>3, <3>1, <3>2
  <2>5. NamesAt(i, was) = DOMAIN m.fns \ {old}
    BY <1>2, <1>3, <1>8 DEF Swap
  <2>6. ASSUME NEW c \in m.calls
        PROVE  To(c).from = c.from /\ Both(To(c)) = Both(c)
    <3>1. c = ACall(c.from, c.to, c.cc)
      BY <1>4
    <3>2. Swap(Swap(c.to, new, old), old, new) = Swap(c.to, old, new)
      BY DEF Swap
    <3>3. To(c) = ACall(c.from, Swap(c.to, new, old), c.cc)
      BY <3>1, SwapCallIs
    <3>4. Both(To(c)) = ACall(Swap(c.from, old, new), Swap(Swap(c.to, new, old), old, new), c.cc)
      BY <3>3, SwapCallIs
    <3>5. Both(c) = ACall(Swap(c.from, old, new), Swap(c.to, old, new), c.cc)
      BY <3>1, SwapCallIs
    <3>6. To(c).from = c.from
      BY <3>3 DEF ACall
    <3> QED
      BY <3>2, <3>4, <3>5, <3>6
  <2>7. Same(m.calls) = {c \in m.calls : c.from # new}
    BY <1>2, <1>8
  <2> HIDE DEF To, Both
  <2>8. e.calls = {To(c) : c \in {d \in m.calls : d.from # new}}
    BY <2>1, <2>6
  <2>9. {Both(c) : c \in e.calls} = {Both(c) : c \in Same(m.calls)}
    BY <2>6, <2>7, <2>8
  <2>10. SwapCalls(e.calls, old, new) = SwapCalls(Same(m.calls), old, new)
    BY <2>9 DEF SwapCalls, Both
  <2>11. At(i, r, was, flags)
    BY <1>1, <1>3, <2>1, <2>3, <2>4, <2>5, <2>10 DEF At
  <2>12. \A g \in DOMAIN r.fns : \/ g \in DOMAIN m.fns /\ r.fns[g] = m.fns[g]
                                 \/ g = new /\ old \in DOMAIN m.fns /\ r.fns[g] = m.fns[old]
    BY <1>8, <2>4
  <2> QED
    BY <2>11, <2>12 DEF r, old, new
<1> QED
  BY <1>6, <1>7, <1>8

-----------------------------------------------------------------------------
(* What the passes up to stage k, with the lists or without, have made of  *)
(* the functions.                                                          *)
FnFields == {"linkage", "cc", "inline", "vararg", "declared"}

FnOK(k, l, fn, g) ==
  /\ DOMAIN fn = FnFields
  /\ fn.cc \in {"C", "sysv"}
  /\ k >= 14 => fn.cc = "C"
  /\ k >= 9 /\ l /\ fn.linkage = "weak" => g \in WeakList
  /\ fn.inline = "always" => g \in ExtPattern

InlineOK(m) ==
  \A g \in DOMAIN m.fns : m.fns[g].inline = "always" => NamePart[g] \in DOMAIN m.fns

FnsOK(k, l, m) ==
  /\ \A g \in DOMAIN m.fns : FnOK(k, l, m.fns[g], g)
  /\ InlineOK(m)

LEMMA RenameOneKeeps ==
  ASSUME NEW i \in 1 .. Len(FMap), NEW was, CallsIn(was), NEW flags, NEW m,
         At(i - 1, m, was, flags), NEW l, FnsOK(9, l, m)
  PROVE  LET r == RenameOne(m, FMap[i])
         IN  At(i, r, was, flags) /\ FnsOK(9, l, r)
<1> DEFINE r == RenameOne(m, FMap[i])
           old == FMap[i][1]
           new == FMap[i][2]
<1>1. /\ At(i, r, was, flags)
      /\ \A g \in DOMAIN r.fns :
           \/ g \in DOMAIN m.fns /\ r.fns[g] = m.fns[g]
           \/ g = new /\ old \in DOMAIN m.fns /\ r.fns[g] = m.fns[old]
  BY RenameOneGives
<1>2. DOMAIN r.fns = {Swap(g, old, new) : g \in DOMAIN m.fns}
  BY <1>1, NamesGrow DEF At
<1>3. old \in Underscored /\ old \notin DOMAIN NamePart /\ old \notin WeakList
  <2>1. old \in Olds
    BY MapIs DEF Olds, FMap
  <2> QED
    BY <2>1, ChangedAssumption
<1> HIDE DEF r, old, new
<1>4. old \notin ExtPattern /\ \A g \in ExtPattern : NamePart[g] # old
  BY <1>3 DEF ExtPattern
<1>5. ASSUME old \in DOMAIN m.fns PROVE FnOK(9, l, m.fns[old], new) /\ m.fns[old].inline # "always"
  <2>1. FnOK(9, l, m.fns[old], old)
    BY <1>5 DEF FnsOK
  <2> QED
    BY <1>3, <1>4, <2>1 DEF FnOK
<1>6. ASSUME NEW g \in DOMAIN r.fns
      PROVE  /\ FnOK(9, l, r.fns[g], g)
             /\ r.fns[g].inline = "always" => NamePart[g] \in DOMAIN r.fns
  <2>1. CASE g = new /\ old \in DOMAIN m.fns /\ r.fns[g] = m.fns[old]
    BY <1>5, <2>1
  <2>2. CASE g \in DOMAIN m.fns /\ r.fns[g] = m.fns[g]
    <3>1. FnOK(9, l, m.fns[g], g)
      BY <2>2 DEF FnsOK
    <3>2. ASSUME m.fns[g].inline = "always" PROVE NamePart[g] \in DOMAIN r.fns
      <4>1. NamePart[g] \in DOMAIN m.fns
        BY <2>2, <3>2 DEF FnsOK, InlineOK
      <4>2. g \in ExtPattern
        BY <3>1, <3>2 DEF FnOK
      <4>3. Swap(NamePart[g], old, new) = NamePart[g]
        BY <1>4, <4>2 DEF Swap
      <4> QED
        BY <1>2, <4>1, <4>3
    <3> QED
      BY <2>2, <3>1, <3>2
  <2> QED
    BY <1>1, <2>1, <2>2
<1>7. FnsOK(9, l, r)
  BY <1>6 DEF FnsOK, InlineOK
<1> QED
  BY <1>1, <1>7 DEF r

(* The whole table.                                                        *)
LEMMA FuncNCGives ==
  ASSUME NEW was, CallsIn(was), NEW flags, NEW m, At(0, m, was, flags), NEW l, FnsOK(9, l, m)
  PROVE  LET r == FuncNC(m).mod
         IN  At(Len(FMap), r, was, flags) /\ FnsOK(9, l, r)
<1> DEFINE n == Len(FMap)
           after == Renaming(m, n)
           Good(r, i) == At(i, r, was, flags) /\ FnsOK(9, l, r)
           K == {i \in Nat : i <= n => Good(after[i], i)}
<1>1. n \in Nat
  BY MapIs
<1>2. after = [i \in 0 .. n |-> IF i = 0 THEN m ELSE RenameOne(after[i - 1], FMap[i])]
  BY <1>1, RenamingIs
<1> HIDE DEF after
<1>3. 0 \in K
  <2>1. after[0] = m
    BY <1>1, <1>2
  <2>2. Good(m, 0)
    OBVIOUS
  <2> HIDE DEF Good
  <2> QED
    BY <2>1, <2>2
<1>4. ASSUME NEW i \in K PROVE i + 1 \in K
  <2> SUFFICES ASSUME i + 1 <= n PROVE Good(after[i + 1], i + 1)
    OBVIOUS
  <2>1. i + 1 \in 1 .. n /\ (i + 1) - 1 = i /\ i <= n
    BY <1>1
  <2>2. Good(after[i], i)
    BY <2>1
  <2>3. after[i + 1] = RenameOne(after[i], FMap[i + 1])
    BY <1>2, <2>1
  <2> HIDE DEF n
  <2>4. Good(RenameOne(after[i], FMap[i + 1]), i + 1)
    BY <2>1, <2>2, RenameOneKeeps DEF n
  <2> HIDE DEF Good
  <2> QED
    BY <2>3, <2>4
<1>5. K \in SUBSET Nat
  OBVIOUS
<1> HIDE DEF K
<1>6. n \in K
  BY <1>1, <1>3, <1>4, <1>5, Counting
<1>7. Good(after[n], n)
  BY <1>1, <1>6 DEF K
<1>8. FuncNC(m).mod = after[n]
  <2>1. FuncNC(m) = Ok(after[n])
    BY DEF FuncNC, Renaming, FMap, after
  <2> QED
    BY <2>1 DEF Ok
<1> HIDE DEF Good
<1>9. Good(FuncNC(m).mod, n)
  BY <1>7, <1>8
<1> QED
  BY <1>9 DEF Good

-----------------------------------------------------------------------------
(* The passes.                                                             *)

FlagFields == {"reg", "stores", "loads"}

FlagsOK(m, was) ==
  \A a \in DOMAIN m.flags :
    /\ DOMAIN m.flags[a] = FlagFields
    /\ m.flags[a].loads # {} => m.flags[a].stores = was.flags[a].stores

AtNow(k) == IF k < 10 THEN 0 ELSE Len(FMap)

(* The module that the stages up to k made of a lifted one.                *)
ModuleOK(k, m, was, l) ==
  /\ At(AtNow(k), m, was, m.flags)
  /\ FlagsOK(m, was)
  /\ FnsOK(k, l, m)

LEMMA LiftedOK ==
  ASSUME NEW p \in Programs, NEW l
  PROVE  CallsIn(Lifted[p]) /\ ModuleOK(3, Lifted[p], Lifted[p], l)
<1> DEFINE m == Lifted[p]
<1>1. /\ DOMAIN m = ModuleFields
      /\ \A g \in DOMAIN m.fns : m.fns[g] \in FnRecord
      /\ CallsIn(m)
      /\ \A a \in DOMAIN m.flags : m.flags[a] \in FlagRecord
  BY LiftedAssumption DEF ModuleFields, CallsIn
<1> HIDE DEF m
<1>2. 0 \in 0 .. Len(FMap) /\ \A g : NowAt(0, g) = g
  BY MapIs, NowStays
<1>3. NamesAt(0, m) = DOMAIN m.fns
  BY <1>2 DEF NamesAt
<1>4. CallsAt(0, m) = m.calls
  <2>1. GoneAt(0, m) = {}
    BY DEF GoneAt
  <2>2. \A c \in m.calls : ACall(c.from, c.to, c.cc) = c
    BY <1>1 DEF CallsIn, ACall
  <2> QED
    BY <1>2, <2>1, <2>2 DEF CallsAt
<1>5. At(AtNow(3), m, m, m.flags)
  BY <1>1, <1>3, <1>4 DEF At, AtNow
<1>6. FlagsOK(m, m)
  BY <1>1 DEF FlagsOK, FlagRecord, FlagFields
<1>7. ASSUME NEW g \in DOMAIN m.fns PROVE FnOK(3, l, m.fns[g], g) /\ m.fns[g].inline # "always"
  <2>1. m.fns[g] \in FnRecord
    BY <1>1
  <2> QED
    BY <2>1 DEF FnOK, FnRecord, FnFields
<1>8. FnsOK(3, l, m)
  BY <1>7 DEF FnsOK, InlineOK
<1> QED
  BY <1>1, <1>5, <1>6, <1>8 DEF ModuleOK, m

(* A pass that changes what is recorded of the functions only.             *)
LEMMA FnsChanged ==
  ASSUME NEW k \in 4 .. 16, k # 10, NEW m, NEW was, NEW l, ModuleOK(k - 1, m, was, l),
         NEW r, DOMAIN r = ModuleFields, r.flags = m.flags, r.calls = m.calls,
         DOMAIN r.fns = DOMAIN m.fns, NEW l2, FnsOK(k, l2, r)
  PROVE  ModuleOK(k, r, was, l2)
<1>1. AtNow(k) = AtNow(k - 1)
  BY DEF AtNow
<1>2. At(AtNow(k), r, was, r.flags)
  BY <1>1 DEF ModuleOK, At
<1>3. FlagsOK(r, was)
  BY DEF ModuleOK, FlagsOK
<1> QED
  BY <1>2, <1>3 DEF ModuleOK

LEMMA FnsStay ==
  ASSUME NEW k \in 4 .. 16, k \notin {9, 14}, NEW j, j = k - 1,
         NEW l, NEW l2, l2 => l, NEW m, FnsOK(j, l, m)
  PROVE  FnsOK(k, l2, m)
<1>1. ASSUME NEW g \in DOMAIN m.fns PROVE FnOK(k, l2, m.fns[g], g)
  <2>1. FnOK(j, l, m.fns[g], g)
    BY DEF FnsOK
  <2>2. k >= 9 => j >= 9
    OBVIOUS
  <2>3. k >= 14 => j >= 14
    OBVIOUS
  <2> QED
    BY <2>1, <2>2, <2>3 DEF FnOK
<1> QED
  BY <1>1 DEF FnsOK

LEMMA ModuleStays ==
  ASSUME NEW k \in 4 .. 16, k \notin {9, 10, 14}, NEW m, NEW was, NEW l,
         ModuleOK(k - 1, m, was, l), NEW l2, l2 => l
  PROVE  ModuleOK(k, m, was, l2)
<1>1. DOMAIN m = ModuleFields /\ FnsOK(k, l2, m)
  BY FnsStay DEF ModuleOK, At
<1> QED
  BY <1>1, FnsChanged

LEMMA FlagOPTOK ==
  ASSUME NEW m, NEW was, NEW l, ModuleOK(3, m, was, l), NEW l2, l2 => l
  PROVE  ModuleOK(4, FlagOPT(m).mod, was, l2)
<1> DEFINE r == FlagOPT(m).mod
           Kept(a) == IF m.flags[a].reg \in FlagRegisters /\ m.flags[a].loads = {}
                      THEN [m.flags[a] EXCEPT !.stores = {}] ELSE m.flags[a]
<1>1. DOMAIN m = ModuleFields
  BY DEF ModuleOK, At
<1>2. r = [m EXCEPT !.flags = [a \in DOMAIN @ |-> Kept(a)]]
  BY DEF FlagOPT, Ok
<1> HIDE DEF Kept
<1>3. /\ DOMAIN r = ModuleFields /\ r.fns = m.fns /\ r.calls = m.calls
      /\ r.flags = [a \in DOMAIN m.flags |-> Kept(a)]
  BY <1>1, <1>2 DEF ModuleFields
<1> HIDE DEF r
<1>4. ASSUME NEW a \in DOMAIN m.flags
      PROVE  /\ DOMAIN Kept(a) = FlagFields
             /\ Kept(a).loads # {} => Kept(a).stores = was.flags[a].stores
  <2>1. /\ DOMAIN m.flags[a] = FlagFields
        /\ m.flags[a].loads # {} => m.flags[a].stores = was.flags[a].stores
    BY DEF ModuleOK, FlagsOK
  <2>2. CASE m.flags[a].reg \in FlagRegisters /\ m.flags[a].loads = {}
    <3>1. Kept(a) = [m.flags[a] EXCEPT !.stores = {}]
      BY <2>2 DEF Kept
    <3> QED
      BY <2>1, <2>2, <3>1 DEF FlagFields
  <2>3. CASE ~(m.flags[a].reg \in FlagRegisters /\ m.flags[a].loads = {})
    <3>1. Kept(a) = m.flags[a]
      BY <2>3 DEF Kept
    <3> QED
      BY <2>1, <3>1
  <2> QED
    BY <2>2, <2>3
<1>5. FlagsOK(r, was)
  BY <1>3, <1>4 DEF FlagsOK
<1>6. FnsOK(4, l2, r)
  <2>1. FnsOK(4, l2, m)
    <3>1. FnsOK(3, l, m) /\ 3 = 4 - 1 /\ 4 \in 4 .. 16 /\ 4 \notin {9, 14}
      BY DEF ModuleOK
    <3> QED
      BY <3>1, FnsStay
  <2> QED
    BY <1>3, <2>1 DEF FnsOK, InlineOK
<1>7. At(AtNow(4), r, was, r.flags)
  BY <1>3 DEF ModuleOK, At, AtNow
<1> QED
  BY <1>5, <1>6, <1>7 DEF ModuleOK, r

LEMMA EXTInlineOK ==
  ASSUME NEW m, NEW was, NEW l, ModuleOK(4, m, was, l), NEW l2, l2 => l
  PROVE  ModuleOK(5, EXTInline(m).mod, was, l2)
<1> DEFINE r == EXTInline(m).mod
           ToInline(f) == f \in ExtPattern /\ NamePart[f] \in DOMAIN m.fns /\ ~m.fns[NamePart[f]].vararg
           Now(f) == IF ToInline(f) THEN [m.fns[f] EXCEPT !.inline = "always"] ELSE m.fns[f]
<1>1. DOMAIN m = ModuleFields /\ FnsOK(4, l, m)
  BY DEF ModuleOK, At
<1>2. r = [m EXCEPT !.fns = [f \in DOMAIN @ |-> Now(f)]]
  BY DEF EXTInline, Ok
<1> HIDE DEF Now
<1>3. /\ DOMAIN r = ModuleFields /\ r.flags = m.flags /\ r.calls = m.calls
      /\ r.fns = [f \in DOMAIN m.fns |-> Now(f)]
  BY <1>1, <1>2 DEF ModuleFields
<1> HIDE DEF r
<1>4. ASSUME NEW g \in DOMAIN m.fns
      PROVE  FnOK(5, l2, Now(g), g) /\ (Now(g).inline = "always" => NamePart[g] \in DOMAIN m.fns)
  <2>1. /\ FnOK(4, l, m.fns[g], g)
        /\ m.fns[g].inline = "always" => NamePart[g] \in DOMAIN m.fns
    BY <1>1 DEF FnsOK, InlineOK
  <2>2. CASE ToInline(g)
    <3>1. Now(g) = [m.fns[g] EXCEPT !.inline = "always"]
      BY <2>2 DEF Now
    <3> QED
      BY <2>1, <2>2, <3>1 DEF FnOK, FnFields
  <2>3. CASE ~ToInline(g)
    <3>1. Now(g) = m.fns[g]
      BY <2>3 DEF Now
    <3> QED
      BY <2>1, <3>1 DEF FnOK
  <2> QED
    BY <2>2, <2>3
<1>5. FnsOK(5, l2, r)
  BY <1>3, <1>4 DEF FnsOK, InlineOK
<1>6. 5 - 1 = 4 /\ 5 \in 4 .. 16
  OBVIOUS
<1>7. ModuleOK(5, r, was, l2)
  BY <1>3, <1>5, <1>6, FnsChanged
<1> QED
  BY <1>7 DEF r

LEMMA CheckLinkerOK ==
  ASSUME NEW m, NEW was, NEW l, ModuleOK(8, m, was, l), NEW readable, NEW l2,
         l2 => l, l2 => readable
  PROVE  ModuleOK(9, CheckLinker(m, readable).mod, was, l2)
<1> DEFINE r == CheckLinker(m, readable).mod
           Now(f) == IF m.fns[f].linkage = "weak" /\ f \notin WeakList
                     THEN [m.fns[f] EXCEPT !.linkage = "external"] ELSE m.fns[f]
<1>1. DOMAIN m = ModuleFields /\ FnsOK(8, l, m)
  BY DEF ModuleOK, At
<1>2. r = IF ~readable THEN m ELSE [m EXCEPT !.fns = [f \in DOMAIN @ |-> Now(f)]]
  BY DEF CheckLinker, Ok
<1> HIDE DEF Now
<1>3. /\ DOMAIN r = ModuleFields /\ r.flags = m.flags /\ r.calls = m.calls
      /\ DOMAIN r.fns = DOMAIN m.fns
      /\ \A f \in DOMAIN m.fns : r.fns[f] = IF ~readable THEN m.fns[f] ELSE Now(f)
  <2>1. CASE readable
    <3>1. r = [m EXCEPT !.fns = [f \in DOMAIN @ |-> Now(f)]]
      BY <1>2, <2>1
    <3>2. /\ DOMAIN r = ModuleFields /\ r.flags = m.flags /\ r.calls = m.calls
          /\ r.fns = [f \in DOMAIN m.fns |-> Now(f)]
      BY <1>1, <3>1 DEF ModuleFields
    <3> QED
      BY <2>1, <3>2
  <2>2. CASE ~readable
    <3>1. r = m
      BY <1>2, <2>2
    <3> QED
      BY <1>1, <2>2, <3>1
  <2> QED
    BY <2>1, <2>2
<1> HIDE DEF r
<1>4. ASSUME NEW g \in DOMAIN m.fns
      PROVE  FnOK(9, l2, r.fns[g], g) /\ (r.fns[g].inline = "always" => NamePart[g] \in DOMAIN m.fns)
  <2>1. /\ FnOK(8, l, m.fns[g], g)
        /\ m.fns[g].inline = "always" => NamePart[g] \in DOMAIN m.fns
    BY <1>1 DEF FnsOK, InlineOK
  <2>2. CASE readable /\ m.fns[g].linkage = "weak" /\ g \notin WeakList
    <3>1. r.fns[g] = [m.fns[g] EXCEPT !.linkage = "external"]
      BY <1>3, <2>2 DEF Now
    <3> QED
      BY <2>1, <3>1 DEF FnOK, FnFields
  <2>3. CASE ~(readable /\ m.fns[g].linkage = "weak" /\ g \notin WeakList)
    <3>1. r.fns[g] = m.fns[g]
      BY <1>3, <2>3 DEF Now
    <3> QED
      BY <2>1, <2>3, <3>1 DEF FnOK
  <2> QED
    BY <2>2, <2>3
<1>5. FnsOK(9, l2, r)
  BY <1>3, <1>4 DEF FnsOK, InlineOK
<1>6. 9 - 1 = 8 /\ 9 \in 4 .. 16
  OBVIOUS
<1>7. ModuleOK(9, r, was, l2)
  BY <1>3, <1>5, <1>6, FnsChanged
<1> QED
  BY <1>7 DEF r

LEMMA FuncNCOK ==
  ASSUME NEW m, NEW was, CallsIn(was), NEW l, ModuleOK(9, m, was, l), NEW l2, l2 => l
  PROVE  ModuleOK(10, FuncNC(m).mod, was, l2)
<1> DEFINE r == FuncNC(m).mod
<1>1. At(0, m, was, m.flags) /\ FnsOK(9, l, m) /\ FlagsOK(m, was)
  BY DEF ModuleOK, AtNow
<1>2. At(Len(FMap), r, was, m.flags) /\ FnsOK(9, l, r)
  BY <1>1, FuncNCGives
<1> HIDE DEF r
<1>3. At(AtNow(10), r, was, r.flags) /\ r.flags = m.flags
  BY <1>2 DEF At, AtNow
<1>4. FnsOK(10, l2, r)
  <2>1. 9 = 10 - 1 /\ 10 \in 4 .. 16 /\ 10 \notin {9, 14}
    OBVIOUS
  <2> QED
    BY <1>2, <2>1, FnsStay
<1>5. FlagsOK(r, was)
  BY <1>1, <1>3 DEF FlagsOK
<1> QED
  BY <1>3, <1>4, <1>5 DEF ModuleOK, r

LEMMA EEPFCOK ==
  ASSUME NEW m, NEW was, NEW l, ModuleOK(10, m, was, l), NEW readable, NEW l2, l2 => l,
         EEPFC(m, readable).kind = "ok"
  PROVE  ModuleOK(11, EEPFC(m, readable).mod, was, l2)
<1> DEFINE r == EEPFC(m, readable).mod
<1>1. DOMAIN m = ModuleFields
  BY DEF ModuleOK, At
<1>2. \/ r = m
      \/ \E lower : r = [m EXCEPT !.lower = lower]
  BY DEF EEPFC, Ok, Crash, Hang
<1>3. /\ DOMAIN r = ModuleFields /\ r.flags = m.flags /\ r.calls = m.calls /\ r.fns = m.fns
  BY <1>1, <1>2 DEF ModuleFields
<1> HIDE DEF r
<1>4. FnsOK(11, l2, r)
  <2>1. FnsOK(10, l, m) /\ 10 = 11 - 1 /\ 11 \in 4 .. 16 /\ 11 \notin {9, 14}
    BY DEF ModuleOK
  <2>2. FnsOK(11, l2, m)
    BY <2>1, FnsStay
  <2> QED
    BY <1>3, <2>2 DEF FnsOK, InlineOK
<1>5. 11 - 1 = 10 /\ 11 \in 4 .. 16
  OBVIOUS
<1>6. ModuleOK(11, r, was, l2)
  BY <1>3, <1>4, <1>5, FnsChanged
<1> QED
  BY <1>6 DEF r

LEMMA ChangeCCOK ==
  ASSUME NEW m, NEW was, NEW l, ModuleOK(13, m, was, l), NEW l2, l2 => l
  PROVE  ModuleOK(14, ChangeCC(m).mod, was, l2)
<1> DEFINE r == ChangeCC(m).mod
           Now(f) == IF m.fns[f].cc = "sysv" THEN [m.fns[f] EXCEPT !.cc = "C"] ELSE m.fns[f]
<1>1. DOMAIN m = ModuleFields /\ FnsOK(13, l, m)
  BY DEF ModuleOK, At
<1>2. r = [m EXCEPT !.fns = [f \in DOMAIN @ |-> Now(f)]]
  BY DEF ChangeCC, Ok
<1> HIDE DEF Now
<1>3. /\ DOMAIN r = ModuleFields /\ r.flags = m.flags /\ r.calls = m.calls
      /\ r.fns = [f \in DOMAIN m.fns |-> Now(f)]
  BY <1>1, <1>2 DEF ModuleFields
<1> HIDE DEF r
<1>4. ASSUME NEW g \in DOMAIN m.fns
      PROVE  FnOK(14, l2, Now(g), g) /\ (Now(g).inline = "always" => NamePart[g] \in DOMAIN m.fns)
  <2>1. /\ FnOK(13, l, m.fns[g], g)
        /\ m.fns[g].inline = "always" => NamePart[g] \in DOMAIN m.fns
    BY <1>1 DEF FnsOK, InlineOK
  <2>2. CASE m.fns[g].cc = "sysv"
    <3>1. Now(g) = [m.fns[g] EXCEPT !.cc = "C"]
      BY <2>2 DEF Now
    <3> QED
      BY <2>1, <3>1 DEF FnOK, FnFields
  <2>3. CASE m.fns[g].cc # "sysv"
    <3>1. Now(g) = m.fns[g]
      BY <2>3 DEF Now
    <3> QED
      BY <2>1, <2>3, <3>1 DEF FnOK
  <2> QED
    BY <2>2, <2>3
<1>5. FnsOK(14, l2, r)
  BY <1>3, <1>4 DEF FnsOK, InlineOK
<1>6. 14 - 1 = 13 /\ 14 \in 4 .. 16
  OBVIOUS
<1>7. ModuleOK(14, r, was, l2)
  BY <1>3, <1>5, <1>6, FnsChanged
<1> QED
  BY <1>7 DEF r

(* A pass that does its work.                                              *)
LEMMA PassKeepsModule ==
  ASSUME NEW k \in 4 .. 14, NEW m, NEW was, CallsIn(was), NEW l, ModuleOK(k - 1, m, was, l),
         NEW readable, RunPass(Stages[k], m, readable).kind = "ok",
         NEW l2, l2 => l, l2 => readable
  PROVE  ModuleOK(k, RunPass(Stages[k], m, readable).mod, was, l2)
<1>1. CASE k = 4
  <2>1. RunPass(Stages[k], m, readable) = FlagOPT(m)
    BY <1>1, StagesAre DEF RunPass
  <2> QED
    BY <1>1, <2>1, FlagOPTOK
<1>2. CASE k = 5
  <2>1. RunPass(Stages[k], m, readable) = EXTInline(m)
    BY <1>2, StagesAre DEF RunPass
  <2> QED
    BY <1>2, <2>1, EXTInlineOK
<1>3. CASE k = 9
  <2>1. RunPass(Stages[k], m, readable) = CheckLinker(m, readable)
    BY <1>3, StagesAre DEF RunPass
  <2>2. ModuleOK(8, m, was, l)
    BY <1>3
  <2>3. ModuleOK(9, CheckLinker(m, readable).mod, was, l2)
    BY <2>2, CheckLinkerOK
  <2> QED
    BY <1>3, <2>1, <2>3
<1>4. CASE k = 10
  <2>1. RunPass(Stages[k], m, readable) = FuncNC(m)
    BY <1>4, StagesAre DEF RunPass
  <2> QED
    BY <1>4, <2>1, FuncNCOK
<1>5. CASE k = 11
  <2>1. RunPass(Stages[k], m, readable) = EEPFC(m, readable)
    BY <1>5, StagesAre DEF RunPass
  <2> QED
    BY <1>5, <2>1, EEPFCOK
<1>6. CASE k = 14
  <2>1. RunPass(Stages[k], m, readable) = ChangeCC(m)
    BY <1>6, StagesAre DEF RunPass
  <2> QED
    BY <1>6, <2>1, ChangeCCOK
<1>7. CASE k \in {6, 7, 8, 12, 13}
  <2>1. RunPass(Stages[k], m, readable) = Ok(m)
    BY <1>7, StagesAre DEF RunPass
  <2>2. RunPass(Stages[k], m, readable).mod = m
    BY <2>1 DEF Ok
  <2>3. ModuleOK(k, m, was, l2)
    BY <1>7, ModuleStays
  <2> QED
    BY <2>2, <2>3
<1> QED
  BY <1>1, <1>2, <1>3, <1>4, <1>5, <1>6, <1>7

(* Every file is made from a program, and the lifter's and what follows    *)
(* hold what the stages so far made of that program's lifted module.       *)
FileModule(k) ==
  LET f == files[Stages[k]]
  IN  f # Absent =>
        /\ f.of \in Programs
        /\ k >= 3 => ModuleOK(k, f.mod, Lifted[f.of], f.lists)

ModulesInv == program \in Programs /\ \A k \in 1 .. 16 : FileModule(k)

LEMMA InputModule ==
  ASSUME StagesInv, ModulesInv, NEW k \in 4 .. 16, stage = k
  PROVE  LET in == files[InputOf(Stages[k])] IN
         /\ in.of \in Programs
         /\ ModuleOK(k - 1, in.mod, Lifted[in.of], in.lists)
<1>1. k - 1 \in 1 .. 16 /\ k - 1 >= 3 /\ k - 1 < stage
  OBVIOUS
<1>2. files[Stages[k - 1]].made = TRUE
  BY <1>1 DEF StagesInv
<1>3. files[Stages[k - 1]] # Absent
  BY <1>2 DEF Absent
<1>4. FileModule(k - 1)
  BY <1>1 DEF ModulesInv
<1>5. files[InputOf(Stages[k])] = files[Stages[k - 1]]
  BY InputIs
<1> QED
  BY <1>1, <1>3, <1>4, <1>5 DEF FileModule

LEMMA WrittenModule ==
  ASSUME StagesInv, ModulesInv, NEW k \in 1 .. 16, stage = k, Outcome(Stages[k]).kind = "ok"
  PROVE  LET w == Written(Stages[k]) IN
         /\ w.of \in Programs
         /\ k >= 3 => ModuleOK(k, w.mod, Lifted[w.of], w.lists)
<1> DEFINE w == Written(Stages[k])
           in == files[InputOf(Stages[k])]
<1>1. CASE k = 1 \/ k = 2
  <2>1. w = Made(program, program, << >>, NoModule)
    BY <1>1, StagesAre, PassesStages DEF Written
  <2> QED
    BY <1>1, <2>1 DEF Made, ModulesInv
<1>2. CASE k = 3
  <2>1. w = Made(in.of, files["EFACT"].of, << >>, Lifted[in.of])
    BY <1>2, StagesAre, PassesStages DEF Written
  <2>2. in = files[Stages[2]]
    BY <1>2, StagesAre, PassesStages DEF InputOf
  <2>3. files[Stages[2]].made = TRUE /\ FileModule(2)
    BY <1>2 DEF StagesInv, ModulesInv
  <2>4. in.of \in Programs
    BY <2>2, <2>3 DEF FileModule, Absent
  <2> HIDE DEF in, w
  <2>5. w.of = in.of /\ w.mod = Lifted[in.of]
    BY <2>1 DEF Made
  <2>6. ModuleOK(3, Lifted[in.of], Lifted[in.of], w.lists)
    BY <2>4, LiftedOK
  <2> QED
    BY <1>2, <2>4, <2>5, <2>6 DEF w
<1>3. CASE k \in 4 .. 14
  <2>1. in.of \in Programs /\ ModuleOK(k - 1, in.mod, Lifted[in.of], in.lists)
    BY <1>3, InputModule
  <2>2. DOMAIN in = Shape
    <3>1. k \in 4 .. 16
      BY <1>3
    <3> QED
      BY <3>1, InputIs
  <2>3. IsPass(Stages[k])
    BY <1>3, PassesStages
  <2>4. in = files[current_input] /\ Outcome(Stages[k]) = RunPass(Stages[k], in.mod, lists)
    <3>1. InputOf(Stages[k]) = current_input
      BY <1>3, <2>3, StagesAre DEF InputOf
    <3>2. Outcome(Stages[k]) = RunPass(Stages[k], files[current_input].mod, lists)
      BY <2>3 DEF Outcome
    <3> QED
      BY <3>1, <3>2
  <2>5. w = [in EXCEPT !.done = Append(@, Stages[k]), !.mod = Outcome(Stages[k]).mod,
                       !.lists = @ /\ lists]
    BY <1>3, <2>3, StagesAre DEF Written
  <2> HIDE DEF in, w
  <2>6. w.of = in.of /\ w.mod = Outcome(Stages[k]).mod /\ w.lists = (in.lists /\ lists)
    BY <2>2, <2>5 DEF Shape
  <2>7. CallsIn(Lifted[in.of])
    BY <2>1, LiftedOK
  <2>8. (w.lists => in.lists) /\ (w.lists => lists)
    BY <2>6
  <2>9. ModuleOK(k, RunPass(Stages[k], in.mod, lists).mod, Lifted[in.of], w.lists)
    BY <1>3, <2>1, <2>4, <2>7, <2>8, PassKeepsModule
  <2> QED
    BY <2>1, <2>4, <2>6, <2>9 DEF w
<1>4. CASE k \in {15, 16}
  <2>1. in.of \in Programs /\ ModuleOK(k - 1, in.mod, Lifted[in.of], in.lists)
    BY <1>4, InputModule
  <2>2. DOMAIN in = Shape
    <3>1. k \in 4 .. 16
      BY <1>4
    <3> QED
      BY <3>1, InputIs
  <2>3. w = [in EXCEPT !.done = Append(@, Stages[k])]
    BY <1>4, StagesAre, PassesStages DEF Written
  <2> HIDE DEF in, w
  <2>4. w.of = in.of /\ w.mod = in.mod /\ w.lists = in.lists
    BY <2>2, <2>3 DEF Shape
  <2>5. ModuleOK(k, in.mod, Lifted[in.of], in.lists)
    BY <1>4, <2>1, ModuleStays
  <2> QED
    BY <2>1, <2>4, <2>5 DEF w
<1>5. k = 1 \/ k = 2 \/ k = 3 \/ k \in 4 .. 14 \/ k \in {15, 16}
  OBVIOUS
<1> QED
  BY <1>1, <1>2, <1>3, <1>4, <1>5

LEMMA ModulesInit == ScriptInit => ModulesInv
<1> SUFFICES ASSUME ScriptInit PROVE ModulesInv
  OBVIOUS
<1>1. \A k \in 1 .. 16 : files[Stages[k]] = Absent
  BY FilesAre DEF ScriptInit
<1> QED
  BY <1>1 DEF ScriptInit, ModulesInv, FileModule

LEMMA ModulesNext ==
  StagesInv /\ ModulesInv /\ [ScriptNext]_scriptVars => ModulesInv'
<1> SUFFICES ASSUME StagesInv, ModulesInv, [ScriptNext]_scriptVars PROVE ModulesInv'
  OBVIOUS
<1>1. ASSUME files' = files, program' \in Programs PROVE ModulesInv'
  BY <1>1 DEF ModulesInv, FileModule
<1>2. CASE Works
  <2>1. PICK k \in 1 .. 16 : stage = k /\ Stages[k] \in DOMAIN files
    BY <1>2, RunningAt DEF Works
  <2> DEFINE w == Written(Stages[k])
  <2>2. /\ files' = [files EXCEPT ![Stages[k]] = w] /\ program' = program
        /\ Outcome(Stages[k]).kind = "ok"
    BY <1>2, <2>1 DEF Works
  <2>3. /\ files'[Stages[k]] = w
        /\ \A j \in 1 .. 16 : j # k => files'[Stages[j]] = files[Stages[j]]
    BY <2>1, <2>2, StagesDistinct, FilesAre DEF StagesInv
  <2>4. w.of \in Programs /\ (k >= 3 => ModuleOK(k, w.mod, Lifted[w.of], w.lists))
    BY <2>1, <2>2, WrittenModule
  <2> HIDE DEF w
  <2>5. ASSUME NEW j \in 1 .. 16 PROVE FileModule(j)'
    <3>1. CASE j = k
      BY <2>3, <2>4, <3>1 DEF FileModule
    <3>2. CASE j # k
      <4>1. FileModule(j) /\ files'[Stages[j]] = files[Stages[j]]
        BY <2>3, <3>2 DEF ModulesInv
      <4> QED
        BY <4>1 DEF FileModule
    <3> QED
      BY <3>1, <3>2
  <2> QED
    BY <2>2, <2>5 DEF ModulesInv
<1>3. CASE Rebuild \/ Refuse \/ Start \/ Fails \/ Interrupt \/ Finish \/ UNCHANGED scriptVars
  <2>1. files' = files /\ program' \in Programs
    BY <1>3 DEF Rebuild, Refuse, Start, Fails, Interrupt, Finish, scriptVars, ModulesInv
  <2> QED
    BY <1>1, <2>1
<1> QED
  BY <1>2, <1>3 DEF ScriptNext

-----------------------------------------------------------------------------
(* What the last module is.                                                *)

LEMMA TheLast ==
  ASSUME StagesInv, ModulesInv, NEW f \in Finals
  PROVE  /\ f.of \in Programs
         /\ ModuleOK(16, f.mod, Lifted[f.of], f.lists)
<1>1. PICK k \in 1 .. 16 : f = files[Stages[k]] /\ f.made /\ f.done = FullChain
  BY FilesAre DEF Finals, Bitcodes
<1>2. f # Absent
  BY <1>1 DEF Absent
<1>3. Chain(k) = Chain(16)
  BY <1>1, <1>2, FullChainIs DEF StagesInv, FileOK
<1>4. k = 16
  <2>1. Chain(16) = [i \in 1 .. 13 |-> Stages[i + 3]]
    BY DEF Chain
  <2>2. DOMAIN Chain(16) = 1 .. 13 /\ DOMAIN Chain(k) = 1 .. (IF k < 4 THEN 0 ELSE k - 3)
    BY <2>1 DEF Chain
  <2>3. 13 \in DOMAIN Chain(16)
    BY <2>2
  <2>4. 13 \in DOMAIN Chain(k)
    BY <1>3, <2>3
  <2>5. 13 \in 1 .. (IF k < 4 THEN 0 ELSE k - 3)
    BY <2>2, <2>4
  <2> QED
    BY <2>5
<1>5. FileModule(16)
  BY DEF ModulesInv
<1> QED
  BY <1>1, <1>2, <1>4, <1>5 DEF FileModule

LEMMA FlagsKept == StagesInv /\ ModulesInv => ReadFlagsKept
<1> SUFFICES ASSUME StagesInv, ModulesInv, NEW f \in Bitcodes, NEW a \in DOMAIN f.mod.flags,
                    f.mod.flags[a].loads # {}
             PROVE  f.mod.flags[a].stores = Lifted[f.of].flags[a].stores
  BY DEF ReadFlagsKept
<1>1. PICK s \in StageFiles \ {"EFACT", "ida"} : f = files[s] /\ f.made
  BY DEF Bitcodes
<1>2. PICK k \in 1 .. 16 : s = Stages[k]
  BY FilesAre
<1>3. k >= 3
  BY <1>1, <1>2, StagesAre
<1>4. f # Absent /\ FileModule(k)
  BY <1>1 DEF Absent, ModulesInv
<1>5. ModuleOK(k, f.mod, Lifted[f.of], f.lists)
  BY <1>1, <1>2, <1>3, <1>4 DEF FileModule
<1> QED
  BY <1>5 DEF ModuleOK, FlagsOK

LEMMA LastCalls ==
  ASSUME StagesInv, ModulesInv, NEW f \in Finals
  PROVE  /\ CallsIn(Lifted[f.of])
         /\ DOMAIN f.mod.fns = NamesAt(Len(FMap), Lifted[f.of])
         /\ f.mod.calls = CallsAt(Len(FMap), Lifted[f.of])
         /\ FnsOK(16, f.lists, f.mod)
<1>1. f.of \in Programs /\ ModuleOK(16, f.mod, Lifted[f.of], f.lists)
  BY TheLast
<1>2. CallsIn(Lifted[f.of])
  BY <1>1, LiftedOK
<1> QED
  BY <1>1, <1>2 DEF ModuleOK, At, AtNow

LEMMA Matching == StagesInv /\ ModulesInv => CallsMatch
<1> SUFFICES ASSUME StagesInv, ModulesInv, NEW f \in Finals, NEW c \in f.mod.calls
             PROVE  {c.from, c.to} \subseteq DOMAIN f.mod.fns /\ c.cc = f.mod.fns[c.to].cc
  BY DEF CallsMatch
<1> DEFINE was == Lifted[f.of]
           n == Len(FMap)
<1>1. /\ CallsIn(was) /\ DOMAIN f.mod.fns = NamesAt(n, was)
      /\ f.mod.calls = CallsAt(n, was) /\ FnsOK(16, f.lists, f.mod)
  BY LastCalls
<1> HIDE DEF was, n
<1>2. PICK d \in was.calls : c = ACall(NowAt(n, d.from), NowAt(n, d.to), d.cc)
  BY <1>1 DEF CallsAt
<1>3. d.from \in DOMAIN was.fns /\ d.to \in DOMAIN was.fns /\ d.cc = "C"
  BY <1>1 DEF CallsIn
<1>4. c.from \in DOMAIN f.mod.fns /\ c.to \in DOMAIN f.mod.fns /\ c.cc = "C"
  BY <1>1, <1>2, <1>3 DEF NamesAt, ACall
<1>5. f.mod.fns[c.to].cc = "C"
  BY <1>1, <1>4 DEF FnsOK, FnOK
<1> QED
  BY <1>4, <1>5

LEMMA Doubles == StagesInv /\ ModulesInv => DoublesCalled
<1> DEFINE n == Len(FMap)
           Now(g) == IF g \notin Olds THEN g
                     ELSE FMap[CHOOSE i \in DOMAIN FMap : FMap[i][1] = g][2]
<1>1. n \in Nat /\ DOMAIN FMap = 1 .. n
  BY MapIs
<1>2. ASSUME NEW g PROVE Now(g) = NowAt(n, g)
  <2>1. g \in Olds <=> \E j \in 1 .. n : FMap[j][1] = g
    BY <1>1 DEF Olds, FMap
  <2>2. (CHOOSE i \in DOMAIN FMap : FMap[i][1] = g) = CHOOSE j \in 1 .. n : FMap[j][1] = g
    BY <1>1
  <2> QED
    <3> DEFINE place == CHOOSE i \in DOMAIN FMap : FMap[i][1] = g
    <3>1. Now(g) = IF g \notin Olds THEN g ELSE FMap[place][2]
      BY Zenon DEF Now
    <3>2. NowAt(n, g) = IF \E j \in 1 .. n : FMap[j][1] = g THEN FMap[place][2] ELSE g
      BY <2>2 DEF NowAt
    <3> HIDE DEF place, Now
    <3> QED
      BY <2>1, <3>1, <3>2
<1> HIDE DEF Now
<1>3. ASSUME StagesInv, ModulesInv, NEW f \in Finals
      PROVE  LET was == Lifted[f.of]
                 Gone == {FMap[i][2] : i \in {j \in DOMAIN FMap : FMap[j][1] \in DOMAIN was.fns}}
             IN  /\ DOMAIN f.mod.fns = {Now(g) : g \in DOMAIN was.fns}
                 /\ f.mod.calls = {[c EXCEPT !.from = Now(@), !.to = Now(@)] :
                                     c \in {d \in was.calls : d.from \notin Gone}}
  <2> DEFINE was == Lifted[f.of]
             Gone == {FMap[i][2] : i \in {j \in DOMAIN FMap : FMap[j][1] \in DOMAIN was.fns}}
             Moved(c) == [c EXCEPT !.from = Now(@), !.to = Now(@)]
             Left == {d \in was.calls : d.from \notin Gone}
  <2>1. /\ CallsIn(was) /\ DOMAIN f.mod.fns = NamesAt(n, was)
        /\ f.mod.calls = CallsAt(n, was)
    BY <1>3, LastCalls
  <2>2. Gone = GoneAt(n, was)
    BY <1>1 DEF GoneAt
  <2>3. ASSUME NEW c \in was.calls
        PROVE  Moved(c) = ACall(NowAt(n, c.from), NowAt(n, c.to), c.cc)
    <3>1. DOMAIN c = {"from", "to", "cc"}
      BY <2>1 DEF CallsIn
    <3>2. DOMAIN Moved(c) = DOMAIN c /\ Moved(c) = [x \in DOMAIN Moved(c) |-> Moved(c)[x]]
      OBVIOUS
    <3>3. /\ Moved(c).from = Now(c.from) /\ Moved(c).to = Now(c.to) /\ Moved(c).cc = c.cc
      BY <3>1
    <3> HIDE DEF Moved
    <3> QED
      BY <1>2, <3>1, <3>2, <3>3 DEF ACall
  <2> HIDE DEF was, Gone, Moved, n
  <2>4. DOMAIN f.mod.fns = {Now(g) : g \in DOMAIN was.fns}
    BY <1>2, <2>1 DEF NamesAt
  <2>5. f.mod.calls = {Moved(c) : c \in Left}
    BY <2>1, <2>2, <2>3 DEF CallsAt
  <2> QED
    BY <2>4, <2>5 DEF was, Gone, Moved
<1> QED
  BY <1>3 DEF DoublesCalled, Now, FMap

LEMMA Linkable == StagesInv /\ ModulesInv => SymbolsLinkable
<1> SUFFICES ASSUME StagesInv, ModulesInv, NEW f \in Finals
             PROVE  /\ f.lists => \A g \in DOMAIN f.mod.fns :
                         f.mod.fns[g].linkage = "weak" => g \in WeakList
                    /\ \A g \in DOMAIN f.mod.fns :
                         f.mod.fns[g].inline = "always" /\ g \in DOMAIN NamePart =>
                           NamePart[g] \in DOMAIN f.mod.fns
  BY DEF SymbolsLinkable
<1>1. FnsOK(16, f.lists, f.mod)
  BY LastCalls
<1> QED
  BY <1>1 DEF FnsOK, FnOK, InlineOK

(* Whatever program is lifted, and however the runs of the script went, a  *)
(* flag that is read keeps its stores, the calls of the last module are of *)
(* functions it has, under their own convention, a double took the name,   *)
(* the callers and nothing else of the function it replaces, and weak or   *)
(* inlined symbols can be linked.                                          *)
THEOREM PassesHoldTogether == ScriptSpec => []PassesAgree
<1>1. ScriptInit => ModulesInv
  BY ModulesInit
<1>2. StagesInv /\ ModulesInv /\ [ScriptNext]_scriptVars => ModulesInv'
  BY ModulesNext
<1>3. StagesInv /\ ModulesInv => PassesAgree
  BY FlagsKept, Matching, Doubles, Linkable DEF PassesAgree
<1> QED
  BY <1>1, <1>2, <1>3, StagesHold, PTL DEF ScriptSpec

-----------------------------------------------------------------------------
(* The calls of variadic functions.                                        *)

(* A nonempty set of positions has a last one.                             *)
LEMMA LastPosition ==
  ASSUME NEW n \in Nat, NEW I, I \subseteq 1 .. n, I # {}
  PROVE  Max(I) \in I /\ \A i \in I : i <= Max(I)
<1> DEFINE K == {k \in Nat : \A i \in I : i <= k}
<1>1. K \subseteq Nat /\ n \in K
  OBVIOUS
<1>2. PICK k \in K : \A j \in K : ~(<<j, k>> \in OpToRel(<, Nat))
  BY <1>1, NatLessThanWellFounded, WFMin
<1>3. \A j \in K : ~(j < k)
  BY <1>2 DEF OpToRel
<1>4. k \in Nat /\ \A i \in I : i <= k
  BY <1>2
<1>7. \A i \in I : i \in Nat /\ i >= 1
  OBVIOUS
<1>5. k \in I
  <2> SUFFICES ASSUME k \notin I PROVE FALSE
    OBVIOUS
  <2>1. \A i \in I : i <= k - 1
    BY <1>4, <1>7
  <2>2. PICK i \in I : i \in Nat /\ i >= 1 /\ i <= k
    BY <1>4, <1>7
  <2>3. k - 1 \in Nat /\ k - 1 < k
    BY <1>4, <2>2
  <2> QED
    BY <1>3, <2>1, <2>3
<1>6. \E m \in I : \A i \in I : m >= i
  BY <1>4, <1>5, <1>7
<1> QED
  BY <1>4, <1>6 DEF Max

(* The last position of a sequence that passes a test.                     *)
LEMMA StarterIs ==
  ASSUME NEW t, NEW s, s = stack[t], Len(s) \in Nat, Starter(t) # 0
  PROVE  /\ Starter(t) \in 1 .. Len(s) /\ Starts(s[Starter(t)].function)
         /\ \A i \in 1 .. Len(s) : Starts(s[i].function) => i <= Starter(t)
<1> DEFINE I == {i \in 1 .. Len(s) : Starts(s[i].function)}
<1>1. Starter(t) = IF I # {} THEN Max(I) ELSE 0
  BY DEF Starter, SelectLastInSeq
<1>2. I # {} /\ Starter(t) = Max(I)
  BY <1>1
<1>3. Max(I) \in I /\ \A i \in I : i <= Max(I)
  BY <1>2, LastPosition
<1> QED
  BY <1>2, <1>3

(* What State has of a register is one of its whole aliases, if nothing    *)
(* else with one was met.                                                  *)
LEMMA StateIs ==
  ASSUME mod \in Modules, NEW known,
         \A i \in DOMAIN mod.aliases :
           mod.aliases[i].register \in known \ Registers => ~IsWhole(mod.aliases[i]),
         NEW r \in Registers, WholeOffsets[r] # {}
  PROVE  /\ r \in DOMAIN State(mod.aliases, known)
         /\ State(mod.aliases, known)[r] \in WholeOffsets[r]
<1> DEFINE aliases == mod.aliases
           n == Len(aliases)
           I == {i \in 1 .. n : aliases[i].register = r /\ IsWhole(aliases[i])}
           names(q) == IF q = "RDI" THEN {q} \cup (known \ Registers) ELSE {q}
           LastOf(q) == SelectLastInSeq(aliases, LAMBDA a : a.register \in names(q) /\ IsWhole(a))
<1>1. n \in Nat /\ DOMAIN aliases = 1 .. n
  BY ModulesAssumption DEF WellFormed
<1>2. WholeOffsets[r] = {aliases[i].offset : i \in I}
  BY <1>1 DEF WholeOffsets
<1>3. I # {}
  BY <1>2
<1>4. \A i \in 1 .. n : IsWhole(aliases[i]) => (aliases[i].register \in names(r) <=> aliases[i].register = r)
  BY <1>1
<1>5. LastOf(r) = Max(I)
  <2>1. {i \in 1 .. n : aliases[i].register \in names(r) /\ IsWhole(aliases[i])} = I
    <3> HIDE DEF names
    <3> QED
      BY <1>4
  <2> QED
    BY <1>3, <2>1 DEF SelectLastInSeq
<1>6. Max(I) \in I
  BY <1>1, <1>3, LastPosition
<1>7. State(aliases, known) = [q \in {p \in Registers : LastOf(p) # 0} |-> aliases[LastOf(q)].offset]
  BY DEF State
<1> HIDE DEF LastOf
<1>8. LastOf(r) \in I
  BY <1>5, <1>6
<1>9. LastOf(r) # 0 /\ aliases[LastOf(r)].offset \in WholeOffsets[r]
  BY <1>1, <1>2, <1>8
<1> QED
  BY <1>7, <1>9

-----------------------------------------------------------------------------
(* One thread's stack.                                                     *)

Frames == [function : mod.functions, call : ThreadIds \X Nat, fresh : BOOLEAN]

(* On a stack s, with the globals saved for the call c and before the uses *)
(* in S: fresh is who was called last with a save, and in a flat program   *)
(* every function but the outermost was called by the one below it, lies   *)
(* under what that one called, and is fresh if it starts a va_list and its *)
(* uses are in S.                                                          *)
Linked(s, S) ==
  \A i \in 1 .. Len(s) - 1 :
    /\ \E u \in mod.uses : u.in = s[i].function /\ u.to = s[i + 1].function
    /\ Starts(s[i + 1].function) /\ UsesOf(s[i + 1].function) \subseteq S => s[i + 1].fresh
    /\ \A j \in i + 1 .. Len(s) : s[j].function \in Under(s[i + 1].function)
StackOf(s, c, S) ==
  /\ s \in Seq(Frames)
  /\ Len(s) > 0 => s[1].function = "main"
  /\ \A i \in 1 .. Len(s) : s[i].fresh => c = s[i].call
  /\ Flat => Linked(s, S)

LEMMA UnderIs ==
  /\ \A f \in mod.functions : f \in Under(f)
  /\ \A f, g : \A u \in mod.uses :
       g \in Under(f) /\ u.in = g /\ u.to \in mod.functions => u.to \in Under(f)
  BY DEF Under, Closed

LEMMA UnderUnder ==
  ASSUME NEW f, NEW g, NEW h, g \in Under(f), h \in Under(g)
  PROVE  h \in Under(f)
BY DEF Under

LEMMA FlatIs ==
  ASSUME Flat, NEW f \in mod.functions, NEW g \in mod.functions, Starts(f), Starts(g),
         NEW u \in mod.uses, u.in = f, u.to \in mod.functions, g \in Under(u.to)
  PROVE  FALSE
  BY DEF Flat

LEMMA StaleIs ==
  ASSUME NEW s \in Seq(Frames)
  PROVE  /\ Stale(s) \in Seq(Frames) /\ Len(Stale(s)) = Len(s)
         /\ \A i \in 1 .. Len(s) :
              Stale(s)[i].function = s[i].function /\ Stale(s)[i].fresh = FALSE
<1>1. Len(s) \in Nat /\ DOMAIN s = 1 .. Len(s) /\ \A i \in 1 .. Len(s) : s[i] \in Frames
  OBVIOUS
<1>2. Stale(s) = [i \in 1 .. Len(s) |-> [s[i] EXCEPT !.fresh = FALSE]]
  BY <1>1 DEF Stale
<1>3. ASSUME NEW i \in 1 .. Len(s)
      PROVE  /\ [s[i] EXCEPT !.fresh = FALSE] \in Frames
             /\ [s[i] EXCEPT !.fresh = FALSE].function = s[i].function
             /\ [s[i] EXCEPT !.fresh = FALSE].fresh = FALSE
  BY <1>1 DEF Frames
<1>4. Stale(s) \in [1 .. Len(s) -> Frames]
  BY <1>2, <1>3
<1>5. Stale(s) \in Seq(Frames) /\ Len(Stale(s)) = Len(s)
  BY <1>1, <1>4
<1> QED
  BY <1>2, <1>3, <1>5

(* What is saved before leads to a function that starts a va_list.         *)
LeadsToStart(w) ==
  w \in mod.uses /\ w.to \in mod.functions /\ \E g \in mod.functions : Starts(g) /\ g \in Under(w.to)

(* A function is entered.                                                  *)
LEMMA StackPushed ==
  ASSUME NEW s, NEW c, NEW S, StackOf(s, c, S), Len(s) > 0,
         NEW u \in mod.uses, u.to \in mod.functions, NEW save \in BOOLEAN,
         save => u \in S, \A v \in S : LeadsToStart(v),
         Flat => u.in = s[Len(s)].function /\ (u \in S => save),
         NEW call \in ThreadIds \X Nat
  PROVE  StackOf(Append(IF save THEN Stale(s) ELSE s, Frame(u.to, call, save)),
                 IF save THEN call ELSE c, S)
<1> DEFINE T == IF save THEN Stale(s) ELSE s
           new == Frame(u.to, call, save)
           s2 == Append(T, new)
           n == Len(s)
<1>1. /\ s \in Seq(Frames) /\ n \in Nat \ {0} /\ s[1].function = "main"
      /\ \A i \in 1 .. n : s[i] \in Frames /\ (s[i].fresh => c = s[i].call)
      /\ Flat => Linked(s, S)
  BY DEF StackOf
<1>2. /\ T \in Seq(Frames) /\ Len(T) = n
      /\ \A i \in 1 .. n : /\ T[i].function = s[i].function
                           /\ T[i].fresh = IF save THEN FALSE ELSE s[i].fresh
                           /\ ~save => T[i] = s[i]
  BY <1>1, StaleIs
<1>3. new \in Frames /\ new.function = u.to /\ new.call = call /\ new.fresh = save
  BY DEF Frame, Frames
<1> HIDE DEF T, new
<1>4. /\ s2 \in Seq(Frames) /\ Len(s2) = n + 1 /\ s2[n + 1] = new
      /\ \A i \in 1 .. n : s2[i] = T[i]
  BY <1>1, <1>2, <1>3
<1> HIDE DEF s2
<1>5. s2[1].function = "main"
  <2>1. 1 \in 1 .. n
    BY <1>1
  <2>2. s2[1] = T[1] /\ T[1].function = s[1].function
    BY <1>2, <1>4, <2>1
  <2> QED
    BY <1>1, <2>2
<1>6. ASSUME NEW i \in 1 .. n + 1, s2[i].fresh
      PROVE  (IF save THEN call ELSE c) = s2[i].call
  <2>1. CASE i = n + 1
    BY <1>3, <1>4, <1>6, <2>1
  <2>2. CASE i \in 1 .. n
    <3>1. s2[i] = T[i] /\ T[i].fresh
      BY <1>4, <1>6, <2>2
    <3>2. ~save
      BY <1>2, <2>2, <3>1
    <3> QED
      BY <1>1, <1>2, <2>2, <3>1, <3>2
  <2> QED
    BY <1>1, <2>1, <2>2
<1>7. ASSUME Flat, NEW i \in 1 .. n
      PROVE  /\ \E w \in mod.uses : w.in = s2[i].function /\ w.to = s2[i + 1].function
             /\ Starts(s2[i + 1].function) /\ UsesOf(s2[i + 1].function) \subseteq S => s2[i + 1].fresh
             /\ \A j \in i + 1 .. n + 1 : s2[j].function \in Under(s2[i + 1].function)
  <2>1. s2[i].function = s[i].function /\ Linked(s, S)
    BY <1>1, <1>2, <1>4, <1>7
  <2>2. CASE i = n
    <3>1. s2[i + 1] = new /\ u.in = s[n].function /\ (u \in S => save)
      BY <1>4, <1>7, <2>2
    <3>2. UsesOf(u.to) \subseteq S => u \in S
      BY DEF UsesOf
    <3>3. \A j \in i + 1 .. n + 1 : j = i + 1
      BY <1>1, <2>2
    <3> QED
      BY <1>3, <2>1, <2>2, <3>1, <3>2, <3>3, UnderIs
  <2>3. CASE i \in 1 .. n - 1
    <3>1. i + 1 \in 1 .. n /\ s2[i + 1].function = s[i + 1].function
      <4>1. i + 1 \in 1 .. n
        BY <1>1, <2>3
      <4>2. s2[i + 1] = T[i + 1] /\ T[i + 1].function = s[i + 1].function
        BY <1>2, <1>4, <4>1
      <4> QED
        BY <4>1, <4>2
    <3>2. /\ \E w \in mod.uses : w.in = s[i].function /\ w.to = s[i + 1].function
          /\ Starts(s[i + 1].function) /\ UsesOf(s[i + 1].function) \subseteq S => s[i + 1].fresh
          /\ \A j \in i + 1 .. n : s[j].function \in Under(s[i + 1].function)
      BY <2>1, <2>3 DEF Linked
    <3>3. u.in = s[n].function /\ n \in i + 1 .. n
      BY <1>1, <1>7, <2>3
    <3>4. u.to \in Under(s[i + 1].function)
      BY <3>2, <3>3, UnderIs
    <3>5. ASSUME NEW j \in i + 1 .. n + 1
          PROVE  s2[j].function \in Under(s2[i + 1].function)
      <4>1. CASE j = n + 1
        BY <1>3, <1>4, <3>1, <3>4, <4>1
      <4>2. CASE j \in i + 1 .. n
        <5>1. j \in 1 .. n
          BY <1>1, <2>3, <4>2
        <5> QED
          BY <1>2, <1>4, <3>1, <3>2, <4>2, <5>1
      <4>3. j = n + 1 \/ j \in i + 1 .. n
        <5>1. n \in Nat /\ i \in Nat
          BY <1>1, <2>3
        <5> HIDE DEF n
        <5> QED
          BY <5>1
      <4> QED
        BY <4>1, <4>2, <4>3
    <3>6. ASSUME Starts(s[i + 1].function), UsesOf(s[i + 1].function) \subseteq S
          PROVE  s2[i + 1].fresh
      <4>1. CASE save
        <5>1. PICK g \in mod.functions : Starts(g) /\ g \in Under(u.to)
          BY <4>1 DEF LeadsToStart
        <5>2. s[i + 1].function \in mod.functions
          BY <1>1, <3>1 DEF Frames
        <5>3. \E w \in mod.uses : /\ w.in = s[i + 1].function /\ w.to \in mod.functions
                                  /\ u.to \in Under(w.to)
          <6>1. CASE i + 1 = n
            BY <3>3, <6>1, UnderIs
          <6>2. CASE i + 1 \in 1 .. n - 1
            <7>1. (i + 1) + 1 \in 1 .. n /\ n \in (i + 1) + 1 .. n
              BY <1>1, <6>2
            <7>2. PICK w \in mod.uses : w.in = s[i + 1].function /\ w.to = s[(i + 1) + 1].function
              BY <2>1, <6>2 DEF Linked
            <7>3. s[n].function \in Under(s[(i + 1) + 1].function)
              BY <2>1, <6>2, <7>1 DEF Linked
            <7>4. w.to \in mod.functions
              BY <1>1, <7>1, <7>2 DEF Frames
            <7> QED
              BY <3>3, <7>2, <7>3, <7>4, UnderIs
          <6> QED
            BY <1>1, <3>1, <6>1, <6>2
        <5> QED
          BY <1>7, <3>6, <5>1, <5>2, <5>3, UnderUnder, FlatIs
      <4>2. CASE ~save
        BY <1>2, <1>4, <3>1, <3>2, <3>6, <4>2
      <4> QED
        BY <4>1, <4>2
    <3> QED
      BY <2>1, <3>1, <3>2, <3>5, <3>6
  <2> QED
    BY <1>1, <2>2, <2>3
<1>8. Flat => Linked(s2, S)
  <2>1. (n + 1) - 1 = n
    BY <1>1
  <2> QED
    BY <1>4, <1>7, <2>1 DEF Linked
<1>9. StackOf(s2, IF save THEN call ELSE c, S)
  BY <1>4, <1>5, <1>6, <1>8 DEF StackOf
<1> QED
  BY <1>9 DEF s2, T, new

(* One returns.                                                            *)
LEMMA StackPopped ==
  ASSUME NEW s, NEW c, NEW S, StackOf(s, c, S), Len(s) > 0
  PROVE  StackOf(Front(s), c, S)
<1> DEFINE s2 == Front(s)
           n == Len(s)
<1>1. /\ s \in Seq(Frames) /\ n \in Nat \ {0} /\ s[1].function = "main"
      /\ \A i \in 1 .. n : s[i].fresh => c = s[i].call
      /\ Flat => Linked(s, S)
  BY DEF StackOf
<1>2. /\ s2 \in Seq(Frames) /\ Len(s2) = n - 1
      /\ \A i \in 1 .. n - 1 : s2[i] = s[i]
  <2>1. s2 = [i \in 1 .. n - 1 |-> s[i]]
    <3>1. SubSeq(s, 1, n - 1) = [i \in 1 .. n - 1 |-> s[(1 + i) - 1]]
      BY <1>1
    <3>2. \A i \in 1 .. n - 1 : (1 + i) - 1 = i
      BY <1>1
    <3> QED
      BY <3>1, <3>2 DEF Front
  <2>2. n - 1 \in Nat /\ \A i \in 1 .. n - 1 : s[i] \in Frames
    BY <1>1
  <2>3. s2 \in [1 .. n - 1 -> Frames]
    BY <2>1, <2>2
  <2> QED
    BY <2>1, <2>2, <2>3
<1> HIDE DEF s2
<1>3. Len(s2) > 0 => s2[1].function = "main"
  BY <1>1, <1>2
<1>4. \A i \in 1 .. n - 1 : s2[i].fresh => c = s2[i].call
  BY <1>1, <1>2
<1>5. ASSUME Flat, NEW i \in 1 .. (n - 1) - 1
      PROVE  /\ \E w \in mod.uses : w.in = s2[i].function /\ w.to = s2[i + 1].function
             /\ Starts(s2[i + 1].function) /\ UsesOf(s2[i + 1].function) \subseteq S => s2[i + 1].fresh
             /\ \A j \in i + 1 .. n - 1 : s2[j].function \in Under(s2[i + 1].function)
  <2>1. /\ i \in 1 .. n - 1 /\ i + 1 \in 1 .. n - 1
        /\ \A j \in i + 1 .. n - 1 : j \in 1 .. n - 1 /\ j \in i + 1 .. n
    BY <1>1
  <2>2. Linked(s, S)
    BY <1>1, <1>5
  <2>3. /\ \E w \in mod.uses : w.in = s[i].function /\ w.to = s[i + 1].function
        /\ Starts(s[i + 1].function) /\ UsesOf(s[i + 1].function) \subseteq S => s[i + 1].fresh
        /\ \A j \in i + 1 .. n : s[j].function \in Under(s[i + 1].function)
    BY <2>1, <2>2 DEF Linked
  <2>4. s2[i] = s[i] /\ s2[i + 1] = s[i + 1] /\ \A j \in i + 1 .. n - 1 : s2[j] = s[j]
    BY <1>2, <2>1
  <2> QED
    BY <2>1, <2>3, <2>4
<1>6. Flat => Linked(s2, S)
  BY <1>2, <1>5 DEF Linked
<1>7. StackOf(s2, c, S)
  BY <1>2, <1>3, <1>4, <1>6 DEF StackOf
<1> QED
  BY <1>7 DEF s2

(* The registers are saved for no call.                                    *)
LEMMA StackStale ==
  ASSUME NEW s, NEW c, NEW S, StackOf(s, c, S), ~Flat, NEW d
  PROVE  StackOf(Stale(s), d, S)
<1>1. s \in Seq(Frames) /\ Len(s) \in Nat /\ (Len(s) > 0 => s[1].function = "main")
  BY DEF StackOf
<1> DEFINE s2 == Stale(s)
<1>2. /\ s2 \in Seq(Frames) /\ Len(s2) = Len(s)
      /\ \A i \in 1 .. Len(s) : s2[i].function = s[i].function /\ s2[i].fresh = FALSE
  BY <1>1, StaleIs
<1> HIDE DEF s2
<1>3. Len(s2) > 0 => s2[1].function = "main"
  <2> SUFFICES ASSUME Len(s2) > 0 PROVE s2[1].function = "main"
    OBVIOUS
  <2>1. 1 \in 1 .. Len(s)
    BY <1>1, <1>2
  <2>2. s2[1].function = s[1].function
    BY <1>2, <2>1
  <2> QED
    BY <1>1, <2>1, <2>2
<1>4. \A i \in 1 .. Len(s2) : s2[i].fresh => d = s2[i].call
  BY <1>2
<1>5. StackOf(s2, d, S)
  BY <1>2, <1>3, <1>4 DEF StackOf
<1> QED
  BY <1>5 DEF s2

-----------------------------------------------------------------------------
(* What the helper is given.                                               *)

(* Two sequences joined, and the beginning of one.                         *)
LEMMA Joined ==
  ASSUME NEW S, NEW a \in Seq(S), NEW b \in Seq(S), NEW c, c = a \o b
  PROVE  /\ c \in Seq(S) /\ Len(c) = Len(a) + Len(b)
         /\ \A i \in 1 .. Len(a) : c[i] = a[i]
         /\ \A i \in 1 .. Len(b) : c[Len(a) + i] = b[i]
<1>1. Len(a) \in Nat /\ Len(b) \in Nat
  OBVIOUS
<1>2. c \in Seq(S) /\ Len(c) = Len(a) + Len(b)
  OBVIOUS
<1>3. \A i \in 1 .. Len(a) : c[i] = a[i]
  OBVIOUS
<1>4. ASSUME NEW i \in 1 .. Len(b)
      PROVE  c[Len(a) + i] = b[i]
  <2>1. Len(a) + i \in 1 .. Len(a) + Len(b) /\ ~(Len(a) + i <= Len(a)) /\ (Len(a) + i) - Len(a) = i
    BY <1>1
  <2>2. \A k \in 1 .. Len(a) + Len(b) : c[k] = IF k <= Len(a) THEN a[k] ELSE b[k - Len(a)]
    OBVIOUS
  <2> QED
    BY <2>1, <2>2
<1> QED
  BY <1>2, <1>3, <1>4

LEMMA Cut ==
  ASSUME NEW S, NEW a \in Seq(S), NEW n \in 0 .. Len(a)
  PROVE  /\ SubSeq(a, 1, n) \in Seq(S) /\ Len(SubSeq(a, 1, n)) = n
         /\ \A i \in 1 .. n : SubSeq(a, 1, n)[i] = a[i]
OBVIOUS

(* Six or eight elements as a sequence.                                    *)
LEMMA SixInSeq ==
  ASSUME NEW S, NEW a \in S, NEW b \in S, NEW c \in S, NEW d \in S, NEW e \in S, NEW f \in S
  PROVE  <<a, b, c, d, e, f>> \in Seq(S) /\ Len(<<a, b, c, d, e, f>>) = 6
OBVIOUS

LEMMA EightInSeq ==
  ASSUME NEW S, NEW a \in S, NEW b \in S, NEW c \in S, NEW d \in S, NEW e \in S, NEW f \in S,
         NEW g \in S, NEW h \in S
  PROVE  <<a, b, c, d, e, f, g, h>> \in Seq(S) /\ Len(<<a, b, c, d, e, f, g, h>>) = 8
OBVIOUS

Names == {"RDI", "RSI", "RDX", "RCX", "R8", "R9",
          "XMM0", "XMM1", "XMM2", "XMM3", "XMM4", "XMM5", "XMM6", "XMM7"}

LEMMA TheRegisters ==
  /\ SavedGpr \in Seq(Names) /\ SavedXmm \in Seq(Names)
  /\ SavedGpr \o SavedXmm \in Seq(Names) /\ Len(SavedGpr \o SavedXmm) = 13
  /\ \A i \in 1 .. 13 : /\ (Gpr \o Xmm)[i] \in Registers /\ (Gpr \o Xmm)[i] # "stdout"
                        /\ (SavedGpr \o SavedXmm)[i] = (Gpr \o Xmm)[i]
<1>1. Gpr \in Seq(Names) /\ Len(Gpr) = 6
  <2> DEFINE N == Names
  <2>1. "RDI" \in N /\ "RSI" \in N /\ "RDX" \in N /\ "RCX" \in N /\ "R8" \in N /\ "R9" \in N
    BY DEF Names
  <2> HIDE DEF N
  <2>2. <<"RDI", "RSI", "RDX", "RCX", "R8", "R9">> \in Seq(N)
    BY <2>1, SixInSeq
  <2>3. Len(Gpr) = 6
    BY DEF Gpr
  <2> QED
    BY <2>2, <2>3 DEF Gpr, N
<1>2. Xmm \in Seq(Names) /\ Len(Xmm) = 8
  <2> DEFINE N == Names
  <2>1. /\ "XMM0" \in N /\ "XMM1" \in N /\ "XMM2" \in N /\ "XMM3" \in N
        /\ "XMM4" \in N /\ "XMM5" \in N /\ "XMM6" \in N /\ "XMM7" \in N
    BY DEF Names
  <2> HIDE DEF N
  <2>2. <<"XMM0", "XMM1", "XMM2", "XMM3", "XMM4", "XMM5", "XMM6", "XMM7">> \in Seq(N)
    BY <2>1, EightInSeq
  <2>3. Len(Xmm) = 8
    BY DEF Xmm
  <2> QED
    BY <2>2, <2>3 DEF Xmm, N
<1>3. SavedGpr \in Seq(Names) /\ Len(SavedGpr) = 6 /\ \A i \in 1 .. 6 : SavedGpr[i] = Gpr[i]
  <2>1. 6 \in 0 .. Len(Gpr)
    BY <1>1
  <2> QED
    BY <1>1, <2>1, Cut DEF SavedGpr
<1>4. SavedXmm \in Seq(Names) /\ Len(SavedXmm) = 7 /\ \A i \in 1 .. 7 : SavedXmm[i] = Xmm[i]
  <2>1. 7 \in 0 .. Len(Xmm)
    BY <1>2
  <2> QED
    BY <1>2, <2>1, Cut DEF SavedXmm
<1>5. /\ Gpr \o Xmm \in Seq(Names) /\ Len(Gpr \o Xmm) = 14
      /\ \A i \in 1 .. 6 : (Gpr \o Xmm)[i] = Gpr[i]
      /\ \A i \in 1 .. 8 : (Gpr \o Xmm)[6 + i] = Xmm[i]
  <2> DEFINE all == Gpr \o Xmm
  <2>1. /\ all \in Seq(Names) /\ Len(all) = Len(Gpr) + Len(Xmm)
        /\ \A i \in 1 .. Len(Gpr) : all[i] = Gpr[i]
        /\ \A i \in 1 .. Len(Xmm) : all[Len(Gpr) + i] = Xmm[i]
    <3>1. all = Gpr \o Xmm
      OBVIOUS
    <3> HIDE DEF all
    <3> QED
      <4>1. Gpr \in Seq(Names) /\ Xmm \in Seq(Names)
        BY <1>1, <1>2
      <4> QED
        BY <3>1, <4>1, Joined
  <2> HIDE DEF all
  <2>2. /\ all \in Seq(Names) /\ Len(all) = 14
        /\ \A i \in 1 .. 6 : all[i] = Gpr[i]
        /\ \A i \in 1 .. 8 : all[6 + i] = Xmm[i]
    BY <1>1, <1>2, <2>1
  <2> QED
    BY <2>2 DEF all
<1>6. /\ SavedGpr \o SavedXmm \in Seq(Names) /\ Len(SavedGpr \o SavedXmm) = 13
      /\ \A i \in 1 .. 6 : (SavedGpr \o SavedXmm)[i] = SavedGpr[i]
      /\ \A i \in 1 .. 7 : (SavedGpr \o SavedXmm)[6 + i] = SavedXmm[i]
  <2> DEFINE some == SavedGpr \o SavedXmm
  <2>1. /\ some \in Seq(Names) /\ Len(some) = Len(SavedGpr) + Len(SavedXmm)
        /\ \A i \in 1 .. Len(SavedGpr) : some[i] = SavedGpr[i]
        /\ \A i \in 1 .. Len(SavedXmm) : some[Len(SavedGpr) + i] = SavedXmm[i]
    <3>1. some = SavedGpr \o SavedXmm
      OBVIOUS
    <3> HIDE DEF some
    <3> QED
      <4>1. SavedGpr \in Seq(Names) /\ SavedXmm \in Seq(Names)
        BY <1>3, <1>4
      <4> QED
        BY <3>1, <4>1, Joined
  <2> HIDE DEF some
  <2>2. /\ some \in Seq(Names) /\ Len(some) = 13
        /\ \A i \in 1 .. 6 : some[i] = SavedGpr[i]
        /\ \A i \in 1 .. 7 : some[6 + i] = SavedXmm[i]
    BY <1>3, <1>4, <2>1
  <2> QED
    BY <2>2 DEF some
<1>7. ASSUME NEW i \in 1 .. 13
      PROVE  (SavedGpr \o SavedXmm)[i] = (Gpr \o Xmm)[i]
  <2> DEFINE all == Gpr \o Xmm
             some == SavedGpr \o SavedXmm
  <2>1. /\ \A j \in 1 .. 6 : all[j] = Gpr[j]
        /\ \A j \in 1 .. 8 : all[6 + j] = Xmm[j]
    BY <1>5
  <2>2. /\ \A j \in 1 .. 6 : some[j] = Gpr[j]
        /\ \A j \in 1 .. 7 : some[6 + j] = Xmm[j]
    BY <1>3, <1>4, <1>6
  <2> HIDE DEF all, some
  <2>3. i \in 1 .. 6 \/ \E j \in 1 .. 7 : i = 6 + j
    <3>1. i \in 7 .. 13 => i - 6 \in 1 .. 7 /\ i = 6 + (i - 6)
      OBVIOUS
    <3> QED
      BY <3>1
  <2>4. \A j \in 1 .. 7 : j \in 1 .. 8
    OBVIOUS
  <2>5. some[i] = all[i]
    BY <2>1, <2>2, <2>3, <2>4
  <2> QED
    BY <2>5 DEF all, some
<1>8. ASSUME NEW i \in 1 .. 13
      PROVE  (Gpr \o Xmm)[i] \in Registers /\ (Gpr \o Xmm)[i] # "stdout"
  <2> DEFINE all == Gpr \o Xmm
  <2>1. Registers = {all[j] : j \in DOMAIN all}
    BY DEF Registers, Range
  <2>6. all \in Seq(Names) /\ Len(all) = 14
    BY <1>5
  <2> HIDE DEF all
  <2>7. all \in Seq(Names)
    BY <2>6
  <2>8. DOMAIN all = 1 .. Len(all) /\ \A j \in 1 .. Len(all) : all[j] \in Names
    BY <2>7
  <2>2. DOMAIN all = 1 .. 14 /\ i \in 1 .. 14
    BY <2>6, <2>8
  <2>3. all[i] \in Names
    BY <2>2, <2>8
  <2>4. all[i] \in Registers
    BY <2>1, <2>2
  <2>5. all[i] # "stdout"
    BY <2>3 DEF Names
  <2> QED
    BY <2>4, <2>5 DEF all
<1> QED
  BY <1>3, <1>4, <1>6, <1>7, <1>8

LEMMA PassedIs ==
  ASSUME NEW u
  PROVE  /\ Inlined(u) => 1 \in DOMAIN Passed(u) /\ Passed(u)[1] = "stdout"
         /\ \A i \in 1 .. 13 :
              LET j == (IF Inlined(u) THEN 1 ELSE 0) + i
              IN  j \in DOMAIN Passed(u) /\ Passed(u)[j] = (Gpr \o Xmm)[i]
<1> DEFINE N == Names \cup {"stdout"}
           fixed == SavedGpr \o SavedXmm
<1>1. /\ fixed \in Seq(N) /\ Len(fixed) = 13
      /\ \A i \in 1 .. 13 : fixed[i] = (Gpr \o Xmm)[i]
  <2>1. fixed \in Seq(Names) /\ Len(fixed) = 13
    BY TheRegisters
  <2> HIDE DEF fixed
  <2>2. fixed \in Seq(N)
    BY <2>1
  <2> QED
    BY <2>1, <2>2, TheRegisters DEF fixed
<1>2. SavedGpr \in Seq(N) /\ SavedXmm \in Seq(N) /\ "stdout" \in N
  <2>1. SavedGpr \in Seq(Names) /\ SavedXmm \in Seq(Names)
    BY TheRegisters
  <2>2. Seq(Names) \subseteq Seq(N)
    OBVIOUS
  <2> QED
    BY <2>1, <2>2
<1> HIDE DEF N
<1>3. \A x \in Seq(N) : (x \o SavedGpr) \o SavedXmm = x \o fixed
  BY <1>2, ConcatAssociative
<1> HIDE DEF fixed
<1>4. CASE Inlined(u)
  <2>1. <<"stdout">> \in Seq(N) /\ Len(<<"stdout">>) = 1 /\ <<"stdout">>[1] = "stdout"
    BY <1>2
  <2>2. Passed(u) = <<"stdout">> \o fixed
    BY <1>3, <1>4, <2>1 DEF Passed
  <2>3. /\ Passed(u) \in Seq(N) /\ Len(Passed(u)) = 14 /\ Passed(u)[1] = "stdout"
        /\ \A i \in 1 .. 13 : Passed(u)[1 + i] = fixed[i]
    <3> DEFINE one == <<"stdout">>
               given == one \o fixed
    <3>1. one \in Seq(N) /\ Len(one) = 1 /\ one[1] = "stdout"
      BY <2>1
    <3> HIDE DEF one
    <3>2. /\ given \in Seq(N) /\ Len(given) = Len(one) + Len(fixed)
          /\ \A i \in 1 .. Len(one) : given[i] = one[i]
          /\ \A i \in 1 .. Len(fixed) : given[Len(one) + i] = fixed[i]
      <4>1. given = one \o fixed
        OBVIOUS
      <4> HIDE DEF given
      <4> QED
        <5>1. one \in Seq(N) /\ fixed \in Seq(N)
          BY <1>1, <3>1
        <5> QED
          BY <4>1, <5>1, Joined
    <3> HIDE DEF given
    <3>3. 1 \in 1 .. Len(one) /\ Len(one) = 1 /\ Len(fixed) = 13
      BY <1>1, <3>1
    <3>4. /\ given \in Seq(N) /\ Len(given) = 14 /\ given[1] = "stdout"
          /\ \A i \in 1 .. 13 : given[1 + i] = fixed[i]
      BY <3>1, <3>2, <3>3
    <3>5. Passed(u) = given
      BY <2>2 DEF given, one
    <3> QED
      BY <3>4, <3>5
  <2>4. DOMAIN Passed(u) = 1 .. 14 /\ \A i \in 1 .. 13 : 1 + i \in 1 .. 14
    BY <2>3
  <2>5. (IF Inlined(u) THEN 1 ELSE 0) = 1
    BY <1>4
  <2>6. \A i \in 1 .. 13 : 1 + i \in DOMAIN Passed(u) /\ Passed(u)[1 + i] = (Gpr \o Xmm)[i]
    BY <1>1, <2>3, <2>4
  <2>7. 1 \in DOMAIN Passed(u) /\ Passed(u)[1] = "stdout"
    BY <2>3, <2>4
  <2> QED
    BY <2>5, <2>6, <2>7
<1>5. CASE ~Inlined(u)
  <2>1. <<>> \in Seq(N) /\ <<>> \o fixed = fixed
    BY <1>1, ConcatEmptySeq
  <2>2. Passed(u) = fixed
    BY <1>3, <1>5, <2>1 DEF Passed
  <2>3. DOMAIN fixed = 1 .. 13 /\ \A i \in 1 .. 13 : 0 + i = i
    BY <1>1
  <2> QED
    BY <1>1, <1>5, <2>2, <2>3
<1> QED
  BY <1>4, <1>5

-----------------------------------------------------------------------------
(* S has the saves that a call u of the library needs, but for those still *)
(* to be looked for above the uses in B: before the calls of the function  *)
(* it is in if that one starts the va_list, and else, if the pass put no   *)
(* loads there, before those of the functions that do and use it.          *)
SavedFor(u, B, S) ==
  IF Starts(u.in) THEN UsesOf(u.in) \subseteq S
  ELSE (\A w \in S : w.in # u.in) =>
         \A v \in UsesOf(u.in) \ B : Starts(v.in) => UsesOf(v.in) \subseteq S

(* The pass has the saves put before every call that hands a va_list on    *)
(* once, State from the names it met first, and while it runs no thread    *)
(* has called anything.                                                    *)
PassInv ==
  /\ mod \in Modules
  /\ rewritten # {} => filled # NoCall
  /\ filled # NoCall => state = State(mod.aliases, filled)
  /\ \A u \in rewritten : u \in Calls(u.to) /\ u.to \in Library /\ SavedFor(u, {}, saving)
  /\ at # NoCall => at \in Library /\ \A u \in Calls(at) \ left : SavedFor(u, above, saving)
  /\ \A w \in saving : LeadsToStart(w)
  /\ phase = "pass" => printed = <<>>

RunInvs ==
  /\ DOMAIN stack = ThreadIds /\ DOMAIN saved = ThreadIds /\ calls \in [ThreadIds -> Nat]
  /\ \A t \in ThreadIds : /\ StackOf(stack[t], saved[t], saving)
                          /\ phase = "pass" => Len(stack[t]) = 1

PrintInv == PassInv /\ RunInvs /\ PrintsItsOwn

LEMMA PrintStart == CallsInit => PrintInv
<1> SUFFICES ASSUME CallsInit PROVE PrintInv
  OBVIOUS
<1>1. PassInv
  BY DEF CallsInit, PassInv
<1>2. "main" \in mod.functions
  BY ModulesAssumption DEF CallsInit, WellFormed
<1>3. ASSUME NEW t \in ThreadIds
      PROVE  StackOf(stack[t], saved[t], saving) /\ Len(stack[t]) = 1
  <2> DEFINE first == Frame("main", <<t, 0>>, FALSE)
             s == <<first>>
  <2>1. first \in Frames /\ first.function = "main" /\ first.fresh = FALSE
    BY <1>2 DEF Frame, Frames
  <2>2. stack[t] = s
    BY DEF CallsInit
  <2> HIDE DEF first
  <2>3. s \in Seq(Frames) /\ Len(s) = 1 /\ s[1] = first
    BY <2>1
  <2> HIDE DEF s
  <2>4. Linked(s, saving)
    BY <2>3 DEF Linked
  <2> QED
    BY <2>1, <2>2, <2>3, <2>4 DEF StackOf
<1>4. RunInvs
  BY <1>3 DEF CallsInit, RunInvs
<1>5. PrintsItsOwn
  BY DEF CallsInit, PrintsItsOwn
<1> QED
  BY <1>1, <1>4, <1>5 DEF PrintInv

(* What is read off the program alone stays as it is.                      *)
LEMMA StackKept ==
  ASSUME mod' = mod, NEW t, StackOf(stack[t]', saved[t]', saving')
  PROVE  StackOf(stack[t], saved[t], saving)'
<1>1. \A f : /\ Starts(f)' <=> Starts(f)
             /\ UsesOf(f)' = UsesOf(f) /\ Under(f)' = Under(f)
  BY DEF Starts, UsesOf, Under, Closed
<1>2. (Flat' <=> Flat) /\ Frames' = Frames
  BY <1>1 DEF Flat, Frames
<1>3. PICK s, c, S : s = stack[t]' /\ c = saved[t]' /\ S = saving'
  OBVIOUS
<1>4. Flat => Linked(s, S)
  BY <1>3 DEF StackOf
<1>5. Flat => Linked(stack[t], saving)'
  BY <1>1, <1>3, <1>4 DEF Linked
<1> QED
  BY <1>2, <1>5 DEF StackOf

LEMMA LeadsKept ==
  ASSUME mod' = mod
  PROVE  /\ \A u, B, S : SavedFor(u, B, S) => SavedFor(u, B, S)'
         /\ \A w : LeadsToStart(w) => LeadsToStart(w)'
         /\ \A f : Calls(f)' = Calls(f)
<1>1. \A f : /\ Starts(f)' <=> Starts(f)
             /\ UsesOf(f)' = UsesOf(f) /\ Under(f)' = Under(f) /\ Calls(f)' = Calls(f)
  BY DEF Starts, UsesOf, Under, Closed, Calls
<1> QED
  BY <1>1 DEF SavedFor, LeadsToStart

LEMMA PassKept ==
  ASSUME PassInv, UNCHANGED <<mod, at, left, above, filled, state, saving, rewritten>>,
         phase' # "pass" \/ (phase' = phase /\ printed' = printed)
  PROVE  PassInv'
<1>1. \A f : Calls(f)' = Calls(f)
  BY LeadsKept
<1>2. \A w \in saving' : LeadsToStart(w)'
  BY LeadsKept DEF PassInv
<1>3. PICK S, B : S = saving /\ B = above
  OBVIOUS
<1>4. \A u : /\ SavedFor(u, {}, S) => SavedFor(u, {}, S)'
             /\ SavedFor(u, B, S) => SavedFor(u, B, S)'
  BY LeadsKept
<1>5. S = saving' /\ B = above'
  BY <1>3
<1>6. \A u : /\ SavedFor(u, {}, saving) => SavedFor(u, {}, saving)'
             /\ SavedFor(u, above, saving) => SavedFor(u, above, saving)'
  BY <1>3, <1>4, <1>5 DEF SavedFor
<1> QED
  BY <1>1, <1>2, <1>6 DEF PassInv

LEMMA PrintKept ==
  ASSUME PrintsItsOwn, UNCHANGED <<mod, filled, printed>>
  PROVE  PrintsItsOwn'
<1>1. (Flat' <=> Flat) /\ (HandedOnce' <=> HandedOnce)
  BY DEF Flat, HandedOnce, UsesOf, Under, Closed, Starts
<1>2. WholeOffsets' = WholeOffsets
  BY DEF WholeOffsets
<1>3. \A u, f : Supported(u, f)' <=> Supported(u, f)
  BY <1>2 DEF Supported
<1> QED
  BY <1>1, <1>2, <1>3 DEF PrintsItsOwn

(* A step of one thread leaves the others' stacks.                         *)
LEMMA RunKept ==
  ASSUME RunInvs, NEW t \in ThreadIds, UNCHANGED <<mod, saving>>, phase' # "pass",
         calls' \in [ThreadIds -> Nat], DOMAIN stack' = ThreadIds, DOMAIN saved' = ThreadIds,
         \A r \in ThreadIds \ {t} : stack'[r] = stack[r] /\ saved'[r] = saved[r],
         StackOf(stack'[t], saved'[t], saving)
  PROVE  RunInvs'
<1>1. ASSUME NEW r \in ThreadIds
      PROVE  StackOf(stack[r], saved[r], saving)'
  <2>1. StackOf(stack'[r], saved'[r], saving')
    BY DEF RunInvs
  <2>2. StackOf(stack[r]', saved[r]', saving')
    BY <2>1
  <2> QED
    BY <2>2, StackKept
<1> QED
  BY <1>1 DEF RunInvs

(* What is saved once stays saved.                                         *)
LEMMA SavedMore ==
  ASSUME NEW u, NEW B, NEW C, NEW S, NEW T, S \subseteq T, SavedFor(u, B, S),
         \A v \in B \ C : Starts(v.in) => UsesOf(v.in) \subseteq T
  PROVE  SavedFor(u, C, T)
BY DEF SavedFor

(* A step of the pass.                                                     *)
LEMMA PassStep ==
  ASSUME PrintInv, phase = "pass", UNCHANGED <<mod, stack, calls, saved, printed>>,
         filled' # NoCall => state' = State(mod.aliases, filled'),
         rewritten' # {} => filled' # NoCall,
         \A w \in saving' : LeadsToStart(w),
         \A u \in rewritten' : u \in Calls(u.to) /\ u.to \in Library /\ SavedFor(u, {}, saving'),
         at' # NoCall => at' \in Library /\ \A u \in Calls(at') \ left' : SavedFor(u, above', saving')
  PROVE  PrintInv'
<1>1. /\ \A f : Calls(f)' = Calls(f)
      /\ \A w \in saving' : LeadsToStart(w)'
  BY LeadsKept
<1>2. PICK S, B : S = saving' /\ B = above'
  OBVIOUS
<1>3. \A u : /\ SavedFor(u, {}, S) => SavedFor(u, {}, S)'
             /\ SavedFor(u, B, S) => SavedFor(u, B, S)'
  BY LeadsKept
<1>4. \A u : /\ SavedFor(u, {}, saving') => SavedFor(u, {}, saving)'
             /\ SavedFor(u, above', saving') => SavedFor(u, above, saving)'
  BY <1>2, <1>3 DEF SavedFor
<1>5. printed = <<>>
  BY DEF PrintInv, PassInv
<1>6. PassInv'
  BY <1>1, <1>4, <1>5 DEF PrintInv, PassInv
<1>7. ASSUME NEW t \in ThreadIds
      PROVE  StackOf(stack[t], saved[t], saving)' /\ Len(stack[t])' = 1
  <2>1. StackOf(stack[t], saved[t], saving) /\ Len(stack[t]) = 1
    BY DEF PrintInv, RunInvs
  <2>2. Linked(stack[t], saving')
    BY <2>1 DEF Linked
  <2>3. StackOf(stack[t], saved[t], saving')
    BY <2>1, <2>2 DEF StackOf
  <2>4. StackOf(stack[t]', saved[t]', saving')
    BY <2>3
  <2> QED
    BY <2>1, <2>4, StackKept
<1>8. RunInvs'
  BY <1>7 DEF PrintInv, RunInvs
<1>9. PrintsItsOwn'
  BY <1>5 DEF PrintsItsOwn
<1> QED
  BY <1>6, <1>8, <1>9 DEF PrintInv

(* A function that seems to start a va_list does, or has a use in it that  *)
(* is saved before; so its own uses lead to one that does.                 *)
LEMMA SeemsToStart ==
  ASSUME PassInv, NEW f \in mod.functions, FindVarstart(f)
  PROVE  Starts(f) \/ \E x \in saving : x.in = f
<1> SUFFICES ASSUME ~ \E x \in saving : x.in = f PROVE Starts(f)
  OBVIOUS
<1>1. Range(Xmm) \subseteq mod.loads[f] /\ mod.loads[f] \subseteq Range(Xmm)
  BY ModulesAssumption DEF FindVarstart, Loads, PassInv, WellFormed
<1> QED
  BY <1>1 DEF Starts

LEMMA SavesLead ==
  ASSUME PassInv, NEW f \in mod.functions, FindVarstart(f), NEW w \in UsesOf(f)
  PROVE  LeadsToStart(w)
<1>1. w \in mod.uses /\ w.to = f
  BY DEF UsesOf
<1>2. CASE \E x \in saving : x.in = f
  <2>1. PICK x \in saving : x.in = f
    BY <1>2
  <2>2. PICK g \in mod.functions : Starts(g) /\ g \in Under(x.to)
    BY DEF PassInv, LeadsToStart
  <2>3. x \in mod.uses /\ x.to \in mod.functions
    BY DEF PassInv, LeadsToStart
  <2>4. x.to \in Under(f)
    BY <2>1, <2>3, UnderIs
  <2> QED
    BY <1>1, <2>2, <2>4, UnderUnder DEF LeadsToStart
<1>3. CASE Starts(f)
  BY <1>1, <1>3, UnderIs DEF LeadsToStart
<1> QED
  BY <1>2, <1>3, SeemsToStart

LEMMA StartsIsFound ==
  ASSUME NEW f, Starts(f)
  PROVE  FindVarstart(f)
BY DEF Starts, FindVarstart, Loads

LEMMA ConsiderOK == ASSUME PrintInv, NEW f \in Library, Consider(f) PROVE PrintInv'
<1>1. /\ phase = "pass" /\ at' = f /\ left' = Calls(f)
      /\ UNCHANGED <<mod, above, filled, state, saving, rewritten, stack, calls, saved, printed>>
  BY DEF Consider
<1>2. \A u \in Calls(at') \ left' : FALSE
  BY <1>1
<1>3. /\ rewritten' # {} => filled' # NoCall
      /\ filled' # NoCall => state' = State(mod.aliases, filled')
      /\ \A w \in saving' : LeadsToStart(w)
      /\ \A u \in rewritten' : u \in Calls(u.to) /\ u.to \in Library /\ SavedFor(u, {}, saving')
  BY <1>1 DEF PrintInv, PassInv
<1> QED
  BY <1>1, <1>2, <1>3, PassStep

(* What a search leaves of the rest, whether it has the registers saved.   *)
LEMMA SearchStep ==
  ASSUME PrintInv, phase = "pass", UNCHANGED <<mod, at, rewritten, stack, calls, saved, printed>>,
         NEW f \in mod.functions,
         IF FindVarstart(f) THEN SaveBefore(UsesOf(f), met') ELSE UNCHANGED <<filled, state, saving>>,
         at # NoCall => \A u \in Calls(at) \ left' : SavedFor(u, above', saving')
  PROVE  PrintInv'
<1>1. /\ saving' = IF FindVarstart(f) THEN saving \cup UsesOf(f) ELSE saving
      /\ (filled' = filled /\ state' = state) \/ state' = State(mod.aliases, filled')
      /\ filled # NoCall => filled' = filled
  BY DEF SaveBefore
<1>2. \A w \in saving' : LeadsToStart(w)
  BY <1>1, SavesLead DEF PrintInv, PassInv
<1>3. \A u \in rewritten : u \in Calls(u.to) /\ u.to \in Library /\ SavedFor(u, {}, saving')
  BY <1>1, SavedMore DEF PrintInv, PassInv
<1>4. /\ filled' # NoCall => state' = State(mod.aliases, filled')
      /\ rewritten' # {} => filled' # NoCall
  BY <1>1 DEF PrintInv, PassInv
<1>5. at' # NoCall => at' \in Library /\ \A u \in Calls(at') \ left' : SavedFor(u, above', saving')
  BY DEF PrintInv, PassInv
<1> QED
  BY <1>2, <1>3, <1>4, <1>5, PassStep

LEMMA SearchOK == ASSUME PrintInv, NEW u \in mod.uses, Search(u) PROVE PrintInv'
<1>1. /\ phase = "pass" /\ above = {} /\ left' = left \ {u}
      /\ UNCHANGED <<mod, at, rewritten, stack, calls, saved, printed>>
      /\ IF FindVarstart(u.in) THEN SaveBefore(UsesOf(u.in), met') /\ above' = {}
         ELSE above' = UsesOf(u.in) /\ UNCHANGED <<filled, state, saving>>
  BY DEF Search
<1>2. u.in \in mod.functions
  BY ModulesAssumption DEF PrintInv, PassInv, WellFormed
<1>3. saving' = IF FindVarstart(u.in) THEN saving \cup UsesOf(u.in) ELSE saving
  BY <1>1 DEF SaveBefore
<1>4. ASSUME at # NoCall, NEW v \in Calls(at) \ left'
      PROVE  SavedFor(v, above', saving')
  <2>1. CASE v # u
    <3>1. SavedFor(v, {}, saving)
      BY <1>1, <1>4, <2>1 DEF PrintInv, PassInv
    <3> QED
      BY <1>3, <3>1, SavedMore
  <2>2. CASE v = u
    <3>1. CASE FindVarstart(u.in)
      <4>1. (\E w \in saving' : w.in = u.in) \/ Starts(u.in)
        BY <1>2, <1>3, <3>1, SeemsToStart DEF PrintInv
      <4>2. UsesOf(u.in) \subseteq saving'
        BY <1>3, <3>1
      <4> QED
        BY <2>2, <4>1, <4>2 DEF SavedFor
    <3>2. CASE ~FindVarstart(u.in)
      BY <1>1, <2>2, <3>2, StartsIsFound DEF SavedFor
    <3> QED
      BY <3>1, <3>2
  <2> QED
    BY <2>1, <2>2
<1> QED
  BY <1>1, <1>2, <1>4, SearchStep

LEMMA SearchAboveOK == ASSUME PrintInv, NEW v \in mod.uses, SearchAbove(v) PROVE PrintInv'
<1>1. /\ phase = "pass" /\ v \in above /\ above' = above \ {v} /\ left' = left
      /\ UNCHANGED <<mod, at, rewritten, stack, calls, saved, printed>>
      /\ IF FindVarstart(v.in) THEN SaveBefore(UsesOf(v.in), met')
         ELSE UNCHANGED <<filled, state, saving>>
  BY DEF SearchAbove
<1>2. v.in \in mod.functions
  BY ModulesAssumption DEF PrintInv, PassInv, WellFormed
<1>3. saving' = IF FindVarstart(v.in) THEN saving \cup UsesOf(v.in) ELSE saving
  BY <1>1 DEF SaveBefore
<1>4. Starts(v.in) => UsesOf(v.in) \subseteq saving'
  BY <1>3, StartsIsFound
<1>5. ASSUME at # NoCall, NEW u \in Calls(at) \ left'
      PROVE  SavedFor(u, above', saving')
  <2>1. SavedFor(u, above, saving)
    BY <1>1, <1>5 DEF PrintInv, PassInv
  <2>2. saving \subseteq saving' /\ \A w \in above \ above' : w = v
    BY <1>1, <1>3
  <2> QED
    BY <1>4, <2>1, <2>2, SavedMore
<1> QED
  BY <1>1, <1>2, <1>5, SearchStep

LEMMA RewriteOK == ASSUME PrintInv, Rewrite PROVE PrintInv'
<1>1. /\ phase = "pass" /\ at # NoCall /\ left = {} /\ above = {} /\ at' = NoCall
      /\ UNCHANGED <<mod, filled, state, saving, stack, calls, saved, printed>>
      /\ rewritten' \subseteq rewritten \cup Calls(at)
      /\ filled = NoCall => rewritten' = rewritten
  BY DEF Rewrite
<1>2. ASSUME NEW u \in rewritten'
      PROVE  u \in Calls(u.to) /\ u.to \in Library /\ SavedFor(u, {}, saving')
  <2>1. CASE u \in rewritten
    BY <1>1, <2>1 DEF PrintInv, PassInv
  <2>2. CASE u \in Calls(at)
    <3>1. u.to = at
      BY <2>2 DEF Calls, UsesOf
    <3> QED
      BY <1>1, <2>2, <3>1 DEF PrintInv, PassInv
  <2> QED
    BY <1>1, <2>1, <2>2
<1>3. /\ rewritten' # {} => filled' # NoCall
      /\ filled' # NoCall => state' = State(mod.aliases, filled')
      /\ \A w \in saving' : LeadsToStart(w)
  BY <1>1 DEF PrintInv, PassInv
<1> QED
  BY <1>1, <1>2, <1>3, PassStep

(* What every step of a thread leaves alone.                               *)
LEMMA ThreadOK ==
  ASSUME PrintInv, NEW t \in ThreadIds, UNCHANGED <<static, printed>>, phase = "run",
         calls' \in [ThreadIds -> Nat], DOMAIN stack' = ThreadIds, DOMAIN saved' = ThreadIds,
         \A r \in ThreadIds \ {t} : stack'[r] = stack[r] /\ saved'[r] = saved[r],
         StackOf(stack'[t], saved'[t], saving)
  PROVE  PrintInv'
<1>1. /\ UNCHANGED <<mod, phase, at, left, above, filled, state, saving, rewritten, printed>>
      /\ phase' # "pass"
  BY DEF static, search
<1>2. PassInv'
  BY <1>1, PassKept DEF PrintInv
<1>3. RunInvs'
  BY <1>1, RunKept DEF PrintInv
<1>4. PrintsItsOwn'
  BY <1>1, PrintKept DEF PrintInv
<1> QED
  BY <1>2, <1>3, <1>4 DEF PrintInv

LEMMA EnterOK ==
  ASSUME PrintInv, NEW t \in ThreadIds, Ready(t), NEW u \in mod.uses, u.to \in mod.functions,
         NEW save \in BOOLEAN, save => u \in saving,
         Flat => u.in = Top(t).function /\ (u \in saving => save),
         Enter(t, u.to, save), UNCHANGED <<static, printed>>
  PROVE  PrintInv'
<1> DEFINE c == <<t, calls[t] + 1>>
           s == stack[t]
<1>1. phase = "run" /\ Len(s) > 0
  BY DEF Ready
<1>2. /\ DOMAIN stack = ThreadIds /\ DOMAIN saved = ThreadIds /\ calls \in [ThreadIds -> Nat]
      /\ StackOf(s, saved[t], saving)
  BY DEF PrintInv, RunInvs
<1>3. /\ calls' = [calls EXCEPT ![t] = @ + 1]
      /\ saved' = IF save THEN [saved EXCEPT ![t] = c] ELSE saved
      /\ stack' = [stack EXCEPT ![t] = Append(IF save THEN Stale(@) ELSE @, Frame(u.to, c, save))]
  BY DEF Enter, Save
<1>4. c \in ThreadIds \X Nat /\ calls' \in [ThreadIds -> Nat]
  BY <1>2, <1>3
<1>5. /\ stack'[t] = Append(IF save THEN Stale(s) ELSE s, Frame(u.to, c, save))
      /\ saved'[t] = IF save THEN c ELSE saved[t]
  BY <1>2, <1>3
<1>6. /\ DOMAIN stack' = ThreadIds /\ DOMAIN saved' = ThreadIds
      /\ \A r \in ThreadIds \ {t} : stack'[r] = stack[r] /\ saved'[r] = saved[r]
  BY <1>2, <1>3
<1>7. s \in Seq(Frames) /\ Top(t) = s[Len(s)]
  BY <1>2 DEF StackOf, Top, Last
<1>8. \A v \in saving : LeadsToStart(v)
  BY DEF PrintInv, PassInv
<1> HIDE DEF c, s
<1>9. Flat => u.in = s[Len(s)].function /\ (u \in saving => save)
  BY <1>7
<1>10. StackOf(stack'[t], saved'[t], saving)
  BY <1>1, <1>2, <1>4, <1>5, <1>8, <1>9, StackPushed
<1> QED
  BY <1>1, <1>4, <1>6, <1>10, ThreadOK

LEMMA CallOK ==
  ASSUME PrintInv, NEW t \in ThreadIds, NEW u \in mod.uses, Call(t, u)
  PROVE  PrintInv'
<1> DEFINE save == u \in saving
<1>1. save \in BOOLEAN
  OBVIOUS
<1>2. Ready(t) /\ u.in = Top(t).function /\ u.to \in mod.functions /\ Enter(t, u.to, save)
  BY DEF Call
<1>3. UNCHANGED <<static, printed>>
  BY DEF Call
<1>4. (save => u \in saving) /\ (u \in saving => save)
  OBVIOUS
<1> HIDE DEF save
<1> QED
  BY <1>1, <1>2, <1>3, <1>4, EnterOK

LEMMA CallIndirectOK ==
  ASSUME PrintInv, NEW t \in ThreadIds, NEW u \in mod.uses, CallIndirect(t, u)
  PROVE  PrintInv'
<1>1. Ready(t) /\ u.how = "address" /\ u.to \in mod.functions /\ Enter(t, u.to, FALSE)
  BY DEF CallIndirect
<1>2. UNCHANGED <<static, printed>>
  BY DEF CallIndirect
<1>3. ~Flat
  BY <1>1 DEF Flat
<1> QED
  BY <1>1, <1>2, <1>3, EnterOK

LEMMA TakeAddressOK ==
  ASSUME PrintInv, NEW t \in ThreadIds, NEW u \in mod.uses, TakeAddress(t, u)
  PROVE  PrintInv'
<1>1. /\ phase = "run" /\ u.how = "address" /\ UNCHANGED <<static, calls, printed>>
      /\ IF u \in saving THEN /\ saved' = [saved EXCEPT ![t] = NoCall]
                              /\ stack' = [stack EXCEPT ![t] = Stale(@)]
                         ELSE UNCHANGED <<saved, stack>>
  BY DEF TakeAddress, Ready, Save
<1>2. ~Flat
  BY <1>1 DEF Flat
<1>3. /\ DOMAIN stack = ThreadIds /\ DOMAIN saved = ThreadIds /\ calls \in [ThreadIds -> Nat]
      /\ StackOf(stack[t], saved[t], saving)
  BY DEF PrintInv, RunInvs
<1>4. CASE u \in saving
  <2>1. stack'[t] = Stale(stack[t]) /\ saved'[t] = NoCall
    BY <1>1, <1>3, <1>4
  <2>2. StackOf(stack'[t], saved'[t], saving)
    BY <1>2, <1>3, <2>1, StackStale
  <2>3. /\ DOMAIN stack' = ThreadIds /\ DOMAIN saved' = ThreadIds /\ calls' \in [ThreadIds -> Nat]
        /\ \A r \in ThreadIds \ {t} : stack'[r] = stack[r] /\ saved'[r] = saved[r]
    BY <1>1, <1>3, <1>4
  <2> QED
    BY <1>1, <2>2, <2>3, ThreadOK
<1>5. CASE u \notin saving
  BY <1>1, <1>3, <1>5, ThreadOK
<1> QED
  BY <1>4, <1>5

LEMMA ReturnOK ==
  ASSUME PrintInv, NEW t \in ThreadIds, Return(t)
  PROVE  PrintInv'
<1>1. /\ phase = "run" /\ Len(stack[t]) > 0 /\ UNCHANGED <<static, calls, saved, printed>>
      /\ stack' = [stack EXCEPT ![t] = Front(@)]
  BY DEF Return
<1>2. /\ DOMAIN stack = ThreadIds /\ DOMAIN saved = ThreadIds /\ calls \in [ThreadIds -> Nat]
      /\ StackOf(stack[t], saved[t], saving)
  BY DEF PrintInv, RunInvs
<1>3. stack'[t] = Front(stack[t]) /\ saved'[t] = saved[t]
  BY <1>1, <1>2
<1>4. StackOf(stack'[t], saved'[t], saving)
  BY <1>1, <1>2, <1>3, StackPopped
<1>5. /\ DOMAIN stack' = ThreadIds /\ DOMAIN saved' = ThreadIds /\ calls' \in [ThreadIds -> Nat]
      /\ \A r \in ThreadIds \ {t} : stack'[r] = stack[r] /\ saved'[r] = saved[r]
  BY <1>1, <1>2
<1> QED
  BY <1>1, <1>4, <1>5, ThreadOK

(* Whoever started the va_list that the library is called for is the one   *)
(* on top or, if it was handed on, the one below, and a save preceded its  *)
(* call.                                                                   *)
LEMMA FreshAtTheCall ==
  ASSUME PrintInv, Flat, HandedOnce, NEW t \in ThreadIds, NEW u \in rewritten,
         Len(stack[t]) > 0, u.in = Top(t).function, Starter(t) # 0
  PROVE  stack[t][Starter(t)].fresh
<1> DEFINE s == stack[t]
           n == Len(s)
           k == Starter(t)
<1>1. /\ s \in Seq(Frames) /\ n \in Nat \ {0} /\ s[1].function = "main"
      /\ Linked(s, saving)
  BY DEF PrintInv, RunInvs, StackOf
<1>2. /\ k \in 1 .. n /\ Starts(s[k].function)
      /\ \A i \in 1 .. n : Starts(s[i].function) => i <= k
  BY <1>1, StarterIs
<1>3. u.in = s[n].function
  BY <1>1 DEF Top, Last
<1>4. /\ u \in mod.uses /\ u.to \in Library /\ SavedFor(u, {}, saving)
      /\ \A w \in saving : LeadsToStart(w)
  BY DEF PrintInv, PassInv, Calls, UsesOf
<1>5. ASSUME NEW i \in 1 .. n
      PROVE  s[i].function \in mod.functions
  <2>1. s[i] \in Frames
    BY <1>1
  <2> QED
    BY <2>1 DEF Frames
<1> HIDE DEF s, k
<1>6. k # 1
  BY <1>1, <1>2 DEF Flat
<1>7. UsesOf(s[k].function) \subseteq saving
  <2>1. CASE Starts(u.in)
    <3>1. k = n
      BY <1>1, <1>2, <1>3, <2>1
    <3> QED
      BY <1>3, <1>4, <2>1, <3>1 DEF SavedFor
  <2>2. CASE ~Starts(u.in)
    <3>1. k # n /\ k \in 1 .. n - 1 /\ n - 1 \in 1 .. n - 1 /\ n - 1 \in 1 .. n /\ (n - 1) + 1 = n
      BY <1>1, <1>2, <1>3, <2>2
    <3>2. PICK w \in mod.uses : w.in = s[n - 1].function /\ w.to = s[(n - 1) + 1].function
      BY <1>1, <3>1 DEF Linked
    <3>3. w \in UsesOf(u.in) /\ w.to = u.in
      BY <1>3, <3>1, <3>2 DEF UsesOf
    <3>4. Starts(w.in)
      BY <1>4, <2>2, <3>3 DEF HandedOnce
    <3>5. k = n - 1
      <4>1. n - 1 <= k
        BY <1>2, <3>1, <3>2, <3>4
      <4>2. n \in Nat /\ k \in 1 .. n - 1
        BY <1>1, <3>1
      <4> HIDE DEF n
      <4> QED
        BY <4>1, <4>2
    <3>6. \A x \in saving : x.in # u.in
      <4> SUFFICES ASSUME NEW x \in saving, x.in = u.in PROVE FALSE
        OBVIOUS
      <4>1. PICK g \in mod.functions : Starts(g) /\ g \in Under(x.to)
        BY <1>4 DEF LeadsToStart
      <4>2. x \in mod.uses /\ x.to \in mod.functions
        BY <1>4 DEF LeadsToStart
      <4>3. w.in \in mod.functions /\ w.to \in mod.functions
        <5>1. n \in 1 .. n
          BY <1>1
        <5>2. s[n - 1].function \in mod.functions /\ s[n].function \in mod.functions
          BY <1>5, <3>1, <5>1
        <5> QED
          BY <3>1, <3>2, <5>2
      <4>4. x.to \in Under(w.to)
        BY <3>3, <4>2, <4>3, UnderIs
      <4>5. g \in Under(w.to)
        BY <4>1, <4>4, UnderUnder
      <4> QED
        BY <3>2, <3>4, <4>1, <4>3, <4>5, FlatIs
    <3> QED
      BY <1>4, <2>2, <3>2, <3>3, <3>4, <3>5, <3>6 DEF SavedFor
  <2> QED
    BY <2>1, <2>2
<1>8. k - 1 \in 1 .. n - 1 /\ (k - 1) + 1 = k
  BY <1>1, <1>2, <1>6
<1>9. Starts(s[(k - 1) + 1].function) /\ UsesOf(s[(k - 1) + 1].function) \subseteq saving
  BY <1>2, <1>4, <1>7, <1>8
<1>10. s[(k - 1) + 1].fresh
  BY <1>1, <1>8, <1>9 DEF Linked
<1> QED
  BY <1>8, <1>10 DEF s, k

LEMMA CallLibraryOK ==
  ASSUME PrintInv, NEW t \in ThreadIds, NEW u \in mod.uses, CallLibrary(t, u)
  PROVE  PrintInv'
<1> DEFINE frame == stack[t][Starter(t)]
           given == Passed(u)
           Value(r) == IF r \in DOMAIN state THEN state[r] ELSE 0
           values == [i \in DOMAIN given |-> IF given[i] = "stdout" THEN <<"now", Value("RDI")>>
                                             ELSE <<"saved", Value(given[i])>>]
<1>1. /\ phase = "run" /\ Len(stack[t]) > 0 /\ u.in = Top(t).function /\ u \in rewritten
      /\ Starter(t) # 0 /\ UNCHANGED <<static, stack, calls, saved>>
      /\ printed' = [use |-> u, starter |-> frame, from |-> saved[t], values |-> values]
  BY DEF CallLibrary
<1>2. UNCHANGED <<mod, phase, at, left, above, filled, state, saving, rewritten>> /\ phase' # "pass"
  BY <1>1 DEF static, search
<1>3. PassInv'
  BY <1>2, PassKept DEF PrintInv
<1>4. RunInvs'
  <2>1. /\ calls' \in [ThreadIds -> Nat] /\ DOMAIN stack' = ThreadIds /\ DOMAIN saved' = ThreadIds
        /\ StackOf(stack'[t], saved'[t], saving)
    BY <1>1 DEF PrintInv, RunInvs
  <2> QED
    BY <1>1, <1>2, <2>1, RunKept DEF PrintInv
<1>5. Flat /\ HandedOnce => frame.fresh
  BY <1>1, FreshAtTheCall
<1>6. frame.fresh => saved[t] = frame.call
  <2>1. StackOf(stack[t], saved[t], saving) /\ Len(stack[t]) \in Nat
    BY DEF PrintInv, RunInvs, StackOf
  <2>2. Starter(t) \in 1 .. Len(stack[t])
    BY <1>1, <2>1, StarterIs
  <2> QED
    BY <2>1, <2>2 DEF StackOf
<1>7. ASSUME Supported(u, frame.function)
      PROVE  /\ u.inlined => \E o \in WholeOffsets["RDI"] : values[1] = <<"now", o>>
             /\ \A i \in 1 .. 13 : \E o \in WholeOffsets[(Gpr \o Xmm)[i]] :
                  values[(IF u.inlined THEN 1 ELSE 0) + i] = <<"saved", o>>
  <2>1. /\ \A i \in DOMAIN mod.aliases :
             mod.aliases[i].register \in filled \ Registers => ~IsWhole(mod.aliases[i])
        /\ mod \in Modules /\ state = State(mod.aliases, filled)
        /\ \A r \in Registers : WholeOffsets[r] # {}
        /\ Inlined(u) = u.inlined
    BY <1>1, <1>7 DEF Supported, PrintInv, PassInv
  <2>2. \A r \in Registers : Value(r) \in WholeOffsets[r]
    BY <2>1, StateIs
  <2>3. /\ Inlined(u) => 1 \in DOMAIN given /\ given[1] = "stdout"
        /\ \A i \in 1 .. 13 : /\ (IF Inlined(u) THEN 1 ELSE 0) + i \in DOMAIN given
                              /\ given[(IF Inlined(u) THEN 1 ELSE 0) + i] = (Gpr \o Xmm)[i]
    BY PassedIs
  <2>4. \A i \in 1 .. 13 : (Gpr \o Xmm)[i] \in Registers /\ (Gpr \o Xmm)[i] # "stdout"
    BY TheRegisters
  <2>5. "RDI" \in Registers
    <3>1. (Gpr \o Xmm)[1] = "RDI"
      BY DEF Gpr, Xmm
    <3>2. 1 \in 1 .. 13
      OBVIOUS
    <3>3. (Gpr \o Xmm)[1] \in Registers
      BY <2>4, <3>2
    <3> QED
      BY <3>1, <3>3
  <2>6. \A j \in DOMAIN given : /\ given[j] = "stdout" => values[j] = <<"now", Value("RDI")>>
                                /\ given[j] # "stdout" => values[j] = <<"saved", Value(given[j])>>
    OBVIOUS
  <2> HIDE DEF given, values, Value
  <2>7. Inlined(u) => \E o \in WholeOffsets["RDI"] : values[1] = <<"now", o>>
    BY <2>2, <2>3, <2>5, <2>6
  <2>8. ASSUME NEW i \in 1 .. 13
        PROVE  \E o \in WholeOffsets[(Gpr \o Xmm)[i]] :
                 values[(IF Inlined(u) THEN 1 ELSE 0) + i] = <<"saved", o>>
    BY <2>2, <2>3, <2>4, <2>6
  <2> QED
    BY <2>1, <2>7, <2>8
<1>8. PrintsItsOwn'
  <2> HIDE DEF frame, values
  <2>1. PICK p, f, v, c : p = printed' /\ f = frame /\ v = values /\ c = saved[t]
    OBVIOUS
  <2>2. p = [use |-> u, starter |-> f, from |-> c, values |-> v]
    BY <1>1, <2>1
  <2>3. (Flat' <=> Flat) /\ (HandedOnce' <=> HandedOnce)
    BY <1>2 DEF Flat, HandedOnce, UsesOf, Under, Closed, Starts
  <2>4. Supported(p.use, p.starter.function)' <=> Supported(u, f.function)
    BY <1>2, <2>2 DEF Supported, WholeOffsets
  <2>5. /\ p.use = u /\ p.starter = f /\ p.from = c /\ p.values = v
    BY <2>2
  <2>6. (Flat' /\ HandedOnce' => f.fresh) /\ WholeOffsets' = WholeOffsets
    BY <1>2, <1>5, <2>1, <2>3 DEF WholeOffsets
  <2>7. ASSUME f.fresh, Supported(p.use, p.starter.function)'
        PROVE  /\ c = f.call
               /\ (IF u.inlined THEN 1 ELSE 0) = 1 => \E o \in WholeOffsets["RDI"] : v[1] = <<"now", o>>
               /\ \A i \in 1 .. 13 : \E o \in WholeOffsets[(Gpr \o Xmm)[i]] :
                    v[(IF u.inlined THEN 1 ELSE 0) + i] = <<"saved", o>>
    <3>1. c = f.call
      BY <1>6, <2>1, <2>7
    <3>2. Supported(u, frame.function)
      BY <2>1, <2>4, <2>7
    <3>3. /\ u.inlined => \E o \in WholeOffsets["RDI"] : v[1] = <<"now", o>>
          /\ \A i \in 1 .. 13 : \E o \in WholeOffsets[(Gpr \o Xmm)[i]] :
               v[(IF u.inlined THEN 1 ELSE 0) + i] = <<"saved", o>>
      BY <1>7, <2>1, <3>2
    <3>4. (IF u.inlined THEN 1 ELSE 0) = 1 => u.inlined
      OBVIOUS
    <3> QED
      BY <3>1, <3>3, <3>4
  <2> QED
    BY <2>1, <2>5, <2>6, <2>7 DEF PrintsItsOwn
<1> QED
  BY <1>3, <1>4, <1>8 DEF PrintInv

LEMMA CallsNextOK == PrintInv /\ [CallsNext]_callsVars => PrintInv'
<1> SUFFICES ASSUME PrintInv, [CallsNext]_callsVars PROVE PrintInv'
  OBVIOUS
<1>1. CASE UNCHANGED callsVars
  <2>1. UNCHANGED <<mod, phase, at, left, above, filled, state, saving, rewritten, stack, calls, saved, printed>>
    BY <1>1 DEF callsVars, static, search
  <2>3. PassInv'
    BY <2>1, PassKept DEF PrintInv
  <2>4. ASSUME NEW t \in ThreadIds
        PROVE  StackOf(stack[t], saved[t], saving)'
    <3>1. StackOf(stack[t]', saved[t]', saving')
      BY <2>1 DEF PrintInv, RunInvs
    <3> QED
      BY <2>1, <3>1, StackKept
  <2>5. RunInvs'
    BY <2>1, <2>4 DEF PrintInv, RunInvs
  <2>6. PrintsItsOwn'
    BY <2>1, PrintKept DEF PrintInv
  <2> QED
    BY <2>3, <2>5, <2>6 DEF PrintInv
<1>2. CASE \/ \E f \in Library : Consider(f)
           \/ \E u \in mod.uses : Search(u) \/ SearchAbove(u)
           \/ Rewrite
  BY <1>2, ConsiderOK, SearchOK, SearchAboveOK, RewriteOK
<1>3. CASE PassDone
  <2>1. /\ phase' = "run"
        /\ UNCHANGED <<mod, at, left, above, filled, state, saving, rewritten, stack, calls, saved, printed>>
    BY <1>3 DEF PassDone, search
  <2>2. PassInv'
    BY <2>1, PassKept DEF PrintInv
  <2>3. ASSUME NEW t \in ThreadIds
        PROVE  StackOf(stack[t], saved[t], saving)'
    <3>1. StackOf(stack[t]', saved[t]', saving')
      BY <2>1 DEF PrintInv, RunInvs
    <3> QED
      BY <2>1, <3>1, StackKept
  <2>4. RunInvs'
    BY <2>1, <2>3 DEF PrintInv, RunInvs
  <2>5. PrintsItsOwn'
    BY <2>1, PrintKept DEF PrintInv
  <2> QED
    BY <2>2, <2>4, <2>5 DEF PrintInv
<1>4. CASE \E t \in ThreadIds : Return(t)
  BY <1>4, ReturnOK
<1>5. CASE \E t \in ThreadIds, u \in mod.uses :
             Call(t, u) \/ CallIndirect(t, u) \/ TakeAddress(t, u) \/ CallLibrary(t, u)
  BY <1>5, CallOK, CallIndirectOK, TakeAddressOK, CallLibraryOK
<1>6. CASE CallsFinished
  BY <1>1, <1>6 DEF CallsFinished
<1> QED
  BY <1>1, <1>2, <1>3, <1>4, <1>5, <1>6 DEF CallsNext

(* The helper of va_listPass is given the registers of the call that       *)
(* started the va_list, whatever its other calls and the other threads     *)
(* save in between: once a save preceded that call each register is in     *)
(* its place, and in a flat program that hands va_lists on once a save     *)
(* does precede it, in whatever order the pass came to the library's       *)
(* functions and their uses, and whichever functions the loads it put in   *)
(* made it take for ones that start a va_list.                             *)
THEOREM HelperPrintsItsOwn == CallsSpec => []PrintsItsOwn
<1>1. PrintInv => PrintsItsOwn
  BY DEF PrintInv
<1> QED
  BY <1>1, PrintStart, CallsNextOK, PTL DEF CallsSpec
=============================================================================
