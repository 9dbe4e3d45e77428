------------------------------ MODULE HostCalls ------------------------------
(***************************************************************************)
(* What lifted code does in place of what only the x86 machine has, after  *)
(* fsRegisterPass, rdtscPass, statPass and fstatPass (src/Passes): an      *)
(* access relative to FS goes to a thread-local variable for its offset,   *)
(* rdtsc to a helper whose result passes through a global, and a call of   *)
(* __xstat or __fxstat goes to the host's, between copies of the structure *)
(* out of the x86 layout and back.                                         *)
(*                                                                         *)
(* Threads interleave at the loads, stores and calls of the new code.      *)
(***************************************************************************)
EXTENDS Integers, Sequences, FiniteSets

CONSTANTS
  Threads,
  Accesses,       \* the accesses relative to FS: <<offset, width in bytes>>
  Values,         \* what a byte of the thread's memory holds
  MaxTime,        \* what the clock stops at
  Half,           \* 2 to the width of half a register
  Narrow,         \* 2 to the width of the host's narrow fields
  Files,          \* file |-> field |-> its value in the host's structure
  Garbage,        \* field |-> what the buffer holds at first
  MaxOps          \* how many operations a thread begins

(* The accesses relative to FS are at constant offsets, of at most the     *)
(* eight bytes that a variable has, and overlap only at one offset, which  *)
(* fsRegisterPass takes for granted and does not check.                    *)
ASSUME HostAssumption ==
  /\ MaxTime \in Nat /\ MaxOps \in Nat /\ Half \in Nat \ {0}
  /\ Narrow \in Nat \ {0} /\ Narrow % 2 = 0
  /\ \A x \in Accesses : x[1] \in Int /\ x[2] \in 1 .. 8
  /\ \A x, y \in Accesses : x[1] # y[1] =>
        (x[1] .. x[1] + x[2] - 1) \cap (y[1] .. y[1] + y[2] - 1) = {}

VARIABLES
  pc,          \* thread |-> what it does next
  ops,         \* thread |-> how many operations it began
  fsVar,       \* thread |-> offset |-> the bytes of FSRegister<offset>
  memory,      \* thread |-> the bytes FS would have led to
  clock,
  gVar,        \* what rdtsc returned last: <<time, aux>>
  result,      \* thread |-> what its helper returned
  regs,        \* thread |-> what it has in EAX, EDX and ECX
  rest,        \* the functions that a call is left of which the pass did not reach
  buffer,      \* the structure for stat in the x86 layout, by index
  native,      \* thread |-> its statArmInstance, by index
  answer,      \* thread |-> what the host said of its file
  before,      \* thread |-> the buffer when its call began
  alone        \* thread |-> no other thread wrote what it is using

fsState == <<fsVar, memory>>
tscState == <<clock, gVar, result, regs>>
statState == <<rest, buffer, native, answer, before>>
vars == <<pc, ops, fsState, tscState, statState, alone>>

Begin(t, where) ==
  /\ pc[t] = "idle" /\ ops[t] < MaxOps
  /\ ops' = [ops EXCEPT ![t] = @ + 1]
  /\ pc' = [pc EXCEPT ![t] = where]

Go(t, from, to) == pc[t] = from /\ pc' = [pc EXCEPT ![t] = to] /\ UNCHANGED ops

(* t writes what the threads at the steps in Where are using.              *)
Disturb(t, Where) == alone' = [u \in Threads |-> alone[u] /\ (u = t \/ pc[u] \notin Where)]
-----------------------------------------------------------------------------
(* fsRegisterPass *)

Offsets == {x[1] : x \in Accesses}
Bytes == UNION {x[1] .. x[1] + x[2] - 1 : x \in Accesses}
Word == 0 .. 7

(* Mutant: the variable is shared by the threads.                          *)
SharedCopies(t) == Threads

(* The copies of a variable that a store reaches: it is thread-local.      *)
CopiesOf(t) == {t}

(* ChangeFsbaseToGlobalAlias: each user of the sum of FS and the offset is *)
(* given the variable's address for its first operand.                     *)
StoreFS(t, x, v) ==
  /\ Begin(t, "idle")
  /\ fsVar' = [u \in Threads |->
       IF u \in CopiesOf(t)
       THEN [fsVar[u] EXCEPT ![x[1]] = [k \in Word |-> IF k < x[2] THEN v ELSE @[k]]]
       ELSE fsVar[u]]
  /\ memory' = [memory EXCEPT ![t] = [b \in Bytes |-> IF b - x[1] \in 0 .. x[2] - 1 THEN v ELSE @[b]]]
  /\ UNCHANGED <<tscState, statState, alone>>

LoadFS(t, x) == [k \in 0 .. x[2] - 1 |-> fsVar[t][x[1]][k]]
-----------------------------------------------------------------------------
(* rdtscPass *)

(* The call passes the second element of gVar to the helper.               *)
CallRdtsc(t) ==
  /\ Begin(t, "store") /\ clock < MaxTime
  /\ clock' = clock + 1
  /\ result' = [result EXCEPT ![t] = <<clock', gVar[2]>>]
  /\ alone' = [alone EXCEPT ![t] = TRUE]
  /\ UNCHANGED <<fsState, gVar, regs, statState>>

StoreResult(t) ==
  /\ Go(t, "store", "load")
  /\ gVar' = result[t]
  /\ Disturb(t, {"load"})
  /\ UNCHANGED <<fsState, clock, result, regs, statState>>

(* Mutant: the halves are stored the other way round.                      *)
Swapped(time) == <<time \div Half, time % Half>>

(* The low half goes to RAX, the high one to RDX.                          *)
Halves(time) == <<time % Half, time \div Half>>

LoadFirst(t) ==
  /\ Go(t, "load", "idle")
  /\ regs' = [regs EXCEPT ![t] = <<Halves(gVar[1])[1], Halves(gVar[1])[2], @[3]>>]
  /\ UNCHANGED <<fsState, clock, gVar, result, statState, alone>>

Processor == 1
Beyond == 2

(* rdtscp: the helper returns a list of the time and the processor, from   *)
(* which the elements 0 and 2 are taken.                                   *)
CallRdtscp(t) ==
  /\ Begin(t, "idle") /\ clock < MaxTime
  /\ clock' = clock + 1
  /\ LET list == [i \in 0 .. 2 |-> IF i = 0 THEN clock' ELSE IF i = 1 THEN Processor ELSE Beyond] IN
     regs' = [regs EXCEPT ![t] = Halves(list[0]) \o <<list[2]>>]
  /\ UNCHANGED <<fsState, gVar, result, statState, alone>>
-----------------------------------------------------------------------------
(* statPass and fstatPass *)

Undefined == -1
X86 == <<"dev", "ino", "nlink", "mode", "uid", "gid", "pad", "rdev", "size", "blksize",
         "blocks", "atim", "mtim", "ctim", "reserved">>
Arm == <<"dev", "ino", "mode", "nlink", "uid", "gid", "rdev", "pad", "size", "blksize",
         "pad2", "blocks", "atim", "mtim", "ctim", "reserved">>
Kinds == {"stat", "fstat"}
Out(kind) == IF kind = "stat" THEN "stat-out" ELSE "fstat-out"

ASSUME FieldAssumption ==
  /\ \A f \in DOMAIN Files, j \in DOMAIN Arm : Files[f][Arm[j]] \in Nat
  /\ \A i \in DOMAIN X86 : Garbage[X86[i]] \in Nat

(* DataMorphingAndSync, indices from 0: the field of the host's structure  *)
(* for each of x86's, before the call and after it, in the two passes.     *)
StatIn == {<<0, 0>>, <<1, 1>>, <<2, 3>>, <<3, 2>>, <<4, 4>>, <<5, 5>>, <<7, 6>>, <<8, 8>>,
           <<9, 9>>, <<10, 11>>, <<11, 12>>, <<12, 13>>, <<13, 14>>}
StatOut == {<<0, 0>>, <<1, 1>>, <<3, 2>>, <<2, 3>>, <<4, 4>>, <<5, 5>>, <<7, 6>>, <<8, 8>>,
            <<9, 9>>, <<10, 11>>, <<11, 12>>, <<12, 13>>, <<13, 14>>}
(* Mutant: the mode and the number of links keep the places they had.      *)
FstatStraight == (StatIn \ {<<2, 3>>, <<3, 2>>}) \cup {<<2, 2>>, <<3, 3>>}
FstatIn == {<<0, 0>>, <<1, 1>>, <<2, 3>>, <<3, 2>>, <<4, 4>>, <<5, 5>>, <<7, 6>>, <<8, 8>>,
            <<9, 9>>, <<10, 11>>, <<11, 12>>, <<12, 13>>, <<13, 14>>}
FstatOut == {<<0, 0>>, <<1, 1>>, <<3, 2>>, <<2, 3>>, <<4, 4>>, <<5, 5>>, <<7, 6>>, <<8, 8>>,
             <<9, 9>>, <<10, 11>>, <<11, 12>>, <<12, 13>>, <<13, 14>>}

(* The fields 2 and 9 are i64 in the x86 layout, 3 and 9 i32 in the host's: *)
(* they are truncated on the way in and sign-extended on the way out.      *)
Truncated(v) == v % Narrow
Extended(v) == IF v >= Narrow \div 2 THEN v - Narrow ELSE v

Only(pairs) == CHOOSE p \in pairs : TRUE

CopyIn(t, kind) ==
  LET table == IF kind = "stat" THEN StatIn ELSE FstatIn IN
  /\ Begin(t, kind)
  /\ native' = [native EXCEPT ![t] = [j \in DOMAIN Arm |->
       LET pairs == {p \in table : p[2] = j - 1} IN
       IF pairs = {} THEN Undefined
       ELSE LET i == Only(pairs)[1] IN
            IF i \in {2, 9} THEN Truncated(buffer[i + 1]) ELSE buffer[i + 1]]]
  /\ before' = [before EXCEPT ![t] = buffer]
  /\ alone' = [alone EXCEPT ![t] = TRUE]
  /\ UNCHANGED <<fsState, tscState, rest, buffer, answer>>

(* The host fills its structure, or leaves it as it is and fails.          *)
HostStat(t, f) ==
  /\ \E kind \in Kinds : Go(t, kind, Out(kind))
  /\ \/ /\ native' = [native EXCEPT ![t] = [j \in DOMAIN Arm |-> Files[f][Arm[j]]]]
        /\ answer' = [answer EXCEPT ![t] = <<f>>]
     \/ answer' = [answer EXCEPT ![t] = <<>>] /\ UNCHANGED native
  /\ UNCHANGED <<fsState, tscState, rest, buffer, before, alone>>

CopyOut(t) ==
  \E kind \in Kinds :
    LET table == IF kind = "stat" THEN StatOut ELSE FstatOut IN
    /\ Go(t, Out(kind), "idle")
    /\ buffer' = [i \in DOMAIN X86 |->
         LET pairs == {p \in table : p[1] = i - 1} IN
         IF pairs = {} THEN buffer[i]
         ELSE LET v == native[t][Only(pairs)[2] + 1] IN
              IF i - 1 \in {2, 9} THEN Extended(v) ELSE v]
    /\ Disturb(t, Kinds \cup {Out(k) : k \in Kinds})
    /\ UNCHANGED <<fsState, tscState, rest, native, answer, before>>

(* The fields that both layouts have at the same place.                    *)
SamePlace == {"dev", "ino", "size", "blksize", "blocks", "atim", "mtim", "ctim"}

(* The pass erases calls while it iterates over the users of the function, *)
(* and the loop may end early.  A call that is left then goes to the       *)
(* host's function all the same, with the x86 structure.                   *)
StatUnconverted(t, kind, f) ==
  /\ kind \in rest
  /\ Begin(t, "idle")
  /\ buffer' = [i \in DOMAIN X86 |->
                 IF X86[i] \in SamePlace THEN Files[f][X86[i]] ELSE Undefined]
  /\ Disturb(t, Kinds \cup {Out(k) : k \in Kinds})
  /\ UNCHANGED <<fsState, tscState, rest, native, answer, before>>
-----------------------------------------------------------------------------
Finished == (\A t \in Threads : pc[t] = "idle") /\ UNCHANGED vars

Init ==
  /\ pc = [t \in Threads |-> "idle"] /\ ops = [t \in Threads |-> 0]
  /\ fsVar = [t \in Threads |-> [o \in Offsets |-> [k \in Word |-> 0]]]
  /\ memory = [t \in Threads |-> [b \in Bytes |-> 0]]
  /\ clock = 0 /\ gVar = <<0, 0>>
  /\ result = [t \in Threads |-> <<0, 0>>] /\ regs = [t \in Threads |-> <<0, 0, 0>>]
  /\ rest \in SUBSET Kinds
  /\ buffer = [i \in DOMAIN X86 |-> Garbage[X86[i]]]
  /\ native = [t \in Threads |-> <<>>] /\ answer = [t \in Threads |-> <<>>]
  /\ before = [t \in Threads |-> <<>>]
  /\ alone = [t \in Threads |-> TRUE]

Next ==
  \/ \E t \in Threads :
       \/ \E x \in Accesses, v \in Values : StoreFS(t, x, v)
       \/ CallRdtsc(t) \/ StoreResult(t) \/ LoadFirst(t) \/ CallRdtscp(t)
       \/ \E kind \in Kinds : CopyIn(t, kind)
       \/ \E f \in DOMAIN Files : HostStat(t, f) \/ \E kind \in Kinds : StatUnconverted(t, kind, f)
       \/ CopyOut(t)
  \/ Finished

Spec == Init /\ [][Next]_vars
-----------------------------------------------------------------------------
(* Properties *)

(* What a thread stored relative to FS is what it loads from there later,  *)
(* whatever the widths of the two accesses, if there is a variable for     *)
(* each of its bytes (HostAssumption), and whatever other threads store at *)
(* the same offset (ChangeFsbaseToGlobalAlias).                            *)
FSIsTheThreads ==
  \A t \in Threads, x \in Accesses :
    LoadFS(t, x) = [k \in 0 .. x[2] - 1 |-> memory[t][x[1] + k]]

(* A thread that no other has rewritten gVar under ends its rdtsc with the *)
(* low half of what its own helper read in EAX and the high half in EDX    *)
(* (InsertCalltoShareBeforerdtsc).                                         *)
ReadsItsClock ==
  [][\A t \in Threads :
       LoadFirst(t) /\ alone[t] => regs'[t][1] + Half * regs'[t][2] = result[t][1]]_vars

Copied == {"dev", "ino", "nlink", "mode", "uid", "gid", "rdev", "size", "blksize", "blocks",
           "atim", "mtim", "ctim"}
Fits(v) == v < Narrow \div 2

(* A call of stat or fstat that the pass reached, and that no other thread *)
(* writes the buffer under, ends with each field of the x86 structure what *)
(* the host says of the file, and when the host fails what it was before,  *)
(* if the fields that are narrower on the host fit there                   *)
(* (DataMorphingAndSync).                                                  *)
StatTellsTheFile ==
  [][\A t \in Threads :
       CopyOut(t) /\ alone[t] =>
         \A i \in DOMAIN X86 :
           LET field == X86[i]
               right == IF answer[t] = <<>> THEN before[t][i] ELSE Files[answer[t][1]][field]
           IN  field \in Copied /\ (field \in {"nlink", "blksize"} => Fits(right)) =>
                 buffer'[i] = right]_vars
=============================================================================
