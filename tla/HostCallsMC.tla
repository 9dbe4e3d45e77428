----------------------------- MODULE HostCallsMC -----------------------------
(***************************************************************************)
(* What lifted code does for the x86 machine: the calls that the passes    *)
(* put in (HostCalls), or those of variadic functions (VariadicCalls).     *)
(***************************************************************************)
EXTENDS HostCalls, VariadicCallsMC

(* Two accesses of one offset with their widths, and one of another.       *)
MCAccesses == {<<0, 8>>, <<0, 2>>, <<40, 2>>}

(* A file whose fields fit, and one whose block size the host's structure  *)
(* has with its top bit set; the buffer's block size does not fit there.   *)
Fields == {Arm[j] : j \in DOMAIN Arm}
Place(field) == CHOOSE j \in DOMAIN Arm : Arm[j] = field
MCFiles == [f \in {"small", "device"} |->
  [field \in Fields |->
     CASE field = "nlink" -> 1
       [] field = "blksize" -> (IF f = "small" THEN 3 ELSE 7)
       [] OTHER -> 10 * Place(field) + (IF f = "small" THEN 1 ELSE 2)]]

MCGarbage == [field \in {X86[i] : i \in DOMAIN X86} |->
  CASE field = "nlink" -> 2 [] field = "blksize" -> 17 [] OTHER -> 0]

(* One of the two runs; they share no variable.                            *)
CallsIdle ==
  /\ mod = NoCall /\ phase = "run"
  /\ todo = {} /\ at = NoCall /\ left = {} /\ above = {} /\ met = {}
  /\ filled = NoCall /\ state = <<>> /\ saving = {} /\ rewritten = {}
  /\ stack = <<>> /\ calls = <<>> /\ saved = <<>> /\ printed = <<>>

BothInit ==
  \/ Init /\ CallsIdle
  \/ CallsInit /\ Init /\ rest = {}

BothNext ==
  \/ mod = NoCall /\ Next /\ UNCHANGED callsVars
  \/ mod # NoCall /\ CallsNext /\ UNCHANGED vars

BothSpec == BothInit /\ [][BothNext]_<<vars, callsVars>>
=============================================================================
