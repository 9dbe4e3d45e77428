--------------------------- MODULE RegisterProgram ---------------------------
(***************************************************************************)
(* What a lifted function does to the machine's registers, whose bytes are *)
(* shared with every function it calls: a load sees what was stored last,  *)
(* a callee sees every register as it is and may write any of them, and so *)
(* does the caller once the function returns.  Module TLSLocalize is shown *)
(* to implement it.                                                        *)
(***************************************************************************)
EXTENDS Integers

CONSTANTS Entry, Succ, Programs, Aliases, Address, Size, Bytes, Values

VARIABLES
  code,     \* block |-> its instructions
  at,       \* the next instruction: <<block, index>>
  reg,      \* the bytes of the registers
  seen,     \* what the last load, callee or caller saw
  done      \* the function has returned

program == <<code, at, reg, seen, done>>

Read(m, a) == [k \in 0 .. Size[a] - 1 |-> m[Address[a] + k]]
Write(m, a, bytes) ==
  [x \in Bytes |-> IF x - Address[a] \in DOMAIN bytes THEN bytes[x - Address[a]] ELSE m[x]]
Fill(a, v) == [k \in 0 .. Size[a] - 1 |-> v]

Here == code[at[1]][at[2]]
Forward == at' = <<at[1], at[2] + 1>>
Leave == \E b \in Succ[at[1]] : at' = <<b, 1>>

Load ==
  /\ Here.op = "load" /\ seen' = Read(reg, Here.alias)
  /\ Forward /\ UNCHANGED reg

Store ==
  /\ Here.op = "store" /\ \E v \in Values : reg' = Write(reg, Here.alias, Fill(Here.alias, v))
  /\ Forward /\ UNCHANGED seen

Call ==
  /\ Here.op \in {"call", "invoke"} /\ seen' = reg
  /\ \/ UNCHANGED reg
     \/ \E a \in Aliases, v \in Values : reg' = Write(reg, a, Fill(a, v))
  /\ IF Here.op = "call" THEN Forward ELSE Leave

Branch == Here.op = "br" /\ Leave /\ UNCHANGED <<reg, seen>>

Return == Here.op = "ret" /\ done' = TRUE /\ seen' = reg /\ UNCHANGED <<at, reg>>

Init ==
  /\ code \in Programs
  /\ at = <<Entry, 1>>
  /\ reg \in [Bytes -> Values]
  /\ seen = <<>>
  /\ done = FALSE

Next ==
  /\ ~done /\ UNCHANGED code
  /\ \/ (Load \/ Store \/ Call \/ Branch) /\ UNCHANGED done
     \/ Return

Spec == Init /\ [][Next]_program
=============================================================================
