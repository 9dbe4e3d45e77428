---------------------------- MODULE TLSLocalize ----------------------------
(***************************************************************************)
(* The TLS pass (Passes/TLS.cpp).  A lifted function reads and writes the  *)
(* machine's registers through aliases into the thread-local register      *)
(* state.  The pass gives the registers a loop uses, and then those a block *)
(* uses, a local copy: it fills the copy on the way in, spills it on every *)
(* way out, and spills and fills around each call, which may read and      *)
(* write any register.                                                     *)
(*                                                                         *)
(* A behaviour runs the pass on one program and then executes the result.  *)
(* reg keeps what the registers would hold had the pass done nothing; tls  *)
(* and local are the memory the rewritten program really has.              *)
(***************************************************************************)
EXTENDS Integers, Sequences, FiniteSets, SequencesExt

CONSTANTS
    Blocks, Entry, Succ,    \* the function's graph
    Loops, Body, Preheader, \* its top-level loops, simplified by LLVM
    Programs,               \* the code the blocks may hold
    Aliases,                \* the register aliases mcsema made
    Register,               \* alias -> the register that names it
    Address, Size,          \* alias -> its first byte and its bytes
    Flags,                  \* the registers whose name ends in F
    Width,                  \* bytes of a register that is no flag
    Bytes,                  \* the addresses of the register state
    Values,                 \* what a byte holds
    NoSlot, NoAlias

Instr(op, a, via, slot) == [op |-> op, alias |-> a, via |-> via, slot |-> slot]
Plain(op) == Instr(op, NoAlias, NoSlot, NoSlot)
Access(op, a) == Instr(op, a, NoSlot, NoSlot)
Inserted == {"fill", "spill"}
Accesses == {"load", "store"} \union Inserted

Exits(L) == UNION {Succ[b] : b \in Body[L]} \ Body[L]

ASSUME GraphAssumption ==
    /\ Entry \in Blocks
    /\ Succ \in [Blocks -> SUBSET Blocks]
    /\ \A L \in Loops :
          /\ Body[L] \subseteq Blocks /\ Preheader[L] \in Blocks \ Body[L]
          /\ \A e \in Exits(L) : {b \in Blocks : e \in Succ[b]} \subseteq Body[L]
          /\ \A b \in Blocks \ (Body[L] \union {Preheader[L]}) : Succ[b] \intersect Body[L] = {}

ASSUME AliasAssumption ==
    /\ \A a \in Aliases : Address[a] .. (Address[a] + Size[a] - 1) \subseteq Bytes
    /\ NoAlias \notin Aliases

(* What the pass relies on without looking: an invoke ends only blocks      *)
(* outside loops, since an InvokeInst is no CallInst, and the aliases that  *)
(* share a copy point at the same byte.                                     *)
ASSUME SupportedAssumption ==
    \A p \in Programs :
        /\ \A L \in Loops : \A b \in Body[L] : \A i \in DOMAIN p[b] : p[b][i].op # "invoke"
        /\ \A R \in {Body[L] : L \in Loops} \union {{b} : b \in Blocks} :
              \A x, y \in {i \in UNION {{p[b][k] : k \in DOMAIN p[b]} : b \in R} : i.alias # NoAlias} :
                  Register[x.alias] = Register[y.alias] => Address[x.alias] = Address[y.alias]

VARIABLES
    phase,      \* "loops", "blocks", then "run"
    todo,       \* the loops, then the blocks, still to rewrite
    code,       \* block -> its instructions
    at,         \* the next instruction: <<block, index>>
    reg,        \* the registers of the program as it was
    tls,        \* the thread-local registers of the rewritten program
    local,      \* slot -> the bytes of a local copy
    seen        \* what the last load or call saw

vars == <<phase, todo, code, at, reg, tls, local, seen>>
----------------------------------------------------------------------------
(* Rewriting *)

SlotWidth(r) == IF r \in Flags THEN 1 ELSE Width
Instrs(b) == {code[b][i] : i \in DOMAIN code[b]}
InLoop(b) == \E L \in Loops : b \in Body[L]

\* GetInfo on a loop and on a block: the aliases read or written directly.
UsedIn(B) == {i.alias : i \in {j \in UNION {Instrs(b) : b \in B} :
                                  j.op \in Accesses /\ j.via = NoSlot}}
UsesIn(b) == Cardinality({i \in DOMAIN code[b] :
                             code[b][i].op \in Accesses /\ code[b][i].via = NoSlot})
Named(used) == {Register[a] : a \in used}

\* ShouldHandleBB: a block pays only when its registers are used often.
ShouldHandleBB(b) ==
    LET used == UsedIn({b}) IN
    used # {} /\ ~(Cardinality(Named(used)) * 2 >= UsesIn(b))

\* map2: for each register, the alias of it that came first.
FirstAliases(used) ==
    {f \in [Named(used) -> used] : \A r \in Named(used) : Register[f[r]] = r}

Copies(op, owner, first) ==
    [k \in 1 .. Cardinality(DOMAIN first) |->
        LET r == SetToSeq(DOMAIN first)[k] IN
        Instr(op, first[r], NoSlot, <<owner, r>>)]

\* Mutant: what the callee wrote is not read back.
NotFilledAgain(ins, owner, first) ==
    FlattenSeq([k \in DOMAIN ins |->
        IF ins[k].op \in Accesses /\ ins[k].via = NoSlot
        THEN <<[ins[k] EXCEPT !.via = <<owner, Register[ins[k].alias]>>]>>
        ELSE IF ins[k].op = "call" THEN Copies("spill", owner, first) \o <<ins[k]>>
        ELSE <<ins[k]>>])

\* replaceUsesWithIf and the loop over SkipFunctions: an access goes to the
\* local copy, and a call is put between spills and fills.  An invoke is no
\* CallInst.
Redirect(ins, owner, first) ==
    FlattenSeq([k \in DOMAIN ins |->
        IF ins[k].op \in Accesses /\ ins[k].via = NoSlot
        THEN <<[ins[k] EXCEPT !.via = <<owner, Register[ins[k].alias]>>]>>
        ELSE IF ins[k].op = "call"
             THEN Copies("spill", owner, first) \o <<ins[k]>> \o Copies("fill", owner, first)
             ELSE <<ins[k]>>])

BeforeLast(ins, new) == Front(ins) \o new \o <<Last(ins)>>

\* runOnLoop.
LocalizedLoop(L, first) ==
    [b \in Blocks |->
        LET inside == IF b \in Body[L] THEN Redirect(code[b], L, first) ELSE code[b]
            left   == IF b \in Exits(L) THEN Copies("spill", L, first) \o inside ELSE inside
        IN  IF b = Preheader[L] THEN BeforeLast(left, Copies("fill", L, first)) ELSE left]

\* runOnBB: the fills go in front of everything, the spills before the
\* terminator.
LocalizedBlock(b, first) ==
    [code EXCEPT ![b] = Copies("fill", b, first)
                        \o BeforeLast(Redirect(@, b, first), Copies("spill", b, first))]

RunOnLoop ==
    /\ phase = "loops"
    /\ \E L \in todo :
          /\ todo' = todo \ {L}
          /\ LET used == UsedIn(Body[L]) IN
             \/ used = {} /\ UNCHANGED code
             \/ used # {} /\ \E first \in FirstAliases(used) : code' = LocalizedLoop(L, first)
    /\ UNCHANGED <<phase, at, reg, tls, local, seen>>

LoopsDone ==
    /\ phase = "loops" /\ todo = {}
    /\ phase' = "blocks"
    /\ todo' = {b \in Blocks : ~InLoop(b)}
    /\ UNCHANGED <<code, at, reg, tls, local, seen>>

RunOnBB ==
    /\ phase = "blocks"
    /\ \E b \in todo :
          /\ todo' = todo \ {b}
          /\ \/ ~ShouldHandleBB(b) /\ UNCHANGED code
             \/ /\ ShouldHandleBB(b)
                /\ \E first \in FirstAliases(UsedIn({b})) : code' = LocalizedBlock(b, first)
    /\ UNCHANGED <<phase, at, reg, tls, local, seen>>

BlocksDone ==
    /\ phase = "blocks" /\ todo = {}
    /\ phase' = "run"
    /\ UNCHANGED <<todo, code, at, reg, tls, local, seen>>
----------------------------------------------------------------------------
(* Executing *)

Here == code[at[1]][at[2]]
Running(ops) == phase = "run" /\ Here.op \in ops
Forward == at' = <<at[1], at[2] + 1>>

\* The bytes an alias reaches in the thread-local registers, and in a copy,
\* which is reached at its start whatever the alias's own offset is.
Read(m, a) == [k \in 0 .. Size[a] - 1 |-> m[Address[a] + k]]
Write(m, a, bytes) ==
    [x \in Bytes |-> IF x - Address[a] \in DOMAIN bytes THEN bytes[x - Address[a]] ELSE m[x]]
ReadCopy(slot, a) == [k \in 0 .. Size[a] - 1 |-> local[slot][k]]
Overlay(old, bytes) ==
    [k \in DOMAIN old |-> IF k \in DOMAIN bytes THEN bytes[k] ELSE old[k]]
ReadVia(i) == IF i.via = NoSlot THEN Read(tls, i.alias) ELSE ReadCopy(i.via, i.alias)

\* Give slot the bytes (a slot not yet filled is given all of them).
Put(slot, bytes) ==
    [s \in DOMAIN local \union {slot} |->
        IF s # slot THEN local[s]
        ELSE IF s \in DOMAIN local THEN Overlay(local[s], bytes) ELSE bytes]

StoreVia(i, bytes) ==
    IF i.via = NoSlot
    THEN tls' = Write(tls, i.alias, bytes) /\ UNCHANGED local
    ELSE local' = Put(i.via, bytes) /\ UNCHANGED tls

Load ==
    /\ Running({"load"})
    /\ seen' = ReadVia(Here)
    /\ Forward
    /\ UNCHANGED <<phase, todo, code, reg, tls, local>>

Store ==
    /\ Running({"store"})
    /\ \E v \in Values :
          LET bytes == [k \in 0 .. Size[Here.alias] - 1 |-> v] IN
          /\ reg' = Write(reg, Here.alias, bytes)
          /\ StoreVia(Here, bytes)
    /\ Forward
    /\ UNCHANGED <<phase, todo, code, seen>>

\* A fill loads SlotWidth bytes from where its alias points, be that the
\* registers or the block's own copy, and stores them in its slot.
Fill ==
    /\ Running({"fill"})
    /\ LET n == SlotWidth(Register[Here.alias])
           from == [k \in 0 .. n - 1 |->
                      IF Here.via = NoSlot THEN tls[Address[Here.alias] + k]
                                           ELSE local[Here.via][k]]
       IN  local' = Put(Here.slot, from)
    /\ Forward
    /\ UNCHANGED <<phase, todo, code, reg, tls, seen>>

Spill ==
    /\ Running({"spill"})
    /\ LET n == SlotWidth(Register[Here.alias]) IN
       StoreVia(Here, [k \in 0 .. n - 1 |-> local[Here.slot][k]])
    /\ Forward
    /\ UNCHANGED <<phase, todo, code, reg, seen>>

\* The callee sees every register and may write any one of them.
Callee ==
    /\ seen' = tls
    /\ \/ UNCHANGED <<reg, tls>>
       \/ \E a \in Aliases, v \in Values :
             LET bytes == [k \in 0 .. Size[a] - 1 |-> v] IN
             reg' = Write(reg, a, bytes) /\ tls' = Write(tls, a, bytes)

Call ==
    /\ Running({"call"})
    /\ Callee
    /\ Forward
    /\ UNCHANGED <<phase, todo, code, local>>

Enter(b) == at' = <<b, 1>>

Invoke ==
    /\ Running({"invoke"})
    /\ Callee
    /\ \E b \in Succ[at[1]] : Enter(b)
    /\ UNCHANGED <<phase, todo, code, local>>

Branch ==
    /\ Running({"br"})
    /\ \E b \in Succ[at[1]] : Enter(b)
    /\ UNCHANGED <<phase, todo, code, reg, tls, local, seen>>

\* The caller sees the registers once the function returns.
Return ==
    /\ Running({"ret"})
    /\ phase' = "returned"
    /\ seen' = tls
    /\ UNCHANGED <<todo, code, at, reg, tls, local>>

Returned == phase = "returned" /\ UNCHANGED vars
----------------------------------------------------------------------------
Init ==
    /\ phase = "loops"
    /\ todo = Loops
    /\ code \in Programs
    /\ at = <<Entry, 1>>
    /\ reg \in [Bytes -> Values]
    /\ tls = reg
    /\ local = <<>>
    /\ seen = <<>>

Next == \/ RunOnLoop \/ LoopsDone \/ RunOnBB \/ BlocksDone
        \/ Load \/ Store \/ Fill \/ Spill \/ Call \/ Invoke \/ Branch \/ Return
        \/ Returned

Spec == Init /\ [][Next]_vars
----------------------------------------------------------------------------
(* Properties *)

Ours(i) == i.op \in Inserted
Stripped(ins) ==
    LET original == SelectSeq(ins, LAMBDA i : ~Ours(i)) IN
    [k \in DOMAIN original |-> [original[k] EXCEPT !.via = NoSlot]]
Passed == SelectSeq(SubSeq(code[at[1]], 1, at[2] - 1), LAMBDA i : ~Ours(i))

Original == INSTANCE RegisterProgram WITH
    code <- [b \in Blocks |-> Stripped(code[b])],
    at <- <<at[1], Len(Passed) + 1>>,
    done <- phase = "returned"

(* The rewritten function does to the registers, and shows its loads, its   *)
(* callees and its caller, exactly what the function it was made from does: *)
(* every way in fills the copies, every way out and every call spills them, *)
(* and after a call they are filled again (runOnLoop and runOnBB).          *)
KeepsRegisters == Original!Spec
============================================================================
