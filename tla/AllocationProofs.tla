-------------------------- MODULE AllocationProofs --------------------------
(* Theorems about module AllocationState, for every set of conventions and *)
(* types that satisfies its assumptions.                                   *)
EXTENDS AllocationState, TLAPS, WellFoundedInduction

IsSeq(s) == \E S : s \in Seq(S)
IsDecl(d) == d.from \in Nat /\ d.to \in Nat /\ d.from <= d.to
Decls(s) == IsSeq(s) /\ \A k \in DOMAIN s : IsDecl(s[k])
Apart(s) ==
  \A i, j \in DOMAIN s : i < j /\ s[i].place = s[j].place => s[i].to <= s[j].from
Before(s, t) ==
  \A i \in DOMAIN s, j \in DOMAIN t : s[i].place = t[j].place => s[i].to <= t[j].from
IsNamed(d) == d.place # Stack => d.from < d.to /\ d.to <= d.bits
AllNamed(s) == \A k \in DOMAIN s : IsNamed(s[k])
(* No value lies beyond what its place is filled to.                       *)
Below(s, table, f, offset) ==
  \A k \in DOMAIN s :
    /\ s[k].place = Stack => s[k].to <= offset
    /\ \A i \in DOMAIN table : s[k].place = table[i].reg => s[k].to <= f[i]

AppendFacts(s, e) ==
  /\ IsSeq(Append(s, e))
  /\ Len(Append(s, e)) = Len(s) + 1
  /\ DOMAIN Append(s, e) = 1..(Len(s) + 1)
  /\ \A k \in 1..Len(s) : Append(s, e)[k] = s[k]
  /\ Append(s, e)[Len(s) + 1] = e

LEMMA SeqFacts ==
  ASSUME NEW s, IsSeq(s)
  PROVE  Len(s) \in Nat /\ DOMAIN s = 1..Len(s)
  BY DEF IsSeq

LEMMA AppendSeq ==
  ASSUME NEW s, NEW e, IsSeq(s)
  PROVE  AppendFacts(s, e)
<1>1. PICK S : s \in Seq(S)
  BY DEF IsSeq
<1>2. s \in Seq(S \cup {e})
  BY <1>1
<1>3. Append(s, e) \in Seq(S \cup {e})
  BY <1>2
<1> QED
  BY <1>2, <1>3 DEF AppendFacts, IsSeq

ConcatFacts(s, t) ==
  /\ IsSeq(s \o t)
  /\ DOMAIN (s \o t) = 1..(Len(s) + Len(t))
  /\ \A k \in 1..Len(s) : (s \o t)[k] = s[k]
  /\ \A k \in 1..Len(t) : (s \o t)[Len(s) + k] = t[k]

LEMMA ConcatSeq ==
  ASSUME NEW s, NEW t, IsSeq(s), IsSeq(t)
  PROVE  ConcatFacts(s, t)
<1>1. PICK S : s \in Seq(S)
  BY DEF IsSeq
<1>2. PICK T : t \in Seq(T)
  BY DEF IsSeq
<1>3. s \in Seq(S \cup T) /\ t \in Seq(S \cup T)
  BY <1>1, <1>2
<1>4. s \o t \in Seq(S \cup T)
  BY <1>3
<1> QED
  BY <1>3, <1>4 DEF ConcatFacts, IsSeq

PrefixFacts(s, n) ==
  /\ IsSeq(SubSeq(s, 1, n))
  /\ Len(SubSeq(s, 1, n)) = n
  /\ DOMAIN SubSeq(s, 1, n) = 1..n
  /\ \A k \in 1..n : SubSeq(s, 1, n)[k] = s[k]

LEMMA PrefixSeq ==
  ASSUME NEW s, IsSeq(s), NEW n \in 0..Len(s)
  PROVE  PrefixFacts(s, n)
<1>1. PICK S : s \in Seq(S)
  BY DEF IsSeq
<1>2. SubSeq(s, 1, n) \in Seq(S)
  BY <1>1
<1> QED
  BY <1>1, <1>2 DEF PrefixFacts, IsSeq

LEMMA NoDecls ==
  ASSUME NEW s, s = << >>
  PROVE  Decls(s) /\ Apart(s) /\ AllNamed(s) /\ DOMAIN s = {}
<1>1. s \in Seq({}) /\ DOMAIN s = {}
  OBVIOUS
<1>2. IsSeq(s)
  BY <1>1 DEF IsSeq
<1>3. Decls(s)
  BY <1>1, <1>2 DEF Decls
<1>4. Apart(s)
  BY <1>1 DEF Apart
<1>5. AllNamed(s)
  BY <1>1 DEF AllNamed
<1> QED
  BY <1>1, <1>3, <1>4, <1>5

-----------------------------------------------------------------------------
(* A value declared after all others in its place.                         *)
LEMMA AppendDecl ==
  ASSUME NEW s, NEW d, Decls(s), Apart(s), IsDecl(d),
         \A k \in DOMAIN s : s[k].place = d.place => s[k].to <= d.from
  PROVE  Decls(Append(s, d)) /\ Apart(Append(s, d))
<1>1. AppendFacts(s, d) /\ Len(s) \in Nat /\ DOMAIN s = 1..Len(s)
  BY AppendSeq, SeqFacts DEF Decls
<1>2. Decls(Append(s, d))
  BY <1>1 DEF Decls, AppendFacts
<1>3. ASSUME NEW i \in DOMAIN Append(s, d), NEW j \in DOMAIN Append(s, d), i < j,
             Append(s, d)[i].place = Append(s, d)[j].place
      PROVE  Append(s, d)[i].to <= Append(s, d)[j].from
  <2>1. i \in 1..Len(s) /\ Append(s, d)[i] = s[i]
    BY <1>1, <1>3 DEF AppendFacts
  <2>2. CASE j \in 1..Len(s)
    BY <1>1, <1>3, <2>1, <2>2 DEF AppendFacts, Apart
  <2>3. CASE j = Len(s) + 1
    BY <1>1, <1>3, <2>1, <2>3 DEF AppendFacts
  <2> QED
    BY <1>1, <1>3, <2>2, <2>3 DEF AppendFacts
<1> QED
  BY <1>2, <1>3 DEF Apart

LEMMA ConcatDecls ==
  ASSUME NEW s, NEW t, Decls(s), Decls(t), Apart(s), Apart(t), Before(s, t)
  PROVE  Decls(s \o t) /\ Apart(s \o t)
<1>1. ConcatFacts(s, t)
  BY ConcatSeq DEF Decls
<1>2. /\ Len(s) \in Nat /\ DOMAIN s = 1..Len(s)
      /\ Len(t) \in Nat /\ DOMAIN t = 1..Len(t)
  BY SeqFacts DEF Decls
<1>3. ASSUME NEW i \in DOMAIN (s \o t)
      PROVE  \/ i \in 1..Len(s) /\ (s \o t)[i] = s[i]
             \/ i - Len(s) \in 1..Len(t) /\ (s \o t)[i] = t[i - Len(s)]
  <2>1. CASE i \in 1..Len(s)
    BY <1>1, <2>1 DEF ConcatFacts
  <2>2. CASE i \notin 1..Len(s)
    <3>1. i \in Nat /\ i - Len(s) \in 1..Len(t) /\ i = Len(s) + (i - Len(s))
      BY <1>1, <1>2, <1>3, <2>2 DEF ConcatFacts
    <3> QED
      BY <1>1, <3>1 DEF ConcatFacts
  <2> QED
    BY <2>1, <2>2
<1>4. Decls(s \o t)
  BY <1>1, <1>2, <1>3 DEF Decls, ConcatFacts
<1>5. ASSUME NEW i \in DOMAIN (s \o t), NEW j \in DOMAIN (s \o t), i < j,
             (s \o t)[i].place = (s \o t)[j].place
      PROVE  (s \o t)[i].to <= (s \o t)[j].from
  <2>1. i \in Nat /\ j \in Nat
    BY <1>1, <1>2 DEF ConcatFacts
  <2>2. CASE i \in 1..Len(s) /\ (s \o t)[i] = s[i]
    BY <1>2, <1>3, <1>5, <2>1, <2>2 DEF Apart, Before
  <2>3. CASE i - Len(s) \in 1..Len(t) /\ (s \o t)[i] = t[i - Len(s)]
    <3>1. j - Len(s) \in 1..Len(t) /\ (s \o t)[j] = t[j - Len(s)]
      BY <1>2, <1>3, <1>5, <2>1, <2>3
    <3>2. i - Len(s) < j - Len(s)
      BY <1>2, <1>5, <2>1
    <3> QED
      BY <1>2, <1>5, <2>3, <3>1, <3>2 DEF Apart
  <2> QED
    BY <1>3, <2>2, <2>3
<1> QED
  BY <1>4, <1>5 DEF Apart

LEMMA PrefixDecls ==
  ASSUME NEW s, Decls(s), Apart(s), NEW n \in 0..Len(s)
  PROVE  Decls(SubSeq(s, 1, n)) /\ Apart(SubSeq(s, 1, n))
<1>1. PrefixFacts(s, n) /\ Len(s) \in Nat /\ DOMAIN s = 1..Len(s)
  BY PrefixSeq, SeqFacts DEF Decls
<1>2. 1..n \subseteq 1..Len(s)
  BY <1>1
<1> QED
  BY <1>1, <1>2 DEF PrefixFacts, Decls, Apart

-----------------------------------------------------------------------------
(* Widths.                                                                 *)

LEMMA SizeOfPositive ==
  ASSUME NEW t
  PROVE  SizeOf(t) \in Nat \ {0}
<1>1. ASSUME NEW w \in Sizes, t.bits <= w
      PROVE  \E x \in Sizes : t.bits <= x /\ \A y \in Sizes : t.bits <= y => x <= y
  BY <1>1 DEF Sizes
<1> QED
  BY <1>1 DEF SizeOf, Sizes

(* The variant a value is declared in is as wide as what was asked for.    *)
LEMMA VariantWide ==
  ASSUME NEW c, NEW size \in Nat, DOMAIN c.widths = 1..Len(c.widths),
         Len(c.widths) \in Nat \ {0}, \A k \in DOMAIN c.widths : c.widths[k] \in Nat,
         size <= Width(c)
  PROVE  GetSmallestVariant(c, size) >= size
<1> DEFINE Wide == {k \in DOMAIN c.widths : c.widths[k] >= size}
<1>1. Wide # {} /\ Wide \subseteq Nat
  BY DEF Width
<1>2. PICK k \in Wide : \A j \in Wide : ~(<<j, k>> \in OpToRel(<, Nat))
  <2> HIDE DEF Wide
  <2> QED
    BY <1>1, NatLessThanWellFounded, WFMin
<1>3. \A j \in Wide : ~(j < k)
  BY <1>1, <1>2 DEF OpToRel
<1>4. \A j \in 1..(k - 1) : c.widths[j] < size
  BY <1>1, <1>3
<1>5. \E m \in DOMAIN c.widths : c.widths[m] >= size /\ \A j \in 1..(m - 1) : c.widths[j] < size
  BY <1>4
<1> QED
  BY <1>5 DEF GetSmallestVariant

-----------------------------------------------------------------------------
(* What holds between two parts of an argument: ps are the parameters      *)
(* declared, ts the parts taken for the argument at hand.                  *)
Fine(ps) == Decls(ps) /\ Apart(ps) /\ AllNamed(ps)
InRegisterTable(ts) == \A k \in DOMAIN ts : ts[k].place # Stack
Ready(ps, ts, table, f, offset) ==
  /\ f \in [DOMAIN table -> Nat] /\ offset \in Nat
  /\ Fine(ts) /\ InRegisterTable(ts)
  /\ Before(ps, ts)
  /\ Below(ps, table, f, offset) /\ Below(ts, table, f, offset)

LEMMA AppendFine ==
  ASSUME NEW s, NEW d, Fine(s), IsDecl(d), IsNamed(d),
         \A k \in DOMAIN s : s[k].place = d.place => s[k].to <= d.from
  PROVE  Fine(Append(s, d))
<1>1. Decls(Append(s, d)) /\ Apart(Append(s, d))
  BY AppendDecl DEF Fine
<1>2. AppendFacts(s, d) /\ Len(s) \in Nat /\ DOMAIN s = 1..Len(s)
  BY AppendSeq, SeqFacts DEF Fine, Decls
<1>3. AllNamed(Append(s, d))
  BY <1>2 DEF AllNamed, AppendFacts, Fine
<1> QED
  BY <1>1, <1>3 DEF Fine

LEMMA NothingTaken ==
  ASSUME NEW ps, NEW ts, ts = << >>, NEW table, NEW f \in [DOMAIN table -> Nat],
         NEW offset \in Nat, Below(ps, table, f, offset)
  PROVE  Ready(ps, ts, table, f, offset)
<1>1. Decls(ts) /\ Apart(ts) /\ AllNamed(ts) /\ DOMAIN ts = {}
  BY NoDecls
<1>2. Before(ps, ts)
  BY <1>1 DEF Before
<1>3. Below(ts, table, f, offset)
  BY <1>1 DEF Below
<1> QED
  BY <1>1, <1>2, <1>3 DEF Ready, Fine, InRegisterTable

(* The next part is placed in register i, above what it is filled to.      *)
LEMMA RegisterTaken ==
  ASSUME NEW ps, NEW ts, NEW table, IsTable(table), NEW f, NEW offset,
         Fine(ps), Ready(ps, ts, table, f, offset),
         NEW i \in DOMAIN table, NEW d, IsDecl(d), IsNamed(d), d.from < d.to,
         d.place = table[i].reg, d.from = f[i]
  PROVE  Ready(ps, Append(ts, d), table, [f EXCEPT ![i] = d.to], offset)
<1> DEFINE g == [f EXCEPT ![i] = d.to]
<1>1. /\ AppendFacts(ts, d) /\ Len(ts) \in Nat /\ DOMAIN ts = 1..Len(ts)
      /\ Len(ps) \in Nat /\ DOMAIN ps = 1..Len(ps)
  BY AppendSeq, SeqFacts DEF Ready, Fine, Decls
<1>2. /\ f \in [DOMAIN table -> Nat] /\ offset \in Nat
      /\ d.from \in Nat /\ d.to \in Nat /\ d.place # Stack
  BY DEF Ready, IsDecl, IsTable
<1>3. /\ \A k \in DOMAIN ts : ts[k].to \in Nat
      /\ \A k \in DOMAIN ps : ps[k].to \in Nat
  BY DEF Ready, Fine, Decls, IsDecl
<1>4. /\ \A k \in DOMAIN ts : ts[k].place = d.place => ts[k].to <= d.from
      /\ \A k \in DOMAIN ps : ps[k].place = d.place => ps[k].to <= d.from
  BY DEF Ready, Below
<1>5. Fine(Append(ts, d))
  BY <1>4, AppendFine DEF Ready
<1>6. InRegisterTable(Append(ts, d))
  BY <1>1, <1>2 DEF InRegisterTable, AppendFacts, Ready
<1>7. Before(ps, Append(ts, d))
  BY <1>1, <1>4 DEF Before, AppendFacts, Ready
<1>8. g \in [DOMAIN table -> Nat] /\ g[i] = d.to
  BY <1>2
<1>9. \A j \in DOMAIN table : f[j] <= g[j] /\ f[j] \in Nat /\ g[j] \in Nat
  BY <1>2
<1>10. /\ Below(ps, table, g, offset) 
       /\ Below(ts, table, g, offset)
  <2> HIDE DEF g
  <2> QED
    BY <1>3, <1>9 DEF Below, Ready
<1>11. Below(Append(ts, d), table, g, offset)
  <2> HIDE DEF g
  <2>1. ASSUME NEW k \in DOMAIN Append(ts, d)
        PROVE  /\ Append(ts, d)[k].place = Stack => Append(ts, d)[k].to <= offset
               /\ \A j \in DOMAIN table :
                    Append(ts, d)[k].place = table[j].reg => Append(ts, d)[k].to <= g[j]
    <3>1. CASE k \in 1..Len(ts)
      BY <1>1, <1>10, <3>1 DEF Below, AppendFacts
    <3>2. CASE k = Len(ts) + 1
      BY <1>1, <1>2, <1>8, <3>2 DEF AppendFacts, IsTable
    <3> QED
      BY <1>1, <2>1, <3>1, <3>2 DEF AppendFacts
  <2> QED
    BY <2>1 DEF Below
<1> HIDE DEF g
<1>12. Ready(ps, Append(ts, d), table, g, offset)
  BY <1>2, <1>5, <1>6, <1>7, <1>8, <1>10, <1>11 DEF Ready
<1> QED
  BY <1>12 DEF g

(* An argument gets a slot of n bytes on the stack.                        *)
LEMMA StackTaken ==
  ASSUME NEW ps, NEW ts, NEW table, IsTable(table), NEW f, NEW offset,
         Fine(ps), Ready(ps, ts, table, f, offset), NEW n \in Nat,
         NEW d, d.place = Stack, d.from = offset, d.to = offset + n,
         NEW none, none = << >>
  PROVE  Fine(Append(ps, d)) /\ Ready(Append(ps, d), none, table, f, offset + n)
<1>1. /\ AppendFacts(ps, d) /\ Len(ps) \in Nat /\ DOMAIN ps = 1..Len(ps)
      /\ \A k \in DOMAIN ps : ps[k].to \in Nat
  BY AppendSeq, SeqFacts DEF Fine, Decls, IsDecl
<1>2. f \in [DOMAIN table -> Nat] /\ offset \in Nat /\ offset + n \in Nat
  BY DEF Ready
<1>3. IsDecl(d) /\ IsNamed(d)
  BY <1>2 DEF IsDecl, IsNamed
<1>4. \A k \in DOMAIN ps : ps[k].place = d.place => ps[k].to <= d.from
  BY DEF Ready, Below
<1>5. Fine(Append(ps, d))
  BY <1>3, <1>4, AppendFine
<1>6. ASSUME NEW k \in DOMAIN Append(ps, d)
      PROVE  /\ Append(ps, d)[k].place = Stack => Append(ps, d)[k].to <= offset + n
             /\ \A j \in DOMAIN table :
                  Append(ps, d)[k].place = table[j].reg => Append(ps, d)[k].to <= f[j]
  <2>1. CASE k \in 1..Len(ps)
    BY <1>1, <1>2, <2>1 DEF Below, AppendFacts, Ready
  <2>2. CASE k = Len(ps) + 1
    BY <1>1, <1>2, <2>2 DEF AppendFacts, IsTable
  <2> QED
    BY <1>1, <1>6, <2>1, <2>2 DEF AppendFacts
<1>7. Below(Append(ps, d), table, f, offset + n)
  BY <1>6 DEF Below
<1> QED
  BY <1>2, <1>5, <1>7, NothingTaken

(* All of an argument's parts become parameters.                           *)
LEMMA TakenKept ==
  ASSUME NEW ps, NEW ts, NEW table, NEW f, NEW offset,
         Fine(ps), Ready(ps, ts, table, f, offset), NEW none, none = << >>
  PROVE  Fine(ps \o ts) /\ Ready(ps \o ts, none, table, f, offset)
<1>1. Decls(ps \o ts) /\ Apart(ps \o ts)
  BY ConcatDecls DEF Fine, Ready
<1>2. /\ ConcatFacts(ps, ts)
      /\ Len(ps) \in Nat /\ DOMAIN ps = 1..Len(ps)
      /\ Len(ts) \in Nat /\ DOMAIN ts = 1..Len(ts)
  BY ConcatSeq, SeqFacts DEF Fine, Decls, Ready
<1>3. ASSUME NEW k \in DOMAIN (ps \o ts)
      PROVE  \/ \E j \in DOMAIN ps : (ps \o ts)[k] = ps[j]
             \/ \E j \in DOMAIN ts : (ps \o ts)[k] = ts[j]
  <2>1. CASE k \in 1..Len(ps)
    BY <1>2, <2>1 DEF ConcatFacts
  <2>2. CASE k \notin 1..Len(ps)
    <3>1. k \in Nat /\ k - Len(ps) \in 1..Len(ts) /\ k = Len(ps) + (k - Len(ps))
      BY <1>2, <1>3, <2>2 DEF ConcatFacts
    <3> QED
      BY <1>2, <3>1 DEF ConcatFacts
  <2> QED
    BY <2>1, <2>2
<1>4. AllNamed(ps \o ts)
  BY <1>3 DEF AllNamed, Fine, Ready
<1>5. Below(ps \o ts, table, f, offset)
  BY <1>3 DEF Below, Ready
<1>6. Fine(ps \o ts)
  BY <1>1, <1>4 DEF Fine
<1> QED
  BY <1>5, <1>6, NothingTaken DEF Ready

(* The parts of a vector that does not fit are forgotten.                  *)
LEMMA TakenForgotten ==
  ASSUME NEW ps, NEW ts, NEW table, NEW f, NEW offset,
         Ready(ps, ts, table, f, offset), NEW n \in 0..Len(ts)
  PROVE  Ready(ps, SubSeq(ts, 1, n), table, f, offset)
<1> DEFINE us == SubSeq(ts, 1, n)
<1>1. Decls(us) /\ Apart(us)
  BY PrefixDecls DEF Ready, Fine
<1>2. PrefixFacts(ts, n) /\ Len(ts) \in Nat /\ DOMAIN ts = 1..Len(ts)
  BY PrefixSeq, SeqFacts DEF Ready, Fine, Decls
<1>3. DOMAIN us \subseteq DOMAIN ts /\ \A k \in DOMAIN us : us[k] = ts[k]
  BY <1>2 DEF PrefixFacts
<1> HIDE DEF us
<1>4. AllNamed(us) /\ InRegisterTable(us)
  BY <1>3 DEF AllNamed, InRegisterTable, Ready, Fine
<1>5. Before(ps, us)
  BY <1>3 DEF Before, Ready
<1>6. Below(us, table, f, offset)
  BY <1>3 DEF Below, Ready
<1>7. Ready(ps, us, table, f, offset)
  BY <1>1, <1>4, <1>5, <1>6 DEF Ready, Fine
<1> QED
  BY <1>7 DEF us

-----------------------------------------------------------------------------
(* The inductive invariant. Nothing is claimed of the registers while the  *)
(* return value is placed: StartParameters begins anew.                    *)
AtArguments == phase = "params" \/ (phase = "placing" /\ ~ForReturn)

SignatureSized ==
  /\ IsSeq(signature)
  /\ phase \in {"params", "placing"} => Len(signature) >= 1
  /\ \A k \in DOMAIN signature : signature[k].size \in Nat
ArgumentsReady ==
  /\ Ready(params, taken, conv.params.table, fill, stack_offset)
  /\ mark \in 0..Len(taken)
  /\ phase = "params" => taken = << >> /\ mark = 0

IInv ==
  /\ conv \in Conventions
  /\ SignatureSized
  /\ Fine(params)
  /\ AtArguments => ArgumentsReady

LEMMA OneType ==
  ASSUME NEW t, t.size \in Nat, NEW s, s = <<t>>
  PROVE  IsSeq(s) /\ Len(s) = 1 /\ \A k \in DOMAIN s : s[k].size \in Nat
<1>1. s \in Seq({t}) /\ Len(s) = 1 /\ DOMAIN s = {1} /\ s[1] = t
  OBVIOUS
<1> QED
  BY <1>1 DEF IsSeq

LEMMA ConvFacts ==
  ASSUME conv \in Conventions
  PROVE  /\ conv.params.stack \in Nat /\ IsTable(conv.params.table)
         /\ Void.size \in Nat /\ Pointer.size \in Nat
         /\ conv.params.injected # "stack" =>
              \A i \in DOMAIN conv.params.table : conv.params.table[i].reg # <<"RAX", 0>>
<1>1. conv.ptr \in Nat => conv.ptr \div 8 \in Nat
  OBVIOUS
<1> QED
  BY <1>1, ConventionsAssumption DEF Void, Pointer

LEMMA InitIInv == Init => IInv
<1> SUFFICES ASSUME Init PROVE IInv
  OBVIOUS
<1>1. SignatureSized
  <2>1. signature \in Seq({}) /\ DOMAIN signature = {}
    BY DEF Init
  <2> QED
    BY <2>1 DEF Init, SignatureSized, IsSeq
<1>2. Fine(params)
  BY NoDecls DEF Init, Fine
<1> QED
  BY <1>1, <1>2 DEF Init, IInv, AtArguments

(* Every action ends the allocation, starts the parameters or goes on with *)
(* an argument.                                                            *)
LEMMA StopIInv ==
  ASSUME IInv, NEW outcome \in {"failed", "aborted"}, Stop(outcome),
         IsSeq(signature'), \A k \in DOMAIN signature' : signature'[k].size \in Nat
  PROVE  IInv'
<1>1. phase' \in {"failed", "aborted"} /\ UNCHANGED <<conv, params>>
  BY DEF Stop, outputs
<1>2. Fine(params)'
  BY <1>1 DEF IInv
<1> QED
  BY <1>1, <1>2 DEF IInv, SignatureSized, AtArguments

LEMMA FirstParameter ==
  ASSUME NEW p, p.stack \in Nat, IsTable(p.table), NEW n \in Nat, NEW d,
         p.injected # "stack" => \A i \in DOMAIN p.table : p.table[i].reg # <<"RAX", 0>>,
         d.place = IF p.injected = "stack" THEN Stack ELSE <<"RAX", 0>>,
         d.from = IF p.injected = "stack" THEN p.stack ELSE 0,
         d.to = IF p.injected = "stack" THEN p.stack + n ELSE 64,
         d.bits = IF p.injected = "stack" THEN 8 * n ELSE 64,
         NEW ps, ps = <<d>>
  PROVE  /\ Fine(ps)
         /\ Below(ps, p.table, [i \in DOMAIN p.table |-> 0],
                  p.stack + IF p.injected = "stack" THEN n ELSE 0)
<1>1. ps \in Seq({d}) /\ DOMAIN ps = {1} /\ ps[1] = d
  OBVIOUS
<1>2. IsDecl(d) /\ IsNamed(d)
  BY DEF IsDecl, IsNamed, Stack
<1>3. IsSeq(ps)
  BY <1>1 DEF IsSeq
<1>4. Decls(ps) /\ Apart(ps) /\ AllNamed(ps)
  BY <1>1, <1>2, <1>3 DEF Decls, Apart, AllNamed
<1>5. Below(ps, p.table, [i \in DOMAIN p.table |-> 0],
            p.stack + IF p.injected = "stack" THEN n ELSE 0)
  <2>1. CASE p.injected = "stack"
    BY <1>1, <2>1 DEF Below, IsTable
  <2>2. CASE p.injected # "stack"
    BY <1>1, <2>2 DEF Below, Stack
  <2> QED
    BY <2>1, <2>2
<1> QED
  BY <1>4, <1>5 DEF Fine

LEMMA StartIInv ==
  ASSUME IInv, NEW injected \in BOOLEAN, NEW t, t.size \in Nat,
         StartParameters(injected, t),
         IsSeq(signature'), Len(signature') >= 1,
         \A k \in DOMAIN signature' : signature'[k].size \in Nat
  PROVE  IInv'
<1> DEFINE p == conv.params
           zero == [i \in DOMAIN p.table |-> 0]
           slot == IF p.injected = "stack" THEN t.size ELSE 0
<1>1. /\ conv \in Conventions /\ p.stack \in Nat /\ IsTable(p.table)
      /\ p.injected # "stack" => \A i \in DOMAIN p.table : p.table[i].reg # <<"RAX", 0>>
  BY ConvFacts DEF IInv
<1>2. /\ phase' = "params" /\ conv' = conv /\ fill' = zero
      /\ taken' = << >> /\ mark' = 0
  BY DEF StartParameters
<1>3. zero \in [DOMAIN p.table -> Nat]
  OBVIOUS
<1>4. /\ Fine(params') /\ Below(params', p.table, zero, stack_offset')
      /\ stack_offset' \in Nat
  <2>1. CASE injected
    <3> DEFINE d == [arg |-> 0, place |-> IF p.injected = "stack" THEN Stack ELSE <<"RAX", 0>>,
                     from |-> IF p.injected = "stack" THEN p.stack ELSE 0,
                     to |-> IF p.injected = "stack" THEN p.stack + t.size ELSE 64,
                     bits |-> IF p.injected = "stack" THEN 8 * t.size ELSE 64,
                     type |-> t]
    <3>1. params' = <<d>>
      BY <2>1 DEF StartParameters
    <3>2. stack_offset' = p.stack + slot
      BY <2>1 DEF StartParameters
    <3>3. /\ d.place = IF p.injected = "stack" THEN Stack ELSE <<"RAX", 0>>
          /\ d.from = IF p.injected = "stack" THEN p.stack ELSE 0
          /\ d.to = IF p.injected = "stack" THEN p.stack + t.size ELSE 64
          /\ d.bits = IF p.injected = "stack" THEN 8 * t.size ELSE 64
      OBVIOUS
    <3> HIDE DEF d
    <3>4. Fine(params') /\ Below(params', p.table, zero, p.stack + slot)
      <4> HIDE DEF p
      <4>1. Fine(<<d>>) /\ Below(<<d>>, p.table, zero, p.stack + slot)
        BY <1>1, <3>3, FirstParameter
      <4> QED
        BY <3>1, <4>1
    <3> QED
      BY <1>1, <3>2, <3>4
  <2>2. CASE ~injected
    <3>1. params' = << >> /\ stack_offset' = p.stack
      BY <1>1, <2>2 DEF StartParameters
    <3>2. Decls(params') /\ Apart(params') /\ AllNamed(params') /\ DOMAIN params' = {}
      BY <3>1, NoDecls
    <3> QED
      BY <1>1, <3>1, <3>2 DEF Fine, Below
  <2> QED
    BY <2>1, <2>2
<1>5. Ready(params', taken', p.table, fill', stack_offset')
  BY <1>2, <1>3, <1>4, NothingTaken
<1>6. Len(taken') = 0
  BY <1>2
<1>7. ArgumentsReady'
  BY <1>2, <1>5, <1>6 DEF ArgumentsReady
<1>8. SignatureSized'
  BY DEF SignatureSized
<1> QED
  BY <1>1, <1>2, <1>4, <1>7, <1>8 DEF IInv

LEMMA ReturnBound ==
  ASSUME IInv, NEW t, t.size \in Nat, signature' = <<t>>, StartParameters(FALSE, Void)
  PROVE  IInv'
<1>1. /\ IsSeq(signature') /\ Len(signature') = 1
      /\ \A k \in DOMAIN signature' : signature'[k].size \in Nat
  BY OneType
<1>2. Void.size \in Nat
  BY ConvFacts DEF IInv
<1>3. Len(signature') >= 1
  BY <1>1
<1> QED
  BY <1>1, <1>2, <1>3, StartIInv

LEMMA ReturnsIInv ==
  ASSUME IInv, TypesAssumption, BindReturnValues
  PROVE  IInv'
<1>1. Void.size \in Nat
  BY ConvFacts DEF IInv
<1>2. ASSUME NEW i \in 1..2, ReturnsSret(i)
      PROVE  IInv'
  BY <1>1, <1>2, ReturnBound DEF ReturnsSret
<1>3. ASSUME NEW i \in 1..2, NEW t \in ReturnTypes, SretNotVoid(i, t)
      PROVE  IInv'
  BY <1>3, StopIInv, OneType, TypesAssumption DEF SretNotVoid
<1>4. ASSUME ReturnsVoid
      PROVE  IInv'
  BY <1>1, <1>4, ReturnBound DEF ReturnsVoid
<1>5. ASSUME NEW t \in ReturnTypes, ReturnsDirectly(t)
      PROVE  IInv'
  BY <1>5, ReturnBound, TypesAssumption DEF ReturnsDirectly
<1>6. ASSUME NEW t \in ReturnTypes, ReturnsUnsupported(t)
      PROVE  IInv'
  <2>1. \E outcome \in {"failed", "aborted"} : Stop(outcome)
    BY <1>6 DEF ReturnsUnsupported
  <2> QED
    BY <1>6, <2>1, StopIInv, OneType, TypesAssumption DEF ReturnsUnsupported
<1>7. ASSUME NEW t \in ReturnTypes, ReturnsAllocated(t)
      PROVE  IInv'
  <2>1. /\ phase' = "placing" /\ signature' = <<t>>
        /\ UNCHANGED <<conv, params>>
    BY <1>7 DEF ReturnsAllocated, outputs
  <2>2. IsSeq(signature') /\ Len(signature') = 1
        /\ \A k \in DOMAIN signature' : signature'[k].size \in Nat
    BY <2>1, OneType, TypesAssumption
  <2>3. ~AtArguments' /\ SignatureSized'
    BY <2>1, <2>2 DEF AtArguments, ForReturn, SignatureSized
  <2> QED
    BY <2>1, <2>3 DEF IInv
<1> QED
  BY <1>2, <1>3, <1>4, <1>5, <1>6, <1>7 DEF BindReturnValues

-----------------------------------------------------------------------------
(* Binding arguments.                                                      *)

LEMMA SignatureGrows ==
  ASSUME SignatureSized, NEW t, t.size \in Nat, signature' = Append(signature, t),
         Len(signature) >= 1
  PROVE  SignatureSized' /\ Len(signature') >= 2
<1>1. /\ AppendFacts(signature, t) /\ Len(signature) \in Nat
      /\ DOMAIN signature = 1..Len(signature)
  BY AppendSeq, SeqFacts DEF SignatureSized
<1>2. \A k \in DOMAIN signature' : signature'[k].size \in Nat
  BY <1>1 DEF AppendFacts, SignatureSized
<1> QED
  BY <1>1, <1>2 DEF AppendFacts, SignatureSized

LEMMA BindArgumentIInv ==
  ASSUME IInv, NEW t, t.size \in Nat, BindArgument(t)
  PROVE  IInv'
<1>1. /\ phase = "params" /\ phase' = "placing" /\ signature' = Append(signature, t)
      /\ taken' = << >>
      /\ UNCHANGED <<conv, fill, mark, params, stack_offset>>
  BY DEF BindArgument, outputs
<1>2. ArgumentsReady /\ taken = << >>
  BY <1>1 DEF IInv, AtArguments, ArgumentsReady
<1>3. SignatureSized'
  BY <1>1, SignatureGrows DEF IInv, SignatureSized
<1>4. taken' = taken
  BY <1>1, <1>2
<1>5. ArgumentsReady'
  BY <1>1, <1>2, <1>4 DEF ArgumentsReady
<1> QED
  BY <1>1, <1>3, <1>5 DEF IInv

LEMMA BindStackArgumentIInv ==
  ASSUME IInv, NEW t, t.size \in Nat, BindStackArgument(t)
  PROVE  IInv'
<1> DEFINE d == [StackDecl(t) EXCEPT !.arg = Len(signature)]
<1>1. /\ phase = "params" /\ signature' = Append(signature, t)
      /\ params' = Append(params, d) /\ stack_offset' = stack_offset + t.size
      /\ UNCHANGED <<conv, phase, fill, taken, mark>>
  BY DEF BindStackArgument
<1>2. ArgumentsReady /\ taken = << >> /\ mark = 0
  BY <1>1 DEF IInv, AtArguments, ArgumentsReady
<1>3. SignatureSized'
  BY <1>1, SignatureGrows DEF IInv, SignatureSized
<1>4. d.place = Stack /\ d.from = stack_offset /\ d.to = stack_offset + t.size
  BY DEF StackDecl, Decl
<1> HIDE DEF d
<1>5. /\ Fine(params')
      /\ Ready(params', taken, conv.params.table, fill, stack_offset')
  BY <1>1, <1>2, <1>4, ConvFacts, StackTaken DEF IInv, ArgumentsReady
<1>6. ArgumentsReady'
  BY <1>1, <1>2, <1>5 DEF ArgumentsReady
<1> QED
  BY <1>1, <1>3, <1>5, <1>6 DEF IInv

(* While the return value is placed, nothing but the phase matters.        *)
LEMMA PlacingReturn ==
  ASSUME IInv, phase = "placing", ForReturn, UNCHANGED <<conv, phase, signature, params>>
  PROVE  IInv'
<1>1. ~AtArguments' /\ SignatureSized' /\ Fine(params)'
  BY DEF IInv, AtArguments, ForReturn, SignatureSized
<1> QED
  BY <1>1 DEF IInv

LEMMA PlacingArgument ==
  ASSUME IInv, phase = "placing", UNCHANGED <<conv, phase, signature, params>>,
         AtArguments =>
           /\ Ready(params, taken', conv.params.table, fill', stack_offset)
           /\ mark' \in 0..Len(taken'),
         UNCHANGED stack_offset
  PROVE  IInv'
<1>1. CASE ForReturn
  BY <1>1, PlacingReturn
<1>2. CASE ~ForReturn
  <2>1. AtArguments
    BY <1>2 DEF AtArguments
  <2>2. ArgumentsReady'
    BY <2>1 DEF ArgumentsReady
  <2>3. SignatureSized' /\ Fine(params)'
    BY DEF IInv, SignatureSized
  <2> QED
    BY <2>2, <2>3 DEF IInv
<1> QED
  BY <1>1, <1>2

(* The parts to be placed change, not those placed.                        *)
LEMMA PartsIInv ==
  ASSUME IInv, OpenStruct \/ Split
  PROVE  IInv'
<1>1. /\ phase = "placing"
      /\ UNCHANGED <<conv, phase, signature, params, fill, taken, mark, stack_offset>>
  BY DEF OpenStruct, Split, NoRoom, IsBasic, Placing, outputs
<1>2. AtArguments =>
        /\ Ready(params, taken', conv.params.table, fill', stack_offset)
        /\ mark' \in 0..Len(taken')
  BY <1>1 DEF IInv, ArgumentsReady
<1> QED
  BY <1>1, <1>2, PlacingArgument

LEMMA OpenVectorIInv ==
  ASSUME IInv, OpenVector
  PROVE  IInv'
<1>1. /\ phase = "placing" /\ mark' = Len(taken)
      /\ UNCHANGED <<conv, phase, signature, params, fill, taken, stack_offset>>
  BY DEF OpenVector, Placing, outputs
<1>2. AtArguments =>
        /\ Ready(params, taken', conv.params.table, fill', stack_offset)
        /\ mark' \in 0..Len(taken')
  BY <1>1, SeqFacts DEF IInv, ArgumentsReady, Ready, Fine, Decls
<1> QED
  BY <1>1, <1>2, PlacingArgument

LEMMA VectorFailsIInv ==
  ASSUME IInv, VectorFails
  PROVE  IInv'
<1>1. /\ phase = "placing" /\ taken' = SubSeq(taken, 1, mark)
      /\ UNCHANGED <<conv, phase, signature, params, fill, mark, stack_offset>>
  BY DEF VectorFails, NoRoom, IsBasic, Placing, outputs
<1>2. ASSUME AtArguments
      PROVE  /\ Ready(params, taken', conv.params.table, fill', stack_offset)
             /\ mark' \in 0..Len(taken')
  <2>1. Ready(params, taken, conv.params.table, fill, stack_offset) /\ mark \in 0..Len(taken)
    BY <1>2 DEF IInv, ArgumentsReady
  <2>2. IsSeq(taken) /\ Len(taken) \in Nat
    BY <2>1, SeqFacts DEF Ready, Fine, Decls
  <2>3. Len(SubSeq(taken, 1, mark)) = mark
    BY <2>1, <2>2, PrefixSeq DEF PrefixFacts
  <2> QED
    BY <1>1, <2>1, <2>2, <2>3, TakenForgotten
<1> QED
  BY <1>1, <1>2, PlacingArgument

LEMMA PlaceBasicIInv ==
  ASSUME IInv, NEW i, PlaceBasic(i)
  PROVE  IInv'
<1> DEFINE size == SizeOf(Part.type)
           reg == Table[i]
           d == Decl(reg.reg, fill[i], Filled(i), GetSmallestVariant(reg, Filled(i)), Part.type)
<1>1. /\ phase = "placing" /\ i \in DOMAIN Table
      /\ size <= Width(reg) - fill[i]
      /\ fill' = [fill EXCEPT ![i] = Filled(i)] /\ taken' = Append(taken, d)
      /\ UNCHANGED <<conv, phase, signature, params, mark, stack_offset>>
  BY DEF PlaceBasic, IsBasic, Placing, IsRoomy, RemainingSpace, outputs
<1>2. ASSUME AtArguments
      PROVE  /\ Ready(params, taken', conv.params.table, fill', stack_offset)
             /\ mark' \in 0..Len(taken')
  <2>1. Ready(params, taken, conv.params.table, fill, stack_offset) /\ mark \in 0..Len(taken)
    BY <1>2 DEF IInv, ArgumentsReady
  <2>2. Table = conv.params.table
    BY <1>1, <1>2 DEF AtArguments, ForReturn, Table, Rule
  <2>3. IsTable(Table) /\ Fine(params)
    BY <2>2, ConvFacts DEF IInv
  <2>4. /\ fill[i] \in Nat /\ size \in Nat \ {0} /\ Filled(i) = fill[i] + size
    BY <1>1, <2>1, <2>2, SizeOfPositive DEF Ready, Filled
  <2>5. Width(reg) \in Nat
    BY <1>1, <2>3 DEF IsTable, Width
  <2>6. Filled(i) \in Nat /\ fill[i] < Filled(i) /\ Filled(i) <= Width(reg)
    <3> HIDE DEF size, reg
    <3> QED
      BY <1>1, <2>4, <2>5
  <2>7. GetSmallestVariant(reg, Filled(i)) >= Filled(i)
    BY <1>1, <2>3, <2>6, VariantWide DEF IsTable
  <2>8. /\ d.place = reg.reg /\ d.from = fill[i] /\ d.to = Filled(i)
        /\ d.bits >= Filled(i)
    BY <2>7 DEF Decl
  <2>9. fill' = [fill EXCEPT ![i] = d.to]
    BY <1>1, <2>8
  <2> HIDE DEF d, size
  <2>10. IsDecl(d) /\ IsNamed(d) /\ d.from < d.to
    BY <2>4, <2>6, <2>8 DEF IsDecl, IsNamed
  <2>11. Ready(params, Append(taken, d), Table, [fill EXCEPT ![i] = d.to], stack_offset)
    <3>1. Ready(params, taken, Table, fill, stack_offset)
      BY <2>1, <2>2
    <3>2. d.place = Table[i].reg /\ d.from = fill[i] /\ i \in DOMAIN Table
      BY <1>1, <2>8
    <3> QED
      BY <2>3, <2>10, <3>1, <3>2, RegisterTaken
  <2>12. Len(taken') = Len(taken) + 1 /\ Len(taken) \in Nat
    BY <1>1, <2>1, AppendSeq, SeqFacts DEF AppendFacts, Ready, Fine, Decls
  <2>13. Ready(params, taken', conv.params.table, fill', stack_offset)
    BY <1>1, <2>2, <2>9, <2>11, Zenon
  <2>14. mark' \in 0..Len(taken')
    BY <1>1, <2>1, <2>12
  <2> QED
    BY <2>13, <2>14
<1> QED
  BY <1>1, <1>2, PlacingArgument

LEMMA ArgumentOnStackIInv ==
  ASSUME IInv, ArgumentOnStack
  PROVE  IInv'
<1> DEFINE d == StackDecl(Bound)
<1>1. /\ phase = "placing" /\ ~ForReturn /\ phase' = "params"
      /\ params' = Append(params, d) /\ stack_offset' = stack_offset + Bound.size
      /\ taken' = << >> /\ mark' = 0
      /\ UNCHANGED <<conv, signature, fill>>
  BY DEF ArgumentOnStack, TypeFails, NoRoom, IsBasic, Placing
<1>2. ArgumentsReady /\ Fine(params) /\ IsTable(conv.params.table)
  BY <1>1, ConvFacts DEF IInv, AtArguments
<1>3. Bound.size \in Nat
  BY <1>1, SeqFacts DEF IInv, SignatureSized, Bound
<1>4. d.place = Stack /\ d.from = stack_offset /\ d.to = stack_offset + Bound.size
  BY DEF StackDecl, Decl
<1> HIDE DEF d
<1>5. /\ Fine(params')
      /\ Ready(params', taken', conv.params.table, fill, stack_offset')
  BY <1>1, <1>2, <1>3, <1>4, StackTaken DEF ArgumentsReady
<1>6. Len(taken') = 0
  BY <1>1
<1>7. ArgumentsReady'
  BY <1>1, <1>5, <1>6 DEF ArgumentsReady
<1> QED
  BY <1>1, <1>5, <1>7 DEF IInv, SignatureSized

LEMMA ArgumentInRegistersIInv ==
  ASSUME IInv, ArgumentInRegisters
  PROVE  IInv'
<1>1. /\ phase = "placing" /\ ~ForReturn /\ phase' = "params"
      /\ params' = params \o taken /\ taken' = << >> /\ mark' = 0
      /\ UNCHANGED <<conv, signature, fill, stack_offset>>
  BY DEF ArgumentInRegisters
<1>2. ArgumentsReady /\ Fine(params)
  BY <1>1 DEF IInv, AtArguments
<1>3. /\ Fine(params')
      /\ Ready(params', taken', conv.params.table, fill, stack_offset)
  BY <1>1, <1>2, TakenKept DEF ArgumentsReady
<1>4. Len(taken') = 0
  BY <1>1
<1>5. ArgumentsReady'
  BY <1>1, <1>3, <1>4 DEF ArgumentsReady
<1> QED
  BY <1>1, <1>3, <1>5 DEF IInv, SignatureSized

(* How the placing of a return value ends.                                 *)
LEMMA ReturnEndsIInv ==
  ASSUME IInv, ReturnByRVO \/ ReturnInRegisters
  PROVE  IInv'
<1>1. phase = "placing" /\ signature' = signature
  BY DEF ReturnByRVO, ReturnInRegisters, TypeFails, NoRoom, IsBasic, Placing, ReturnPlaced
<1>2. /\ IsSeq(signature') /\ Len(signature') >= 1
      /\ \A k \in DOMAIN signature' : signature'[k].size \in Nat
  BY <1>1 DEF IInv, SignatureSized
<1>3. Bound.size \in Nat /\ Void.size \in Nat
  BY <1>1, SeqFacts, ConvFacts DEF IInv, SignatureSized, Bound
<1>4. CASE ReturnByRVO
  BY <1>2, <1>3, <1>4, StartIInv DEF ReturnByRVO
<1>5. CASE ReturnInRegisters
  <2>1. StartParameters(FALSE, Void)
    BY <1>5 DEF ReturnInRegisters
  <2> QED
    BY <1>2, <1>3, <2>1, StartIInv
<1> QED
  BY <1>4, <1>5

LEMMA FailsIInv ==
  ASSUME IInv, ReturnFails \/ CoalescingFails \/ Abort
  PROVE  IInv'
<1>1. /\ signature' = signature
      /\ \E outcome \in {"failed", "aborted"} : Stop(outcome)
  BY DEF ReturnFails, CoalescingFails, Abort
<1>2. /\ IsSeq(signature')
      /\ \A k \in DOMAIN signature' : signature'[k].size \in Nat
  BY <1>1 DEF IInv, SignatureSized
<1> QED
  BY <1>1, <1>2, StopIInv

LEMMA FinishIInv ==
  ASSUME IInv, FinishSignature
  PROVE  IInv'
<1>1. phase' = "done" /\ UNCHANGED <<conv, signature, params>>
  BY DEF FinishSignature
<1>2. Fine(params)' /\ ~AtArguments'
  BY <1>1 DEF IInv, AtArguments
<1> QED
  BY <1>1, <1>2 DEF IInv, SignatureSized

LEMMA NextIInv == TypesAssumption /\ IInv /\ [Next]_vars => IInv'
<1> SUFFICES ASSUME TypesAssumption, IInv, [Next]_vars PROVE IInv'
  OBVIOUS
<1>1. CASE BindReturnValues
  BY <1>1, ReturnsIInv
<1>2. CASE BindParameters
  <2>1. PICK t \in ArgumentTypes \cup {Pointer} : BindArgument(t) \/ BindStackArgument(t)
    BY <1>2 DEF BindParameters
  <2>2. t.size \in Nat
    BY <2>1, ConvFacts, TypesAssumption DEF IInv
  <2> QED
    BY <2>1, <2>2, BindArgumentIInv, BindStackArgumentIInv
<1>3. CASE TryRegisterAllocate
  <2>1. CASE OpenStruct \/ Split
    BY <2>1, PartsIInv
  <2>2. CASE OpenVector
    BY <2>2, OpenVectorIInv
  <2>3. CASE VectorFails
    BY <2>3, VectorFailsIInv
  <2>4. ASSUME NEW i \in DOMAIN fill, PlaceBasic(i)
        PROVE  IInv'
    BY <2>4, PlaceBasicIInv
  <2>5. CASE ArgumentOnStack
    BY <2>5, ArgumentOnStackIInv
  <2>6. CASE ArgumentInRegisters
    BY <2>6, ArgumentInRegistersIInv
  <2>7. CASE ReturnByRVO \/ ReturnInRegisters
    BY <2>7, ReturnEndsIInv
  <2>8. CASE ReturnFails \/ CoalescingFails \/ Abort
    BY <2>8, FailsIInv
  <2> QED
    BY <1>3, <2>1, <2>2, <2>3, <2>4, <2>5, <2>6, <2>7, <2>8 DEF TryRegisterAllocate
<1>4. CASE FinishSignature
  BY <1>4, FinishIInv
<1>5. CASE UNCHANGED vars
  <2>1. UNCHANGED <<conv, phase, signature, fill, taken, mark, params, stack_offset>>
    BY <1>5 DEF vars
  <2>2. SignatureSized' /\ Fine(params)' /\ (AtArguments' <=> AtArguments)
    BY <2>1 DEF IInv, SignatureSized, AtArguments, ForReturn
  <2>3. ArgumentsReady => ArgumentsReady'
    BY <2>1 DEF ArgumentsReady
  <2> QED
    BY <2>1, <2>2, <2>3 DEF IInv
<1> QED
  BY <1>1, <1>2, <1>3, <1>4, <1>5 DEF Next

(* The inductive invariant holds in every state of every allocation.       *)
THEOREM IInvHolds == Spec => []IInv
  BY InitIInv, NextIInv, TypesAssumption, PTL DEF Spec

-----------------------------------------------------------------------------
(* Where values are: in a register of the table, in RAX or on the stack.   *)
(* Storage is not shared by two of those but where the assumption says so, *)
(* so that what is apart by the name of its place is apart in storage.     *)
InPlaces(s, table) == \A k \in DOMAIN s : s[k].place \in Places(table)
PlacesInv ==
  /\ InPlaces(params, conv.params.table)
  /\ AtArguments => InPlaces(taken, conv.params.table)

LEMMA NothingInPlaces ==
  ASSUME NEW s, s = << >>, NEW table
  PROVE  InPlaces(s, table)
<1>1. DOMAIN s = {}
  OBVIOUS
<1> QED
  BY <1>1 DEF InPlaces

LEMMA AppendInPlaces ==
  ASSUME NEW s, IsSeq(s), NEW d, NEW table, InPlaces(s, table), d.place \in Places(table)
  PROVE  InPlaces(Append(s, d), table)
<1>1. AppendFacts(s, d) /\ Len(s) \in Nat /\ DOMAIN s = 1..Len(s)
  BY AppendSeq, SeqFacts
<1> QED
  BY <1>1 DEF AppendFacts, InPlaces

LEMMA ConcatInPlaces ==
  ASSUME NEW s, IsSeq(s), NEW t, IsSeq(t), NEW table, InPlaces(s, table), InPlaces(t, table)
  PROVE  InPlaces(s \o t, table)
<1>1. /\ ConcatFacts(s, t)
      /\ Len(s) \in Nat /\ DOMAIN s = 1..Len(s)
      /\ Len(t) \in Nat /\ DOMAIN t = 1..Len(t)
  BY ConcatSeq, SeqFacts
<1>2. ASSUME NEW k \in DOMAIN (s \o t)
      PROVE  (s \o t)[k].place \in Places(table)
  <2>1. CASE k \in 1..Len(s)
    BY <1>1, <2>1 DEF ConcatFacts, InPlaces
  <2>2. CASE k \notin 1..Len(s)
    <3>1. k - Len(s) \in 1..Len(t) /\ k = Len(s) + (k - Len(s))
      BY <1>1, <1>2, <2>2 DEF ConcatFacts
    <3> QED
      BY <1>1, <3>1 DEF ConcatFacts, InPlaces
  <2> QED
    BY <2>1, <2>2
<1> QED
  BY <1>2 DEF InPlaces

LEMMA PrefixInPlaces ==
  ASSUME NEW s, IsSeq(s), NEW n \in 0..Len(s), NEW table, InPlaces(s, table)
  PROVE  InPlaces(SubSeq(s, 1, n), table)
<1>1. PrefixFacts(s, n) /\ Len(s) \in Nat /\ DOMAIN s = 1..Len(s)
  BY PrefixSeq, SeqFacts
<1> QED
  BY <1>1 DEF PrefixFacts, InPlaces

LEMMA StartPlaces ==
  ASSUME IInv, NEW injected \in BOOLEAN, NEW t, StartParameters(injected, t)
  PROVE  PlacesInv'
<1> DEFINE p == conv.params
<1>1. conv' = conv /\ taken' = << >>
  BY DEF StartParameters
<1>2. InPlaces(taken', p.table)
  BY <1>1, NothingInPlaces
<1>3. InPlaces(params', p.table)
  <2>1. CASE injected
    <3>1. PICK d : /\ params' = <<d>>
                   /\ d.place = IF p.injected = "stack" THEN Stack ELSE <<"RAX", 0>>
      BY <2>1 DEF StartParameters
    <3>2. DOMAIN params' = {1} /\ params'[1] = d
      BY <3>1
    <3> QED
      BY <3>1, <3>2 DEF InPlaces, Places
  <2>2. CASE ~injected
    BY <2>2, NothingInPlaces DEF StartParameters
  <2> QED
    BY <2>1, <2>2
<1> QED
  BY <1>1, <1>2, <1>3 DEF PlacesInv

(* Nothing is declared, and what the argument at hand takes is there.      *)
LEMMA QuietPlaces ==
  ASSUME PlacesInv, UNCHANGED <<conv, params>>,
         AtArguments' => InPlaces(taken', conv.params.table)
  PROVE  PlacesInv'
  BY DEF PlacesInv

LEMMA PlaceBasicPlaces ==
  ASSUME IInv, PlacesInv, NEW i, PlaceBasic(i)
  PROVE  PlacesInv'
<1> DEFINE d == Decl(Table[i].reg, fill[i], Filled(i),
                     GetSmallestVariant(Table[i], Filled(i)), Part.type)
<1>1. /\ i \in DOMAIN Table /\ taken' = Append(taken, d)
      /\ UNCHANGED <<conv, phase, signature, params>>
  BY DEF PlaceBasic, outputs
<1>2. phase = "placing"
  BY DEF PlaceBasic, IsBasic, Placing
<1>3. d.place = Table[i].reg
  BY DEF Decl
<1> HIDE DEF d
<1>4. ASSUME AtArguments'
      PROVE  InPlaces(taken', conv.params.table)
  <2>1. AtArguments /\ ~ForReturn
    BY <1>1, <1>2, <1>4 DEF AtArguments, ForReturn
  <2>2. Table = conv.params.table
    BY <2>1 DEF ForReturn, Table, Rule
  <2>3. d.place \in Places(conv.params.table)
    BY <1>1, <1>3, <2>2 DEF Places
  <2>4. IsSeq(taken) /\ InPlaces(taken, conv.params.table)
    BY <2>1 DEF IInv, ArgumentsReady, Ready, Fine, Decls, PlacesInv
  <2> QED
    BY <1>1, <2>3, <2>4, AppendInPlaces
<1> QED
  BY <1>1, <1>4, QuietPlaces

LEMMA VectorFailsPlaces ==
  ASSUME IInv, PlacesInv, VectorFails
  PROVE  PlacesInv'
<1>1. /\ taken' = SubSeq(taken, 1, mark) /\ phase = "placing"
      /\ UNCHANGED <<conv, phase, signature, params>>
  BY DEF VectorFails, NoRoom, IsBasic, Placing, outputs
<1>2. ASSUME AtArguments'
      PROVE  InPlaces(taken', conv.params.table)
  <2>1. AtArguments
    BY <1>1, <1>2 DEF AtArguments, ForReturn
  <2>2. /\ IsSeq(taken) /\ mark \in 0..Len(taken)
        /\ InPlaces(taken, conv.params.table)
    BY <2>1 DEF IInv, ArgumentsReady, Ready, Fine, Decls, PlacesInv
  <2> QED
    BY <1>1, <2>2, PrefixInPlaces
<1> QED
  BY <1>1, <1>2, QuietPlaces

LEMMA ArgumentPlaces ==
  ASSUME IInv, PlacesInv, ArgumentOnStack \/ ArgumentInRegisters
  PROVE  PlacesInv'
<1>1. /\ phase = "placing" /\ ~ForReturn /\ taken' = << >> /\ conv' = conv
      /\ params' = Append(params, StackDecl(Bound)) \/ params' = params \o taken
  BY DEF ArgumentOnStack, TypeFails, NoRoom, IsBasic, Placing, ArgumentInRegisters
<1>2. /\ IsSeq(params) /\ IsSeq(taken)
      /\ InPlaces(params, conv.params.table) /\ InPlaces(taken, conv.params.table)
  BY <1>1 DEF IInv, AtArguments, ArgumentsReady, Ready, Fine, Decls, PlacesInv
<1>3. StackDecl(Bound).place \in Places(conv.params.table)
  BY DEF StackDecl, Decl, Places
<1>4. InPlaces(params', conv.params.table)
  <2>1. InPlaces(Append(params, StackDecl(Bound)), conv.params.table)
    BY <1>2, <1>3, AppendInPlaces
  <2>2. InPlaces(params \o taken, conv.params.table)
    BY <1>2, ConcatInPlaces
  <2> QED
    BY <1>1, <2>1, <2>2
<1>5. InPlaces(taken', conv.params.table)
  BY <1>1, NothingInPlaces
<1> QED
  BY <1>1, <1>4, <1>5 DEF PlacesInv

LEMMA BindPlaces ==
  ASSUME IInv, PlacesInv, NEW t, BindArgument(t) \/ BindStackArgument(t)
  PROVE  PlacesInv'
<1>1. CASE BindArgument(t)
  <2>1. UNCHANGED <<conv, params>> /\ taken' = << >>
    BY <1>1 DEF BindArgument, outputs
  <2> QED
    BY <2>1, NothingInPlaces, QuietPlaces
<1>2. CASE BindStackArgument(t)
  <2> DEFINE d == [StackDecl(t) EXCEPT !.arg = Len(signature)]
  <2>1. /\ phase = "params" /\ params' = Append(params, d)
        /\ UNCHANGED <<conv, phase, taken>>
    BY <1>2 DEF BindStackArgument
  <2>2. d.place = Stack
    BY DEF StackDecl, Decl
  <2> HIDE DEF d
  <2>3. IsSeq(params) /\ InPlaces(params, conv.params.table) /\ d.place \in Places(conv.params.table)
    BY <2>2 DEF IInv, Fine, Decls, PlacesInv, Places
  <2>4. InPlaces(params', conv.params.table)
    BY <2>1, <2>3, AppendInPlaces
  <2>5. InPlaces(taken', conv.params.table)
    BY <2>1 DEF PlacesInv, AtArguments
  <2> QED
    BY <2>1, <2>4, <2>5 DEF PlacesInv
<1> QED
  BY <1>1, <1>2

LEMMA ReturnsPlaces ==
  ASSUME IInv, PlacesInv, BindReturnValues
  PROVE  PlacesInv'
<1>1. CASE \E injected \in BOOLEAN : \E t : StartParameters(injected, t)
  BY <1>1, StartPlaces
<1>2. CASE \E outcome \in {"failed", "aborted"} : Stop(outcome)
  <2>1. UNCHANGED <<conv, params>> /\ ~AtArguments'
    BY <1>2 DEF Stop, outputs, AtArguments
  <2> QED
    BY <2>1, QuietPlaces
<1>3. ASSUME NEW t \in ReturnTypes, ReturnsAllocated(t)
      PROVE  PlacesInv'
  <2>1. UNCHANGED <<conv, params>> /\ taken' = << >>
    BY <1>3 DEF ReturnsAllocated, outputs
  <2> QED
    BY <2>1, NothingInPlaces, QuietPlaces
<1>4. \/ \E injected \in BOOLEAN : \E t : StartParameters(injected, t)
      \/ \E outcome \in {"failed", "aborted"} : Stop(outcome)
      \/ \E t \in ReturnTypes : ReturnsAllocated(t)
  BY DEF BindReturnValues, ReturnsSret, SretNotVoid, ReturnsVoid, ReturnsDirectly,
         ReturnsUnsupported
<1> QED
  BY <1>1, <1>2, <1>3, <1>4

LEMMA AllocatePlaces ==
  ASSUME IInv, PlacesInv, TryRegisterAllocate
  PROVE  PlacesInv'
<1>1. CASE OpenStruct \/ OpenVector \/ Split
  <2>1. UNCHANGED <<conv, phase, signature, params, taken>>
    BY <1>1 DEF OpenStruct, OpenVector, Split, outputs
  <2> QED
    BY <2>1 DEF PlacesInv, AtArguments, ForReturn
<1>2. CASE VectorFails
  BY <1>2, VectorFailsPlaces
<1>3. ASSUME NEW i \in DOMAIN fill, PlaceBasic(i)
      PROVE  PlacesInv'
  BY <1>3, PlaceBasicPlaces
<1>4. CASE ArgumentOnStack \/ ArgumentInRegisters
  BY <1>4, ArgumentPlaces
<1>5. CASE ReturnByRVO \/ ReturnInRegisters
  <2>1. \E injected \in BOOLEAN : \E t : StartParameters(injected, t)
    BY <1>5 DEF ReturnByRVO, ReturnInRegisters
  <2> QED
    BY <2>1, StartPlaces
<1>6. CASE ReturnFails \/ CoalescingFails \/ Abort
  <2>1. UNCHANGED <<conv, params>> /\ ~AtArguments'
    BY <1>6 DEF ReturnFails, CoalescingFails, Abort, Stop, outputs, AtArguments
  <2> QED
    BY <2>1, QuietPlaces
<1> QED
  BY <1>1, <1>2, <1>3, <1>4, <1>5, <1>6 DEF TryRegisterAllocate

LEMMA NextPlaces == IInv /\ PlacesInv /\ [Next]_vars => PlacesInv'
<1> SUFFICES ASSUME IInv, PlacesInv, [Next]_vars PROVE PlacesInv'
  OBVIOUS
<1>1. CASE BindReturnValues
  BY <1>1, ReturnsPlaces
<1>2. CASE BindParameters
  BY <1>2, BindPlaces DEF BindParameters
<1>3. CASE TryRegisterAllocate
  BY <1>3, AllocatePlaces
<1>4. CASE FinishSignature \/ UNCHANGED vars
  <2>1. UNCHANGED <<conv, signature, params, taken>> /\ (AtArguments' => AtArguments)
    BY <1>4 DEF FinishSignature, vars, AtArguments, ForReturn
  <2> QED
    BY <2>1 DEF PlacesInv
<1> QED
  BY <1>1, <1>2, <1>3, <1>4 DEF Next

(* Parameters that share storage, be it a register or the stack, follow    *)
(* one another in it without overlapping. SPARC64's floats are left out    *)
(* where they are bound under two names, as f1 and d0 are.                 *)
THEOREM ParamsApart == Spec => []ValuesApart
<1>1. IInv /\ PlacesInv => ValuesApart
  <2> SUFFICES ASSUME IInv, PlacesInv, NEW i \in DOMAIN params, NEW j \in DOMAIN params,
                      i < j, Share(params[i].place, params[j].place)
               PROVE  \/ /\ params[i].place = params[j].place
                         /\ params[i].to <= params[j].from
                      \/ /\ conv.id = "SPARC64_C"
                         /\ InTwoBanks(params[i].place, params[j].place)
    BY DEF ValuesApart
  <2>1. CASE params[i].place = params[j].place
    BY <2>1 DEF IInv, Fine, Apart
  <2>2. CASE params[i].place # params[j].place
    <3>1. conv \in Conventions
      BY DEF IInv
    <3>2. /\ params[i].place \in Places(conv.params.table)
          /\ params[j].place \in Places(conv.params.table)
      BY DEF PlacesInv, InPlaces
    <3> QED
      BY <2>2, <3>1, <3>2, ConventionsAssumption
  <2> QED
    BY <2>1, <2>2
<1>2. Init => PlacesInv
  BY NothingInPlaces DEF Init, PlacesInv
<1>3. Spec => []PlacesInv
  BY <1>2, IInvHolds, NextPlaces, PTL DEF Spec
<1> QED
  BY <1>1, <1>3, IInvHolds, PTL

(* Every register parameter fits the variant it is declared in.            *)
THEOREM NamesCover == Spec => []NamedCovers
<1>1. IInv => NamedCovers
  BY DEF IInv, Fine, AllNamed, IsNamed, NamedCovers, Values
<1> QED
  BY <1>1, IInvHolds, PTL
-----------------------------------------------------------------------------
(* Why a scalar that follows scalars only goes to the stack when its       *)
(* registers are taken. While all arguments are simple, nothing is taken   *)
(* in vain: a register that is filled or reserved holds a parameter, or    *)
(* the scalar at hand.                                                     *)
Excused(d, sig, ps) ==
  /\ d.arg > 0 /\ d.place = Stack
  /\ \A k \in 1..d.arg : IsSimple(sig[k + 1])
  => \A i \in DOMAIN conv.params.table :
       LET c == conv.params.table[i] IN
       /\ conv.params.in_registers
       /\ c.types \cap ClassesOf(d.type) # {} /\ d.type.bits <= Width(c)
       /\ d.type.kind = "int" => d.type.bits > 8
       => \E e \in Values(ps) :
            e.arg < d.arg /\ (e.place = c.reg \/ (e.arg = 0 /\ i = 1))
AllExcused(sig, ps) == \A k \in DOMAIN ps : Excused(ps[k], sig, ps)

SimpleSoFar == \A k \in 1..(Len(signature) - 1) : IsSimple(signature[k + 1])
Holds(ps, i) ==
  \E k \in DOMAIN ps : ps[k].place = conv.params.table[i].reg \/ (ps[k].arg = 0 /\ i = 1)

NoneBefore == phase = "returns" \/ (phase = "placing" /\ ForReturn) => params = << >>
ArgsBelow == \A k \in DOMAIN params : params[k].arg \in Nat /\ params[k].arg < Len(signature)
BitsKnown == \A k \in DOMAIN signature : signature[k].bits \in Nat
Whole == <<Item(Bound, FALSE, ClassesOf(Bound), FALSE)>>
AtHand ==
  phase = "placing" /\ ~ForReturn =>
    /\ conv.params.in_registers
    /\ \A k \in DOMAIN params : params[k].arg < Len(signature) - 1
    /\ \A k \in DOMAIN taken : taken[k].arg = Len(signature) - 1
    /\ SimpleSoFar => pending = << >> \/ (pending = Whole /\ taken = << >>)
NotInVain ==
  AtArguments =>
    /\ DOMAIN reserved = DOMAIN conv.params.table
    /\ SimpleSoFar =>
         \A i \in DOMAIN conv.params.table :
           fill[i] # 0 \/ reserved[i] => Holds(params, i) \/ Holds(taken, i)

FullInv == NoneBefore /\ ArgsBelow /\ BitsKnown /\ AtHand /\ NotInVain /\ AllExcused(signature, params)

LEMMA SizeOfBelow ==
  ASSUME NEW t, t.bits \in Nat, t.kind = "int" => t.bits > 8, NEW w \in Sizes, t.bits <= w
  PROVE  SizeOf(t) <= w
<1>1. \E v \in Sizes : t.bits <= v /\ \A u \in Sizes : t.bits <= u => v <= u
  BY DEF Sizes
<1>2. SizeOf(t) = CHOOSE v \in Sizes : t.bits <= v /\ \A u \in Sizes : t.bits <= u => v <= u
  BY DEF SizeOf
<1>3. \A u \in Sizes : t.bits <= u => SizeOf(t) <= u
  BY <1>1, <1>2
<1> QED
  BY <1>3

LEMMA ExcusedKept ==
  ASSUME NEW d, NEW sig, NEW sig2, NEW ps, NEW ps2, d.arg \in Nat,
         \A k \in 1..d.arg : sig2[k + 1] = sig[k + 1],
         Values(ps) \subseteq Values(ps2), Excused(d, sig, ps)
  PROVE  Excused(d, sig2, ps2)
  BY DEF Excused

(* A declaration joins those before it.                                    *)
LEMMA AppendExcused ==
  ASSUME NEW sig, NEW sig2, NEW ps, IsSeq(ps), NEW d,
         \A k \in DOMAIN ps : ps[k].arg \in Nat,
         \A k \in DOMAIN ps : \A j \in 1..ps[k].arg : sig2[j + 1] = sig[j + 1],
         AllExcused(sig, ps), Excused(d, sig2, Append(ps, d))
  PROVE  AllExcused(sig2, Append(ps, d))
<1>1. AppendFacts(ps, d) /\ Len(ps) \in Nat /\ DOMAIN ps = 1..Len(ps)
  BY AppendSeq, SeqFacts
<1>2. Values(ps) \subseteq Values(Append(ps, d))
  BY <1>1 DEF Values, AppendFacts
<1>3. ASSUME NEW k \in 1..Len(ps)
      PROVE  Excused(Append(ps, d)[k], sig2, Append(ps, d))
  BY <1>1, <1>2, <1>3, ExcusedKept DEF AppendFacts, AllExcused
<1> QED
  BY <1>1, <1>3 DEF AllExcused, AppendFacts

LEMMA ConcatExcused ==
  ASSUME NEW sig, NEW ps, IsSeq(ps), NEW ts, IsSeq(ts), InRegisterTable(ts),
         \A k \in DOMAIN ps : ps[k].arg \in Nat,
         AllExcused(sig, ps)
  PROVE  AllExcused(sig, ps \o ts)
<1>1. /\ ConcatFacts(ps, ts) /\ Len(ps) \in Nat /\ DOMAIN ps = 1..Len(ps)
      /\ Len(ts) \in Nat /\ DOMAIN ts = 1..Len(ts)
  BY ConcatSeq, SeqFacts
<1>2. Values(ps) \subseteq Values(ps \o ts)
  <2>1. 1..Len(ps) \subseteq DOMAIN (ps \o ts)
    BY <1>1 DEF ConcatFacts
  <2> QED
    BY <1>1, <2>1 DEF Values, ConcatFacts
<1>3. ASSUME NEW k \in 1..Len(ps)
      PROVE  Excused((ps \o ts)[k], sig, ps \o ts)
  BY <1>1, <1>2, <1>3, ExcusedKept DEF ConcatFacts, AllExcused
<1>4. ASSUME NEW k \in DOMAIN (ps \o ts), k \notin 1..Len(ps)
      PROVE  Excused((ps \o ts)[k], sig, ps \o ts)
  <2>1. k - Len(ps) \in 1..Len(ts) /\ k = Len(ps) + (k - Len(ps))
    BY <1>1, <1>4 DEF ConcatFacts
  <2>2. (ps \o ts)[k] = ts[k - Len(ps)]
    BY <1>1, <2>1 DEF ConcatFacts
  <2>3. (ps \o ts)[k].place # Stack
    BY <1>1, <2>1, <2>2 DEF InRegisterTable
  <2> QED
    BY <2>3 DEF Excused
<1> QED
  BY <1>3, <1>4 DEF AllExcused

(* What holds of a register stays so as declarations are added.            *)
LEMMA HoldsMore ==
  ASSUME NEW s, NEW t, NEW i, Holds(s, i),
         \A k \in DOMAIN s : \E j \in DOMAIN t : t[j] = s[k]
  PROVE  Holds(t, i)
  BY DEF Holds
-----------------------------------------------------------------------------
(* Each action keeps FullInv.                                              *)

LEMMA InitFull == Init => FullInv
<1> SUFFICES ASSUME Init PROVE FullInv
  OBVIOUS
<1>1. phase = "returns" /\ params = << >> /\ signature = << >>
  BY DEF Init
<1>2. DOMAIN params = {} /\ DOMAIN signature = {}
  BY <1>1
<1> QED
  BY <1>1, <1>2 DEF FullInv, NoneBefore, ArgsBelow, BitsKnown, AtHand, NotInVain, AtArguments,
                    AllExcused

LEMMA OneBits ==
  ASSUME NEW t, t.bits \in Nat, NEW s, s = <<t>>
  PROVE  \A k \in DOMAIN s : s[k].bits \in Nat
<1>1. DOMAIN s = {1} /\ s[1] = t
  OBVIOUS
<1> QED
  BY <1>1

LEMMA StopFull ==
  ASSUME FullInv, NEW outcome \in {"failed", "aborted"}, Stop(outcome),
         params = << >> \/ signature' = signature,
         \A k \in DOMAIN signature' : signature'[k].bits \in Nat
  PROVE  FullInv'
<1>1. phase' \in {"failed", "aborted"} /\ UNCHANGED <<conv, params>>
  BY DEF Stop, outputs
<1>2. NoneBefore' /\ BitsKnown' /\ AtHand' /\ NotInVain'
  BY <1>1 DEF NoneBefore, BitsKnown, AtHand, NotInVain, AtArguments
<1>3. ArgsBelow' /\ AllExcused(signature, params)'
  <2>1. CASE params = << >>
    <3>1. DOMAIN params' = {}
      BY <1>1, <2>1
    <3> QED
      BY <3>1 DEF ArgsBelow, AllExcused
  <2>2. CASE signature' = signature
    BY <1>1, <2>2 DEF FullInv, ArgsBelow, AllExcused, Excused, IsSimple, IsComposite, ClassesOf
  <2> QED
    BY <2>1, <2>2
<1> QED
  BY <1>2, <1>3 DEF FullInv

(* A struct that is returned through memory takes the first register.      *)
LEMMA StartFull ==
  ASSUME NEW injected \in BOOLEAN, NEW t, StartParameters(injected, t),
         Len(signature') \in Nat, Len(signature') >= 1,
         \A k \in DOMAIN signature' : signature'[k].bits \in Nat
  PROVE  FullInv'
<1>1. /\ phase' = "params" /\ conv' = conv
      /\ fill' = [i \in DOMAIN conv.params.table |-> 0]
      /\ reserved' = [i \in DOMAIN conv.params.table |->
                        injected /\ conv.params.injected = "register" /\ i = 1]
  BY DEF StartParameters
<1>2. /\ \A k \in DOMAIN params' : params'[k].arg = 0
      /\ injected => 1 \in DOMAIN params'
  <2>1. CASE injected
    <3>1. PICK d : params' = <<d>> /\ d.arg = 0
      BY <2>1 DEF StartParameters
    <3>2. DOMAIN params' = {1} /\ params'[1] = d
      BY <3>1
    <3> QED
      BY <3>1, <3>2
  <2>2. CASE ~injected
    <3>1. DOMAIN params' = {}
      BY <2>2 DEF StartParameters
    <3> QED
      BY <2>2, <3>1
  <2> QED
    BY <2>1, <2>2
<1>3. NoneBefore' /\ AtHand' /\ BitsKnown' /\ ArgsBelow'
  BY <1>1, <1>2 DEF NoneBefore, AtHand, BitsKnown, ArgsBelow
<1>4. NotInVain'
  <2>1. ASSUME NEW i \in DOMAIN conv.params.table, fill'[i] # 0 \/ reserved'[i]
        PROVE  Holds(params, i)'
    BY <1>1, <1>2, <2>1 DEF Holds
  <2> QED
    BY <1>1, <2>1 DEF NotInVain
<1>5. AllExcused(signature, params)'
  BY <1>2 DEF AllExcused, Excused
<1> QED
  BY <1>3, <1>4, <1>5 DEF FullInv

LEMMA ReturnsFull ==
  ASSUME FullInv, TypesAssumption, conv \in Conventions, BindReturnValues
  PROVE  FullInv'
<1>1. Void.bits \in Nat /\ phase = "returns" /\ params = << >>
  BY DEF Void, BindReturnValues, FullInv, NoneBefore, ReturnsSret, SretNotVoid, ReturnsVoid,
         ReturnsDirectly, ReturnsUnsupported, ReturnsAllocated
<1>2. ASSUME NEW t, t.bits \in Nat, signature' = <<t>>, StartParameters(FALSE, Void)
      PROVE  FullInv'
  <2>1. Len(signature') \in Nat /\ Len(signature') >= 1
    BY <1>2
  <2>2. \A k \in DOMAIN signature' : signature'[k].bits \in Nat
    BY <1>2, OneBits
  <2> QED
    BY <1>2, <2>1, <2>2, StartFull
<1>3. ASSUME NEW i \in 1..2, ReturnsSret(i)
      PROVE  FullInv'
  BY <1>1, <1>2, <1>3 DEF ReturnsSret
<1>4. ASSUME NEW i \in 1..2, NEW t \in ReturnTypes, SretNotVoid(i, t)
      PROVE  FullInv'
  BY <1>1, <1>4, StopFull, OneBits, TypesAssumption DEF SretNotVoid
<1>5. ASSUME ReturnsVoid
      PROVE  FullInv'
  BY <1>1, <1>2, <1>5 DEF ReturnsVoid
<1>6. ASSUME NEW t \in ReturnTypes, ReturnsDirectly(t)
      PROVE  FullInv'
  BY <1>2, <1>6, TypesAssumption DEF ReturnsDirectly
<1>7. ASSUME NEW t \in ReturnTypes, ReturnsUnsupported(t)
      PROVE  FullInv'
  <2>1. \E outcome \in {"failed", "aborted"} : Stop(outcome)
    BY <1>7 DEF ReturnsUnsupported
  <2> QED
    BY <1>1, <1>7, <2>1, StopFull, OneBits, TypesAssumption DEF ReturnsUnsupported
<1>8. ASSUME NEW t \in ReturnTypes, ReturnsAllocated(t)
      PROVE  FullInv'
  <2>1. phase' = "placing" /\ signature' = <<t>> /\ UNCHANGED <<conv, params>>
    BY <1>8 DEF ReturnsAllocated, outputs
  <2>2. Len(signature') = 1 /\ DOMAIN params' = {} /\ params' = << >>
    BY <1>1, <2>1
  <2>3. BitsKnown'
    BY <2>1, OneBits, TypesAssumption DEF BitsKnown
  <2> QED
    BY <2>1, <2>2, <2>3 DEF FullInv, NoneBefore, ArgsBelow, AtHand, NotInVain, AtArguments,
                            ForReturn, AllExcused
<1> QED
  BY <1>3, <1>4, <1>5, <1>6, <1>7, <1>8 DEF BindReturnValues
-----------------------------------------------------------------------------
(* An argument is bound.                                                   *)

LEMMA SignatureMore ==
  ASSUME SignatureSized, Len(signature) >= 1, BitsKnown, NEW t, t.bits \in Nat,
         signature' = Append(signature, t), conv' = conv
  PROVE  /\ Len(signature) \in Nat /\ Len(signature') = Len(signature) + 1
         /\ Bound' = t
         /\ \A k \in 1..Len(signature) : signature'[k] = signature[k]
         /\ BitsKnown'
         /\ SimpleSoFar' => SimpleSoFar /\ IsSimple(t)
<1>1. /\ AppendFacts(signature, t) /\ Len(signature) \in Nat
      /\ DOMAIN signature = 1..Len(signature)
  BY AppendSeq, SeqFacts DEF SignatureSized
<1>2. /\ Len(signature') = Len(signature) + 1
      /\ DOMAIN signature' = 1..(Len(signature) + 1)
      /\ \A k \in 1..Len(signature) : signature'[k] = signature[k]
      /\ signature'[Len(signature) + 1] = t
  BY <1>1 DEF AppendFacts
<1>3. BitsKnown'
  BY <1>1, <1>2 DEF BitsKnown
<1>4. Bound' = t
  BY <1>2 DEF Bound
<1>5. ASSUME SimpleSoFar'
      PROVE  SimpleSoFar /\ IsSimple(t)
  <2>1. \A k \in 1..Len(signature) : IsSimple(signature'[k + 1])
    BY <1>1, <1>2, <1>5 DEF SimpleSoFar, IsSimple, IsComposite
  <2>2. \A k \in 1..(Len(signature) - 1) :
          k \in 1..Len(signature) /\ k + 1 \in 1..Len(signature)
    BY <1>1
  <2>3. SimpleSoFar
    BY <1>2, <2>1, <2>2 DEF SimpleSoFar
  <2>4. Len(signature) \in 1..Len(signature)
    BY <1>1
  <2> QED
    BY <1>2, <2>1, <2>3, <2>4
<1> QED
  BY <1>1, <1>2, <1>3, <1>4, <1>5

LEMMA ExcusedLonger ==
  ASSUME FullInv, Len(signature) \in Nat, conv' = conv,
         \A k \in 1..Len(signature) : signature'[k] = signature[k]
  PROVE  /\ \A k \in DOMAIN params : \A j \in 1..params[k].arg :
              signature'[j + 1] = signature[j + 1]
         /\ AllExcused(signature', params)
<1>1. ASSUME NEW k \in DOMAIN params, NEW j \in 1..params[k].arg
      PROVE  signature'[j + 1] = signature[j + 1]
  <2>1. params[k].arg \in Nat /\ params[k].arg < Len(signature)
    BY DEF FullInv, ArgsBelow
  <2>2. j + 1 \in 1..Len(signature)
    BY <2>1
  <2> QED
    BY <2>2
<1>2. ASSUME NEW k \in DOMAIN params
      PROVE  Excused(params[k], signature', params)
  BY <1>1, <1>2, ExcusedKept DEF FullInv, ArgsBelow, AllExcused
<1> QED
  BY <1>1, <1>2 DEF AllExcused

LEMMA ExcusedNext ==
  ASSUME conv' = conv, AllExcused(signature', params')
  PROVE  AllExcused(signature, params)'
  BY DEF AllExcused, Excused, IsSimple, IsComposite, ClassesOf

LEMMA BindArgumentFull ==
  ASSUME IInv, FullInv, NEW t, t.bits \in Nat, BindArgument(t)
  PROVE  FullInv'
<1>1. /\ phase = "params" /\ phase' = "placing" /\ signature' = Append(signature, t)
      /\ pending' = <<Item(t, FALSE, ClassesOf(t), FALSE)>> /\ taken' = << >>
      /\ conv.params.in_registers
      /\ UNCHANGED <<conv, fill, reserved, params>>
  BY DEF BindArgument, outputs
<1>2. /\ SignatureSized /\ Len(signature) >= 1 /\ taken = << >>
      /\ NotInVain /\ ArgsBelow /\ BitsKnown
  BY <1>1 DEF IInv, SignatureSized, AtArguments, ArgumentsReady, FullInv
<1>3. /\ Len(signature) \in Nat /\ Len(signature') = Len(signature) + 1
      /\ Bound' = t
      /\ \A k \in 1..Len(signature) : signature'[k] = signature[k]
      /\ BitsKnown'
      /\ SimpleSoFar' => SimpleSoFar /\ IsSimple(t)
  BY <1>1, <1>2, SignatureMore
<1>4. DOMAIN taken' = {} /\ taken' = taken
  BY <1>1, <1>2
<1>5. ~ForReturn' /\ AtArguments /\ AtArguments'
  BY <1>1, <1>2, <1>3 DEF ForReturn, AtArguments
<1>6. NoneBefore' /\ ArgsBelow'
  BY <1>1, <1>2, <1>3, <1>5 DEF NoneBefore, ArgsBelow
<1>7. AtHand'
  <2>1. pending' = Whole'
    BY <1>1, <1>3 DEF Whole, Item, ClassesOf
  <2>2. \A k \in DOMAIN params' : params'[k].arg < Len(signature') - 1
    BY <1>1, <1>2, <1>3 DEF ArgsBelow
  <2> QED
    BY <1>1, <1>4, <2>1, <2>2 DEF AtHand
<1>8. NotInVain'
  BY <1>1, <1>2, <1>3, <1>4, <1>5 DEF NotInVain, Holds
<1>9. AllExcused(signature, params)'
  <2>1. AllExcused(signature', params)
    BY <1>1, <1>3, ExcusedLonger
  <2>2. AllExcused(signature', params')
    BY <1>1, <2>1
  <2> QED
    BY <1>1, <2>2, ExcusedNext
<1> QED
  BY <1>3, <1>6, <1>7, <1>8, <1>9 DEF FullInv

LEMMA BindStackArgumentFull ==
  ASSUME IInv, FullInv, NEW t, t.bits \in Nat, BindStackArgument(t)
  PROVE  FullInv'
<1> DEFINE d == [StackDecl(t) EXCEPT !.arg = Len(signature)]
<1>1. /\ phase = "params" /\ signature' = Append(signature, t)
      /\ params' = Append(params, d) /\ ~conv.params.in_registers
      /\ UNCHANGED <<conv, phase, fill, reserved, taken>>
  BY DEF BindStackArgument
<1>2. /\ SignatureSized /\ Len(signature) >= 1 /\ IsSeq(params)
      /\ NotInVain /\ ArgsBelow /\ BitsKnown
  BY <1>1 DEF IInv, SignatureSized, Fine, Decls, FullInv
<1>3. /\ Len(signature) \in Nat /\ Len(signature') = Len(signature) + 1
      /\ \A k \in 1..Len(signature) : signature'[k] = signature[k]
      /\ BitsKnown'
      /\ SimpleSoFar' => SimpleSoFar
  BY <1>1, <1>2, SignatureMore
<1>4. d.arg = Len(signature)
  BY DEF StackDecl, Decl
<1> HIDE DEF d
<1>5. AppendFacts(params, d) /\ Len(params) \in Nat /\ DOMAIN params = 1..Len(params)
  BY <1>2, AppendSeq, SeqFacts
<1>6. NoneBefore' /\ AtHand'
  BY <1>1 DEF NoneBefore, AtHand
<1>7. ArgsBelow'
  BY <1>1, <1>2, <1>3, <1>4, <1>5 DEF ArgsBelow, AppendFacts
<1>8. NotInVain'
  <2>1. \A k \in DOMAIN params : \E j \in DOMAIN params' : params'[j] = params[k]
    BY <1>1, <1>5 DEF AppendFacts
  <2>2. ASSUME NEW i, Holds(params, i)
        PROVE  Holds(params, i)'
    <3>1. Holds(params', i)
      BY <2>1, <2>2, HoldsMore
    <3> QED
      BY <1>1, <3>1 DEF Holds
  <2>3. ASSUME NEW i, Holds(taken, i)
        PROVE  Holds(taken, i)'
    BY <1>1, <2>3 DEF Holds
  <2>4. AtArguments
    BY <1>1 DEF AtArguments
  <2> QED
    BY <1>1, <1>2, <1>3, <2>2, <2>3, <2>4 DEF NotInVain
<1>9. AllExcused(signature, params)'
  <2>1. /\ AllExcused(signature, params)
        /\ \A k \in DOMAIN params : \A j \in 1..params[k].arg :
             signature'[j + 1] = signature[j + 1]
    BY <1>1, <1>3, ExcusedLonger DEF FullInv
  <2>2. Excused(d, signature', Append(params, d))
    BY <1>1 DEF Excused
  <2>3. \A k \in DOMAIN params : params[k].arg \in Nat
    BY <1>2 DEF ArgsBelow
  <2>4. AllExcused(signature', params')
    BY <1>1, <1>2, <2>1, <2>2, <2>3, AppendExcused
  <2> QED
    BY <1>1, <2>4, ExcusedNext
<1> QED
  BY <1>3, <1>6, <1>7, <1>8, <1>9 DEF FullInv
-----------------------------------------------------------------------------
(* An argument is placed.                                                  *)

(* Only placing in registers goes on with what is neither an argument yet  *)
(* nor the whole of one; the parameters are left alone.                    *)
LEMMA PlacingFull ==
  ASSUME FullInv, phase = "placing", UNCHANGED <<conv, phase, signature, params>>,
         ~ForReturn =>
           /\ \A k \in DOMAIN taken' : taken'[k].arg = Len(signature) - 1
           /\ SimpleSoFar => pending' = << >> \/ (pending' = Whole /\ taken' = << >>)
           /\ DOMAIN reserved' = DOMAIN conv.params.table
           /\ SimpleSoFar =>
                \A i \in DOMAIN conv.params.table :
                  fill'[i] # 0 \/ reserved'[i] => Holds(params, i) \/ Holds(taken', i)
  PROVE  FullInv'
<1>1. NoneBefore' /\ ArgsBelow' /\ BitsKnown'
  BY DEF FullInv, NoneBefore, ForReturn, ArgsBelow, BitsKnown
<1>2. AllExcused(signature, params)'
  BY DEF FullInv, AllExcused, Excused, IsSimple, IsComposite, ClassesOf
<1>3. (ForReturn' <=> ForReturn) /\ (SimpleSoFar' <=> SimpleSoFar) /\ Whole' = Whole
  BY DEF ForReturn, SimpleSoFar, IsSimple, IsComposite, Whole, Item, Bound, ClassesOf
<1>4. AtHand'
  BY <1>3 DEF FullInv, AtHand
<1>5. NotInVain'
  BY <1>3 DEF NotInVain, AtArguments, Holds
<1> QED
  BY <1>1, <1>2, <1>4, <1>5 DEF FullInv

LEMMA SignatureEnd ==
  ASSUME SignatureSized, Len(signature) >= 1, ~ForReturn, SimpleSoFar, BitsKnown
  PROVE  /\ Len(signature) \in Nat /\ Len(signature) - 1 \in 1..(Len(signature) - 1)
         /\ IsSimple(Bound) /\ Bound.bits \in Nat
<1>1. Len(signature) \in Nat /\ DOMAIN signature = 1..Len(signature)
  BY SeqFacts DEF SignatureSized
<1>2. Len(signature) - 1 \in 1..(Len(signature) - 1) /\ (Len(signature) - 1) + 1 = Len(signature)
  BY <1>1 DEF ForReturn
<1>3. IsSimple(signature[(Len(signature) - 1) + 1])
  BY <1>2 DEF SimpleSoFar
<1> QED
  BY <1>1, <1>2, <1>3 DEF Bound, BitsKnown

(* The part at hand is the scalar itself.                                  *)
LEMMA WholePart ==
  ASSUME FullInv, IInv, phase = "placing", ~ForReturn, SimpleSoFar, pending # << >>
  PROVE  /\ taken = << >> /\ pending = Whole
         /\ Part = Item(Bound, FALSE, ClassesOf(Bound), FALSE) /\ Rest = << >>
         /\ IsSimple(Part.type) /\ Bound.bits \in Nat
         /\ Part.type = Bound /\ ~Part.in_vec /\ Part.classes = ClassesOf(Bound)
<1>1. taken = << >> /\ pending = Whole
  BY DEF FullInv, AtHand
<1>2. Part = Item(Bound, FALSE, ClassesOf(Bound), FALSE) /\ Rest = << >>
  BY <1>1 DEF Part, Rest, Whole
<1>3. IsSimple(Bound) /\ Bound.bits \in Nat
  BY SignatureEnd DEF IInv, FullInv, SignatureSized
<1> QED
  BY <1>1, <1>2, <1>3 DEF Item

LEMMA PartsFull ==
  ASSUME IInv, FullInv, OpenStruct \/ OpenVector \/ Split \/ VectorFails
  PROVE  FullInv'
<1>1. /\ phase = "placing" /\ pending # << >>
      /\ UNCHANGED <<conv, phase, signature, params, fill, reserved>>
  BY DEF OpenStruct, OpenVector, Split, VectorFails, NoRoom, IsBasic, Placing, outputs
<1>2. ASSUME ~ForReturn
      PROVE  ~SimpleSoFar
  <2> SUFFICES ASSUME SimpleSoFar PROVE FALSE
    OBVIOUS
  <2>1. IsSimple(Part.type) /\ ~Part.in_vec
    BY <1>1, <1>2, WholePart
  <2>2. CASE OpenStruct \/ OpenVector
    BY <2>1, <2>2 DEF OpenStruct, OpenVector, IsSimple, IsComposite
  <2>3. CASE Split
    <3>1. Rule.split = conv.params.split
      BY <1>2 DEF Rule, ForReturn
    <3>2. Rule.split # 0 /\ Part.type.kind = "int" /\ Part.type.bits > Rule.split
      BY <2>3 DEF Split, CanSplit
    <3>3. Part.type.bits \in Nat /\ conv.params.split \in Nat
      BY <1>1, <1>2, WholePart, ConventionsAssumption DEF IInv
    <3> QED
      BY <2>1, <3>1, <3>2, <3>3 DEF IsSimple
  <2>4. CASE VectorFails
    BY <2>1, <2>4 DEF VectorFails
  <2> QED
    BY <2>2, <2>3, <2>4
<1>3. ASSUME ~ForReturn
      PROVE  \A k \in DOMAIN taken' : taken'[k].arg = Len(signature) - 1
  <2>1. \A k \in DOMAIN taken : taken[k].arg = Len(signature) - 1
    BY <1>1, <1>3 DEF FullInv, AtHand
  <2>2. CASE taken' = taken
    BY <2>1, <2>2
  <2>3. CASE VectorFails
    <3>1. taken' = SubSeq(taken, 1, mark)
      BY <2>3 DEF VectorFails
    <3>2. IsSeq(taken) /\ mark \in 0..Len(taken)
      BY <1>1, <1>3 DEF IInv, AtArguments, ArgumentsReady, Ready, Fine, Decls
    <3>3. PrefixFacts(taken, mark) /\ Len(taken) \in Nat /\ DOMAIN taken = 1..Len(taken)
      BY <3>2, PrefixSeq, SeqFacts
    <3>4. 1..mark \subseteq 1..Len(taken)
      BY <3>2, <3>3
    <3> QED
      BY <2>1, <3>1, <3>3, <3>4 DEF PrefixFacts
  <2> QED
    BY <2>2, <2>3 DEF OpenStruct, OpenVector, Split
<1>4. ~ForReturn => DOMAIN reserved' = DOMAIN conv.params.table
  BY <1>1 DEF FullInv, NotInVain, AtArguments
<1> QED
  BY <1>1, <1>2, <1>3, <1>4, PlacingFull
LEMMA PlaceBasicFull ==
  ASSUME IInv, FullInv, NEW i, PlaceBasic(i)
  PROVE  FullInv'
<1> DEFINE d == Decl(Table[i].reg, fill[i], Filled(i),
                     GetSmallestVariant(Table[i], Filled(i)), Part.type)
           full == reserved[i] \/ Filled(i) = Width(Table[i])
<1>1. /\ phase = "placing" /\ pending # << >> /\ i \in DOMAIN Table
      /\ fill' = [fill EXCEPT ![i] = Filled(i)] /\ reserved' = [reserved EXCEPT ![i] = full]
      /\ taken' = Append(taken, d) /\ pending' = Rest
      /\ UNCHANGED <<conv, phase, signature, params>>
  BY DEF PlaceBasic, IsBasic, Placing, outputs
<1>2. d.arg = Len(signature) - 1 /\ d.place = Table[i].reg
  BY DEF Decl
<1> HIDE DEF d, full
<1>3. ASSUME ~ForReturn
      PROVE  /\ \A k \in DOMAIN taken' : taken'[k].arg = Len(signature) - 1
             /\ SimpleSoFar => pending' = << >>
             /\ DOMAIN reserved' = DOMAIN conv.params.table
             /\ SimpleSoFar =>
                  \A j \in DOMAIN conv.params.table :
                    fill'[j] # 0 \/ reserved'[j] => Holds(params, j) \/ Holds(taken', j)
  <2>1. Table = conv.params.table /\ AtArguments
    BY <1>1, <1>3 DEF Table, Rule, ForReturn, AtArguments
  <2>2. IsSeq(taken) /\ DOMAIN fill = DOMAIN conv.params.table
    BY <2>1 DEF IInv, ArgumentsReady, Ready, Fine, Decls
  <2>3. AppendFacts(taken, d) /\ Len(taken) \in Nat /\ DOMAIN taken = 1..Len(taken)
    BY <2>2, AppendSeq, SeqFacts
  <2>4. \A k \in DOMAIN taken' : taken'[k].arg = Len(signature) - 1
    BY <1>1, <1>2, <1>3, <2>3 DEF FullInv, AtHand, AppendFacts
  <2>5. SimpleSoFar => pending' = << >>
    BY <1>1, <1>3, WholePart
  <2>6. DOMAIN reserved = DOMAIN conv.params.table
    BY <2>1 DEF FullInv, NotInVain
  <2>7. Holds(taken', i)
    <3>1. Len(taken) + 1 \in DOMAIN taken' /\ taken'[Len(taken) + 1] = d
      BY <1>1, <2>3 DEF AppendFacts
    <3> QED
      BY <1>2, <2>1, <3>1 DEF Holds
  <2>8. ASSUME NEW j, Holds(taken, j)
        PROVE  Holds(taken', j)
    <3>1. \A k \in DOMAIN taken : \E m \in DOMAIN taken' : taken'[m] = taken[k]
      BY <1>1, <2>3 DEF AppendFacts
    <3> QED
      BY <2>8, <3>1, HoldsMore
  <2>9. ASSUME SimpleSoFar, NEW j \in DOMAIN conv.params.table, fill'[j] # 0 \/ reserved'[j]
        PROVE  Holds(params, j) \/ Holds(taken', j)
    <3>1. CASE j = i
      BY <2>7, <3>1
    <3>2. CASE j # i
      <4>1. fill'[j] = fill[j] /\ reserved'[j] = reserved[j]
        BY <1>1, <2>2, <2>6, <2>9, <3>2
      <4> QED
        BY <2>1, <2>8, <2>9, <4>1 DEF FullInv, NotInVain
    <3> QED
      BY <3>1, <3>2
  <2> QED
    BY <1>1, <2>4, <2>5, <2>6, <2>9
<1> QED
  BY <1>1, <1>3, PlacingFull

(* The heart of the argument: a register that could hold the scalar had no *)
(* room, so it is filled or reserved, and not in vain.                     *)
LEMMA ArgumentOnStackFull ==
  ASSUME IInv, FullInv, ArgumentOnStack
  PROVE  FullInv'
<1> DEFINE d == StackDecl(Bound)
<1>1. /\ phase = "placing" /\ ~ForReturn /\ phase' = "params" /\ pending # << >>
      /\ params' = Append(params, d) /\ taken' = << >> /\ NoRoom
      /\ UNCHANGED <<conv, signature, fill, reserved>>
  BY DEF ArgumentOnStack, TypeFails, NoRoom, IsBasic, Placing
<1>2. /\ d.arg = Len(signature) - 1 /\ d.place = Stack /\ d.type = Bound
  BY DEF StackDecl, Decl
<1> HIDE DEF d
<1>3. /\ AtArguments /\ IsSeq(params) /\ Len(signature) \in Nat /\ Len(signature) >= 1
      /\ Table = conv.params.table
  BY <1>1, SeqFacts DEF AtArguments, IInv, SignatureSized, Fine, Decls, Table, Rule, ForReturn
<1>4. AppendFacts(params, d) /\ Len(params) \in Nat /\ DOMAIN params = 1..Len(params)
  BY <1>3, AppendSeq, SeqFacts
<1>5. /\ \A k \in DOMAIN params : params[k].arg \in Nat /\ params[k].arg < Len(signature) - 1
      /\ d.arg \in Nat /\ d.arg < Len(signature)
  BY <1>1, <1>2, <1>3 DEF FullInv, ArgsBelow, AtHand
<1>6. NoneBefore' /\ AtHand' /\ BitsKnown'
  BY <1>1 DEF FullInv, NoneBefore, AtHand, BitsKnown
<1>7. ArgsBelow'
  BY <1>1, <1>4, <1>5 DEF FullInv, ArgsBelow, AppendFacts
<1>8. ASSUME SimpleSoFar
      PROVE  \A i \in DOMAIN conv.params.table :
               fill[i] # 0 \/ reserved[i] => Holds(params, i)
  <2>1. taken = << >>
    BY <1>1, <1>8, WholePart
  <2>2. DOMAIN taken = {}
    BY <2>1
  <2> QED
    BY <1>3, <1>8, <2>2 DEF FullInv, NotInVain, Holds
<1>9. NotInVain'
  <2>1. \A k \in DOMAIN params : \E j \in DOMAIN params' : params'[j] = params[k]
    BY <1>1, <1>4 DEF AppendFacts
  <2>2. ASSUME NEW i, Holds(params, i)
        PROVE  Holds(params, i)'
    <3>1. Holds(params', i)
      BY <2>1, <2>2, HoldsMore
    <3> QED
      BY <1>1, <3>1 DEF Holds
  <2>3. SimpleSoFar' <=> SimpleSoFar
    BY <1>1 DEF SimpleSoFar, IsSimple, IsComposite
  <2> QED
    BY <1>1, <1>3, <1>8, <2>2, <2>3 DEF FullInv, NotInVain
<1>10. Excused(d, signature, Append(params, d))
  <2> SUFFICES ASSUME \A k \in 1..d.arg : IsSimple(signature[k + 1]),
                      NEW i \in DOMAIN conv.params.table,
                      conv.params.table[i].types \cap ClassesOf(d.type) # {},
                      d.type.bits <= Width(conv.params.table[i]),
                      d.type.kind = "int" => d.type.bits > 8
               PROVE  \E e \in Values(Append(params, d)) :
                        /\ e.arg < d.arg
                        /\ e.place = conv.params.table[i].reg \/ (e.arg = 0 /\ i = 1)
    BY DEF Excused
  <2> DEFINE c == conv.params.table[i]
  <2>1. SimpleSoFar
    BY <1>2 DEF SimpleSoFar
  <2>2. /\ Part = Item(Bound, FALSE, ClassesOf(Bound), FALSE)
        /\ Part.type = Bound /\ Part.classes = ClassesOf(Bound) /\ Bound.bits \in Nat
    BY <1>1, <2>1, WholePart
  <2>3. Width(c) \in Sizes
    BY <1>3, ConvFacts DEF IInv, IsTable
  <2>4. SizeOf(Bound) <= Width(c)
    BY <1>2, <2>2, <2>3, SizeOfBelow
  <2>5. ~IsRoomy(i)
    BY <1>1, <1>3 DEF NoRoom
  <2>6. fill[i] # 0 \/ reserved[i]
    <3> SUFFICES ASSUME fill[i] = 0, ~reserved[i] PROVE IsRoomy(i)
      BY <2>5
    <3>1. RemainingSpace(i) = Width(c) /\ Width(c) # 0
      BY <1>3, <2>3 DEF RemainingSpace, Sizes
    <3>2. Table[i].types \cap Part.classes # {}
      BY <1>2, <1>3, <2>2
    <3> HIDE DEF c
    <3> QED
      BY <2>2, <2>4, <3>1, <3>2 DEF IsRoomy, IsFree
  <2>7. Holds(params, i)
    BY <1>8, <2>1, <2>6
  <2>8. PICK k \in DOMAIN params : params[k].place = c.reg \/ (params[k].arg = 0 /\ i = 1)
    BY <2>7 DEF Holds
  <2>9. params[k] \in Values(Append(params, d))
    BY <1>4 DEF Values, AppendFacts
  <2> QED
    BY <1>2, <1>5, <2>8, <2>9
<1>11. AllExcused(signature, params)'
  <2>1. AllExcused(signature', params')
    BY <1>1, <1>3, <1>5, <1>10, AppendExcused DEF FullInv
  <2> QED
    BY <1>1, <2>1, ExcusedNext
<1> QED
  BY <1>6, <1>7, <1>9, <1>11 DEF FullInv
LEMMA ArgumentInRegistersFull ==
  ASSUME IInv, FullInv, ArgumentInRegisters
  PROVE  FullInv'
<1>1. /\ phase = "placing" /\ ~ForReturn /\ phase' = "params"
      /\ params' = params \o taken /\ taken' = << >>
      /\ UNCHANGED <<conv, signature, fill, reserved>>
  BY DEF ArgumentInRegisters
<1>2. /\ AtArguments /\ IsSeq(params) /\ IsSeq(taken) /\ InRegisterTable(taken)
      /\ Len(signature) \in Nat /\ Len(signature) >= 1
  BY <1>1, SeqFacts
     DEF AtArguments, IInv, SignatureSized, Fine, Decls, ArgumentsReady, Ready
<1>3. /\ ConcatFacts(params, taken)
      /\ Len(params) \in Nat /\ DOMAIN params = 1..Len(params)
      /\ Len(taken) \in Nat /\ DOMAIN taken = 1..Len(taken)
  BY <1>2, ConcatSeq, SeqFacts
<1>4. /\ \A k \in DOMAIN params : \E j \in DOMAIN params' : params'[j] = params[k]
      /\ \A k \in DOMAIN taken : \E j \in DOMAIN params' : params'[j] = taken[k]
  <2>1. /\ \A k \in 1..Len(params) : k \in DOMAIN params'
        /\ \A k \in 1..Len(taken) : Len(params) + k \in DOMAIN params'
    BY <1>1, <1>3 DEF ConcatFacts
  <2> QED
    BY <1>1, <1>3, <2>1 DEF ConcatFacts
<1>5. NoneBefore' /\ AtHand' /\ BitsKnown'
  BY <1>1 DEF FullInv, NoneBefore, AtHand, BitsKnown
<1>6. ArgsBelow'
  <2> SUFFICES ASSUME NEW k \in DOMAIN params'
               PROVE  params'[k].arg \in Nat /\ params'[k].arg < Len(signature)
    BY <1>1 DEF ArgsBelow
  <2>1. CASE k \in 1..Len(params)
    BY <1>1, <1>3, <2>1 DEF FullInv, ArgsBelow, ConcatFacts
  <2>2. CASE k \notin 1..Len(params)
    <3>1. k - Len(params) \in 1..Len(taken) /\ k = Len(params) + (k - Len(params))
      BY <1>1, <1>3, <2>2 DEF ConcatFacts
    <3>2. params'[k] = taken[k - Len(params)]
      BY <1>1, <1>3, <3>1 DEF ConcatFacts
    <3> QED
      BY <1>1, <1>2, <1>3, <3>1, <3>2 DEF FullInv, AtHand
  <2> QED
    BY <2>1, <2>2
<1>7. NotInVain'
  <2>1. ASSUME NEW i, Holds(params, i) \/ Holds(taken, i)
        PROVE  Holds(params, i)'
    <3>1. Holds(params', i)
      BY <1>4, <2>1, HoldsMore
    <3> QED
      BY <1>1, <3>1 DEF Holds
  <2>2. SimpleSoFar' <=> SimpleSoFar
    BY <1>1 DEF SimpleSoFar, IsSimple, IsComposite
  <2> QED
    BY <1>1, <1>2, <2>1, <2>2 DEF FullInv, NotInVain
<1>8. AllExcused(signature, params)'
  <2>1. AllExcused(signature', params')
    BY <1>1, <1>2, ConcatExcused DEF FullInv, ArgsBelow
  <2> QED
    BY <1>1, <2>1, ExcusedNext
<1> QED
  BY <1>5, <1>6, <1>7, <1>8 DEF FullInv

LEMMA ReturnEndsFull ==
  ASSUME IInv, FullInv, ReturnByRVO \/ ReturnInRegisters
  PROVE  FullInv'
<1>1. /\ signature' = signature
      /\ \E injected \in BOOLEAN : \E t : StartParameters(injected, t)
  BY DEF ReturnByRVO, ReturnInRegisters
<1>2. phase = "placing"
  BY DEF ReturnByRVO, ReturnInRegisters, TypeFails, NoRoom, IsBasic, Placing, ReturnPlaced
<1>3. /\ Len(signature') \in Nat /\ Len(signature') >= 1
      /\ \A k \in DOMAIN signature' : signature'[k].bits \in Nat
  BY <1>1, <1>2, SeqFacts DEF IInv, SignatureSized, FullInv, BitsKnown
<1> QED
  BY <1>1, <1>3, StartFull

LEMMA FailsFull ==
  ASSUME FullInv, ReturnFails \/ CoalescingFails \/ Abort
  PROVE  FullInv'
<1>1. /\ signature' = signature
      /\ \E outcome \in {"failed", "aborted"} : Stop(outcome)
  BY DEF ReturnFails, CoalescingFails, Abort
<1>2. \A k \in DOMAIN signature' : signature'[k].bits \in Nat
  BY <1>1 DEF FullInv, BitsKnown
<1> QED
  BY <1>1, <1>2, StopFull

LEMMA QuietFull ==
  ASSUME FullInv, FinishSignature \/ UNCHANGED vars
  PROVE  FullInv'
<1>1. /\ UNCHANGED <<conv, signature, fill, reserved, pending, taken, params>>
      /\ phase' = phase \/ (phase = "params" /\ phase' = "done")
  BY DEF FinishSignature, vars
<1>2. AllExcused(signature, params)'
  BY <1>1, ExcusedNext DEF FullInv
<1>3. (ForReturn' <=> ForReturn) /\ (SimpleSoFar' <=> SimpleSoFar) /\ Whole' = Whole
  BY <1>1 DEF ForReturn, SimpleSoFar, IsSimple, IsComposite, Whole, Item, Bound, ClassesOf
<1>4. NoneBefore' /\ ArgsBelow' /\ BitsKnown' /\ AtHand'
  BY <1>1, <1>3 DEF FullInv, NoneBefore, ArgsBelow, BitsKnown, AtHand
<1>5. NotInVain'
  BY <1>1, <1>3 DEF FullInv, NotInVain, AtArguments, Holds
<1> QED
  BY <1>2, <1>4, <1>5 DEF FullInv

LEMMA NextFull == TypesAssumption /\ IInv /\ FullInv /\ [Next]_vars => FullInv'
<1> SUFFICES ASSUME TypesAssumption, IInv, FullInv, [Next]_vars PROVE FullInv'
  OBVIOUS
<1>1. CASE BindReturnValues
  BY <1>1, ReturnsFull DEF IInv
<1>2. CASE BindParameters
  <2>1. PICK t \in ArgumentTypes \cup {Pointer} : BindArgument(t) \/ BindStackArgument(t)
    BY <1>2 DEF BindParameters
  <2>2. Pointer.bits \in Nat
    BY ConventionsAssumption DEF IInv, Pointer
  <2>3. t.bits \in Nat
    BY <2>1, <2>2, TypesAssumption
  <2> QED
    BY <2>1, <2>3, BindArgumentFull, BindStackArgumentFull
<1>3. CASE TryRegisterAllocate
  <2>1. CASE OpenStruct \/ OpenVector \/ Split \/ VectorFails
    BY <2>1, PartsFull
  <2>2. ASSUME NEW i \in DOMAIN fill, PlaceBasic(i)
        PROVE  FullInv'
    BY <2>2, PlaceBasicFull
  <2>3. CASE ArgumentOnStack
    BY <2>3, ArgumentOnStackFull
  <2>4. CASE ArgumentInRegisters
    BY <2>4, ArgumentInRegistersFull
  <2>5. CASE ReturnByRVO \/ ReturnInRegisters
    BY <2>5, ReturnEndsFull
  <2>6. CASE ReturnFails \/ CoalescingFails \/ Abort
    BY <2>6, FailsFull
  <2> QED
    BY <1>3, <2>1, <2>2, <2>3, <2>4, <2>5, <2>6 DEF TryRegisterAllocate
<1>4. CASE FinishSignature \/ UNCHANGED vars
  BY <1>4, QuietFull
<1> QED
  BY <1>1, <1>2, <1>3, <1>4 DEF Next

(* A scalar that follows scalars only goes to the stack when each register *)
(* that could hold it is taken by an earlier argument, for every table.    *)
THEOREM FullBeforeStack == Spec => []StackOnlyWhenFull
<1>1. FullInv => StackOnlyWhenFull
  BY DEF FullInv, AllExcused, Excused, StackOnlyWhenFull, Values
<1>2. Spec => []FullInv
  BY IInvHolds, InitFull, NextFull, TypesAssumption, PTL DEF Spec
<1> QED
  BY <1>1, <1>2, PTL
=============================================================================
