--------------------------- MODULE FuncLiftProofs ---------------------------
(* Theorems about module FuncLift, for every value of its constants.       *)
EXTENDS FuncLift, TLAPS, FiniteSetTheorems, WellFoundedInduction

(* Blocks and the work list.                                               *)
Items == [op : Terminators \cup {"code", "store"}, to : SUBSET Address]
Pushed == [ea : Address, force : BOOLEAN]
IsBody(body) == DOMAIN body \subseteq Address /\ \A a \in DOMAIN body : body[a] \in Seq(Items)

LEMMA WithBlocksFacts ==
  ASSUME NEW body, IsBody(body), NEW targets \in SUBSET Address
  PROVE  /\ IsBody(WithBlocks(body, targets))
         /\ DOMAIN WithBlocks(body, targets) = DOMAIN body \cup targets
         /\ \A a \in DOMAIN body : WithBlocks(body, targets)[a] = body[a]
         /\ \A a \in targets \ DOMAIN body : WithBlocks(body, targets)[a] = << >>
<1>1. << >> \in Seq(Items)
  OBVIOUS
<1> QED
  BY <1>1 DEF WithBlocks, IsBody

(* The blocks put on the work list: one element for each of them.          *)
LEMMA EntriesFacts ==
  ASSUME NEW T \in SUBSET Address, NEW order \in SetToSeqs(T), NEW forced
  PROVE  /\ Entries(order, forced) \in Seq(Pushed)
         /\ \A i \in 1 .. Len(Entries(order, forced)) :
              LET e == Entries(order, forced)[i] IN e.ea \in T /\ (e.force <=> e.ea \in forced)
<1> DEFINE n == Cardinality(T)
           E == Entries(order, forced)
<1>1. n \in Nat
  BY AddressAssumption, FS_Subset, FS_CardinalityType
<1>2. order \in [1 .. n -> T]
  BY DEF SetToSeqs
<1> HIDE DEF n
<1>3. \A i \in 1 .. n : [ea |-> order[i], force |-> order[i] \in forced] \in Pushed
  BY <1>2 DEF Pushed
<1>4. E \in [1 .. n -> Pushed]
  BY <1>2, <1>3 DEF Entries
<1>5. \A i \in 1 .. n : E[i].ea = order[i] /\ E[i].force = (order[i] \in forced)
  BY <1>2 DEF Entries
<1> HIDE DEF E
<1>6. E \in Seq(Pushed) /\ Len(E) = n
  BY <1>1, <1>4
<1> QED
  BY <1>2, <1>5, <1>6 DEF E

LEMMA PoppedFacts ==
  ASSUME NEW list \in Seq(Pushed), list # << >>
  PROVE  /\ Head(list) = list[1] /\ list[1] \in Pushed /\ 1 \in 1 .. Len(list)
         /\ Popped(list) \in Seq(Pushed) /\ Len(Popped(list)) = Len(list) - 1
         /\ \A i \in 1 .. Len(Popped(list)) : i + 1 \in 1 .. Len(list) /\ Popped(list)[i] = list[i + 1]
<1>1. Len(list) \in Nat \ {0} /\ Tail(list) \in Seq(Pushed) /\ Len(Tail(list)) = Len(list) - 1
  OBVIOUS
<1> QED
  BY <1>1 DEF Popped

LEMMA Appended ==
  ASSUME NEW S, NEW s \in Seq(S), NEW t \in Seq(S)
  PROVE  /\ s \o t \in Seq(S) /\ Len(s) \in Nat /\ Len(t) \in Nat /\ Len(s \o t) = Len(s) + Len(t)
         /\ \A i \in 1 .. Len(s) : (s \o t)[i] = s[i]
         /\ \A i \in 1 .. Len(t) : (s \o t)[Len(s) + i] = t[i]
OBVIOUS

(* Every element of two lists put together is one of either.               *)
LEMMA FromEither ==
  ASSUME NEW s \in Seq(Pushed), NEW t \in Seq(Pushed), NEW i \in 1 .. Len(s \o t)
  PROVE  \/ \E j \in 1 .. Len(s) : (s \o t)[i] = s[j]
         \/ \E j \in 1 .. Len(t) : (s \o t)[i] = t[j]
<1>1. CASE i <= Len(s)
  <2>1. i \in 1 .. Len(s) /\ (s \o t)[i] = s[i]
    BY <1>1, Appended
  <2> QED
    BY <2>1
<1>2. CASE i > Len(s)
  <2>1. i - Len(s) \in 1 .. Len(t) /\ i = Len(s) + (i - Len(s))
    BY <1>2, Appended
  <2>2. (s \o t)[i] = t[i - Len(s)]
    BY <2>1, Appended
  <2> QED
    BY <2>1, <2>2
<1> QED
  BY <1>1, <1>2, Appended
-----------------------------------------------------------------------------
(* The CFG.                                                                *)

InModule(b) == b = None \/ b \in DOMAIN cfg_module.ea_to_block

LEMMA ModuleFacts ==
  ASSUME cfg_module \in Modules
  PROVE  /\ DOMAIN cfg_module.ea_to_block \subseteq Address
         /\ \A b \in DOMAIN cfg_module.ea_to_block :
              Native(b).successor_eas \subseteq Address /\ Native(b).last_inst_ea \in Address
         /\ \A f \in Internal :
              /\ f \in Address
              /\ cfg_module.blocks[f] \subseteq DOMAIN cfg_module.ea_to_block
              /\ cfg_module.blocks[f] # {} => f \in cfg_module.blocks[f]
              /\ cfg_module.eh_frame[f] \subseteq Address
         /\ Address \subseteq Nat /\ None \notin Address
         /\ \A a \in Address : Instruction(a) \in Inst
<1>1. IsModule(cfg_module)
  BY ModuleAssumption
<1>2. ASSUME NEW b \in DOMAIN cfg_module.ea_to_block
      PROVE  Native(b).successor_eas \subseteq Address /\ Native(b).last_inst_ea \in Address
  BY <1>1 DEF IsModule, NativeBlock, Native
<1>3. ASSUME NEW f \in Internal
      PROVE  /\ f \in Address
             /\ cfg_module.blocks[f] \subseteq DOMAIN cfg_module.ea_to_block
             /\ cfg_module.blocks[f] # {} => f \in cfg_module.blocks[f]
             /\ cfg_module.eh_frame[f] \subseteq Address
  BY <1>1, FunctionAssumption DEF IsModule
<1> QED
  BY <1>1, <1>2, <1>3, AddressAssumption DEF IsModule, Instruction, None

(* The walk meets one block start first.                                   *)
LEMMA FurthestFound ==
  ASSUME cfg_module \in Modules, NEW a \in Address,
         {b \in DOMAIN cfg_module.ea_to_block : Holds(b, a) /\ a - b + 1 < MaxWalk /\ b > 1} # {}
  PROVE  LET found == {b \in DOMAIN cfg_module.ea_to_block :
                         Holds(b, a) /\ a - b + 1 < MaxWalk /\ b > 1} IN
         \E b \in found : \A c \in found : c <= b
<1> DEFINE found == {b \in DOMAIN cfg_module.ea_to_block :
                       Holds(b, a) /\ a - b + 1 < MaxWalk /\ b > 1}
           above == {a - b : b \in found}
<1>1. /\ above # {}
      /\ \A b \in found : b \in Nat /\ a \in Nat /\ b <= a
  BY ModuleFacts DEF Holds
<1>2. above \subseteq Nat
  BY <1>1
<1>3. PICK x \in above : \A y \in above : ~(<<y, x>> \in OpToRel(<, Nat))
  <2> HIDE DEF above
  <2> QED
    BY <1>1, <1>2, NatLessThanWellFounded, WFMin
<1>4. PICK b \in found : x = a - b
  OBVIOUS
<1>5. ASSUME NEW c \in found PROVE c <= b
  <2>1. a - c \in above /\ a - c \in Nat /\ x \in Nat
    BY <1>2
  <2>2. ~(a - c < x)
    BY <1>3, <2>1 DEF OpToRel
  <2> QED
    BY <1>1, <1>4, <2>2
<1> QED
  BY <1>5

(* TryGetBlock finds a block that holds the address, or none.              *)
LEMMA TryGetBlockFinds ==
  ASSUME cfg_module \in Modules, NEW a \in Address, NEW hint, InModule(hint)
  PROVE  LET b == TryGetBlock(a, hint) IN
         b = None \/ (b \in DOMAIN cfg_module.ea_to_block /\ Holds(b, a))
<1> DEFINE found == {b \in DOMAIN cfg_module.ea_to_block :
                       Holds(b, a) /\ a - b + 1 < MaxWalk /\ b > 1}
<1>1. found # {} => \E b \in found : \A c \in found : c <= b
  BY FurthestFound
<1>2. found # {} => (CHOOSE b \in found : \A c \in found : c <= b) \in found
  <2> HIDE DEF found
  <2> QED
    BY <1>1
<1>3. \A b \in found : b \in DOMAIN cfg_module.ea_to_block /\ Holds(b, a)
  OBVIOUS
<1>4. TryGetBlock(a, hint) = IF hint # None /\ Holds(hint, a) THEN hint
                             ELSE IF found = {} THEN None
                             ELSE CHOOSE b \in found : \A c \in found : c <= b
  BY DEF TryGetBlock
<1> HIDE DEF found
<1> QED
  BY <1>2, <1>3, <1>4 DEF InModule

(* The targets of a lifted instruction's terminator are where control may  *)
(* go after it.                                                            *)
LEMMA TerminatorFacts ==
  ASSUME cfg_module \in Modules, NEW f \in Internal, blocks[f] = cfg_module.blocks[f],
         NEW a \in Address, NEW b, b = None \/ (b \in DOMAIN cfg_module.ea_to_block /\ Holds(b, a))
  PROVE  /\ Terminator(f, a, b) \in Items
         /\ Terminator(f, a, b).op \in Terminators \ {"tail_call"}
         /\ Terminator(f, a, b).to \subseteq Flow(f, a)
<1> DEFINE i == Instruction(a)
<1>1. /\ i.category \in Categories /\ i.next_pc \in Address /\ i.branch_taken_pc \in Address
  BY ModuleFacts DEF Inst
<1>2. SwitchTargets(f, a, b) \subseteq
        {i.next_pc} \cup cfg_module.blocks[f] \cup
        UNION {Native(c).successor_eas : c \in {c \in DOMAIN cfg_module.ea_to_block : Holds(c, a)}}
  <2>1. Orphans(f) \subseteq cfg_module.blocks[f]
    BY DEF Orphans
  <2>2. CASE b = None
    <3>1. Successors(b) = {}
      BY <2>2, ModuleFacts DEF Successors
    <3> QED
      BY <2>1, <3>1 DEF SwitchTargets
  <2>3. CASE b \in DOMAIN cfg_module.ea_to_block /\ Holds(b, a)
    BY <2>1, <2>3 DEF SwitchTargets, Successors
  <2> QED
    BY <2>2, <2>3
<1>3. SwitchTargets(f, a, b) \subseteq Address
  BY <1>1, <1>2, ModuleFacts
<1>4. ASSUME NEW op \in Terminators, NEW to \in SUBSET Address
      PROVE  Item(op, to) \in Items /\ Item(op, to).op = op /\ Item(op, to).to = to
  BY DEF Item, Items
<1>5. Returning(i).op \in {"branch", "invoke"} /\ Returning(i) = Item(Returning(i).op, {i.next_pc})
  BY <1>1, <1>4 DEF Returning, Item
<1> HIDE DEF i
<1>6. CASE i.category = "indirect_jump"
  <2>1. Terminator(f, a, b) = Item("switch", SwitchTargets(f, a, b))
    BY <1>6 DEF Terminator, i
  <2> QED
    BY <1>2, <1>3, <1>4, <1>6, <2>1 DEF Flow, i, Terminators
<1>7. CASE i.category \in {"call", "indirect_call"}
  <2>1. Terminator(f, a, b) = Returning(i) \/ Terminator(f, a, b) = Item("branch", {i.next_pc})
    BY <1>7 DEF Terminator, i
  <2>2. Flow(f, a) = {i.next_pc}
    BY <1>7 DEF Flow, i
  <2> QED
    BY <1>1, <1>4, <1>5, <2>1, <2>2 DEF Terminators
<1>8. CASE i.category \in {"normal", "no_op"}
  <2>1. Terminator(f, a, b) = Item("return", {}) \/ Terminator(f, a, b) = Item("branch", {i.next_pc})
    BY <1>8 DEF Terminator, i
  <2>2. Flow(f, a) = {i.next_pc}
    BY <1>8 DEF Flow, i
  <2> QED
    BY <1>1, <1>4, <2>1, <2>2 DEF Terminators
<1>9. CASE i.category \in {"jump", "hyper_call"}
  <2>1. Terminator(f, a, b) = Item("branch", {i.branch_taken_pc}) /\ Flow(f, a) = {i.branch_taken_pc}
    BY <1>9 DEF Terminator, Flow, i
  <2> QED
    BY <1>1, <1>4, <2>1 DEF Terminators
<1>10. CASE i.category = "conditional"
  <2>1. /\ Terminator(f, a, b) = Item("branch", {i.branch_taken_pc, i.next_pc})
        /\ Flow(f, a) = {i.branch_taken_pc, i.next_pc}
    BY <1>10 DEF Terminator, Flow, i
  <2> QED
    BY <1>1, <1>4, <2>1 DEF Terminators
<1>11. CASE i.category \in {"return", "error"}
  <2>1. Terminator(f, a, b) = Item("return", {}) \/ Terminator(f, a, b) = Item("error", {})
    BY <1>11 DEF Terminator, i
  <2> QED
    BY <1>4, <2>1 DEF Terminators
<1> QED
  BY <1>1, <1>6, <1>7, <1>8, <1>9, <1>10, <1>11 DEF Categories

LEMMA FlowStays ==
  ASSUME cfg_module \in Modules, NEW f \in Internal, NEW a \in Address
  PROVE  Flow(f, a) \subseteq Address
<1>1. Instruction(a).next_pc \in Address /\ Instruction(a).branch_taken_pc \in Address
  BY ModuleFacts DEF Inst
<1>2. cfg_module.blocks[f] \subseteq Address
  BY ModuleFacts
<1>3. UNION {Native(c).successor_eas : c \in {c \in DOMAIN cfg_module.ea_to_block : Holds(c, a)}}
        \subseteq Address
  BY ModuleFacts
<1> QED
  BY <1>1, <1>2, <1>3 DEF Flow

(* Control goes from instruction a, the last of native block c, to b.      *)
Names(f, c, a, b) ==
  /\ b \in Native(c).successor_eas /\ b \in Flow(f, a)
  /\ Holds(c, a) /\ a - c + 1 < MaxWalk /\ c > 1
  /\ \A d \in DOMAIN cfg_module.ea_to_block :
       Holds(d, a) => Native(d).successor_eas = Native(c).successor_eas
Unlisted(f, b) == \A c \in cfg_module.blocks[f] : b \notin Native(c).successor_eas

(* What the terminator x of instruction a of f does not leave out.         *)
JumpsRight(f, a, x) ==
  /\ x.op = "switch" => \A b \in cfg_module.blocks[f] \ Functions : Unlisted(f, b) => b \in x.to
  /\ x.op # "tail_call" =>
       \A c \in DOMAIN cfg_module.ea_to_block : \A b \in Address \ Functions :
         Names(f, c, a, b) => b \in x.to

(* A block that holds the address, with its start in reach, is found, or   *)
(* another that holds it.                                                  *)
LEMMA TryGetBlockInReach ==
  ASSUME cfg_module \in Modules, NEW a \in Address, NEW hint, InModule(hint),
         NEW c \in DOMAIN cfg_module.ea_to_block, Holds(c, a), a - c + 1 < MaxWalk, c > 1
  PROVE  LET b == TryGetBlock(a, hint) IN b \in DOMAIN cfg_module.ea_to_block /\ Holds(b, a)
<1>1. TryGetBlock(a, hint) # None
  <2> DEFINE found == {b \in DOMAIN cfg_module.ea_to_block :
                         Holds(b, a) /\ a - b + 1 < MaxWalk /\ b > 1}
  <2>1. found # {}
    OBVIOUS
  <2>2. \E b \in found : \A d \in found : d <= b
    BY <2>1, FurthestFound
  <2>3. (CHOOSE b \in found : \A d \in found : d <= b) \in found
    <3> HIDE DEF found
    <3> QED
      BY <2>2
  <2>4. None \notin found
    BY ModuleFacts
  <2>5. TryGetBlock(a, hint) = IF hint # None /\ Holds(hint, a) THEN hint
                               ELSE IF found = {} THEN None
                               ELSE CHOOSE b \in found : \A d \in found : d <= b
    BY DEF TryGetBlock
  <2> HIDE DEF found
  <2> QED
    BY <2>1, <2>3, <2>4, <2>5
<1> QED
  BY <1>1, TryGetBlockFinds

LEMMA TerminatorJumpsRight ==
  ASSUME cfg_module \in Modules, NEW f \in Internal, blocks[f] = cfg_module.blocks[f],
         NEW a \in Address, NEW hint, InModule(hint)
  PROVE  JumpsRight(f, a, Terminator(f, a, TryGetBlock(a, hint)))
<1> DEFINE i == Instruction(a)
           b == TryGetBlock(a, hint)
           t == Terminator(f, a, b)
<1>1. i.category \in Categories
  BY ModuleFacts DEF Inst
<1>2. b = None \/ (b \in DOMAIN cfg_module.ea_to_block /\ Holds(b, a))
  BY TryGetBlockFinds
<1>3. \A op, to : Item(op, to).op = op /\ Item(op, to).to = to
  BY DEF Item
<1>4. Returning(i).to = {i.next_pc} /\ Returning(i).op # "switch"
  BY <1>3 DEF Returning
<1>5. \A e \in cfg_module.blocks[f] \ Functions : Unlisted(f, e) => e \in Orphans(f)
  BY FunctionAssumption DEF Unlisted, Orphans, Listed
<1>6. ASSUME NEW c \in DOMAIN cfg_module.ea_to_block, NEW e, Names(f, c, a, e)
      PROVE  e \in Successors(b)
  <2>1. b \in DOMAIN cfg_module.ea_to_block /\ Holds(b, a)
    BY <1>6, TryGetBlockInReach DEF Names
  <2> QED
    BY <1>6, <2>1 DEF Names, Successors
<1> HIDE DEF i, b
<1>7. CASE i.category = "indirect_jump"
  <2>1. t.op = "switch" /\ t.to = SwitchTargets(f, a, b)
    BY <1>3, <1>7 DEF Terminator, i
  <2>2. Orphans(f) \subseteq t.to /\ Successors(b) \subseteq t.to
    BY <2>1 DEF SwitchTargets
  <2> QED
    BY <1>5, <1>6, <2>2 DEF JumpsRight, b
<1>8. CASE i.category \in {"call", "indirect_call"}
  <2>1. t = Returning(i) \/ t = Item("branch", {i.next_pc})
    BY <1>8 DEF Terminator, i
  <2>2. Flow(f, a) = {i.next_pc} /\ t.to = {i.next_pc} /\ t.op # "switch"
    BY <1>3, <1>4, <1>8, <2>1 DEF Flow, i
  <2> QED
    BY <2>2 DEF JumpsRight, Names, b
<1>9. CASE i.category \in {"normal", "no_op"}
  <2>1. /\ t = Item("branch", {i.next_pc}) \/ (t = Item("return", {}) /\ i.next_pc \in Functions)
    BY <1>9 DEF Terminator, i
  <2>2. Flow(f, a) = {i.next_pc}
    BY <1>9 DEF Flow, i
  <2>3. t.op # "switch" /\ (t.to = {i.next_pc} \/ i.next_pc \in Functions)
    BY <1>3, <2>1
  <2> QED
    BY <2>2, <2>3 DEF JumpsRight, Names, b
<1>10. CASE i.category \in {"jump", "hyper_call", "conditional"}
  <2>1. t = Item("branch", Flow(f, a))
    BY <1>10 DEF Terminator, Flow, i
  <2>2. t.op # "switch" /\ t.to = Flow(f, a)
    BY <1>3, <2>1
  <2> QED
    BY <2>2 DEF JumpsRight, Names, b
<1>11. CASE i.category \in {"return", "error"}
  <2>1. t = Item("return", {}) \/ t = Item("error", {})
    BY <1>11 DEF Terminator, i
  <2>2. t.op # "switch" /\ Flow(f, a) = {}
    BY <1>3, <1>11, <2>1 DEF Flow, i
  <2> QED
    BY <2>2 DEF JumpsRight, Names, b
<1> QED
  BY <1>1, <1>7, <1>8, <1>9, <1>10, <1>11 DEF Categories
-----------------------------------------------------------------------------
(* What a block holds.                                                     *)

ItemsOf(block) == {block[i] : i \in DOMAIN block}

LEMMA ItemsOfBoth ==
  ASSUME NEW s \in Seq(Items), NEW t \in Seq(Items)
  PROVE  ItemsOf(s \o t) = ItemsOf(s) \cup ItemsOf(t)
<1> DEFINE u == s \o t
<1>1. /\ Len(s) \in Nat /\ Len(t) \in Nat /\ DOMAIN s = 1 .. Len(s) /\ DOMAIN t = 1 .. Len(t)
      /\ DOMAIN u = 1 .. Len(s) + Len(t)
  OBVIOUS
<1>2. \A i \in 1 .. Len(s) : u[i] = s[i]
  BY Appended
<1>3. \A i \in 1 .. Len(t) : u[Len(s) + i] = t[i]
  BY Appended
<1> HIDE DEF u
<1>4. ASSUME NEW i \in DOMAIN u PROVE u[i] \in ItemsOf(s) \cup ItemsOf(t)
  <2>1. CASE i <= Len(s)
    <3>1. i \in DOMAIN s /\ u[i] = s[i]
      BY <1>1, <1>2, <2>1
    <3> QED
      BY <3>1 DEF ItemsOf
  <2>2. CASE i > Len(s)
    <3>1. i - Len(s) \in DOMAIN t /\ i = Len(s) + (i - Len(s))
      BY <1>1, <2>2
    <3>2. u[i] = t[i - Len(s)]
      BY <1>1, <1>3, <3>1
    <3> QED
      BY <3>1, <3>2 DEF ItemsOf
  <2> QED
    BY <1>1, <2>1, <2>2
<1>5. ASSUME NEW i \in DOMAIN s PROVE s[i] \in ItemsOf(u)
  <2>1. i \in DOMAIN u /\ u[i] = s[i]
    BY <1>1, <1>2
  <2> QED
    BY <2>1 DEF ItemsOf
<1>6. ASSUME NEW i \in DOMAIN t PROVE t[i] \in ItemsOf(u)
  <2>1. Len(s) + i \in DOMAIN u /\ u[Len(s) + i] = t[i]
    BY <1>1, <1>3
  <2> QED
    BY <2>1 DEF ItemsOf
<1>7. ItemsOf(u) = ItemsOf(s) \cup ItemsOf(t)
  BY <1>4, <1>5, <1>6 DEF ItemsOf
<1> QED
  BY <1>7 DEF u

LEMMA SmallBlocks ==
  ASSUME NEW x \in Items, NEW y \in Items
  PROVE  /\ << >> \in Seq(Items) /\ ItemsOf(<< >>) = {} /\ Terminated(<< >>)
         /\ <<x>> \in Seq(Items) /\ ItemsOf(<<x>>) = {x} /\ DOMAIN <<x>> = {1} /\ Len(<<x>>) = 1
         /\ <<x, y>> \in Seq(Items) /\ ItemsOf(<<x, y>>) = {x, y}
         /\ DOMAIN <<x, y>> = {1, 2} /\ Len(<<x, y>>) = 2
<1>1. << >> \in Seq(Items) /\ DOMAIN << >> = {}
  OBVIOUS
<1>2. <<x>> \in Seq(Items) /\ DOMAIN <<x>> = {1} /\ Len(<<x>>) = 1 /\ <<x>>[1] = x
  OBVIOUS
<1>3. <<x, y>> \in Seq(Items) /\ DOMAIN <<x, y>> = {1, 2} /\ Len(<<x, y>>) = 2
      /\ <<x, y>>[1] = x /\ <<x, y>>[2] = y
  OBVIOUS
<1> QED
  BY <1>1, <1>2, <1>3 DEF ItemsOf, Terminated

LEMMA EmptyEnds ==
  ASSUME NEW s \in Seq(Items)
  PROVE  s \o << >> = s /\ << >> \o s = s
OBVIOUS

Given(t, c) == IF t.op = "invoke" /\ c \in t.to THEN {Store} ELSE {}

(* What Filled makes of a function's blocks: the block of the instruction  *)
(* has its code and its terminator, and the others keep what they have.    *)
FilledRight(f, a, t) ==
  LET B == Filled(f, a, t)
      W == WithBlocks(lifted[f], t.to) IN
  /\ IsBody(B) /\ DOMAIN B = DOMAIN lifted[f] \cup t.to
  /\ \A c \in DOMAIN B :
       /\ ItemsOf(B[c]) = ItemsOf(W[c]) \cup (IF c = a THEN {Code, t} ELSE {}) \cup Given(t, c)
       /\ Given(t, c) = {} => B[c] = IF c = a THEN <<Code, t>> ELSE W[c]

LEMMA FilledFacts ==
  ASSUME NEW f, IsBody(lifted[f]), NEW a \in DOMAIN lifted[f], ~Handled(f, a), NEW t \in Items
  PROVE  FilledRight(f, a, t)
<1> DEFINE B == Filled(f, a, t)
           W == WithBlocks(lifted[f], t.to)
           X(c) == IF c = a THEN <<Code, t>> ELSE << >>
           Y(c) == IF t.op = "invoke" /\ c \in t.to THEN <<Store>> ELSE << >>
<1>1. t.to \subseteq Address /\ Code \in Items /\ Store \in Items
  BY DEF Items, Code, Store, Item
<1>2. IsBody(W) /\ DOMAIN W = DOMAIN lifted[f] \cup t.to /\ W[a] = << >>
  <2>1. lifted[f][a] = << >>
    BY DEF Handled
  <2>2. W[a] = lifted[f][a]
    BY <1>1, WithBlocksFacts
  <2> QED
    BY <1>1, <2>1, <2>2, WithBlocksFacts
<1>3. DOMAIN B = DOMAIN W /\ \A c \in DOMAIN W : B[c] = W[c] \o X(c) \o Y(c)
  BY DEF Filled
<1>4. ASSUME NEW c
      PROVE  /\ X(c) \in Seq(Items) /\ ItemsOf(X(c)) = (IF c = a THEN {Code, t} ELSE {})
             /\ Y(c) \in Seq(Items) /\ ItemsOf(Y(c)) = Given(t, c)
             /\ c # a => X(c) = << >>
             /\ Given(t, c) = {} => Y(c) = << >>
  BY <1>1, SmallBlocks DEF Given
<1>5. X(a) = <<Code, t>>
  OBVIOUS
<1> HIDE DEF B, W, X, Y
<1>6. ASSUME NEW c \in DOMAIN W
      PROVE  /\ B[c] \in Seq(Items)
             /\ ItemsOf(B[c]) = ItemsOf(W[c]) \cup ItemsOf(X(c)) \cup ItemsOf(Y(c))
             /\ Given(t, c) = {} => B[c] = IF c = a THEN <<Code, t>> ELSE W[c]
  <2>1. W[c] \in Seq(Items) /\ X(c) \in Seq(Items) /\ Y(c) \in Seq(Items)
    BY <1>2, <1>4 DEF IsBody
  <2>2. W[c] \o X(c) \in Seq(Items)
    BY <2>1
  <2>3. W[c] \o X(c) \o Y(c) \in Seq(Items)
    BY <2>1, <2>2
  <2>4. ItemsOf(B[c]) = ItemsOf(W[c]) \cup ItemsOf(X(c)) \cup ItemsOf(Y(c))
    BY <1>3, <2>1, <2>2, ItemsOfBoth
  <2>5. ASSUME Given(t, c) = {} PROVE B[c] = IF c = a THEN <<Code, t>> ELSE W[c]
    <3>1. B[c] = W[c] \o X(c)
      BY <1>3, <1>4, <2>2, <2>5, EmptyEnds
    <3> QED
      BY <1>2, <1>4, <1>5, <2>1, <3>1, EmptyEnds
  <2> QED
    BY <1>3, <2>3, <2>4, <2>5
<1>7. /\ IsBody(B) /\ DOMAIN B = DOMAIN lifted[f] \cup t.to
      /\ \A c \in DOMAIN B :
           /\ ItemsOf(B[c]) = ItemsOf(W[c]) \cup (IF c = a THEN {Code, t} ELSE {}) \cup Given(t, c)
           /\ Given(t, c) = {} => B[c] = IF c = a THEN <<Code, t>> ELSE W[c]
  BY <1>2, <1>3, <1>4, <1>6 DEF IsBody
<1> QED
  BY <1>7 DEF B, W, FilledRight
-----------------------------------------------------------------------------
(* The invariant.                                                          *)

FuncTyped ==
  /\ cfg_module \in Modules
  /\ DOMAIN lifted = Internal /\ \A f \in Internal : IsBody(lifted[f])
  /\ DOMAIN blocks = Internal /\ DOMAIN eh_frame = Internal /\ DOMAIN entry = Internal
  /\ phase \in {"idle", "landing_pads", "blocks"}
  /\ IF phase = "idle" THEN cur = None ELSE cur \in Internal
  /\ work_list \in Seq(Pushed) /\ InModule(cfg_block)

(* The CFG's description of a function is dropped only once it is lifted.  *)
NotDropped ==
  \A f \in Internal : lifted[f] = << >> \/ f = cur =>
    blocks[f] = cfg_module.blocks[f] /\ eh_frame[f] = cfg_module.eh_frame[f]

(* What waits has a block, and what the CFG gave the function is forced,   *)
(* so that no one who jumps there first makes a tail call of it.           *)
Waiting ==
  phase # "idle" =>
    /\ StartBlocks(cur) \subseteq DOMAIN lifted[cur]
    /\ pads_left \subseteq cfg_module.eh_frame[cur]
    /\ \A i \in 1 .. Len(work_list) :
         /\ work_list[i].ea \in DOMAIN lifted[cur]
         /\ work_list[i].ea \in StartBlocks(cur) => work_list[i].force

LiftInv == FuncTyped /\ NotDropped /\ Waiting /\ MatchesCFG

IsTail(block) == \E x \in ItemsOf(block) : x.op = "tail_call"

LEMMA TailCallsLeaveIs ==
  TailCallsLeave <=>
    \A f \in Internal : \A a \in DOMAIN lifted[f] :
      IsTail(lifted[f][a]) => a \in Functions \ (cfg_module.blocks[f] \cup {f})
BY DEF TailCallsLeave, IsTail, ItemsOf

LEMMA StartsAtItself ==
  ASSUME cfg_module \in Modules, NEW f \in Internal, blocks[f] = cfg_module.blocks[f]
  PROVE  /\ f \in StartBlocks(f) /\ cfg_module.blocks[f] \subseteq StartBlocks(f)
         /\ StartBlocks(f) \subseteq cfg_module.blocks[f] \cup {f} /\ StartBlocks(f) \subseteq Address
BY ModuleFacts DEF StartBlocks

(* A step of LiftFunction between its first and its last.                  *)
LEMMA WorkStep ==
  ASSUME LiftInv, phase # "idle", phase' \in {"landing_pads", "blocks"},
         UNCHANGED <<cfg, cur, entry>>, InModule(cfg_block)', pads_left' \subseteq pads_left,
         DOMAIN lifted' = Internal, IsBody(lifted'[cur]),
         \A f \in Internal \ {cur} : lifted'[f] = lifted[f],
         DOMAIN lifted[cur] \subseteq DOMAIN lifted'[cur],
         work_list' \in Seq(Pushed),
         \A i \in 1 .. Len(work_list') :
           \/ \E j \in 1 .. Len(work_list) : work_list'[i] = work_list[j]
           \/ work_list'[i].ea \in DOMAIN lifted'[cur] \ DOMAIN lifted[cur],
         \A a \in DOMAIN lifted'[cur] : IsTail(lifted'[cur][a]) =>
           \/ a \in DOMAIN lifted[cur] /\ IsTail(lifted[cur][a])
           \/ a \in Functions \ StartBlocks(cur)
  PROVE  LiftInv'
<1>1. UNCHANGED <<cfg_module, blocks, eh_frame, cur, entry>>
  BY DEF cfg
<1>2. /\ cur \in Internal /\ cur' = cur /\ blocks[cur] = cfg_module.blocks[cur]
  BY <1>1 DEF LiftInv, FuncTyped, NotDropped
<1>3. \A f \in Internal : IsBody(lifted'[f])
  BY DEF LiftInv, FuncTyped
<1>4. FuncTyped'
  BY <1>1, <1>2, <1>3 DEF LiftInv, FuncTyped
<1>5. NotDropped'
  BY <1>1, <1>2 DEF LiftInv, NotDropped
<1>6. StartBlocks(cur)' = StartBlocks(cur)
  BY <1>1 DEF StartBlocks
<1>7. Waiting'
  <2>1. ASSUME NEW i \in 1 .. Len(work_list')
        PROVE  /\ work_list'[i].ea \in DOMAIN lifted'[cur]
               /\ work_list'[i].ea \in StartBlocks(cur) => work_list'[i].force
    BY DEF LiftInv, Waiting
  <2> QED
    BY <1>1, <1>6, <2>1 DEF LiftInv, Waiting
<1>8. FunctionsComplete'
  BY <1>1, <1>2 DEF LiftInv, MatchesCFG, FunctionsComplete, Finished
<1>9. TailCallsLeave'
  <2>1. ASSUME NEW f \in Internal, NEW a \in DOMAIN lifted'[f], IsTail(lifted'[f][a])
        PROVE  a \in Functions \ (cfg_module.blocks[f] \cup {f})
    <3>1. CASE f # cur
      BY <2>1, <3>1, TailCallsLeaveIs DEF LiftInv, MatchesCFG
    <3>2. CASE f = cur
      BY <1>2, <2>1, <3>2, TailCallsLeaveIs, StartsAtItself DEF LiftInv, MatchesCFG, FuncTyped
    <3> QED
      BY <3>1, <3>2
  <2>2. \A f \in Internal : \A a \in DOMAIN lifted'[f] :
          (\E i \in DOMAIN lifted'[f][a] : lifted'[f][a][i].op = "tail_call") => IsTail(lifted'[f][a])
    BY DEF IsTail, ItemsOf
  <2> QED
    BY <1>1, <2>1, <2>2 DEF TailCallsLeave
<1> QED
  BY <1>4, <1>5, <1>7, <1>8, <1>9 DEF LiftInv, MatchesCFG

LEMMA StartStep ==
  ASSUME LiftInv, NEW f \in Internal, StartFunction(f)
  PROVE  LiftInv'
<1>1. /\ phase = "idle" /\ lifted[f] = << >> /\ cur' = f /\ phase' = "landing_pads"
      /\ lifted' = [lifted EXCEPT ![f] = WithBlocks(<< >>, StartBlocks(f))]
      /\ pads_left' = eh_frame[f] /\ cfg_block' = None
      /\ UNCHANGED <<cfg_module, blocks, eh_frame, entry>>
  BY DEF StartFunction, cfg
<1>2. PICK order \in SetToSeqs(StartBlocks(f)) : work_list' = Entries(order, StartBlocks(f))
  BY DEF StartFunction
<1>3. /\ cfg_module \in Modules /\ blocks[f] = cfg_module.blocks[f]
      /\ eh_frame[f] = cfg_module.eh_frame[f] /\ cur = None /\ DOMAIN lifted = Internal
  BY <1>1 DEF LiftInv, FuncTyped, NotDropped
<1>4. IsBody(<< >>) /\ DOMAIN << >> = {}
  BY DEF IsBody
<1>5. /\ f \in StartBlocks(f) /\ cfg_module.blocks[f] \subseteq StartBlocks(f)
      /\ StartBlocks(f) \subseteq Address
  BY <1>3, StartsAtItself
<1>6. /\ IsBody(lifted'[f]) /\ DOMAIN lifted'[f] = StartBlocks(f)
      /\ \A a \in StartBlocks(f) : lifted'[f][a] = << >>
  <2>1. lifted'[f] = WithBlocks(<< >>, StartBlocks(f)) /\ StartBlocks(f) \in SUBSET Address
    BY <1>1, <1>3, <1>5
  <2>2. ASSUME NEW T \in SUBSET Address, NEW body, IsBody(body), DOMAIN body = {}
        PROVE  /\ IsBody(WithBlocks(body, T)) /\ DOMAIN WithBlocks(body, T) = T
               /\ \A a \in T : WithBlocks(body, T)[a] = << >>
    <3>1. DOMAIN WithBlocks(body, T) = DOMAIN body \cup T /\ IsBody(WithBlocks(body, T))
      BY <2>2, WithBlocksFacts
    <3>2. \A a \in T : a \in T \ DOMAIN body
      BY <2>2
    <3>3. \A a \in T : WithBlocks(body, T)[a] = << >>
      BY <2>2, <3>2, WithBlocksFacts
    <3> QED
      BY <2>2, <3>1, <3>3
  <2> QED
    BY <1>4, <2>1, <2>2
<1>7. \A g \in Internal \ {f} : lifted'[g] = lifted[g]
  BY <1>1, <1>3
<1>8. /\ work_list' \in Seq(Pushed)
      /\ \A i \in 1 .. Len(work_list') : work_list'[i].ea \in StartBlocks(f) /\ work_list'[i].force
  BY <1>2, <1>5, EntriesFacts
<1>9. FuncTyped'
  BY <1>1, <1>3, <1>6, <1>7, <1>8 DEF LiftInv, FuncTyped, InModule
<1>10. NotDropped'
  BY <1>1, <1>3, <1>7 DEF LiftInv, NotDropped
<1>11. Waiting'
  <2>1. StartBlocks(f)' = StartBlocks(f)
    BY <1>1 DEF StartBlocks
  <2> QED
    BY <1>1, <1>3, <1>6, <1>8, <2>1 DEF Waiting
<1>12. FunctionsComplete'
  BY <1>1, <1>3, <1>7, ModuleFacts DEF LiftInv, MatchesCFG, FunctionsComplete, Finished
<1>13. TailCallsLeave'
  <2>1. ASSUME NEW g \in Internal, NEW a \in DOMAIN lifted'[g], IsTail(lifted'[g][a])
        PROVE  a \in Functions \ (cfg_module.blocks[g] \cup {g})
    <3>1. g # f
      BY <1>6, <2>1 DEF IsTail, ItemsOf
    <3> QED
      BY <1>7, <2>1, <3>1, TailCallsLeaveIs DEF LiftInv, MatchesCFG
  <2>2. \A g \in Internal : \A a \in DOMAIN lifted'[g] :
          (\E i \in DOMAIN lifted'[g][a] : lifted'[g][a][i].op = "tail_call") => IsTail(lifted'[g][a])
    BY DEF IsTail, ItemsOf
  <2> QED
    BY <1>1, <2>1, <2>2 DEF TailCallsLeave
<1> QED
  BY <1>9, <1>10, <1>11, <1>12, <1>13 DEF LiftInv, MatchesCFG

LEMMA PadStep ==
  ASSUME LiftInv, NEW lp \in Address, CreateLandingPad(lp)
  PROVE  LiftInv'
<1> DEFINE B == WithBlocks(lifted[cur], {lp})
           new == {lp} \ DOMAIN lifted[cur]
           more == IF new = {} THEN << >> ELSE <<[ea |-> lp, force |-> FALSE]>>
<1>1. /\ phase = "landing_pads" /\ pads_left' = pads_left \ {lp}
      /\ lifted' = [lifted EXCEPT ![cur] = B]
      /\ work_list' = work_list \o more
      /\ UNCHANGED <<cfg, entry, cur, phase, stack_ptr_var, cfg_block>>
  BY DEF CreateLandingPad
<1>2. cur \in Internal /\ IsBody(lifted[cur]) /\ DOMAIN lifted = Internal /\ work_list \in Seq(Pushed)
  BY <1>1 DEF LiftInv, FuncTyped
<1>3. /\ IsBody(B) /\ DOMAIN B = DOMAIN lifted[cur] \cup {lp}
      /\ \A a \in DOMAIN lifted[cur] : B[a] = lifted[cur][a]
      /\ \A a \in {lp} \ DOMAIN lifted[cur] : B[a] = << >>
  <2>1. {lp} \in SUBSET Address
    OBVIOUS
  <2> QED
    BY <1>2, <2>1, WithBlocksFacts
<1>4. /\ more \in Seq(Pushed)
      /\ \A i \in 1 .. Len(more) : more[i].ea \in new
  <2>1. [ea |-> lp, force |-> FALSE] \in Pushed
    BY DEF Pushed
  <2>2. CASE new = {}
    BY <2>2
  <2>3. CASE new # {}
    BY <2>1, <2>3
  <2> QED
    BY <2>2, <2>3
<1> HIDE DEF B, more
<1>5. lifted'[cur] = B /\ DOMAIN lifted' = Internal /\ \A f \in Internal \ {cur} : lifted'[f] = lifted[f]
  BY <1>1, <1>2
<1>6. /\ work_list' \in Seq(Pushed)
      /\ \A i \in 1 .. Len(work_list') :
           \/ \E j \in 1 .. Len(work_list) : work_list'[i] = work_list[j]
           \/ work_list'[i].ea \in DOMAIN B \ DOMAIN lifted[cur]
  BY <1>1, <1>2, <1>3, <1>4, Appended, FromEither
<1>7. \A a \in DOMAIN B : IsTail(B[a]) => a \in DOMAIN lifted[cur] /\ IsTail(lifted[cur][a])
  BY <1>3 DEF IsTail, ItemsOf
<1>8. InModule(cfg_block)'
  BY <1>1 DEF LiftInv, FuncTyped, InModule, cfg
<1> QED
  BY <1>1, <1>3, <1>5, <1>6, <1>7, <1>8, WorkStep

LEMMA VarsStep ==
  ASSUME LiftInv, AllocateStackVars
  PROVE  LiftInv'
<1>1. /\ phase = "landing_pads" /\ phase' = "blocks"
      /\ UNCHANGED <<cfg, lifted, entry, cur, work_list, pads_left, cfg_block>>
  BY DEF AllocateStackVars, output
<1>2. cur \in Internal /\ IsBody(lifted[cur]) /\ DOMAIN lifted = Internal /\ work_list \in Seq(Pushed)
  BY <1>1 DEF LiftInv, FuncTyped
<1>3. InModule(cfg_block)'
  BY <1>1 DEF LiftInv, FuncTyped, InModule, cfg
<1> QED
  BY <1>1, <1>2, <1>3, WorkStep

(* A step that pops the block a: what it makes of it, and what it pushes.  *)
LEMMA PopStep ==
  ASSUME LiftInv, Popping, UNCHANGED <<cfg, entry, cur, phase, pads_left>>, InModule(cfg_block)',
         NEW B, IsBody(B), DOMAIN lifted[cur] \subseteq DOMAIN B,
         lifted' = [lifted EXCEPT ![cur] = B],
         NEW more \in Seq(Pushed), work_list' = more \o Popped(work_list),
         \A i \in 1 .. Len(more) : more[i].ea \in DOMAIN B \ DOMAIN lifted[cur],
         \A a \in DOMAIN B : IsTail(B[a]) =>
           \/ a \in DOMAIN lifted[cur] /\ IsTail(lifted[cur][a])
           \/ a \in Functions \ StartBlocks(cur)
  PROVE  LiftInv'
<1>1. /\ phase = "blocks" /\ work_list # << >> /\ cur \in Internal /\ DOMAIN lifted = Internal
      /\ work_list \in Seq(Pushed)
  BY DEF Popping, LiftInv, FuncTyped
<1>2. Popped(work_list) \in Seq(Pushed)
  BY <1>1, PoppedFacts
<1>3. \A i \in 1 .. Len(Popped(work_list)) :
        \E j \in 1 .. Len(work_list) : Popped(work_list)[i] = work_list[j]
  BY <1>1, PoppedFacts
<1>4. lifted'[cur] = B /\ DOMAIN lifted' = Internal /\ \A f \in Internal \ {cur} : lifted'[f] = lifted[f]
  BY <1>1
<1>5. /\ work_list' \in Seq(Pushed)
      /\ \A i \in 1 .. Len(work_list') :
           \/ \E j \in 1 .. Len(work_list) : work_list'[i] = work_list[j]
           \/ work_list'[i].ea \in DOMAIN B \ DOMAIN lifted[cur]
  <2>1. ASSUME NEW i \in 1 .. Len(more \o Popped(work_list))
        PROVE  \/ \E j \in 1 .. Len(work_list) : (more \o Popped(work_list))[i] = work_list[j]
               \/ (more \o Popped(work_list))[i].ea \in DOMAIN B \ DOMAIN lifted[cur]
    <3>1. CASE \E j \in 1 .. Len(more) : (more \o Popped(work_list))[i] = more[j]
      BY <3>1
    <3>2. CASE \E j \in 1 .. Len(Popped(work_list)) :
                 (more \o Popped(work_list))[i] = Popped(work_list)[j]
      BY <1>3, <3>2
    <3> QED
      BY <1>2, <3>1, <3>2, FromEither
  <2> QED
    BY <1>2, <2>1, Appended
<1> QED
  BY <1>1, <1>4, <1>5, WorkStep

(* What every step that pops knows of the block it pops.                   *)
LEMMA TopFacts ==
  ASSUME LiftInv, Popping
  PROVE  /\ Top \in Pushed /\ Top.ea \in DOMAIN lifted[cur] /\ Top.ea \in Address
         /\ Top.ea \in StartBlocks(cur) => Top.force
         /\ cur \in Internal /\ IsBody(lifted[cur]) /\ DOMAIN lifted = Internal
         /\ blocks[cur] = cfg_module.blocks[cur] /\ cfg_module \in Modules
<1>1. /\ phase = "blocks" /\ work_list # << >> /\ cur \in Internal /\ DOMAIN lifted = Internal
      /\ work_list \in Seq(Pushed) /\ IsBody(lifted[cur]) /\ cfg_module \in Modules
      /\ blocks[cur] = cfg_module.blocks[cur]
  BY DEF Popping, LiftInv, FuncTyped, NotDropped
<1>2. Top = work_list[1] /\ Top \in Pushed /\ 1 \in 1 .. Len(work_list)
  BY <1>1, PoppedFacts DEF Top
<1> QED
  BY <1>1, <1>2 DEF LiftInv, Waiting, IsBody

LEMMA HandledStep ==
  ASSUME LiftInv, AlreadyHandled
  PROVE  LiftInv'
<1>1. /\ Popping /\ work_list' = Popped(work_list)
      /\ UNCHANGED <<cfg, lifted, entry, cur, phase, pads_left, cfg_block>>
  BY DEF AlreadyHandled, output
<1>2. /\ work_list \in Seq(Pushed) /\ work_list # << >> /\ DOMAIN lifted = Internal /\ phase = "blocks"
      /\ cur \in Internal /\ IsBody(lifted[cur])
  BY <1>1 DEF Popping, LiftInv, FuncTyped
<1>3. work_list' \in Seq(Pushed) /\ \A i \in 1 .. Len(work_list') :
        \E j \in 1 .. Len(work_list) : work_list'[i] = work_list[j]
  BY <1>1, <1>2, PoppedFacts
<1>4. InModule(cfg_block)'
  BY <1>1 DEF LiftInv, FuncTyped, InModule, cfg
<1> QED
  BY <1>1, <1>2, <1>3, <1>4, WorkStep

(* A block that becomes its one terminator.                                *)
LEMMA OneItemStep ==
  ASSUME LiftInv, Popping, UNCHANGED <<cfg, entry, cur, phase, pads_left, cfg_block>>,
         NEW x \in Items, lifted' = [lifted EXCEPT ![cur][Top.ea] = <<x>>],
         work_list' = Popped(work_list),
         x.op = "tail_call" => Top.ea \in Functions \ StartBlocks(cur)
  PROVE  LiftInv'
<1> DEFINE B == [lifted[cur] EXCEPT ![Top.ea] = <<x>>]
<1>1. /\ DOMAIN B = DOMAIN lifted[cur] /\ lifted' = [lifted EXCEPT ![cur] = B]
      /\ \A a \in DOMAIN B : B[a] = IF a = Top.ea THEN <<x>> ELSE lifted[cur][a]
  OBVIOUS
<1>2. <<x>> \in Seq(Items) /\ ItemsOf(<<x>>) = {x}
  BY SmallBlocks
<1> HIDE DEF B
<1>3. IsBody(B)
  BY <1>1, <1>2, TopFacts DEF IsBody
<1>4. ASSUME NEW a \in DOMAIN B, IsTail(B[a])
      PROVE  \/ a \in DOMAIN lifted[cur] /\ IsTail(lifted[cur][a])
             \/ a \in Functions \ StartBlocks(cur)
  BY <1>1, <1>2, <1>4 DEF IsTail
<1>5. InModule(cfg_block)'
  BY DEF LiftInv, FuncTyped, InModule, cfg
<1>6. Popped(work_list) \in Seq(Pushed) /\ << >> \in Seq(Pushed)
  BY PoppedFacts DEF Popping, LiftInv, FuncTyped
<1>7. work_list' = << >> \o Popped(work_list)
  BY <1>6
<1>8. \A i \in 1 .. Len(<< >>) : << >>[i].ea \in DOMAIN B \ DOMAIN lifted[cur]
  OBVIOUS
<1> QED
  BY <1>1, <1>3, <1>4, <1>5, <1>6, <1>7, <1>8, PopStep

LEMMA TailCallStep ==
  ASSUME LiftInv, AddTailCall
  PROVE  LiftInv'
<1>1. Item("tail_call", {}) \in Items
  BY DEF Item, Items, Terminators
<1>2. Popping /\ IsTailCall(cur, Top)
  BY DEF AddTailCall
<1>3. Top.ea \in Functions \ StartBlocks(cur)
  BY <1>2, TopFacts DEF IsTailCall
<1> QED
  BY <1>1, <1>2, <1>3, OneItemStep DEF AddTailCall

LEMMA DecodeFailsStep ==
  ASSUME LiftInv, DecodeFails
  PROVE  LiftInv'
<1>1. Item("error", {}) \in Items /\ Item("error", {}).op = "error"
  BY DEF Item, Items, Terminators
<1> QED
  BY <1>1, OneItemStep DEF DecodeFails

(* What LiftInst puts into the block it pops.                              *)
Lifts(t) ==
  /\ t \in Items /\ t.op \in Terminators \ {"tail_call"} /\ t.to \subseteq Flow(cur, Top.ea)
  /\ JumpsRight(cur, Top.ea, t)
  /\ lifted' = [lifted EXCEPT ![cur] = Filled(cur, Top.ea, t)]
  /\ \E order \in SetToSeqs(t.to \ DOMAIN lifted[cur]), forced \in SUBSET Address :
       work_list' = Entries(order, forced) \o Popped(work_list)

LEMMA LiftInstLifts ==
  ASSUME LiftInv, LiftInst
  PROVE  /\ \E t \in Items : Lifts(t)
         /\ Popping /\ ~Handled(cur, Top.ea) /\ InModule(cfg_block)'
         /\ UNCHANGED <<cfg, lp_to_block, entry, cur, phase, pads_left, stack_ptr_var>>
<1> DEFINE a == Top.ea
           b == TryGetBlock(a, cfg_block)
           t == Terminator(cur, a, b)
<1>1. /\ Popping /\ ~Handled(cur, a) /\ lifted' = [lifted EXCEPT ![cur] = Filled(cur, a, t)]
      /\ cfg_block' = b
      /\ UNCHANGED <<cfg, lp_to_block, entry, cur, phase, pads_left, stack_ptr_var>>
  BY DEF LiftInst
<1>2. PICK order \in SetToSeqs(t.to \ DOMAIN lifted[cur]) :
        work_list' = Entries(order, IF t.op = "switch" THEN Successors(b) ELSE {})
                       \o Popped(work_list)
  BY DEF LiftInst
<1>3. a \in Address /\ cfg_module \in Modules /\ InModule(cfg_block) /\ cur \in Internal
      /\ blocks[cur] = cfg_module.blocks[cur]
  BY <1>1, TopFacts DEF LiftInv, FuncTyped
<1>4. b = None \/ (b \in DOMAIN cfg_module.ea_to_block /\ Holds(b, a))
  BY <1>3, TryGetBlockFinds
<1>5. t \in Items /\ t.op \in Terminators \ {"tail_call"} /\ t.to \subseteq Flow(cur, a)
  BY <1>3, <1>4, TerminatorFacts
<1>10. JumpsRight(cur, a, t)
  BY <1>3, TerminatorJumpsRight
<1>6. (IF t.op = "switch" THEN Successors(b) ELSE {}) \in SUBSET Address
  BY <1>3, <1>4, ModuleFacts DEF Successors
<1>7. InModule(cfg_block)'
  BY <1>1, <1>4 DEF InModule, cfg
<1> HIDE DEF a, b, t
<1>8. \E forced \in SUBSET Address : work_list' = Entries(order, forced) \o Popped(work_list)
  BY <1>2, <1>6
<1>9. Lifts(t)
  BY <1>1, <1>5, <1>8, <1>10 DEF Lifts, a
<1> QED
  BY <1>1, <1>5, <1>7, <1>9 DEF a

LEMMA InstStep ==
  ASSUME LiftInv, LiftInst
  PROVE  LiftInv'
<1>1. PICK t \in Items : Lifts(t)
  BY LiftInstLifts
<1>2. /\ Popping /\ ~Handled(cur, Top.ea) /\ InModule(cfg_block)'
      /\ UNCHANGED <<cfg, entry, cur, phase, pads_left>>
  BY LiftInstLifts
<1> DEFINE B == Filled(cur, Top.ea, t)
           W == WithBlocks(lifted[cur], t.to)
<1>3. PICK order \in SetToSeqs(t.to \ DOMAIN lifted[cur]), forced \in SUBSET Address :
        work_list' = Entries(order, forced) \o Popped(work_list)
  BY <1>1 DEF Lifts
<1>4. IsBody(lifted[cur]) /\ Top.ea \in DOMAIN lifted[cur] /\ t.to \in SUBSET Address
  BY <1>2, TopFacts DEF Items
<1>5. /\ IsBody(B) /\ DOMAIN B = DOMAIN lifted[cur] \cup t.to
      /\ \A c \in DOMAIN B :
           ItemsOf(B[c]) = ItemsOf(W[c]) \cup (IF c = Top.ea THEN {Code, t} ELSE {}) \cup Given(t, c)
  <2>1. FilledRight(cur, Top.ea, t)
    BY <1>2, <1>4, FilledFacts
  <2> QED
    BY <2>1 DEF FilledRight
<1>6. /\ \A c \in DOMAIN lifted[cur] : W[c] = lifted[cur][c]
      /\ \A c \in t.to \ DOMAIN lifted[cur] : W[c] = << >>
  BY <1>4, WithBlocksFacts
<1>7. lifted' = [lifted EXCEPT ![cur] = B]
  BY <1>1 DEF Lifts
<1> HIDE DEF B, W
<1>8. ASSUME NEW c \in DOMAIN B, IsTail(B[c])
      PROVE  c \in DOMAIN lifted[cur] /\ IsTail(lifted[cur][c])
  <2>1. PICK x \in ItemsOf(B[c]) : x.op = "tail_call"
    BY <1>8 DEF IsTail
  <2>2. Code.op # "tail_call" /\ Store.op # "tail_call" /\ t.op # "tail_call"
    BY <1>1 DEF Code, Store, Item, Lifts
  <2>3. x \in ItemsOf(W[c])
    BY <1>5, <2>1, <2>2 DEF Given
  <2>4. c \in DOMAIN lifted[cur]
    BY <1>5, <1>6, <2>3 DEF ItemsOf
  <2> QED
    BY <1>6, <2>1, <2>3, <2>4 DEF IsTail
<1>9. t.to \ DOMAIN lifted[cur] \in SUBSET Address
  BY <1>4
<1>10. /\ Entries(order, forced) \in Seq(Pushed)
       /\ \A i \in 1 .. Len(Entries(order, forced)) :
            Entries(order, forced)[i].ea \in DOMAIN B \ DOMAIN lifted[cur]
  BY <1>5, <1>9, EntriesFacts
<1> QED
  BY <1>2, <1>3, <1>5, <1>7, <1>8, <1>10, PopStep

LEMMA FinishStep ==
  ASSUME LiftInv, FinishFunction
  PROVE  LiftInv'
<1>1. /\ phase = "blocks" /\ phase' = "idle" /\ cur' = None
      /\ entry' = [entry EXCEPT ![cur] = IF cur \in DOMAIN lifted[cur] THEN cur ELSE None]
      /\ blocks' = [blocks EXCEPT ![cur] = {}] /\ eh_frame' = [eh_frame EXCEPT ![cur] = {}]
      /\ UNCHANGED <<cfg_module, lifted, work_list, cfg_block>>
  BY DEF FinishFunction
<1>2. /\ cur \in Internal /\ blocks[cur] = cfg_module.blocks[cur] /\ cfg_module \in Modules
      /\ DOMAIN entry = Internal /\ DOMAIN blocks = Internal /\ DOMAIN eh_frame = Internal
  BY <1>1 DEF LiftInv, FuncTyped, NotDropped
<1>3. cur \in DOMAIN lifted[cur] /\ cfg_module.blocks[cur] \subseteq DOMAIN lifted[cur]
  BY <1>1, <1>2, StartsAtItself DEF LiftInv, Waiting
<1>4. lifted[cur] # << >>
  BY <1>3
<1>5. FuncTyped'
  BY <1>1, <1>2 DEF LiftInv, FuncTyped, InModule
<1>6. NotDropped'
  <2>1. None \notin Internal
    BY <1>2, ModuleFacts
  <2> QED
    BY <1>1, <1>2, <1>4, <2>1 DEF LiftInv, NotDropped
<1>7. FunctionsComplete'
  BY <1>1, <1>2, <1>3 DEF LiftInv, MatchesCFG, FunctionsComplete, Finished
<1>8. TailCallsLeave'
  BY <1>1 DEF LiftInv, MatchesCFG, TailCallsLeave
<1> QED
  BY <1>1, <1>5, <1>6, <1>7, <1>8 DEF LiftInv, MatchesCFG, Waiting

LEMMA LiftInitially == Init => LiftInv
<1> SUFFICES ASSUME Init PROVE LiftInv
  OBVIOUS
<1>1. /\ cfg_module \in Modules /\ blocks = cfg_module.blocks /\ eh_frame = cfg_module.eh_frame
      /\ lifted = [f \in Internal |-> << >>] /\ entry = [f \in Internal |-> None]
      /\ cur = None /\ phase = "idle" /\ work_list = << >> /\ cfg_block = None
  BY DEF Init
<1>2. IsModule(cfg_module)
  BY <1>1, ModuleAssumption
<1>3. FuncTyped
  BY <1>1, <1>2 DEF FuncTyped, IsModule, IsBody, InModule
<1> QED
  BY <1>1, <1>3
     DEF LiftInv, NotDropped, Waiting, MatchesCFG, TailCallsLeave, FunctionsComplete, Finished

LEMMA LiftAlways == LiftInv /\ [Next]_state => LiftInv'
<1> SUFFICES ASSUME LiftInv, [Next]_state PROVE LiftInv'
  OBVIOUS
<1>1. CASE UNCHANGED state
  <2>1. UNCHANGED <<cfg_module, blocks, eh_frame, lifted, entry, cur, phase, work_list, pads_left, cfg_block>>
    BY <1>1 DEF state, cfg, output, context
  <2> QED
    BY <2>1 DEF LiftInv, FuncTyped, NotDropped, Waiting, MatchesCFG, TailCallsLeave,
                FunctionsComplete, Finished, InModule, StartBlocks
<1> QED
  BY <1>1, StartStep, PadStep, VarsStep, HandledStep, TailCallStep, DecodeFailsStep, InstStep,
     FinishStep DEF Next

(* A finished function has every block the CFG gave it and an entry at its *)
(* own address, and no block of it became a tail call, whatever jumped to  *)
(* it first.                                                               *)
THEOREM MatchesCFGHolds == Spec => []MatchesCFG
<1>1. LiftInv => MatchesCFG
  BY DEF LiftInv
<1> QED
  BY <1>1, LiftInitially, LiftAlways, PTL DEF Spec
-----------------------------------------------------------------------------
(* The abstract lifter of LiftClosure, and where blocks end.               *)

Roots(f) == cfg_module.blocks[f] \cup cfg_module.eh_frame[f] \cup {f}
Translated(body) == {a \in DOMAIN body : \E x \in ItemsOf(body[a]) : x.op \in Terminators}

LEMMA TranslatedIs ==
  \A f \in Internal :
    {a \in DOMAIN lifted[f] : \E i \in DOMAIN lifted[f][a] : lifted[f][a][i].op \in Terminators}
      = Translated(lifted[f])
BY DEF Translated, ItemsOf

LEMMA ReturnedToIs ==
  ASSUME NEW f \in Internal, NEW b
  PROVE  b \in ReturnedTo(f) <=>
           /\ b \in Address
           /\ \E a \in DOMAIN lifted[f] : \E x \in ItemsOf(lifted[f][a]) : x.op = "invoke" /\ b \in x.to
BY DEF ReturnedTo, ItemsOf

LEMMA FlowSame ==
  ASSUME UNCHANGED cfg_module
  PROVE  \A f, a : Flow(f, a)' = Flow(f, a)
BY DEF Flow, Instruction, Native, Holds

(* A function comes to hold some of its roots.                             *)
LEMMA Reaching ==
  ASSUME UNCHANGED cfg_module, NEW f \in Internal, NEW S \in SUBSET Roots(f),
         \A g \in Internal \ {f} : lifted'[g] = lifted[g],
         DOMAIN lifted'[f] = DOMAIN lifted[f] \cup S,
         Translated(lifted'[f]) = Translated(lifted[f])
  PROVE  Closure!Next
<1>1. [g \in Internal |-> DOMAIN lifted'[g]] =
        [[g \in Internal |-> DOMAIN lifted[g]] EXCEPT ![f] = @ \cup S]
  OBVIOUS
<1>2. [g \in Internal |-> Translated(lifted'[g])] = [g \in Internal |-> Translated(lifted[g])]
  OBVIOUS
<1>3. [g \in Internal |->
         {a \in DOMAIN lifted[g] : \E i \in DOMAIN lifted[g][a] : lifted[g][a][i].op \in Terminators}]
        = [g \in Internal |-> Translated(lifted[g])]
  BY TranslatedIs
<1>4. [g \in Internal |->
         {a \in DOMAIN lifted'[g] : \E i \in DOMAIN lifted'[g][a] : lifted'[g][a][i].op \in Terminators}]
        = [g \in Internal |-> Translated(lifted'[g])]
  BY DEF Translated, ItemsOf
<1>5. Closure!Reach(f, S)
  BY <1>1, <1>2, <1>3, <1>4, FlowSame DEF Closure!Reach
<1>6. S \in SUBSET [g \in Internal |->
                      cfg_module.blocks[g] \cup cfg_module.eh_frame[g] \cup {g}][f]
  BY DEF Roots
<1> QED
  BY <1>5, <1>6 DEF Closure!Next

(* A function's block is translated and control may go on from there.      *)
LEMMA Translating ==
  ASSUME UNCHANGED cfg_module, NEW f \in Internal, NEW a \in Address, NEW S \in SUBSET Flow(f, a),
         \A g \in Internal \ {f} : lifted'[g] = lifted[g],
         a \in DOMAIN lifted[f], a \notin Translated(lifted[f]),
         DOMAIN lifted'[f] = DOMAIN lifted[f] \cup S,
         Translated(lifted'[f]) = Translated(lifted[f]) \cup {a}
  PROVE  Closure!Next
<1>1. [g \in Internal |-> DOMAIN lifted'[g]] =
        [[g \in Internal |-> DOMAIN lifted[g]] EXCEPT ![f] = @ \cup S]
  OBVIOUS
<1>2. [g \in Internal |-> Translated(lifted'[g])] =
        [[g \in Internal |-> Translated(lifted[g])] EXCEPT ![f] = @ \cup {a}]
  OBVIOUS
<1>3. [g \in Internal |->
         {b \in DOMAIN lifted[g] : \E i \in DOMAIN lifted[g][b] : lifted[g][b][i].op \in Terminators}]
        = [g \in Internal |-> Translated(lifted[g])]
  BY TranslatedIs
<1>4. [g \in Internal |->
         {b \in DOMAIN lifted'[g] : \E i \in DOMAIN lifted'[g][b] : lifted'[g][b][i].op \in Terminators}]
        = [g \in Internal |-> Translated(lifted'[g])]
  BY DEF Translated, ItemsOf
<1>5. [g \in Internal |->
         {b \in DOMAIN lifted'[g] : \E i \in DOMAIN lifted'[g][b] : lifted'[g][b][i].op \in Terminators}]
        = [[g \in Internal |->
             {b \in DOMAIN lifted[g] : \E i \in DOMAIN lifted[g][b] : lifted[g][b][i].op \in Terminators}]
             EXCEPT ![f] = @ \cup {a}]
  BY <1>2, <1>3, <1>4
<1>6. UNCHANGED [g \in Internal |-> [b \in Address |-> Flow(g, b)]]
  BY FlowSame
<1>7. UNCHANGED [g \in Internal |-> cfg_module.blocks[g] \cup cfg_module.eh_frame[g] \cup {g}]
  OBVIOUS
<1>8. Closure!Translate(f, a, S)
  BY <1>1, <1>5, <1>6, <1>7 DEF Closure!Translate
<1>9. a \in [g \in Internal |-> DOMAIN lifted[g]][f] \ [g \in Internal |-> Translated(lifted[g])][f]
  OBVIOUS
<1>10. S \in SUBSET [g \in Internal |-> [b \in Address |-> Flow(g, b)]][f][a]
  OBVIOUS
<1> QED
  BY <1>3, <1>8, <1>9, <1>10 DEF Closure!Next

(* Blocks still end in their only terminator.                              *)
LEMMA StillTerminated ==
  ASSUME BlocksTerminated, NEW f \in Internal, \A g \in Internal \ {f} : lifted'[g] = lifted[g],
         \A a \in DOMAIN lifted[f] :
           a \in DOMAIN lifted'[f] /\ ItemsOf(lifted[f][a]) \subseteq ItemsOf(lifted'[f][a]),
         \A a \in DOMAIN lifted'[f] : a \notin ReturnedTo(f)' =>
           Terminated(lifted'[f][a]) \/ (a \in DOMAIN lifted[f] /\ lifted'[f][a] = lifted[f][a])
  PROVE  BlocksTerminated'
<1>1. ReturnedTo(f) \subseteq ReturnedTo(f)'
  <2>1. ASSUME NEW b \in ReturnedTo(f) PROVE b \in ReturnedTo(f)'
    <3>1. b \in Address /\ \E a \in DOMAIN lifted[f] : \E x \in ItemsOf(lifted[f][a]) :
            x.op = "invoke" /\ b \in x.to
      BY ReturnedToIs
    <3>2. \E a \in DOMAIN lifted'[f] : \E x \in ItemsOf(lifted'[f][a]) : x.op = "invoke" /\ b \in x.to
      BY <3>1
    <3> QED
      BY <3>1, <3>2 DEF ReturnedTo, ItemsOf
  <2> QED
    BY <2>1
<1>2. ASSUME NEW g \in Internal, NEW a \in DOMAIN lifted'[g] \ ReturnedTo(g)'
      PROVE  Terminated(lifted'[g][a])
  <2>1. CASE g = f
    BY <1>1, <2>1 DEF BlocksTerminated
  <2>2. CASE g # f
    <3>1. ReturnedTo(g)' = ReturnedTo(g)
      BY <2>2 DEF ReturnedTo
    <3> QED
      BY <2>2, <3>1 DEF BlocksTerminated
  <2> QED
    BY <2>1, <2>2
<1> QED
  BY <1>2 DEF BlocksTerminated, Terminated

(* Every terminator of a lifted function leads, with the others, where it  *)
(* should: that of the last instruction of a native block to what the      *)
(* block lists, an indirect jump to the blocks that none lists.            *)
JumpInv ==
  \A f \in Internal : \A a \in DOMAIN lifted[f] : \A x \in ItemsOf(lifted[f][a]) :
    /\ x.op = "switch" =>
         \A b \in cfg_module.blocks[f] \ Functions : Unlisted(f, b) => b \in Targets(f)
    /\ x.op \in Terminators \ {"tail_call"} =>
         \A c \in DOMAIN cfg_module.ea_to_block : \A b \in Address \ Functions :
           Names(f, c, a, b) => b \in Targets(f)

LEMMA TargetsAre ==
  \A f \in Internal : \A b :
    b \in Targets(f) <=> \E a \in DOMAIN lifted[f] : \E x \in ItemsOf(lifted[f][a]) : b \in x.to
BY DEF Targets, ItemsOf

LEMMA NamesSame ==
  ASSUME UNCHANGED cfg_module
  PROVE  /\ \A f, c, a, b : Names(f, c, a, b)' = Names(f, c, a, b)
         /\ \A f, b : Unlisted(f, b)' = Unlisted(f, b)
BY FlowSame DEF Names, Unlisted, Native, Holds

(* New terminators that leave nothing out keep it so.                      *)
LEMMA JumpsStay ==
  ASSUME JumpInv, UNCHANGED cfg_module, NEW f \in Internal,
         \A g \in Internal \ {f} : lifted'[g] = lifted[g],
         \A a \in DOMAIN lifted[f] :
           a \in DOMAIN lifted'[f] /\ ItemsOf(lifted[f][a]) \subseteq ItemsOf(lifted'[f][a]),
         \A a \in DOMAIN lifted'[f] : \A x \in ItemsOf(lifted'[f][a]) :
           \/ a \in DOMAIN lifted[f] /\ x \in ItemsOf(lifted[f][a])
           \/ JumpsRight(f, a, x)
           \/ x.op \notin Terminators
  PROVE  JumpInv'
<1>1. ASSUME NEW b
      PROVE  /\ b \in Targets(f)' <=>
                  \E a \in DOMAIN lifted'[f] : \E x \in ItemsOf(lifted'[f][a]) : b \in x.to
             /\ b \in Targets(f) => b \in Targets(f)'
  <2>1. b \in Targets(f)' <=>
          \E a \in DOMAIN lifted'[f] : \E x \in ItemsOf(lifted'[f][a]) : b \in x.to
    BY DEF Targets, ItemsOf
  <2> QED
    BY <2>1, TargetsAre
<1>2. ASSUME NEW g \in Internal, NEW a \in DOMAIN lifted'[g], NEW x \in ItemsOf(lifted'[g][a])
      PROVE  /\ x.op = "switch" =>
                  \A b \in cfg_module.blocks[g] \ Functions : Unlisted(g, b) => b \in Targets(g)'
             /\ x.op \in Terminators \ {"tail_call"} =>
                  \A c \in DOMAIN cfg_module.ea_to_block : \A b \in Address \ Functions :
                    Names(g, c, a, b) => b \in Targets(g)'
  <2>1. CASE g # f
    <3>1. lifted'[g] = lifted[g] /\ Targets(g)' = Targets(g)
      BY <2>1 DEF Targets
    <3> QED
      BY <3>1 DEF JumpInv
  <2>2. CASE g = f /\ a \in DOMAIN lifted[f] /\ x \in ItemsOf(lifted[f][a])
    BY <1>1, <2>2 DEF JumpInv
  <2>3. CASE g = f /\ JumpsRight(f, a, x)
    <3>1. \A b : b \in x.to => b \in Targets(g)'
      BY <1>1, <2>3
    <3>2. "tail_call" \in Terminators /\ "switch" \in Terminators
      BY DEF Terminators
    <3> QED
      BY <2>3, <3>1, <3>2 DEF JumpsRight
  <2>4. CASE x.op \notin Terminators
    BY <2>4 DEF Terminators
  <2> QED
    BY <2>1, <2>2, <2>3, <2>4
<1>3. JumpInv' <=>
        \A g \in Internal : \A a \in DOMAIN lifted'[g] : \A x \in ItemsOf(lifted'[g][a]) :
          /\ x.op = "switch" =>
               \A b \in cfg_module.blocks[g] \ Functions : Unlisted(g, b) => b \in Targets(g)'
          /\ x.op \in Terminators \ {"tail_call"} =>
               \A c \in DOMAIN cfg_module.ea_to_block : \A b \in Address \ Functions :
                 Names(g, c, a, b) => b \in Targets(g)'
  BY NamesSame DEF JumpInv, ItemsOf
<1> QED
  BY <1>2, <1>3

(* What a step amounts to for the abstract lifter, for the blocks, and for *)
(* the jumps.                                                              *)
Amounts ==
  /\ Closure!Next \/ UNCHANGED Closure!closure
  /\ BlocksTerminated => BlocksTerminated'
  /\ JumpInv => JumpInv'

LEMMA NothingLifted ==
  ASSUME UNCHANGED <<cfg_module, lifted>>
  PROVE  Amounts
<1>1. BlocksTerminated => BlocksTerminated'
  BY DEF BlocksTerminated, Terminated, ReturnedTo
<1>2. UNCHANGED Closure!closure
  BY FlowSame DEF Closure!closure
<1>3. JumpInv => JumpInv'
  BY NamesSame DEF JumpInv, ItemsOf, Targets
<1> QED
  BY <1>1, <1>2, <1>3 DEF Amounts

(* Some of a function's roots get empty blocks.                            *)
LEMMA RootsGetBlocks ==
  ASSUME UNCHANGED cfg_module, NEW f \in Internal, NEW S \in SUBSET Roots(f), S \subseteq Address,
         IsBody(lifted[f]), DOMAIN lifted = Internal,
         lifted' = [lifted EXCEPT ![f] = WithBlocks(lifted[f], S)]
  PROVE  Amounts
<1> DEFINE B == WithBlocks(lifted[f], S)
<1>1. /\ DOMAIN B = DOMAIN lifted[f] \cup S
      /\ \A a \in DOMAIN lifted[f] : B[a] = lifted[f][a]
      /\ \A a \in S \ DOMAIN lifted[f] : B[a] = << >>
  BY WithBlocksFacts
<1> HIDE DEF B
<1>2. lifted'[f] = B /\ \A g \in Internal \ {f} : lifted'[g] = lifted[g]
  BY DEF B
<1>3. ItemsOf(<< >>) = {} /\ Terminated(<< >>)
  BY DEF ItemsOf, Terminated
<1>4. Translated(B) = Translated(lifted[f])
  BY <1>1, <1>3 DEF Translated
<1>5. Closure!Next
  BY <1>1, <1>2, <1>4, Reaching
<1>6. BlocksTerminated => BlocksTerminated'
  BY <1>1, <1>2, <1>3, StillTerminated
<1>7. JumpInv => JumpInv'
  BY <1>1, <1>2, <1>3, JumpsStay
<1> QED
  BY <1>5, <1>6, <1>7 DEF Amounts

(* The block that is popped gets its terminator x, and control may go on   *)
(* at S.                                                                   *)
Translates(S, B, x) ==
  /\ S \subseteq Flow(cur, Top.ea) /\ lifted' = [lifted EXCEPT ![cur] = B]
  /\ DOMAIN B = DOMAIN lifted[cur] \cup S
  /\ x.op \in Terminators /\ x \in ItemsOf(B[Top.ea]) /\ JumpsRight(cur, Top.ea, x)
  /\ \A c \in DOMAIN lifted[cur] : ItemsOf(lifted[cur][c]) \subseteq ItemsOf(B[c])
  /\ \A c \in DOMAIN B : \A y \in ItemsOf(B[c]) :
       \/ c \in DOMAIN lifted[cur] /\ y \in ItemsOf(lifted[cur][c])
       \/ c = Top.ea /\ y = x
       \/ y.op \notin Terminators
  /\ \A c \in DOMAIN B : c \notin ReturnedTo(cur)' =>
       Terminated(B[c]) \/ (c \in DOMAIN lifted[cur] /\ B[c] = lifted[cur][c])

LEMMA TopTranslated ==
  ASSUME LiftInv, Popping, UNCHANGED <<cfg_module, cur>>, ~Handled(cur, Top.ea),
         NEW S, NEW B, NEW x, Translates(S, B, x)
  PROVE  Amounts
<1>1. /\ Top.ea \in Address /\ Top.ea \in DOMAIN lifted[cur] /\ cur \in Internal
      /\ DOMAIN lifted = Internal
  BY TopFacts
<1>2. lifted'[cur] = B /\ \A g \in Internal \ {cur} : lifted'[g] = lifted[g]
  BY <1>1 DEF Translates
<1>3. lifted[cur][Top.ea] = << >> /\ ItemsOf(<< >>) = {}
  BY DEF Handled, ItemsOf
<1>4. Top.ea \notin Translated(lifted[cur])
  BY <1>3 DEF Translated
<1>5. Translated(B) = Translated(lifted[cur]) \cup {Top.ea}
  BY <1>1 DEF Translated, Translates
<1>6. Closure!Next
  BY <1>1, <1>2, <1>4, <1>5, Translating DEF Translates
<1>7. BlocksTerminated => BlocksTerminated'
  <2>1. PICK f \in Internal : f = cur
    BY <1>1
  <2>2. /\ lifted'[f] = B /\ \A g \in Internal \ {f} : lifted'[g] = lifted[g]
        /\ ReturnedTo(f)' = ReturnedTo(cur)'
    BY <1>2, <2>1
  <2>3. \A c \in DOMAIN lifted[f] :
          c \in DOMAIN lifted'[f] /\ ItemsOf(lifted[f][c]) \subseteq ItemsOf(lifted'[f][c])
    BY <2>1, <2>2 DEF Translates
  <2>4. \A c \in DOMAIN lifted'[f] : c \notin ReturnedTo(f)' =>
          Terminated(lifted'[f][c]) \/ (c \in DOMAIN lifted[f] /\ lifted'[f][c] = lifted[f][c])
    BY <2>1, <2>2 DEF Translates
  <2> QED
    BY <2>2, <2>3, <2>4, StillTerminated
<1>8. JumpInv => JumpInv'
  <2>1. PICK f \in Internal : f = cur
    BY <1>1
  <2>2. lifted'[f] = B /\ \A g \in Internal \ {f} : lifted'[g] = lifted[g]
    BY <1>2, <2>1
  <2>3. \A c \in DOMAIN lifted[f] :
          c \in DOMAIN lifted'[f] /\ ItemsOf(lifted[f][c]) \subseteq ItemsOf(lifted'[f][c])
    BY <2>1, <2>2 DEF Translates
  <2>4. \A c \in DOMAIN lifted'[f] : \A y \in ItemsOf(lifted'[f][c]) :
          \/ c \in DOMAIN lifted[f] /\ y \in ItemsOf(lifted[f][c])
          \/ JumpsRight(f, c, y)
          \/ y.op \notin Terminators
    BY <2>1, <2>2 DEF Translates
  <2> QED
    BY <2>2, <2>3, <2>4, JumpsStay
<1> QED
  BY <1>6, <1>7, <1>8 DEF Amounts

LEMMA OneItemAmounts ==
  ASSUME LiftInv, Popping, UNCHANGED <<cfg_module, cur>>, ~Handled(cur, Top.ea),
         NEW x \in Items, x.op \in Terminators, JumpsRight(cur, Top.ea, x),
         lifted' = [lifted EXCEPT ![cur][Top.ea] = <<x>>]
  PROVE  Amounts
<1> DEFINE B == [lifted[cur] EXCEPT ![Top.ea] = <<x>>]
<1>1. /\ DOMAIN B = DOMAIN lifted[cur] /\ lifted' = [lifted EXCEPT ![cur] = B]
      /\ \A a \in DOMAIN B : B[a] = IF a = Top.ea THEN <<x>> ELSE lifted[cur][a]
  OBVIOUS
<1> HIDE DEF B
<1>2. ItemsOf(<<x>>) = {x} /\ Terminated(<<x>>)
  <2>1. DOMAIN <<x>> = {1} /\ Len(<<x>>) = 1 /\ <<x>>[1] = x
    OBVIOUS
  <2> QED
    BY <2>1 DEF ItemsOf, Terminated
<1>3. Top.ea \in DOMAIN lifted[cur] /\ lifted[cur][Top.ea] = << >> /\ ItemsOf(<< >>) = {}
  BY TopFacts DEF Handled, ItemsOf
<1>4. x \in ItemsOf(B[Top.ea])
  BY <1>1, <1>2, <1>3
<1>5. \A c \in DOMAIN lifted[cur] : ItemsOf(lifted[cur][c]) \subseteq ItemsOf(B[c])
  BY <1>1, <1>3
<1>6. \A c \in DOMAIN B : \A y \in ItemsOf(B[c]) :
        \/ c \in DOMAIN lifted[cur] /\ y \in ItemsOf(lifted[cur][c])
        \/ c = Top.ea /\ y = x
        \/ y.op \notin Terminators
  BY <1>1, <1>2
<1>7. \A c \in DOMAIN B : Terminated(B[c]) \/ (c \in DOMAIN lifted[cur] /\ B[c] = lifted[cur][c])
  BY <1>1, <1>2
<1>8. DOMAIN B = DOMAIN lifted[cur] \cup {} /\ {} \subseteq Flow(cur, Top.ea)
  BY <1>1
<1>9. Translates({}, B, x)
  BY <1>1, <1>4, <1>5, <1>6, <1>7, <1>8 DEF Translates
<1> QED
  BY <1>9, TopTranslated

LEMMA InstAmounts ==
  ASSUME LiftInv, LiftInst
  PROVE  Amounts
<1>1. PICK t \in Items : Lifts(t)
  BY LiftInstLifts
<1>2. Popping /\ ~Handled(cur, Top.ea) /\ UNCHANGED <<cfg_module, cur>>
  BY LiftInstLifts DEF cfg
<1> DEFINE B == Filled(cur, Top.ea, t)
           W == WithBlocks(lifted[cur], t.to)
<1>3. IsBody(lifted[cur]) /\ Top.ea \in DOMAIN lifted[cur] /\ t.to \in SUBSET Address
      /\ cur \in Internal /\ DOMAIN lifted = Internal /\ lifted[cur][Top.ea] = << >>
  BY <1>2, TopFacts DEF Items, Handled
<1>4. /\ DOMAIN B = DOMAIN lifted[cur] \cup t.to
      /\ \A c \in DOMAIN B :
           /\ ItemsOf(B[c]) = ItemsOf(W[c]) \cup (IF c = Top.ea THEN {Code, t} ELSE {}) \cup Given(t, c)
           /\ Given(t, c) = {} => B[c] = IF c = Top.ea THEN <<Code, t>> ELSE W[c]
  <2>1. FilledRight(cur, Top.ea, t)
    BY <1>2, <1>3, FilledFacts
  <2> QED
    BY <2>1 DEF FilledRight
<1>5. /\ \A c \in DOMAIN lifted[cur] : W[c] = lifted[cur][c]
      /\ \A c \in t.to \ DOMAIN lifted[cur] : W[c] = << >>
  BY <1>3, WithBlocksFacts
<1>6. lifted' = [lifted EXCEPT ![cur] = B] /\ t.op \in Terminators /\ t.to \subseteq Flow(cur, Top.ea)
  BY <1>1 DEF Lifts
<1> HIDE DEF B, W
<1>14. JumpsRight(cur, Top.ea, t)
  BY <1>1 DEF Lifts
<1>7. Store.op \notin Terminators /\ ItemsOf(<< >>) = {} /\ Terminated(<< >>)
  BY DEF Store, Item, Terminators, ItemsOf, Terminated
<1>8. Terminated(<<Code, t>>)
  <2>1. /\ DOMAIN <<Code, t>> = {1, 2} /\ Len(<<Code, t>>) = 2
        /\ <<Code, t>>[1] = Code /\ <<Code, t>>[2] = t
    OBVIOUS
  <2>2. Code.op \notin Terminators
    BY DEF Code, Item, Terminators
  <2> QED
    BY <1>6, <2>1, <2>2 DEF Terminated
<1>15. Code.op \notin Terminators
  BY DEF Code, Item, Terminators
<1>9. t \in ItemsOf(B[Top.ea])
  BY <1>3, <1>4
<1>10. \A c \in DOMAIN lifted[cur] : ItemsOf(lifted[cur][c]) \subseteq ItemsOf(B[c])
  BY <1>4, <1>5
<1>11. \A c \in DOMAIN B : \A y \in ItemsOf(B[c]) :
         \/ c \in DOMAIN lifted[cur] /\ y \in ItemsOf(lifted[cur][c])
         \/ c = Top.ea /\ y = t
         \/ y.op \notin Terminators
  BY <1>4, <1>5, <1>7, <1>15 DEF Given
<1>12. ASSUME NEW c \in DOMAIN B, c \notin ReturnedTo(cur)'
       PROVE  Terminated(B[c]) \/ (c \in DOMAIN lifted[cur] /\ B[c] = lifted[cur][c])
  <2>1. Given(t, c) = {}
    <3>1. SUFFICES ASSUME t.op = "invoke", c \in t.to PROVE FALSE
      BY DEF Given
    <3>2. lifted'[cur] = B /\ Top.ea \in DOMAIN B
      BY <1>3, <1>4, <1>6
    <3>3. PICK i \in DOMAIN B[Top.ea] : B[Top.ea][i] = t
      BY <1>9 DEF ItemsOf
    <3>4. /\ c \in Address /\ Top.ea \in DOMAIN lifted'[cur]
          /\ \E j \in DOMAIN lifted'[cur][Top.ea] :
               lifted'[cur][Top.ea][j].op = "invoke" /\ c \in lifted'[cur][Top.ea][j].to
      BY <1>3, <3>1, <3>2, <3>3
    <3>5. c \in {b \in Address : \E a \in DOMAIN lifted'[cur] : \E j \in DOMAIN lifted'[cur][a] :
                   lifted'[cur][a][j].op = "invoke" /\ b \in lifted'[cur][a][j].to}
      BY <3>4
    <3>6. cur' = cur
      BY LiftInstLifts
    <3> QED
      BY <1>12, <3>5, <3>6 DEF ReturnedTo
  <2> QED
    BY <1>4, <1>5, <1>7, <1>8, <2>1
<1>13. Translates(t.to, B, t)
  BY <1>4, <1>6, <1>9, <1>10, <1>11, <1>12, <1>14 DEF Translates
<1> QED
  BY <1>2, <1>13, TopTranslated

LEMMA EachAmounts == LiftInv /\ [Next]_state => Amounts
<1> SUFFICES ASSUME LiftInv, [Next]_state PROVE Amounts
  OBVIOUS
<1>1. ASSUME NEW f \in Internal, StartFunction(f) PROVE Amounts
  <2>1. /\ phase = "idle" /\ lifted[f] = << >> /\ UNCHANGED cfg_module
        /\ lifted' = [lifted EXCEPT ![f] = WithBlocks(lifted[f], StartBlocks(f))]
    BY <1>1 DEF StartFunction, cfg
  <2>2. /\ cfg_module \in Modules /\ blocks[f] = cfg_module.blocks[f] /\ DOMAIN lifted = Internal
        /\ IsBody(lifted[f])
    BY <2>1 DEF LiftInv, FuncTyped, NotDropped
  <2>3. StartBlocks(f) \subseteq Roots(f) /\ StartBlocks(f) \subseteq Address
    BY <2>2, StartsAtItself DEF Roots
  <2> QED
    BY <2>1, <2>2, <2>3, RootsGetBlocks
<1>2. ASSUME NEW lp \in Address, CreateLandingPad(lp) PROVE Amounts
  <2>1. /\ phase = "landing_pads" /\ lp \in pads_left /\ UNCHANGED cfg_module
        /\ lifted' = [lifted EXCEPT ![cur] = WithBlocks(lifted[cur], {lp})]
    BY <1>2 DEF CreateLandingPad, cfg
  <2>2. cur \in Internal /\ DOMAIN lifted = Internal /\ IsBody(lifted[cur])
    BY <2>1 DEF LiftInv, FuncTyped
  <2>3. PICK S : S = {lp}
    OBVIOUS
  <2>4. S \in SUBSET Roots(cur) /\ S \subseteq Address
    BY <2>1, <2>3 DEF LiftInv, Waiting, Roots
  <2>5. lifted' = [lifted EXCEPT ![cur] = WithBlocks(lifted[cur], S)]
    BY <2>1, <2>3
  <2> QED
    BY <2>1, <2>2, <2>4, <2>5, RootsGetBlocks
<1>3. CASE AllocateStackVars \/ AlreadyHandled \/ FinishFunction \/ UNCHANGED state
  <2>1. UNCHANGED <<cfg_module, lifted>>
    BY <1>3 DEF AllocateStackVars, AlreadyHandled, FinishFunction, state, cfg, output
  <2> QED
    BY <2>1, NothingLifted
<1>4. CASE AddTailCall
  <2>1. Item("tail_call", {}) \in Items /\ Item("tail_call", {}).op \in Terminators
    BY DEF Item, Items, Terminators
  <2>2. UNCHANGED <<cfg_module, cur>>
    BY <1>4 DEF AddTailCall, cfg
  <2>3. JumpsRight(cur, Top.ea, Item("tail_call", {}))
    BY DEF JumpsRight, Item
  <2> QED
    BY <1>4, <2>1, <2>2, <2>3, OneItemAmounts DEF AddTailCall
<1>5. CASE DecodeFails
  <2>1. Item("error", {}) \in Items /\ Item("error", {}).op \in Terminators
    BY DEF Item, Items, Terminators
  <2>2. UNCHANGED <<cfg_module, cur>>
    BY <1>5 DEF DecodeFails, cfg
  <2>3. Flow(cur, Top.ea) = {}
    BY <1>5 DEF DecodeFails, Flow
  <2>4. JumpsRight(cur, Top.ea, Item("error", {}))
    BY <2>3 DEF JumpsRight, Names, Item
  <2> QED
    BY <1>5, <2>1, <2>2, <2>4, OneItemAmounts DEF DecodeFails
<1> QED
  BY <1>1, <1>2, <1>3, <1>4, <1>5, InstAmounts DEF Next

(* No block that an invoke does not return to is left without its          *)
(* terminator, or goes on after it.                                        *)
THEOREM BlocksTerminatedHolds == Spec => []BlocksTerminated
<1>1. Init => LiftInv /\ BlocksTerminated
  BY LiftInitially DEF Init, BlocksTerminated
<1>2. LiftInv /\ BlocksTerminated /\ [Next]_state => LiftInv' /\ BlocksTerminated'
  BY LiftAlways, EachAmounts DEF Amounts
<1> QED
  BY <1>1, <1>2, PTL DEF Spec

(* In a finished function with an indirect jump, every block of the CFG    *)
(* that none of its blocks lists is the target of a terminator, and so is  *)
(* every one that a block lifted to its end leads to.                      *)
THEOREM IndirectJumpsReachAllHolds == Spec => []IndirectJumpsReachAll
<1>1. Init => LiftInv /\ JumpInv
  BY LiftInitially DEF Init, JumpInv
<1>2. LiftInv /\ JumpInv /\ [Next]_state => LiftInv' /\ JumpInv'
  BY LiftAlways, EachAmounts DEF Amounts
<1>3. LiftInv /\ JumpInv => IndirectJumpsReachAll
  <2> SUFFICES ASSUME LiftInv, JumpInv PROVE IndirectJumpsReachAll
    OBVIOUS
  <2>1. cfg_module \in Modules
    BY DEF LiftInv, FuncTyped
  <2>2. SUFFICES ASSUME NEW f \in Internal,
                        NEW a \in DOMAIN lifted[f], NEW i \in DOMAIN lifted[f][a],
                        lifted[f][a][i].op = "switch",
                        NEW b \in cfg_module.blocks[f] \ Functions,
                        \/ Unlisted(f, b)
                        \/ \E c \in cfg_module.blocks[f] : LeadsTo(f, c, b)
                 PROVE  b \in Targets(f)
    BY DEF IndirectJumpsReachAll, Unlisted
  <2>3. CASE Unlisted(f, b)
    <3>1. lifted[f][a][i] \in ItemsOf(lifted[f][a])
      BY DEF ItemsOf
    <3> QED
      BY <2>2, <2>3, <3>1 DEF JumpInv
  <2>4. ASSUME NEW c \in cfg_module.blocks[f], LeadsTo(f, c, b) PROVE b \in Targets(f)
    <3> DEFINE last == Native(c).last_inst_ea
    <3>1. c \in DOMAIN cfg_module.ea_to_block /\ b \in Address \ Functions
      BY <2>1, ModuleFacts
    <3>2. PICK j \in DOMAIN lifted[f][last] : lifted[f][last][j].op \in Terminators \ {"tail_call"}
      BY <2>4 DEF LeadsTo
    <3>3. lifted[f][last][j] \in ItemsOf(lifted[f][last]) /\ last \in DOMAIN lifted[f]
      BY <2>4 DEF ItemsOf, LeadsTo
    <3>4. Names(f, c, last, b)
      BY <2>4 DEF LeadsTo, Names
    <3> HIDE DEF last
    <3> QED
      BY <3>1, <3>2, <3>3, <3>4 DEF JumpInv
  <2> QED
    BY <2>2, <2>3, <2>4
<1> QED
  BY <1>1, <1>2, <1>3, PTL DEF Spec

(* Every function comes to have blocks only for addresses that control     *)
(* can reach in it, and translates each one once.                          *)
THEOREM LiftsClosureHolds == Spec => LiftsClosure
<1>1. Init => LiftInv /\ Closure!Init
  <2> SUFFICES ASSUME Init PROVE Closure!Init
    BY LiftInitially
  <2>1. cfg_module \in Modules /\ lifted = [f \in Internal |-> << >>]
    BY DEF Init
  <2>2. [f \in Internal |-> cfg_module.blocks[f] \cup cfg_module.eh_frame[f] \cup {f}]
          \in [Internal -> SUBSET Address]
    BY <2>1, ModuleFacts
  <2>3. [f \in Internal |-> [a \in Address |-> Flow(f, a)]] \in [Internal -> [Address -> SUBSET Address]]
    BY <2>1, FlowStays
  <2>4. [f \in Internal |-> DOMAIN lifted[f]] = [f \in Internal |-> {}]
    BY <2>1
  <2>5. [f \in Internal |->
           {a \in DOMAIN lifted[f] : \E i \in DOMAIN lifted[f][a] : lifted[f][a][i].op \in Terminators}]
          = [f \in Internal |-> {}]
    BY <2>1
  <2> QED
    BY <2>2, <2>3, <2>4, <2>5 DEF Closure!Init
<1>2. LiftInv /\ [Next]_state => LiftInv' /\ [Closure!Next]_(Closure!closure)
  BY LiftAlways, EachAmounts DEF Amounts
<1> QED
  BY <1>1, <1>2, PTL DEF Spec, LiftsClosure, Closure!Spec
=============================================================================
