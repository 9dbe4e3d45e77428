---------------------------- MODULE SymbolPasses ----------------------------
(***************************************************************************)
(* The passes of src/Passes that change a whole module's symbols: flags    *)
(* nobody reads, inlining of exit points, weak linkage, renamed functions, *)
(* callbacks handed to the C library and calling conventions.  A pass is   *)
(* an operator from a module to what `opt' makes of it: a module, a crash  *)
(* or a run that never ends.                                               *)
(*                                                                         *)
(* A module is a record of                                                 *)
(*   fns    name -> [linkage, cc, inline, vararg, declared], its functions,*)
(*   calls  a set of [from, to, cc]: the direct calls,                     *)
(*   flags  alias -> [reg, stores, loads]: a register and its alias's users,*)
(*   sites  a set of [ext, stored]: the calls of an exit point, and the    *)
(*          values stored to each argument register above the call in its  *)
(*          own block, the latest last,                                    *)
(*   body   callback -> blocks, each the sequence of the calls it makes,   *)
(*   lower  callback -> for each block, how often its RSP is lowered by 8. *)
(* What the passes print is left out, and so is the unused global variable *)
(* each of them adds.                                                      *)
(***************************************************************************)
EXTENDS Naturals, Sequences, FiniteSets

CONSTANTS
  NamePart,       \* the exit points ext_<address>_<name>, each with its <name>
  Underscored,    \* the names that hold an underscore
  WeakList,       \* MustBeExternalWeakSymbols.txt
  ListedParams,   \* ExternalEntryPointFunctionList.txt: name -> parameters
  FunctionToBeChangedMap   \* a sequence of <<old name, new name>>

\* A std::map of two pairs in the code: a double has one name of its own, that of
\* no exit point and of no weak symbol, and stands for one function.
Olds == {FunctionToBeChangedMap[i][1] : i \in DOMAIN FunctionToBeChangedMap}
News == {FunctionToBeChangedMap[i][2] : i \in DOMAIN FunctionToBeChangedMap}

ASSUME ChangedAssumption ==
  /\ FunctionToBeChangedMap \in Seq(STRING \X STRING)
  /\ \A i, j \in DOMAIN FunctionToBeChangedMap :
       i # j => /\ FunctionToBeChangedMap[i][1] # FunctionToBeChangedMap[j][1]
                /\ FunctionToBeChangedMap[i][2] # FunctionToBeChangedMap[j][2]
  /\ Olds \cap (News \cup DOMAIN NamePart \cup WeakList) = {}
  /\ Olds \subseteq Underscored

FlagRegisters == {"AF", "CF", "OF", "PF", "SF", "ZF"}

\* regex_match against ext_[0-9a-z]*_[0-9a-zA-Z]*: the name may hold no underscore.
ExtPattern == {f \in DOMAIN NamePart : NamePart[f] \notin Underscored}

Ok(m) == [kind |-> "ok", mod |-> m]
Crash(m) == [kind |-> "crash", mod |-> m]
Hang(m) == [kind |-> "hang", mod |-> m]

(***************************************************************************)
(* FlagRegisterOPT: a flag whose alias no instruction loads loses every    *)
(* store through that alias.                                               *)
(***************************************************************************)
FlagOPT(m) ==
  Ok([m EXCEPT !.flags =
        [a \in DOMAIN @ |->
           IF @[a].reg \in FlagRegisters /\ @[a].loads = {}
           THEN [@[a] EXCEPT !.stores = {}] ELSE @[a]]])

(***************************************************************************)
(* EXTInline: an exit point whose function the module knows, and whose     *)
(* arguments do not vary, is to be inlined.                                *)
(***************************************************************************)
EXTInline(m) ==
  LET Inlined(f) == /\ f \in ExtPattern
                    /\ NamePart[f] \in DOMAIN m.fns
                    /\ ~m.fns[NamePart[f]].vararg
  IN  Ok([m EXCEPT !.fns =
            [f \in DOMAIN @ |-> IF Inlined(f) THEN [@[f] EXCEPT !.inline = "always"]
                                              ELSE @[f]]])

(***************************************************************************)
(* checkLinkerType: weak declarations become strong ones unless the list   *)
(* names them.  Without $HOME or the list, the module stays as it is, and  *)
(* the pass counts as done.                                                *)
(***************************************************************************)
CheckLinker(m, readable) ==
  Ok(IF ~readable THEN m
     ELSE [m EXCEPT !.fns =
             [f \in DOMAIN @ |->
                IF @[f].linkage = "weak" /\ f \notin WeakList
                THEN [@[f] EXCEPT !.linkage = "external"] ELSE @[f]]])

(***************************************************************************)
(* FunctionNameDirectChange: the lifted definition takes the name, and the *)
(* users, of the function it stands for.                                   *)
(***************************************************************************)
Substitute(m, old, new) ==
  LET Subst(f) == IF f = old THEN new ELSE f
      SubstAll(s) == [i \in DOMAIN s |-> Subst(s[i])]
  IN  [m EXCEPT !.calls = {[c EXCEPT !.from = Subst(@), !.to = Subst(@)] : c \in @},
                !.sites = {[ext |-> Subst(s.ext),
                            stored |-> [r \in DOMAIN s.stored |-> SubstAll(s.stored[r])]]
                           : s \in @}]

\* eraseFromParent: the function goes with the calls its body makes.
Erased(m, f) == [m EXCEPT !.fns = [g \in DOMAIN @ \ {f} |-> @[g]],
                          !.calls = {c \in @ : c.from # f}]

\* setName: every reference is to the function, so all of them follow it.
Renamed(m, old, new) ==
  LET fn == m.fns[old]
      s == Substitute(m, old, new)
  IN  [s EXCEPT !.fns = [g \in (DOMAIN @ \ {old}) \cup {new} |->
                           IF g = new THEN fn ELSE @[g]]]

\* A mutant: the old function is erased with its uses as they are.
UsesForgotten(m, old, new) == [m EXCEPT !.calls = {c \in @ : c.to # old}]

\* replaceAllUsesWith rewrites callees only: the callers stay who they are.
UsesReplaced(m, old, new) ==
  [m EXCEPT !.calls = {[c EXCEPT !.to = IF @ = old THEN new ELSE @] : c \in @}]

RenameOne(m, pair) ==
  LET old == pair[1]
      new == pair[2]
  IN  IF old \notin DOMAIN m.fns THEN m
      ELSE IF new \notin DOMAIN m.fns THEN Renamed(m, old, new)
      ELSE Renamed(Erased(UsesReplaced(m, new, old), new), old, new)

FuncNC(m) ==
  LET after[i \in 0 .. Len(FunctionToBeChangedMap)] ==
        IF i = 0 THEN m ELSE RenameOne(after[i - 1], FunctionToBeChangedMap[i])
  IN  Ok(after[Len(FunctionToBeChangedMap)])

(***************************************************************************)
(* ExternalEntryPointCheck: the callbacks that a call of a listed function *)
(* stores in the listed parameters' registers start with RSP lowered by 8. *)
(***************************************************************************)
Wrappers(m) == DOMAIN m.body

\* The calls of listed functions the pass sees, with each register it looks at.
ListedUses(m) ==
  {u \in m.sites \X (1 .. 6) :
     /\ u[1].ext \in ExtPattern \cap DOMAIN m.fns
     /\ NamePart[u[1].ext] \in DOMAIN ListedParams
     /\ u[2] \in ListedParams[NamePart[u[1].ext]]}

\* parseRegisterAndPushEEPF looks from the call upwards for a store of a function.
FunctionStores(m, u) == {i \in DOMAIN u[1].stored[u[2]] : u[1].stored[u[2]][i] \in Wrappers(m)}

\* The nearest one.  Only the call's own block is really searched: in any
\* other one the flag that skips what follows the call is never cleared.
Pushed(m, u) ==
  LET above == FunctionStores(m, u)
  IN  u[1].stored[u[2]][CHOOSE i \in above : \A j \in above : j <= i]

\* EEPList holds a callback once for each use that stores it.
EEPCount(m, w) == Cardinality({u \in ListedUses(m) : Pushed(m, u) = w})

\* A call without a called function before the first lifted one is a null pointer.
FirstOf(calls, kinds) == {i \in DOMAIN calls : /\ calls[i] \in kinds
                                               /\ \A j \in 1 .. i - 1 : calls[j] \notin kinds}
LowersBlock(calls) == \E i \in FirstOf(calls, {"sub", "indirect"}) : calls[i] = "sub"
CrashesOn(calls) == \E i \in FirstOf(calls, {"sub", "indirect"}) : calls[i] = "indirect"

EEPFC(m, readable) ==
  IF ~readable THEN Ok(m)
  ELSE IF \E u \in ListedUses(m) : FunctionStores(m, u) = {} THEN Hang(m)
  ELSE LET listed == {Pushed(m, u) : u \in ListedUses(m)}
       IN  IF \E w \in listed : \E b \in DOMAIN m.body[w] : CrashesOn(m.body[w][b])
           THEN Crash(m)
           ELSE Ok([m EXCEPT !.lower =
                      [w \in DOMAIN @ |->
                         [b \in DOMAIN @[w] |->
                            IF w \in listed /\ LowersBlock(m.body[w][b])
                            THEN @[w][b] + EEPCount(m, w) ELSE @[w][b]]]])

(***************************************************************************)
(* changCallingConvension: functions, not calls, lose the System V         *)
(* convention.                                                             *)
(***************************************************************************)
ChangeCC(m) ==
  Ok([m EXCEPT !.fns = [f \in DOMAIN @ |->
                          IF @[f].cc = "sysv" THEN [@[f] EXCEPT !.cc = "C"] ELSE @[f]]])

(***************************************************************************)
(* What `opt' makes of a module with one pass.  The passes about the C     *)
(* library and the registers have modules of their own and keep all that   *)
(* this one records.                                                       *)
(***************************************************************************)
RunPass(pass, m, readable) ==
  CASE pass = "FlagRegisterOPT" -> FlagOPT(m)
    [] pass = "EXTInline" -> EXTInline(m)
    [] pass = "checkLinkerType" -> CheckLinker(m, readable)
    [] pass = "FunctionNameDirectChange" -> FuncNC(m)
    [] pass = "ExternalEntryPointCheck" -> EEPFC(m, readable)
    [] pass = "changCallingConvension" -> ChangeCC(m)
    [] OTHER -> Ok(m)
=============================================================================
