----------------------------- MODULE CFGLoader -----------------------------
(***************************************************************************)
(* ReadProtoBuf (mcsema/CFG/CFG.cpp): from the disassembler's CFG to the   *)
(* tables the lifter works on. The CFG names the same thing more than      *)
(* once, so an object that another replaces forwards to it.                *)
(*                                                                         *)
(* A failed CHECK, a LOG(FATAL) and a null pointer followed end the        *)
(* program: pc is "abort". Left out: lifted names, declarations, what the  *)
(* lifter only copies (weak, calling convention, argument count), the      *)
(* exception frames and the register sets. The functions that share a name *)
(* with one of gModule's are taken to have different names.                *)
(* name_to_extern_func is never filled (CFG.cpp:567), so no function is    *)
(* ever forwarded, and ea_to_func holds what TryGetFunction returns.       *)
(***************************************************************************)
EXTENDS SegmentBlobs, Sequences, FiniteSets, SequencesExt

CONSTANTS
  Modules,        \* the CFGs that are loaded
  PointerSize,    \* the argument pointer_size
  MergeAdjacent,  \* the negation of --disable_adjacent_segment_merging
  PrivateNames,   \* the names of gModule's private and internal functions
  ThunkNames,     \* the names that are not exported (__x86.get_pc_thunk...)
  None            \* a name that is not there

(* The CFG is a protobuf message: its lists are sequences, its addresses   *)
(* and sizes are unsigned.                                                 *)
IsList(s) == s \in Seq(Range(s))
ASSUME ModulesAssumption ==
  \A m \in Modules :
    /\ IsList(m.funcs) /\ IsList(m.external_funcs) /\ IsList(m.external_vars) /\ IsList(m.segments)
    /\ \A f \in Range(m.funcs) : IsList(f.blocks) /\ \A block \in Range(f.blocks) :
         IsList(block.instructions) /\ \A inst \in Range(block.instructions) : inst.ea \in Nat
    /\ \A var \in Range(m.external_vars) : var.ea \in Nat /\ var.size \in Nat
    /\ \A seg \in Range(m.segments) :
         /\ seg.ea \in Nat /\ seg.is_external \in BOOLEAN
         /\ IsList(seg.data) /\ IsList(seg.vars) /\ IsList(seg.xrefs)
         /\ \A xref \in Range(seg.xrefs) :
              xref.ea \in Nat /\ xref.width \in Nat /\ xref.target_ea \in Nat

VARIABLES
  cfg,          \* the CFG
  pc,           \* the loop that is running
  at, sub,      \* the index of its item, and of the item inside that
  functions,    \* module->functions
  ea_to_func,   \* address |-> index in functions
  variables,    \* module->variables
  var_forward,  \* the index each variable forwards to, or its own
  ea_to_var,    \* address |-> index in variables
  name_to_extern_var,
  segs,         \* every segment that was made
  seg_forward,
  ea_to_seg,    \* address |-> index in segs
  segments,     \* module->segments, as indices in segs
  mapped,       \* the addresses of the mapped ranges
  ea_to_block,
  ea_to_inst

function_tables == <<functions, ea_to_func>>
variable_tables == <<variables, var_forward, ea_to_var, name_to_extern_var>>
segment_tables == <<segs, seg_forward, ea_to_seg, segments>>
code_tables == <<ea_to_block, ea_to_inst>>
control == <<pc, at, sub>>
state == <<cfg, control, function_tables, variable_tables, segment_tables, mapped, code_tables>>

Put(f, x, y) == [z \in DOMAIN f \cup {x} |-> IF z = x THEN y ELSE f[z]]

-----------------------------------------------------------------------------
(* Forwarding. `forward` maps an index to the one it forwards to.          *)

(* x and all that it forwards to, one after the other.                     *)
Chain(forward, x) ==
  LET c[n \in 0..Len(forward)] == IF n = 0 THEN x ELSE forward[c[n - 1]]
  IN  {c[n] : n \in 0..Len(forward)}

(* NativeObject::Get, but for the shortening of the chain on the way.      *)
\* mutant
NextOnly(forward, x) == forward[x]
Get(forward, x) == CHOOSE y \in Chain(forward, x) : forward[y] = y

(* x->ForwardTo(dest): the chain is walked to its end.                     *)
\* mutant
ForwardFirst(forward, x, dest) == [forward EXCEPT ![x] = dest]
ForwardTo(forward, x, dest) ==
  [y \in DOMAIN forward |->
     IF y \notin Chain(forward, x) THEN forward[y]
     ELSE IF forward[y] = y THEN Get(forward, dest) ELSE dest]

Live(forward) == {x \in DOMAIN forward : forward[x] = x}

-----------------------------------------------------------------------------
(* Control: the loops run one after the other.                             *)

Loops == << "functions", "externals", "variables", "segments", "xrefs", "blobs",
            "blocks", "merge" >>

List ==
  CASE pc \in {"functions", "blocks"} -> cfg.funcs
    [] pc = "externals" -> cfg.external_funcs
    [] pc = "variables" -> cfg.external_vars
    [] pc \in {"segments", "xrefs", "blobs"} -> cfg.segments
    [] OTHER -> << >>

InLoop(loop) == pc = loop /\ at <= Len(List)
Item == List[at]

NextItem == at' = at + 1 /\ sub' = 1 /\ UNCHANGED pc
NextSub == sub' = sub + 1 /\ UNCHANGED <<pc, at>>
Abort == pc' = "abort" /\ UNCHANGED <<at, sub>>

(* A loop over the CFG's items is over.                                    *)
NextLoop ==
  /\ \E k \in 1..7 : pc = Loops[k] /\ pc' = Loops[k + 1]
  /\ at > Len(List)
  /\ at' = 1 /\ sub' = 1
  /\ UNCHANGED <<cfg, function_tables, variable_tables, segment_tables, mapped, code_tables>>

-----------------------------------------------------------------------------
(* Functions.                                                              *)

(* An entry of the CFG gives its name to the function at its address, the  *)
(* first time that this function is to be exported.                        *)
Export(fs, i, name) ==
  IF fs[i].is_exported THEN fs
  ELSE [fs EXCEPT ![i].is_exported = TRUE, ![i].name = IF name = None THEN @ ELSE name]

ReadFunction ==
  /\ InLoop("functions")
  /\ IF Item.ea \in DOMAIN ea_to_func
     THEN /\ functions' = IF Item.is_entrypoint
                           THEN Export(functions, ea_to_func[Item.ea], Item.name) ELSE functions
          /\ UNCHANGED ea_to_func
          /\ NextItem
     ELSE /\ functions' = Append(functions,
               [ea |-> Item.ea, name |-> Item.name, is_external |-> FALSE,
                is_exported |-> Item.is_entrypoint /\ Item.name \notin PrivateNames,
                blocks |-> << >>])
          /\ ea_to_func' = Put(ea_to_func, Item.ea, Len(functions) + 1)
          /\ IF Item.is_entrypoint /\ Item.name = None THEN Abort ELSE NextItem
  /\ UNCHANGED <<cfg, variable_tables, segment_tables, mapped, code_tables>>

(* An external function where an internal one is exports that one instead. *)
ReadExternalFunction ==
  /\ InLoop("externals")
  /\ IF Item.name = None
     THEN UNCHANGED function_tables
     ELSE IF Item.ea \in DOMAIN ea_to_func
     THEN /\ functions' = Export(functions, ea_to_func[Item.ea], Item.name)
          /\ UNCHANGED ea_to_func
     ELSE /\ functions' = Append(functions,
               [ea |-> Item.ea, name |-> Item.name, is_external |-> TRUE,
                is_exported |-> TRUE, blocks |-> << >>])
          /\ ea_to_func' = Put(ea_to_func, Item.ea, Len(functions) + 1)
  /\ NextItem
  /\ UNCHANGED <<cfg, variable_tables, segment_tables, mapped, code_tables>>

-----------------------------------------------------------------------------
(* External variables: each has a segment of its own.                      *)

(* The forwarding of a new variable v: the last one at its address and the *)
(* last one of its name forward to it.                                     *)
ForwardedVariables(ea, name, v) ==
  LET fresh == Append(var_forward, v)
      byAddress == IF ea \in DOMAIN ea_to_seg
                   THEN ForwardTo(fresh, segs[ea_to_seg[ea]].as_extern_var, v) ELSE fresh
  IN  IF name \in DOMAIN name_to_extern_var
      THEN ForwardTo(byAddress, name_to_extern_var[name], v) ELSE byAddress

AddExternalVariable(item) ==
  LET v == Len(variables) + 1
      s == Len(segs) + 1
      redefined == item.ea \in DOMAIN ea_to_seg
      old == ea_to_seg[item.ea]
      duplicate == item.name \in DOMAIN name_to_extern_var
      dup == variables[name_to_extern_var[item.name]]
      size == IF redefined /\ segs[old].size > item.size THEN segs[old].size ELSE item.size
  IN
  /\ segs' = Append(IF redefined THEN [segs EXCEPT ![old].as_extern_var = v] ELSE segs,
       [ea |-> item.ea, name |-> item.name, size |-> size, is_external |-> TRUE,
        is_exported |-> FALSE, is_thread_local |-> item.is_thread_local,
        is_read_only |-> FALSE, as_extern_var |-> v, entries |-> << >>])
  /\ seg_forward' = IF redefined THEN ForwardTo(Append(seg_forward, s), old, s)
                    ELSE Append(seg_forward, s)
  /\ ea_to_seg' = Put(ea_to_seg, item.ea, s)
  /\ segments' = Append(segments, s)
  /\ variables' = Append(variables,
       [ea |-> item.ea, name |-> item.name, segment |-> s, is_external |-> TRUE,
        is_exported |-> duplicate /\ dup.is_exported,
        is_thread_local |-> item.is_thread_local \/ (duplicate /\ dup.is_thread_local)])
  /\ var_forward' = ForwardedVariables(item.ea, item.name, v)
  /\ ea_to_var' = Put(ea_to_var, item.ea, v)
  /\ name_to_extern_var' = Put(name_to_extern_var, item.name, v)
  /\ IF duplicate /\ dup.ea = item.ea THEN Abort ELSE NextItem
  /\ UNCHANGED function_tables

ReadExternalVariable ==
  /\ InLoop("variables")
  /\ IF Item.name = None
     THEN NextItem /\ UNCHANGED <<function_tables, variable_tables, segment_tables>>
     ELSE IF Item.ea \in DOMAIN ea_to_func
     THEN /\ functions' = Export(functions, ea_to_func[Item.ea], Item.name)
          /\ NextItem
          /\ UNCHANGED <<ea_to_func, variable_tables, segment_tables>>
     ELSE AddExternalVariable(Item)
  /\ UNCHANGED <<cfg, mapped, code_tables>>

-----------------------------------------------------------------------------
(* Segments and the variables in them.                                     *)

(* A segment that stands for an external variable is skipped.              *)
Skipped(item) == item.variable_name \in DOMAIN name_to_extern_var

BeginSegment ==
  /\ InLoop("segments") /\ sub = 1
  /\ IF Skipped(Item)
     THEN NextItem /\ UNCHANGED segment_tables
     ELSE /\ segs' = Append(segs,
               [ea |-> Item.ea, size |-> Len(Item.data),
                name |-> IF Item.variable_name # None THEN Item.variable_name ELSE Item.name,
                is_external |-> Item.is_external, is_exported |-> Item.is_exported,
                is_thread_local |-> Item.is_thread_local, is_read_only |-> Item.is_read_only,
                as_extern_var |-> 0, entries |-> << >>])
          /\ seg_forward' = Append(seg_forward, Len(segs) + 1)
          /\ segments' = Append(segments, Len(segs) + 1)
          /\ NextSub
          /\ UNCHANGED ea_to_seg
  /\ UNCHANGED <<cfg, function_tables, variable_tables, mapped, code_tables>>

(* The next variable of the segment s, the last one made.                  *)
ReadVariable ==
  LET var == Item.vars[sub - 1]
      s == Len(segs)
      seg == segs[s]
  IN
  /\ InLoop("segments") /\ sub \in 2..(Len(Item.vars) + 1)
  /\ IF var.ea \in DOMAIN ea_to_var
     THEN /\ variables' = [variables EXCEPT
               ![ea_to_var[var.ea]].is_exported = @ \/ seg.is_exported,
               ![ea_to_var[var.ea]].is_thread_local = @ \/ seg.is_thread_local]
          /\ UNCHANGED <<var_forward, ea_to_var, segs>>
     ELSE IF var.ea \in DOMAIN ea_to_func \/ var.name = None
     THEN UNCHANGED <<variables, var_forward, ea_to_var, segs>>
     ELSE /\ variables' = Append(variables,
               [ea |-> var.ea, name |-> var.name, segment |-> s, is_external |-> FALSE,
                is_exported |-> FALSE, is_thread_local |-> FALSE])
          /\ var_forward' = Append(var_forward, Len(variables) + 1)
          /\ ea_to_var' = Put(ea_to_var, var.ea, Len(variables) + 1)
          /\ segs' = IF var.ea = seg.ea THEN [segs EXCEPT ![s].name = var.name] ELSE segs
  /\ NextSub
  /\ UNCHANGED <<cfg, function_tables, name_to_extern_var, seg_forward, ea_to_seg, segments,
                 mapped, code_tables>>

EndSegment ==
  /\ InLoop("segments") /\ sub = Len(Item.vars) + 2
  /\ ea_to_seg' = Put(ea_to_seg, Item.ea, Len(segs))
  /\ NextItem
  /\ UNCHANGED <<cfg, function_tables, variable_tables, segs, seg_forward, segments,
                 mapped, code_tables>>

-----------------------------------------------------------------------------
(* Cross-references and blobs.                                             *)

Holds(s, ea) == segs[s].ea <= ea /\ ea < segs[s].ea + segs[s].size

(* TryGetSegment: the first in the order of module->segments, 0 if none.   *)
TryGetSegment(ea) ==
  LET hits == {k \in DOMAIN segments : Holds(Get(seg_forward, segments[k]), ea)}
  IN  IF hits = {} THEN 0 ELSE Get(seg_forward, segments[Least(hits)])

(* ResolveReference: what an address refers to; 0 is the null pointer.     *)
Variable(ea) == IF ea \in DOMAIN ea_to_var THEN ea_to_var[ea] ELSE 0
Function(ea) ==
  IF ea \notin DOMAIN ea_to_var /\ ea \in DOMAIN ea_to_func THEN ea_to_func[ea] ELSE 0

Xref(s, xref) ==
  [next |-> xref.ea + xref.width, blob |-> "none", segment |-> s, target_ea |-> xref.target_ea,
   target_segment |-> TryGetSegment(xref.target_ea),
   var |-> Variable(xref.target_ea), func |-> Function(xref.target_ea)]

Resolved(entry) == entry.var # 0 \/ entry.func # 0 \/ entry.target_segment # 0

(* A cross-reference is an entry of the segment found at the address of    *)
(* the CFG's segment, be it another segment than the CFG's.                *)
ReadXref ==
  /\ InLoop("xrefs") /\ sub <= Len(Item.xrefs)
  /\ LET xref == Item.xrefs[sub]
         found == Item.ea \in DOMAIN ea_to_seg
         s == IF found THEN ea_to_seg[Item.ea] ELSE 0
         entry == Xref(s, xref)
     IN  IF xref.width > PointerSize \/ (Resolved(entry) /\ ~found)
         THEN Abort /\ UNCHANGED segs
         ELSE /\ segs' = IF Resolved(entry)
                         THEN [segs EXCEPT ![s].entries = Put(@, xref.ea, entry)] ELSE segs
              /\ NextSub
  /\ UNCHANGED <<cfg, function_tables, variable_tables, seg_forward, ea_to_seg, segments,
                 mapped, code_tables>>

EndXrefs ==
  /\ InLoop("xrefs") /\ sub > Len(Item.xrefs)
  /\ NextItem
  /\ UNCHANGED <<cfg, function_tables, variable_tables, segment_tables, mapped, code_tables>>

(* The bytes of a segment, which may be longer than the data at its        *)
(* address: what lies behind the data is read all the same.                *)
SegmentBytes(seg, item) ==
  {bytes \in [seg.ea..(seg.ea + seg.size - 1) -> {0, 1}] :
     \A k \in 1..Len(item.data) : k <= seg.size => bytes[seg.ea + k - 1] = item.data[k]}

(* The sentinel entry at the segment's end takes the place of what is      *)
(* there, and is taken out again.                                          *)
Within(entries, end) == [a \in DOMAIN entries \ {end} |-> entries[a]]

(* MapRange, then the blobs and the checks.                                *)
FillBlobs ==
  /\ InLoop("blobs")
  /\ LET range == Item.ea..(Item.ea + Len(Item.data) - 1)
         s == ea_to_seg[Item.ea]
         end == Item.ea + segs[s].size
         xrefs == Within(segs[s].entries, end)
     IN  \/ /\ Item.ea \notin DOMAIN ea_to_seg \/ range = {} \/ range \cap mapped # {}
            /\ Abort
            /\ UNCHANGED <<segs, mapped>>
         \/ /\ Item.ea \in DOMAIN ea_to_seg /\ range # {} /\ range \cap mapped = {}
            /\ mapped' = mapped \cup range
            /\ \E bytes \in SegmentBytes(segs[s], Item) :
                 \E entries \in
                   {Filled(xrefs, Blobs(xrefs, Item.ea, end, DOMAIN ea_to_var, bytes))} :
                   /\ segs' = [segs EXCEPT ![s].entries = entries]
                   /\ IF Partitions(entries, Item.ea, end) THEN NextItem ELSE Abort
  /\ UNCHANGED <<cfg, function_tables, variable_tables, seg_forward, ea_to_seg, segments,
                 code_tables>>

-----------------------------------------------------------------------------
(* Blocks and instructions, which functions may share.                     *)

MaxXrefs == 5

(* Only an instruction with a landing pad or references is recorded, and   *)
(* only the first time.                                                    *)
Recorded(inst) == (inst.lp_ea # 0 \/ inst.xrefs # << >>) /\ inst.ea \notin DOMAIN ea_to_inst

(* FillXref: of two references of one operand the later one stays.         *)
References(inst) ==
  [op \in {inst.xrefs[k].operand : k \in DOMAIN inst.xrefs} |->
     LET last == Greatest({k \in DOMAIN inst.xrefs : inst.xrefs[k].operand = op})
     IN  inst.xrefs[last].ea]

WithInstructions(insts) ==
  LET recorded == {k \in DOMAIN insts : Recorded(insts[k])}
      new == {k \in recorded : \A j \in recorded : j < k => insts[j].ea # insts[k].ea}
  IN [ea \in DOMAIN ea_to_inst \cup {insts[k].ea : k \in new} |->
        IF ea \in DOMAIN ea_to_inst THEN ea_to_inst[ea]
        ELSE LET inst == insts[CHOOSE k \in new : insts[k].ea = ea]
             IN  [lp_ea |-> inst.lp_ea, refs |-> References(inst)]]

\* mutant
ReplaceBlock(old, block) ==
  [successors |-> Range(block.successor_eas),
   last_inst_ea |-> Greatest({0} \cup {block.instructions[k].ea : k \in DOMAIN block.instructions}),
   is_referenced_by_data |-> block.is_referenced_by_data]
MergeBlock(old, block) ==
  [successors |-> old.successors \cup Range(block.successor_eas),
   last_inst_ea |-> Greatest({old.last_inst_ea} \cup
                             {block.instructions[k].ea : k \in DOMAIN block.instructions}),
   is_referenced_by_data |-> old.is_referenced_by_data \/ block.is_referenced_by_data]

NewBlock == [successors |-> {}, last_inst_ea |-> 0, is_referenced_by_data |-> FALSE]

ReadBlock ==
  /\ InLoop("blocks") /\ Item.ea \in mapped /\ sub <= Len(Item.blocks)
  /\ LET block == Item.blocks[sub]
         old == IF block.ea \in DOMAIN ea_to_block THEN ea_to_block[block.ea] ELSE NewBlock
         insts == block.instructions
     IN  /\ ea_to_block' = Put(ea_to_block, block.ea, MergeBlock(old, block))
         /\ functions' = [functions EXCEPT ![ea_to_func[Item.ea]].blocks = Append(@, block.ea)]
         /\ ea_to_inst' = WithInstructions(insts)
         /\ IF \E k \in DOMAIN insts : Recorded(insts[k]) /\ Len(insts[k].xrefs) > MaxXrefs
            THEN Abort ELSE NextSub
  /\ UNCHANGED <<cfg, ea_to_func, variable_tables, segment_tables, mapped>>

(* A function without executable bytes is passed over.                     *)
EndFunction ==
  /\ InLoop("blocks") /\ (Item.ea \notin mapped \/ sub > Len(Item.blocks))
  /\ NextItem
  /\ UNCHANGED <<cfg, function_tables, variable_tables, segment_tables, mapped, code_tables>>

-----------------------------------------------------------------------------
(* Merging of adjacent segments, from the back to the front.               *)

(* What prune_segments keeps, in the order of the pointers, which is any:   *)
(* a sort follows it.                                                      *)
Pruned == {s \in Range(segments) : seg_forward[s] = s}

(* Internal segments first, in the order of their addresses.               *)
IsBefore(s, t) ==
  IF segs[s].is_external = segs[t].is_external THEN segs[s].ea < segs[t].ea
  ELSE ~segs[s].is_external

SortForMerge ==
  /\ pc = "merge" /\ at = 1
  /\ \E order \in SetToSeqs(Pruned) :
       /\ MergeAdjacent => \A j, k \in DOMAIN order : j < k => ~IsBefore(order[k], order[j])
       /\ segments' = order
  /\ at' = 2 /\ sub' = IF MergeAdjacent THEN Len(segments') ELSE 1
  /\ UNCHANGED <<cfg, pc, function_tables, variable_tables, segs, seg_forward, ea_to_seg,
                 mapped, code_tables>>

Adjacent(prev, seg) == prev.ea + prev.size = seg.ea /\ ~prev.is_external /\ ~seg.is_external

Merged(prev, seg) ==
  [prev EXCEPT !.size = @ + seg.size, !.entries = Filled(@, seg.entries),
               !.is_read_only = @ /\ seg.is_read_only]

MergeStep ==
  /\ pc = "merge" /\ at = 2 /\ sub > 1
  /\ LET s == segments[sub]
         p == segments[sub - 1]
     IN  IF Adjacent(segs[p], segs[s])
         THEN /\ segs' = [segs EXCEPT ![p] = Merged(@, segs[s]),
                                      ![s].size = 0, ![s].entries = << >>]
              /\ seg_forward' = ForwardTo(seg_forward, s, p)
         ELSE UNCHANGED <<segs, seg_forward>>
  /\ sub' = sub - 1
  /\ UNCHANGED <<cfg, pc, at, function_tables, variable_tables, ea_to_seg, segments,
                 mapped, code_tables>>

-----------------------------------------------------------------------------
(* The last loops look through all forwarding.                             *)

Exported(f) ==
  f.is_exported /\ f.name \notin ThunkNames /\ f.name \notin PrivateNames

ResolvedEntry(entry) ==
  IF entry.blob # "none" THEN entry
  ELSE [entry EXCEPT !.segment = Get(seg_forward, @),
                     !.target_segment = IF @ = 0 THEN 0 ELSE Get(seg_forward, @)]

Resolve ==
  /\ pc = "merge" /\ at = 2 /\ sub <= 1
  /\ \E order \in SetToSeqs(Pruned) :
       /\ \A j, k \in DOMAIN order : j < k => segs[order[j]].size <= segs[order[k]].size
       /\ segments' = order
  /\ ea_to_seg' = [ea \in DOMAIN ea_to_seg |-> Get(seg_forward, ea_to_seg[ea])]
  /\ functions' = [i \in DOMAIN functions |->
                     [functions[i] EXCEPT !.is_exported = Exported(functions[i])]]
  /\ ea_to_var' = [ea \in DOMAIN ea_to_var |-> Get(var_forward, ea_to_var[ea])]
  /\ variables' = [v \in DOMAIN variables |->
                     IF v \in Range(ea_to_var')
                     THEN [variables[v] EXCEPT !.segment = Get(seg_forward, @)]
                     ELSE variables[v]]
  /\ segs' = [s \in DOMAIN segs |->
                IF s \in Pruned
                THEN [segs[s] EXCEPT !.entries =
                        [a \in DOMAIN @ |-> ResolvedEntry(@[a])]]
                ELSE segs[s]]
  /\ pc' = "done" /\ UNCHANGED <<at, sub>>
  /\ UNCHANGED <<cfg, ea_to_func, var_forward, name_to_extern_var, seg_forward, mapped,
                 code_tables>>

(* There is nothing left to do: any other state without a step is stuck.   *)
Finished == pc \in {"done", "abort"} /\ UNCHANGED state

-----------------------------------------------------------------------------
Init ==
  /\ cfg \in Modules
  /\ pc = "functions" /\ at = 1 /\ sub = 1
  /\ functions = << >> /\ ea_to_func = << >>
  /\ variables = << >> /\ var_forward = << >> /\ ea_to_var = << >> /\ name_to_extern_var = << >>
  /\ segs = << >> /\ seg_forward = << >> /\ ea_to_seg = << >> /\ segments = << >>
  /\ mapped = {} /\ ea_to_block = << >> /\ ea_to_inst = << >>

Next ==
  \/ NextLoop
  \/ ReadFunction \/ ReadExternalFunction \/ ReadExternalVariable
  \/ BeginSegment \/ ReadVariable \/ EndSegment
  \/ ReadXref \/ EndXrefs \/ FillBlobs
  \/ ReadBlock \/ EndFunction
  \/ SortForMerge \/ MergeStep
  \/ Resolve
  \/ Finished

Spec == Init /\ [][Next]_state
-----------------------------------------------------------------------------
(* Properties.                                                             *)

Done == pc = "done"

(* The data the CFG gives for an address that a segment holds.             *)
DataAt(ea) ==
  {item.data[ea - item.ea + 1] : item \in {item \in Range(cfg.segments) :
     item.ea <= ea /\ ea < item.ea + Len(item.data)}}

(* The bytes of every segment with data are described once each, and none  *)
(* that is not zero as zero, whatever variables and cross-references cut   *)
(* through it and whatever it was merged with (the checks of CFG.cpp:1079  *)
(* see the segments only before they are merged). External segments, whose *)
(* size may be more than the CFG's data, are declared without data.        *)
SegmentsDescribed ==
  Done => \A s \in Range(segments) : ~segs[s].is_external =>
    /\ Partitions(segs[s].entries, segs[s].ea, segs[s].ea + segs[s].size)
    /\ \A a \in DOMAIN segs[s].entries : segs[s].entries[a].blob = "zero" =>
         \A b \in a..(segs[s].entries[a].next - 1) : DataAt(b) \subseteq {0}

(* What the tables and the cross-references lead to is among the segments  *)
(* and variables that are lifted, however often it was replaced before or  *)
(* after the reference was made; an external variable has its own external *)
(* segment (the checks of External.cpp:118).                               *)
LookupsLive ==
  Done =>
    /\ Range(segments) = Live(seg_forward)
    /\ Range(ea_to_seg) \subseteq Range(segments)
    /\ \A ea \in DOMAIN ea_to_var :
         LET var == variables[ea_to_var[ea]] IN
         /\ ea_to_var[ea] \in Live(var_forward)
         /\ var.segment \in Range(segments)
         /\ var.is_external => segs[var.segment].is_external /\ segs[var.segment].ea = var.ea
    /\ \A s \in Range(segments) : \A a \in DOMAIN segs[s].entries :
         LET entry == segs[s].entries[a] IN
         entry.blob = "none" =>
           /\ entry.segment = s
           /\ entry.target_segment # 0 =>
                /\ entry.target_segment \in Range(segments)
                /\ Holds(entry.target_segment, entry.target_ea)

(* Two addresses of external variables lead to one variable exactly when   *)
(* the CFG says so: a chain of entries, each with the address or the name  *)
(* of the one before, links them, in whatever order they come.             *)
Entries == {k \in DOMAIN cfg.external_vars :
  cfg.external_vars[k].name # None /\ cfg.external_vars[k].ea \notin DOMAIN ea_to_func}
SameThing(j, k) ==
  \/ cfg.external_vars[j].ea = cfg.external_vars[k].ea
  \/ cfg.external_vars[j].name = cfg.external_vars[k].name
Linked(j, k) ==
  \A C \in SUBSET Entries :
    j \in C /\ (\A x \in C, y \in Entries : SameThing(x, y) => y \in C) => k \in C
SameVariable ==
  Done => \A j, k \in Entries :
    Linked(j, k) <=> ea_to_var[cfg.external_vars[j].ea] = ea_to_var[cfg.external_vars[k].ea]

(* A function has every block the CFG gives it, and a block that is given  *)
(* more than once has the successors and the extent of all of them.        *)
BlocksComplete ==
  Done => \A f \in Range(cfg.funcs) : f.ea \in mapped =>
    \A block \in Range(f.blocks) :
      /\ block.ea \in Range(functions[ea_to_func[f.ea]].blocks)
      /\ Range(block.successor_eas) \subseteq ea_to_block[block.ea].successors
      /\ \A inst \in Range(block.instructions) :
           /\ inst.ea <= ea_to_block[block.ea].last_inst_ea
           /\ inst.lp_ea # 0 \/ inst.xrefs # << >> => inst.ea \in DOMAIN ea_to_inst
=============================================================================
