---------------------------- MODULE DataSegmentsMC ----------------------------
(***************************************************************************)
(* Instances of NativeEntry: modules that differ in their addresses, for   *)
(* the layout, and modules that differ in their cross-references, for the  *)
(* initialization.                                                         *)
(***************************************************************************)
EXTENDS NativeEntry, TLC

Segment(ea, size, external, tls, readOnly, xrefs) ==
  [ea |-> ea, size |-> size, external |-> external, tls |-> tls, readOnly |-> readOnly,
   xrefs |-> xrefs]
To(kind, to, wide, fixup, null) ==
  [kind |-> kind, to |-> to, wide |-> wide, fixup |-> fixup, null |-> null]
Module(segments, merge, embed, explicit) ==
  [segments |-> segments, merge |-> merge, embed |-> embed, explicit |-> explicit,
   functions |-> IF merge THEN {"init", "__libc_csu_init", "__libc_csu_fini"} ELSE {"init", "fini"},
   named |-> IF embed THEN <<"init", "">> ELSE <<"", "">>]

External == Segment(30, 1, TRUE, FALSE, FALSE, <<>>)
ThreadData == Segment(24, 2, FALSE, TRUE, FALSE, <<>>)

(* Two segments at every pair of addresses, overlapping ones included.     *)
Layouts ==
  {Module(<<Segment(a, 2, FALSE, FALSE, FALSE, <<>>), Segment(b, 3, FALSE, FALSE, TRUE, <<>>)>>,
          merge, FALSE, FALSE) : a \in 1 .. 9, b \in 4 .. 13, merge \in BOOLEAN}

(* What a cross-reference can be; the targets are an external segment, the *)
(* thread-local one and the segment itself.                                *)
Kinds == {To("function", 0, TRUE, "absolute", FALSE),
          To("variable", 2, TRUE, "absolute", FALSE),
          To("variable", 3, TRUE, "absolute", FALSE),
          To("variable", 3, TRUE, "thread_offset", FALSE),
          To("location", 3, TRUE, "absolute", FALSE),
          To("location", 1, FALSE, "absolute", FALSE),
          To("none", 0, FALSE, "absolute", TRUE)}
References ==
  {Module(<<Segment(4, 2, FALSE, tls, readOnly, <<x, y>>), External, ThreadData>>,
          FALSE, embed, explicit) :
     x \in Kinds, y \in Kinds, tls \in BOOLEAN, readOnly \in BOOLEAN, embed \in BOOLEAN,
     explicit \in BOOLEAN}

MCModules == {m \in Layouts : m.segments[1].ea # m.segments[2].ea} \cup References

(* Only modules with cross-references are run, and those at one address;   *)
(* a third entry only where both lead to functions and are never written.  *)
RunsReferences ==
  /\ phase' = "loaded" /\ phase = "link" /\ Len(cfg.segments) = 3 =>
       \A s \in Internal : base'[s] = Seg(s).ea - Padding(s)
  /\ entries' # entries => Len(cfg.segments) = 3
  /\ (\E t \in Threads : entries'[t] > 2) =>
       \A x \in Xrefs : Xref(x).kind = "function" /\ Seg(x[1]).readOnly

AnyThread == Permutations(Threads)
=============================================================================
