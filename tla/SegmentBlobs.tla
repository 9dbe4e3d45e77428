---------------------------- MODULE SegmentBlobs ----------------------------
(***************************************************************************)
(* How ReadProtoBuf (mcsema/CFG/CFG.cpp) describes the bytes of a segment: *)
(* a map from addresses to entries that are cross-references or blobs. The *)
(* cross-references are there first; the loops over the gaps between them  *)
(* are given here by what they compute.                                    *)
(*                                                                         *)
(* An entry is a record with at least next, the address behind it, and     *)
(* blob: "zero" or "data" for a blob, "none" for a cross-reference. Only a *)
(* byte's being zero or not is told apart.                                 *)
(***************************************************************************)
EXTENDS Integers

CONSTANT MaxBlobSize   \* kMaxBlobSize

ASSUME BlobAssumption == MaxBlobSize \in Nat \ {0}

Least(S) == CHOOSE a \in S : \A b \in S : a <= b
Greatest(S) == CHOOSE a \in S : \A b \in S : b <= a

(* The addresses that the walk over the entries passes at entry a: at      *)
(* least one.                                                              *)
Passed(entries, a) == a..(IF entries[a].next > a THEN entries[a].next - 1 ELSE a)

(* The addresses in [lo, hi) that no cross-reference describes.            *)
Gap(entries, lo, hi) ==
  {a \in lo..(hi - 1) : \A e \in DOMAIN entries : a \notin Passed(entries, e)}

(* The gap is cut into groups: one begins behind an entry, at a variable,  *)
(* and after MaxBlobSize bytes. This is where the group of address a does. *)
GroupStart(gap, variables, a) ==
  LET cut == Greatest({b \in gap : b <= a /\ (b - 1 \notin gap \/ b \in variables)})
  IN  a - ((a - cut) % MaxBlobSize)

\* mutant
ZeroGroupsFirst(gap, variables, bytes) ==
  {a \in gap : bytes[GroupStart(gap, variables, a)] = 0}
ZeroGroups(gap, variables, bytes) ==
  LET others == {GroupStart(gap, variables, b) : b \in {b \in gap : bytes[b] # 0}}
  IN  {a \in gap : GroupStart(gap, variables, a) \notin others}

(* Neighbouring groups are merged when both or neither are zero.           *)
BlobStarts(gap, zeros) ==
  {a \in gap : a - 1 \in gap => (a - 1 \in zeros <=> a \notin zeros)}

Blobs(entries, lo, hi, variables, bytes) ==
  LET gap == Gap(entries, lo, hi)
      zeros == ZeroGroups(gap, variables, bytes)
      starts == BlobStarts(gap, zeros)
  IN [a \in starts |->
        [next |-> Least({b \in (a + 1)..hi : b \notin gap \/ b \in starts}),
         blob |-> IF a \in zeros THEN "zero" ELSE "data"]]

(* The blobs are added to the entries that are there: none is replaced.    *)
Filled(entries, blobs) ==
  [a \in DOMAIN entries \cup DOMAIN blobs |->
     IF a \in DOMAIN entries THEN entries[a] ELSE blobs[a]]

(* The checks that follow: the entries are not empty, and in the order of  *)
(* their addresses each begins where the one before ends, from lo to hi.   *)
Partitions(entries, lo, hi) ==
  /\ \A a \in DOMAIN entries : lo <= a /\ a < entries[a].next /\ entries[a].next <= hi
  /\ \A a, b \in DOMAIN entries : a < b => entries[a].next <= b
  /\ \A b \in lo..(hi - 1) : \E a \in DOMAIN entries : a <= b /\ b < entries[a].next
=============================================================================
