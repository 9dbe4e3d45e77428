-------------------------- MODULE CFGLoaderProofs --------------------------
(***************************************************************************)
(* Theorems about SegmentBlobs and CFGLoader. The checks that follow the   *)
(* partitioning of a segment cannot fail for lack of a blob, and merging   *)
(* keeps what they checked. Every chain of forwarded objects ends in one   *)
(* that is its own, and forwarding two chains into one makes their ends    *)
(* the same and no others: so linked external variables become one, and    *)
(* what leads to a segment still does when it was replaced or merged. What *)
(* the segments' entries say of their bytes stays right until the end.     *)
(***************************************************************************)
EXTENDS CFGLoader, TLAPS, NaturalsInduction, WellFoundedInduction, FiniteSetTheorems

(* Cross-references that lie in [lo, hi) and do not overlap.               *)
Apart(xrefs, lo, hi) ==
  /\ DOMAIN xrefs \subseteq Nat
  /\ \A a \in DOMAIN xrefs :
       xrefs[a].next \in Nat /\ lo <= a /\ a < xrefs[a].next /\ xrefs[a].next <= hi
  /\ \A a, b \in DOMAIN xrefs : a < b => xrefs[a].next <= b

(* CHOOSE picks the least element of a set of natural numbers.             *)
LEMMA LeastIs ==
  ASSUME NEW S, S \subseteq Nat, S # {}
  PROVE  Least(S) \in S /\ \A b \in S : Least(S) <= b
<1>1. PICK k \in S : \A j \in S : ~(<<j, k>> \in OpToRel(<, Nat))
  BY NatLessThanWellFounded, WFMin
<1>2. \A j \in S : ~(j < k)
  BY <1>1 DEF OpToRel
<1>3. \A j \in S : k <= j
  BY <1>2
<1> QED
  BY <1>3 DEF Least

LEMMA GapIs ==
  ASSUME NEW lo \in Nat, NEW hi \in Nat, NEW xrefs, Apart(xrefs, lo, hi)
  PROVE  /\ Gap(xrefs, lo, hi) \subseteq lo..(hi - 1)
         /\ \A b \in lo..(hi - 1) : b \notin Gap(xrefs, lo, hi) <=>
              \E a \in DOMAIN xrefs : a <= b /\ b < xrefs[a].next
<1>1. \A a \in DOMAIN xrefs : Passed(xrefs, a) = a..(xrefs[a].next - 1)
  BY DEF Passed, Apart
<1>2. \A a \in DOMAIN xrefs, b \in lo..(hi - 1) :
        b \in Passed(xrefs, a) <=> (a <= b /\ b < xrefs[a].next)
  BY <1>1 DEF Apart
<1> QED
  BY <1>2 DEF Gap

(* What ends the blob that begins at a.                                    *)
Ends(gap, starts, hi, a) == {b \in (a + 1)..hi : b \notin gap \/ b \in starts}

(* A blob ends behind its start, and no later than where anything else     *)
(* begins.                                                                 *)
LEMMA BlobEnds ==
  ASSUME NEW lo \in Nat, NEW hi \in Nat, NEW gap, gap \subseteq lo..(hi - 1), NEW starts,
         NEW a \in gap
  PROVE  LET next == Least(Ends(gap, starts, hi, a)) IN
         /\ next \in (a + 1)..hi
         /\ next \notin gap \/ next \in starts
         /\ \A b \in Ends(gap, starts, hi, a) : next <= b
<1> DEFINE E == Ends(gap, starts, hi, a)
<1>1. E \subseteq Nat /\ E \subseteq (a + 1)..hi
  BY DEF Ends
<1>2. hi \in E
  BY DEF Ends
<1>3. Least(E) \in E /\ \A b \in E : Least(E) <= b
  <2> HIDE DEF E
  <2> QED BY <1>1, <1>2, LeastIs
<1> QED
  BY <1>1, <1>3 DEF Ends

(* Every byte of the gap lies in a blob.                                   *)
LEMMA BlobsCover ==
  ASSUME NEW lo \in Nat, NEW hi \in Nat, NEW gap, gap \subseteq lo..(hi - 1), NEW zeros,
         NEW b \in gap
  PROVE  \E a \in BlobStarts(gap, zeros) :
           a <= b /\ b < Least(Ends(gap, BlobStarts(gap, zeros), hi, a))
<1> DEFINE Starts == BlobStarts(gap, zeros)
           Q == {s \in lo..b : \A c \in (s + 1)..b : c \in gap /\ c \notin Starts}
<1>1. Q \subseteq Nat /\ b \in Q
  OBVIOUS
<1>2. Least(Q) \in Q /\ \A s \in Q : Least(Q) <= s
  <2> HIDE DEF Q
  <2> QED BY <1>1, LeastIs
<1>3. PICK s \in Q : \A t \in Q : s <= t
  BY <1>2
<1>4. s \in lo..b /\ \A c \in (s + 1)..b : c \in gap /\ c \notin Starts
  BY <1>3
<1>5. s \in gap
  <2>1. CASE s = b
    BY <2>1
  <2>2. CASE s # b
    <3>1. s + 1 \in gap /\ s + 1 \notin Starts /\ (s + 1) - 1 = s
      BY <1>4, <2>2
    <3> QED
      BY <3>1 DEF BlobStarts
  <2> QED
    BY <2>1, <2>2
<1>6. s \in Starts
  <2> SUFFICES ASSUME s \notin Starts PROVE FALSE
    OBVIOUS
  <2>1. s - 1 \in gap
    BY <1>5 DEF BlobStarts
  <2>2. s - 1 \in lo..b
    BY <2>1, <1>4
  <2>3. \A c \in ((s - 1) + 1)..b : c \in gap /\ c \notin Starts
    BY <1>4, <1>5, <2>2
  <2>4. s - 1 \in Q
    BY <2>2, <2>3
  <2> QED
    BY <1>3, <1>4, <2>4
<1>7. b < Least(Ends(gap, Starts, hi, s))
  <2> DEFINE n == Least(Ends(gap, Starts, hi, s))
  <2>1. n \in (s + 1)..hi /\ (n \notin gap \/ n \in Starts)
    <3> HIDE DEF Starts
    <3> QED BY <1>5, BlobEnds
  <2> HIDE DEF n
  <2>2. n \notin (s + 1)..b
    BY <2>1, <1>4
  <2>3. b < n
    BY <2>1, <2>2, <1>4
  <2> QED
    BY <2>3 DEF n
<1> QED
  BY <1>4, <1>6, <1>7

-----------------------------------------------------------------------------
(* Around cross-references that lie in the segment and do not overlap, the *)
(* blobs describe the other bytes, whatever these are, wherever variables  *)
(* cut through them and however long a group is: the checks at CFG.cpp:995 *)
(* and CFG.cpp:1079 find no fault but one of the CFG's cross-references.   *)
THEOREM BlobsPartition ==
  ASSUME NEW lo \in Nat, NEW hi \in Nat, NEW xrefs, Apart(xrefs, lo, hi),
         NEW cuts, NEW bytes
  PROVE  Partitions(Filled(xrefs, Blobs(xrefs, lo, hi, cuts, bytes)), lo, hi)
<1> DEFINE gap == Gap(xrefs, lo, hi)
           zeros == ZeroGroups(gap, cuts, bytes)
           starts == BlobStarts(gap, zeros)
           blobs == Blobs(xrefs, lo, hi, cuts, bytes)
           all == Filled(xrefs, blobs)
<1>1. /\ gap \subseteq lo..(hi - 1)
      /\ \A b \in lo..(hi - 1) : b \notin gap <=>
           \E a \in DOMAIN xrefs : a <= b /\ b < xrefs[a].next
  BY GapIs
<1>2. starts \subseteq gap
  BY DEF BlobStarts
<1>3. DOMAIN blobs = starts /\ \A a \in starts : blobs[a].next = Least(Ends(gap, starts, hi, a))
  BY DEF Blobs, Ends
<1> HIDE DEF zeros
<1>4. \A b \in gap : \E a \in starts : a <= b /\ b < Least(Ends(gap, starts, hi, a))
  <2> HIDE DEF gap
  <2> QED BY <1>1, BlobsCover
<1>5. \A a \in starts :
        /\ blobs[a].next \in (a + 1)..hi
        /\ \A b \in Ends(gap, starts, hi, a) : blobs[a].next <= b
  <2> SUFFICES ASSUME NEW a \in starts
               PROVE  /\ blobs[a].next \in (a + 1)..hi
                      /\ \A b \in Ends(gap, starts, hi, a) : blobs[a].next <= b
    OBVIOUS
  <2> HIDE DEF gap, starts, blobs
  <2>1. a \in gap /\ gap \subseteq lo..(hi - 1)
    BY <1>1, <1>2
  <2>2. /\ Least(Ends(gap, starts, hi, a)) \in (a + 1)..hi
        /\ \A b \in Ends(gap, starts, hi, a) : Least(Ends(gap, starts, hi, a)) <= b
    BY <2>1, BlobEnds
  <2>3. blobs[a].next = Least(Ends(gap, starts, hi, a))
    BY <1>3
  <2> QED
    BY <2>2, <2>3
<1> HIDE DEF gap, starts, blobs
<1>6. \A a \in DOMAIN xrefs : a \in lo..(hi - 1) /\ a \notin gap
  BY <1>1 DEF Apart
<1>7. /\ DOMAIN all = DOMAIN xrefs \cup starts
      /\ \A a \in DOMAIN xrefs : all[a] = xrefs[a]
      /\ \A a \in starts : all[a] = blobs[a]
  BY <1>2, <1>3, <1>6 DEF Filled
<1> HIDE DEF all
<1>8. \A a \in DOMAIN all : lo <= a /\ a < all[a].next /\ all[a].next <= hi
  <2> SUFFICES ASSUME NEW a \in DOMAIN all
               PROVE  lo <= a /\ a < all[a].next /\ all[a].next <= hi
    OBVIOUS
  <2>1. CASE a \in DOMAIN xrefs
    BY <2>1, <1>7 DEF Apart
  <2>2. CASE a \in starts
    <3>1. a \in lo..(hi - 1) /\ all[a].next \in (a + 1)..hi
      BY <2>2, <1>1, <1>2, <1>5, <1>7
    <3> QED
      BY <3>1
  <2> QED
    BY <2>1, <2>2, <1>7
<1>9. \A a, b \in DOMAIN all : a < b => all[a].next <= b
  <2> SUFFICES ASSUME NEW a \in DOMAIN all, NEW b \in DOMAIN all, a < b
               PROVE  all[a].next <= b
    OBVIOUS
  <2>1. CASE a \in DOMAIN xrefs /\ b \in DOMAIN xrefs
    BY <2>1, <1>7 DEF Apart
  <2>2. CASE a \in DOMAIN xrefs /\ b \in starts
    <3>1. b \in gap /\ b \in lo..(hi - 1)
      BY <2>2, <1>1, <1>2
    <3>2. ~(b < xrefs[a].next)
      BY <2>2, <3>1, <1>1, <1>6
    <3> QED
      BY <2>2, <3>1, <3>2, <1>7 DEF Apart
  <2>3. CASE a \in starts
    <3>1. b \in lo..(hi - 1) /\ (b \notin gap \/ b \in starts)
      BY <1>1, <1>2, <1>6, <1>7
    <3>2. b \in (a + 1)..hi
      <4>1. a \in lo..(hi - 1)
        BY <2>3, <1>1, <1>2
      <4> QED
        BY <4>1, <3>1
    <3>3. b \in Ends(gap, starts, hi, a)
      BY <3>1, <3>2 DEF Ends
    <3> QED
      BY <2>3, <3>3, <1>5, <1>7
  <2> QED
    BY <2>1, <2>2, <2>3, <1>7
<1>10. \A b \in lo..(hi - 1) : \E a \in DOMAIN all : a <= b /\ b < all[a].next
  <2> SUFFICES ASSUME NEW b \in lo..(hi - 1)
               PROVE  \E a \in DOMAIN all : a <= b /\ b < all[a].next
    OBVIOUS
  <2>1. CASE b \in gap
    BY <2>1, <1>3, <1>4, <1>7
  <2>2. CASE b \notin gap
    BY <2>2, <1>1, <1>7
  <2> QED
    BY <2>1, <2>2
<1> QED
  BY <1>8, <1>9, <1>10 DEF all, blobs, Partitions

(* A blob that is marked zero has no byte that is not: its bytes may be    *)
(* left out of the segment's constant.                                     *)
THEOREM ZerosAreZero ==
  ASSUME NEW lo \in Nat, NEW hi \in Nat, NEW xrefs, Apart(xrefs, lo, hi),
         NEW cuts, NEW bytes,
         NEW a \in DOMAIN Blobs(xrefs, lo, hi, cuts, bytes),
         Blobs(xrefs, lo, hi, cuts, bytes)[a].blob = "zero",
         NEW b \in a..(Blobs(xrefs, lo, hi, cuts, bytes)[a].next - 1)
  PROVE  bytes[b] = 0
<1> DEFINE gap == Gap(xrefs, lo, hi)
           zeros == ZeroGroups(gap, cuts, bytes)
           starts == BlobStarts(gap, zeros)
           blobs == Blobs(xrefs, lo, hi, cuts, bytes)
           next == blobs[a].next
           others == {c \in (a + 1)..(next - 1) : c \notin zeros}
<1>1. gap \subseteq lo..(hi - 1) /\ starts \subseteq gap /\ zeros \subseteq gap
  BY GapIs DEF BlobStarts, ZeroGroups
<1>2. a \in starts /\ a \in zeros /\ next = Least(Ends(gap, starts, hi, a))
  BY DEF Blobs, Ends
<1>3. next \in (a + 1)..hi /\ \A c \in Ends(gap, starts, hi, a) : next <= c
  <2> HIDE DEF gap, starts, next
  <2> QED BY <1>1, <1>2, BlobEnds
<1>4. \A c \in gap : c \in zeros => bytes[c] = 0
  BY DEF ZeroGroups
<1>0. b \in a..(next - 1)
  OBVIOUS
<1> HIDE DEF next, zeros, blobs, gap
<1>5. \A c \in (a + 1)..(next - 1) : c \in gap /\ c \notin starts
  BY <1>1, <1>2, <1>3 DEF Ends
<1>6. others = {}
  <2> SUFFICES ASSUME others # {} PROVE FALSE
    OBVIOUS
  <2>1. others \subseteq Nat
    BY <1>1, <1>2, <1>3
  <2>2. PICK c \in others : \A d \in others : c <= d
    <3> HIDE DEF others
    <3> QED BY <2>1, LeastIs
  <2>3. c \in gap /\ c \notin starts /\ c \notin zeros
    BY <1>5, <2>2
  <2>4. c - 1 \in gap /\ c - 1 \notin zeros
    BY <2>3 DEF BlobStarts
  <2>5. c - 1 \in (a + 1)..(next - 1)
    BY <2>2, <2>4, <1>1, <1>2, <1>3
  <2> QED
    BY <2>2, <2>4, <2>5
<1>7. b \in zeros
  BY <1>0, <1>1, <1>2, <1>3, <1>6
<1> QED
  BY <1>1, <1>4, <1>7

(* Merging a segment into the one that ends where it begins (CFG.cpp:1329) *)
(* keeps every byte of both described once.                                *)
THEOREM MergingPartitions ==
  ASSUME NEW lo \in Nat, NEW mid \in Nat, NEW hi \in Nat, lo <= mid, mid <= hi,
         NEW first, DOMAIN first \subseteq Nat,
         \A a \in DOMAIN first : first[a].next \in Nat,
         NEW second, DOMAIN second \subseteq Nat,
         \A a \in DOMAIN second : second[a].next \in Nat,
         Partitions(first, lo, mid), Partitions(second, mid, hi)
  PROVE  Partitions(Filled(first, second), lo, hi)
<1> DEFINE all == Filled(first, second)
<1>1. \A a \in DOMAIN first : lo <= a /\ a < first[a].next /\ first[a].next <= mid
  BY DEF Partitions
<1>2. \A a \in DOMAIN second : mid <= a /\ a < second[a].next /\ second[a].next <= hi
  BY DEF Partitions
<1>3. \A a \in DOMAIN second : a \notin DOMAIN first
  BY <1>1, <1>2
<1>4. /\ DOMAIN all = DOMAIN first \cup DOMAIN second
      /\ \A a \in DOMAIN first : all[a] = first[a]
      /\ \A a \in DOMAIN second : all[a] = second[a]
  BY <1>3 DEF Filled
<1> HIDE DEF all
<1>5. \A a \in DOMAIN all : lo <= a /\ a < all[a].next /\ all[a].next <= hi
  BY <1>1, <1>2, <1>4
<1>6. \A a, b \in DOMAIN all : a < b => all[a].next <= b
  <2> SUFFICES ASSUME NEW a \in DOMAIN all, NEW b \in DOMAIN all, a < b
               PROVE  all[a].next <= b
    OBVIOUS
  <2>1. CASE a \in DOMAIN first /\ b \in DOMAIN first
    BY <2>1, <1>4 DEF Partitions
  <2>2. CASE a \in DOMAIN second /\ b \in DOMAIN second
    BY <2>2, <1>4 DEF Partitions
  <2>3. CASE a \in DOMAIN first /\ b \in DOMAIN second
    BY <2>3, <1>1, <1>2, <1>4
  <2>4. CASE a \in DOMAIN second /\ b \in DOMAIN first
    BY <2>4, <1>1, <1>2
  <2> QED
    BY <2>1, <2>2, <2>3, <2>4, <1>4
<1>7. \A b \in lo..(hi - 1) : \E a \in DOMAIN all : a <= b /\ b < all[a].next
  <2> SUFFICES ASSUME NEW b \in lo..(hi - 1)
               PROVE  \E a \in DOMAIN all : a <= b /\ b < all[a].next
    OBVIOUS
  <2>1. CASE b < mid
    <3>1. \E a \in DOMAIN first : a <= b /\ b < first[a].next
      BY <2>1 DEF Partitions
    <3> QED
      BY <3>1, <1>4
  <2>2. CASE mid <= b
    <3>1. \E a \in DOMAIN second : a <= b /\ b < second[a].next
      BY <2>2 DEF Partitions
    <3> QED
      BY <3>1, <1>4
  <2> QED
    BY <2>1, <2>2
<1> QED
  BY <1>5, <1>6, <1>7 DEF all, Partitions
-----------------------------------------------------------------------------
(* The loader.                                                             *)

(* What holds at i and, when it holds at one number, at the next.          *)
LEMMA StepByStep ==
  ASSUME NEW S, NEW N \in Nat, NEW i \in 0..N, i \in S,
         \A n \in 0..N : i <= n /\ n < N /\ n \in S => n + 1 \in S
  PROVE  \A n \in i..N : n \in S
<1> DEFINE Bad == {n \in Nat : i <= n /\ n <= N /\ n \notin S}
<1>1. ASSUME Bad # {} PROVE FALSE
  <2>1. Bad \subseteq Nat
    OBVIOUS
  <2>2. Least(Bad) \in Bad /\ \A b \in Bad : Least(Bad) <= b
    <3> HIDE DEF Bad
    <3> QED BY <1>1, <2>1, LeastIs
  <2>3. PICK k \in Nat : k \in Bad /\ \A b \in Bad : k <= b
    BY <2>1, <2>2
  <2>4. k # i /\ k - 1 \in 0..N /\ i <= k - 1 /\ k - 1 < N /\ k - 1 \in Nat
    BY <2>3
  <2>5. k - 1 \notin Bad
    BY <2>3, <2>4
  <2>6. k - 1 \in S
    BY <2>4, <2>5
  <2>7. (k - 1) + 1 \in S
    BY <2>4, <2>6
  <2> QED
    BY <2>3, <2>7
<1> QED
  BY <1>1

(* The recursive function that walks a chain exists.                       *)
Recursion(g, f, x, N) == g = [n \in 0..N |-> IF n = 0 THEN x ELSE f[g[n - 1]]]

LEMMA WalkExists ==
  ASSUME NEW f, NEW x, NEW N \in Nat
  PROVE  \E g : Recursion(g, f, x, N)
<1> DEFINE Exists(k) == \E g : g = [n \in 0..k |-> IF n = 0 THEN x ELSE f[g[n - 1]]]
           S == {k \in Nat : Exists(k)}
<1>1. Exists(0)
  <2>1. [n \in 0..0 |-> x] = [n \in 0..0 |-> IF n = 0 THEN x ELSE f[[m \in 0..0 |-> x][n - 1]]]
    OBVIOUS
  <2> QED
    BY <2>1
<1>2. ASSUME NEW k \in Nat, Exists(k) PROVE Exists(k + 1)
  <2>1. PICK g : g = [n \in 0..k |-> IF n = 0 THEN x ELSE f[g[n - 1]]]
    BY <1>2
  <2> DEFINE h == [n \in 0..(k + 1) |-> IF n = 0 THEN x ELSE f[g[n - 1]]]
  <2>2. \A n \in 0..k : h[n] = g[n]
    BY <2>1
  <2>3. \A n \in 0..(k + 1) : n # 0 => n - 1 \in 0..k
    OBVIOUS
  <2>4. \A n \in 0..(k + 1) : h[n] = IF n = 0 THEN x ELSE f[h[n - 1]]
    BY <2>2, <2>3
  <2>5. h = [n \in 0..(k + 1) |-> h[n]]
    OBVIOUS
  <2> HIDE DEF h
  <2>6. h = [n \in 0..(k + 1) |-> IF n = 0 THEN x ELSE f[h[n - 1]]]
    BY <2>4, <2>5
  <2> QED
    BY <2>6
<1> HIDE DEF Exists
<1>3. 0 \in S /\ \A n \in 0..N : 0 <= n /\ n < N /\ n \in S => n + 1 \in S
  BY <1>1, <1>2
<1>4. \A n \in 0..N : n \in S
  <2>1. 0 \in 0..N
    OBVIOUS
  <2> HIDE DEF S
  <2> QED BY <1>3, <2>1, StepByStep
<1>5. Exists(N)
  BY <1>4
<1> QED
  BY <1>5 DEF Exists, Recursion

(* The chain of x, step by step.                                           *)
Walks(c, f, x, N) ==
  /\ c[0] = x /\ \A n \in 0..N : n < N => c[n + 1] = f[c[n]]
  /\ Chain(f, x) = {c[n] : n \in 0..N}

LEMMA ChainIs ==
  ASSUME NEW f, NEW N \in Nat, N = Len(f), NEW x
  PROVE  \E c : Walks(c, f, x, N)
<1> DEFINE c[n \in 0..Len(f)] == IF n = 0 THEN x ELSE f[c[n - 1]]
<1>1. c = [n \in 0..Len(f) |-> IF n = 0 THEN x ELSE f[c[n - 1]]]
  <2>1. \E g : Recursion(g, f, x, N)
    <3> HIDE DEF c
    <3> QED BY WalkExists
  <2>2. \E g : g = [n \in 0..Len(f) |-> IF n = 0 THEN x ELSE f[g[n - 1]]]
    BY <2>1 DEF Recursion
  <2> QED
    BY <2>2, Zenon
<1>2. Chain(f, x) = {c[n] : n \in 0..Len(f)}
  BY DEF Chain
<1> HIDE DEF c
<1>3. c = [n \in 0..N |-> IF n = 0 THEN x ELSE f[c[n - 1]]]
  BY <1>1
<1>4. c[0] = x
  BY <1>3
<1>5. ASSUME NEW n \in 0..N, n < N PROVE c[n + 1] = f[c[n]]
  <2>1. n + 1 \in 0..N /\ n + 1 # 0 /\ (n + 1) - 1 = n
    BY <1>5
  <2> QED
    BY <1>3, <2>1
<1> QED
  BY <1>2, <1>4, <1>5 DEF Walks
-----------------------------------------------------------------------------
(* An index forwards to itself or to one from which fewer steps are left.  *)
Descends(f, H) == \A x \in DOMAIN f : f[x] = x \/ H[f[x]] < H[x]
Forwards(f) ==
  /\ f \in Seq(Nat) /\ \A x \in DOMAIN f : f[x] \in DOMAIN f
  /\ \E H \in [DOMAIN f -> Nat] : Descends(f, H)

(* Along a chain without an end the steps that are left get fewer.         *)
LEMMA Falling ==
  ASSUME NEW N \in Nat, NEW h \in [0..N -> Nat], \A n \in 1..N : h[n] < h[n - 1],
         NEW i \in 0..N, NEW j \in 0..N, i < j
  PROVE  h[j] < h[i]
<1> DEFINE S == {n \in 0..N : i < n /\ h[n] < h[i]}
<1>1. i + 1 \in 0..N /\ i + 1 \in 1..N /\ (i + 1) - 1 = i
  OBVIOUS
<1>2. i + 1 \in S
  BY <1>1
<1>3. ASSUME NEW n \in 0..N, i + 1 <= n, n < N, n \in S PROVE n + 1 \in S
  <2>1. n + 1 \in 1..N /\ n + 1 \in 0..N /\ (n + 1) - 1 = n
    BY <1>3
  <2>2. h[n + 1] < h[n] /\ h[n] < h[i]
    BY <1>3, <2>1
  <2>3. h[n + 1] \in Nat /\ h[n] \in Nat /\ h[i] \in Nat
    BY <2>1
  <2>4. h[n + 1] < h[i]
    BY <2>2, <2>3
  <2> QED
    BY <1>3, <2>1, <2>4
<1>4. \A n \in (i + 1)..N : n \in S
  <2> HIDE DEF S
  <2> QED BY <1>1, <1>2, <1>3, StepByStep
<1> QED
  BY <1>4

LEMMA ForwardsIs ==
  ASSUME NEW f, Forwards(f)
  PROVE  Len(f) \in Nat /\ DOMAIN f = 1..Len(f) /\ f \in [1..Len(f) -> 1..Len(f)]
<1>1. Len(f) \in Nat /\ DOMAIN f = 1..Len(f) /\ f \in [1..Len(f) -> Nat]
  BY DEF Forwards
<1>2. \A x \in 1..Len(f) : f[x] \in 1..Len(f)
  BY <1>1 DEF Forwards
<1> QED
  BY <1>1, <1>2

(* Every chain has an end, the only one, and goes nowhere else.            *)
LEMMA ChainEnds ==
  ASSUME NEW f, Forwards(f), NEW x \in DOMAIN f
  PROVE  /\ Chain(f, x) \subseteq DOMAIN f /\ x \in Chain(f, x)
         /\ \A y \in Chain(f, x) : f[y] \in Chain(f, x)
         /\ \E y \in Chain(f, x) : f[y] = y /\ \A z \in Chain(f, x) : f[z] = z => z = y
<1>1. PICK N \in Nat : N = Len(f) /\ DOMAIN f = 1..N /\ f \in [1..N -> 1..N]
  BY ForwardsIs
<1>2. PICK c : /\ c[0] = x /\ \A n \in 0..N : n < N => c[n + 1] = f[c[n]]
               /\ Chain(f, x) = {c[n] : n \in 0..N}
  <2>1. \E c : Walks(c, f, x, N)
    BY <1>1, ChainIs
  <2> QED
    BY <2>1 DEF Walks
<1>3. \A n \in 0..N : c[n] \in 1..N
  <2> DEFINE S == {n \in 0..N : c[n] \in 1..N}
  <2>1. 0 \in S /\ \A n \in 0..N : 0 <= n /\ n < N /\ n \in S => n + 1 \in S
    BY <1>1, <1>2
  <2>2. 0 \in 0..N
    OBVIOUS
  <2>3. \A n \in 0..N : n \in S
    <3> HIDE DEF S
    <3> QED BY <2>1, <2>2, StepByStep
  <2> QED
    BY <2>3
<1>4. Chain(f, x) \subseteq DOMAIN f /\ x \in Chain(f, x)
  BY <1>1, <1>2, <1>3
<1>5. \E i \in 0..N : f[c[i]] = c[i]
  <2> SUFFICES ASSUME \A n \in 0..N : f[c[n]] # c[n] PROVE FALSE
    OBVIOUS
  <2>1. PICK H \in [DOMAIN f -> Nat] : Descends(f, H)
    BY DEF Forwards
  <2> DEFINE h == [n \in 0..N |-> H[c[n]]]
             d == [n \in 0..N |-> c[n]]
  <2>2. h \in [0..N -> Nat] /\ d \in [0..N -> 1..N]
    BY <1>3, <1>1
  <2>3. \A n \in 1..N : h[n] < h[n - 1]
    <3> TAKE n \in 1..N
    <3>1. n - 1 \in 0..N /\ n \in 0..N /\ n - 1 < N /\ (n - 1) + 1 = n
      OBVIOUS
    <3>2. c[n - 1] \in DOMAIN f /\ c[n] = f[c[n - 1]]
      BY <3>1, <1>1, <1>2, <1>3
    <3>3. H[f[c[n - 1]]] < H[c[n - 1]]
      BY <3>1, <3>2, <2>1 DEF Descends
    <3> QED
      BY <3>1, <3>2, <3>3
  <2>4. IsFiniteSet(0..N) /\ Cardinality(0..N) = N + 1 /\ IsFiniteSet(1..N) /\ Cardinality(1..N) = N
    <3>1. IsFiniteSet(0..N) /\ Cardinality(0..N) = IF 0 > N THEN 0 ELSE N - 0 + 1
      BY FS_Interval
    <3>2. IsFiniteSet(1..N) /\ Cardinality(1..N) = IF 1 > N THEN 0 ELSE N - 1 + 1
      BY FS_Interval
    <3> QED
      BY <3>1, <3>2
  <2>5. Cardinality(1..N) < Cardinality(0..N)
    BY <2>4
  <2>6. \E i, j \in 0..N : i # j /\ d[i] = d[j]
    <3>1. PICK S : S = 0..N
      OBVIOUS
    <3>2. PICK T : T = 1..N
      OBVIOUS
    <3>3. IsFiniteSet(S) /\ IsFiniteSet(T) /\ Cardinality(T) < Cardinality(S) /\ d \in [S -> T]
      BY <2>2, <2>4, <2>5, <3>1, <3>2
    <3>4. \E i, j \in S : i # j /\ d[i] = d[j]
      <4> HIDE DEF d
      <4> QED BY <3>3, FS_PigeonHole
    <3> QED
      BY <3>1, <3>4
  <2>7. PICK i \in 0..N, j \in 0..N : i < j /\ c[i] = c[j]
    BY <2>6
  <2>8. h[j] < h[i]
    <3> HIDE DEF h
    <3> QED BY <2>2, <2>3, <2>7, Falling
  <2>9. h[i] = h[j] /\ h[i] \in Nat
    BY <2>7, <2>2
  <2> QED
    BY <2>8, <2>9
<1>6. ASSUME NEW i \in 0..N, f[c[i]] = c[i] PROVE \A n \in i..N : c[n] = c[i]
  <2> DEFINE S == {n \in 0..N : c[n] = c[i]}
  <2>1. i \in S /\ \A n \in 0..N : i <= n /\ n < N /\ n \in S => n + 1 \in S
    BY <1>2, <1>6
  <2>2. \A n \in i..N : n \in S
    <3> HIDE DEF S
    <3> QED BY <2>1, StepByStep
  <2> QED
    BY <2>2
<1>7. PICK i \in 0..N : f[c[i]] = c[i]
  BY <1>5
<1>8. c[N] = c[i] /\ c[i] \in Chain(f, x)
  BY <1>2, <1>6, <1>7
<1>9. ASSUME NEW j \in 0..N, f[c[j]] = c[j] PROVE c[j] = c[N]
  BY <1>6, <1>9
<1>10. ASSUME NEW n \in 0..N PROVE f[c[n]] \in Chain(f, x)
  <2>1. CASE n < N
    <3>1. n + 1 \in 0..N /\ c[n + 1] = f[c[n]]
      BY <2>1, <1>2
    <3> QED
      BY <3>1, <1>2
  <2>2. CASE ~(n < N)
    <3>1. n = N
      BY <2>2
    <3> QED
      BY <3>1, <1>7, <1>8
  <2> QED
    BY <2>1, <2>2
<1>11. \A y \in Chain(f, x) : f[y] \in Chain(f, x)
  BY <1>2, <1>10
<1>12. \A z \in Chain(f, x) : f[z] = z => z = c[N]
  BY <1>2, <1>9
<1>13. f[c[N]] = c[N] /\ c[N] \in Chain(f, x)
  BY <1>7, <1>8
<1> QED
  BY <1>4, <1>11, <1>12, <1>13

(* A chain stays where each step does.                                     *)
LEMMA AlongChain ==
  ASSUME NEW f, Forwards(f), NEW x \in DOMAIN f, NEW S, x \in S,
         \A y \in DOMAIN f : y \in S => f[y] \in S
  PROVE  Chain(f, x) \subseteq S
<1>1. PICK N \in Nat : N = Len(f) /\ DOMAIN f = 1..N /\ f \in [1..N -> 1..N]
  BY ForwardsIs
<1>2. PICK c : /\ c[0] = x /\ \A n \in 0..N : n < N => c[n + 1] = f[c[n]]
               /\ Chain(f, x) = {c[n] : n \in 0..N}
  <2>1. \E c : Walks(c, f, x, N)
    BY <1>1, ChainIs
  <2> QED
    BY <2>1 DEF Walks
<1> DEFINE T == {n \in 0..N : c[n] \in S /\ c[n] \in 1..N}
<1>3. 0 \in T /\ 0 \in 0..N
  BY <1>1, <1>2
<1>4. ASSUME NEW n \in 0..N, 0 <= n, n < N, n \in T PROVE n + 1 \in T
  BY <1>1, <1>2, <1>4
<1>5. \A n \in 0..N : n \in T
  <2> HIDE DEF T
  <2> QED BY <1>3, <1>4, StepByStep
<1> QED
  BY <1>2, <1>5

LEMMA GetGives ==
  ASSUME NEW f, Forwards(f)
  PROVE  /\ \A x \in DOMAIN f : Get(f, x) \in DOMAIN f /\ f[Get(f, x)] = Get(f, x)
         /\ \A x \in DOMAIN f : f[x] = x => Get(f, x) = x
         /\ \A x \in DOMAIN f : Get(f, f[x]) = Get(f, x)
         /\ \A x \in DOMAIN f : \A y \in Chain(f, x) : Get(f, y) = Get(f, x)
         /\ \A x \in DOMAIN f : Get(f, x) \in Chain(f, x)
<1>1. \A x \in DOMAIN f : Get(f, x) \in Chain(f, x) /\ f[Get(f, x)] = Get(f, x)
  BY ChainEnds DEF Get
<1>2. \A x \in DOMAIN f : Chain(f, x) \subseteq DOMAIN f /\ x \in Chain(f, x) /\ f[x] \in DOMAIN f
  BY ChainEnds DEF Forwards
<1>3. ASSUME NEW x \in DOMAIN f, NEW z \in Chain(f, x), f[z] = z PROVE z = Get(f, x)
  BY <1>1, <1>3, ChainEnds
<1>4. ASSUME NEW x \in DOMAIN f, NEW y \in Chain(f, x) PROVE Get(f, y) = Get(f, x)
  <2>1. y \in DOMAIN f
    BY <1>2
  <2>2. \A z \in Chain(f, x) : f[z] \in Chain(f, x)
    BY ChainEnds
  <2>3. Chain(f, y) \subseteq Chain(f, x)
    BY <2>1, <2>2, AlongChain
  <2> QED
    BY <2>1, <2>3, <1>1, <1>3
<1>5. \A x \in DOMAIN f : f[x] \in Chain(f, x)
  BY ChainEnds
<1> QED
  BY <1>1, <1>2, <1>3, <1>4, <1>5

(* Get is what agrees with every step and is its own at an end.            *)
LEMMA GetIs ==
  ASSUME NEW f, Forwards(f), NEW R,
         \A x \in DOMAIN f : R[f[x]] = R[x] /\ (f[x] = x => R[x] = x)
  PROVE  \A x \in DOMAIN f : Get(f, x) = R[x]
<1> TAKE x \in DOMAIN f
<1>1. \A y \in Chain(f, x) : R[y] = R[x]
  <2> DEFINE S == {z \in DOMAIN f : R[z] = R[x]}
  <2>1. x \in S /\ \A y \in DOMAIN f : y \in S => f[y] \in S
    BY DEF Forwards
  <2>2. Chain(f, x) \subseteq S
    <3> HIDE DEF S
    <3> QED BY <2>1, AlongChain
  <2> QED
    BY <2>2
<1> QED
  BY <1>1, GetGives

(* A new object forwards to itself.                                        *)
LEMMA AppendIs ==
  ASSUME NEW f, Forwards(f), NEW n, n = Len(f) + 1
  PROVE  LET g == Append(f, n) IN
         /\ Forwards(g) /\ DOMAIN g = DOMAIN f \cup {n} /\ n \notin DOMAIN f /\ Len(g) = n
         /\ g[n] = n /\ Get(g, n) = n
         /\ \A x \in DOMAIN f : Get(g, x) = Get(f, x)
<1>1. PICK g : g = Append(f, n)
  OBVIOUS
<1>2. Len(f) \in Nat /\ DOMAIN f = 1..Len(f) /\ f \in Seq(Nat) /\ n \in Nat
  BY ForwardsIs DEF Forwards
<1>3. /\ g \in Seq(Nat) /\ DOMAIN g = DOMAIN f \cup {n} /\ n \notin DOMAIN f /\ Len(g) = n
      /\ g[n] = n /\ \A x \in DOMAIN f : g[x] = f[x]
  BY <1>1, <1>2
<1>4. \A x \in DOMAIN g : g[x] \in DOMAIN g
  BY <1>3 DEF Forwards
<1>5. \E H \in [DOMAIN g -> Nat] : Descends(g, H)
  <2>1. PICK H \in [DOMAIN f -> Nat] : Descends(f, H)
    BY DEF Forwards
  <2> DEFINE G == [x \in DOMAIN g |-> IF x = n THEN 0 ELSE H[x]]
  <2>2. G \in [DOMAIN g -> Nat]
    BY <1>3
  <2>3. Descends(g, G)
    BY <2>1, <1>3 DEF Descends, Forwards
  <2> QED
    BY <2>2, <2>3
<1>6. Forwards(g)
  BY <1>3, <1>4, <1>5 DEF Forwards
<1>7. \A x \in DOMAIN f : f[x] \in DOMAIN f /\ Get(f, f[x]) = Get(f, x) /\ (f[x] = x => Get(f, x) = x)
  BY GetGives DEF Forwards
<1> DEFINE R == [x \in DOMAIN g |-> IF x = n THEN n ELSE Get(f, x)]
<1>8. \A x \in DOMAIN g : R[g[x]] = R[x] /\ (g[x] = x => R[x] = x)
  BY <1>3, <1>4, <1>7
<1>9. \A x \in DOMAIN g : Get(g, x) = R[x]
  <2> HIDE DEF R
  <2> QED BY <1>6, <1>8, GetIs
<1> QED
  BY <1>1, <1>3, <1>6, <1>9

(* To forward x to an object that is its own makes that the end of every   *)
(* chain that had the end of x, and leaves the other chains their ends.    *)
LEMMA ForwardToIs ==
  ASSUME NEW f, Forwards(f), NEW x \in DOMAIN f, NEW dest \in DOMAIN f, f[dest] = dest
  PROVE  LET g == ForwardTo(f, x, dest) IN
         /\ Forwards(g) /\ DOMAIN g = DOMAIN f /\ Len(g) = Len(f) /\ g[dest] = dest
         /\ \A y \in DOMAIN f : Get(g, y) = IF Get(f, y) = Get(f, x) THEN dest ELSE Get(f, y)
<1>1. PICK g : g = ForwardTo(f, x, dest)
  OBVIOUS
<1>2. PICK C : C = Chain(f, x)
  OBVIOUS
<1>3. PICK r : r = Get(f, x)
  OBVIOUS
<1> DEFINE e == [y \in DOMAIN f |-> Get(f, y)]
<1>4. Get(f, dest) = dest
  BY GetGives
<1>5. /\ DOMAIN g = DOMAIN f
      /\ \A y \in DOMAIN f : g[y] = IF y \notin C THEN f[y] ELSE dest
  <2>1. g = [y \in DOMAIN f |-> IF y \notin C THEN f[y] ELSE dest]
    BY <1>1, <1>2, <1>4 DEF ForwardTo
  <2> QED
    BY <2>1
<1>6. /\ \A y \in DOMAIN f : f[y] \in DOMAIN f /\ e[y] \in DOMAIN f /\ f[e[y]] = e[y] /\ e[f[y]] = e[y]
      /\ \A y \in DOMAIN f : f[y] = y => e[y] = y
      /\ \A y \in C : y \in DOMAIN f /\ e[y] = r
      /\ r \in C /\ r \in DOMAIN f /\ f[r] = r
  <2>1. \A y \in DOMAIN f : f[y] \in DOMAIN f
    BY DEF Forwards
  <2>2. /\ \A y \in DOMAIN f : e[y] \in DOMAIN f /\ f[e[y]] = e[y] /\ e[f[y]] = e[y]
        /\ \A y \in DOMAIN f : f[y] = y => e[y] = y
    BY <2>1, GetGives
  <2>3. /\ \A y \in C : y \in DOMAIN f /\ e[y] = r
        /\ r \in C /\ r \in DOMAIN f /\ f[r] = r
    BY <1>2, <1>3, ChainEnds, GetGives
  <2> QED
    BY <2>1, <2>2, <2>3
<1>7. e[dest] = dest
  BY <1>4
<1>8. \A y \in DOMAIN f : Get(f, y) = e[y]
  OBVIOUS
<1> HIDE DEF e
<1>9. /\ Len(f) \in Nat /\ DOMAIN f = 1..Len(f) /\ dest \in Nat
      /\ \A y \in DOMAIN f : f[y] \in Nat
  <2>1. Len(f) \in Nat /\ DOMAIN f = 1..Len(f) /\ f \in [1..Len(f) -> 1..Len(f)]
    BY ForwardsIs
  <2> QED
    BY <2>1
<1>10. g \in Seq(Nat) /\ Len(g) = Len(f)
  <2>1. g \in [1..Len(f) -> Nat]
    <3>1. g = [y \in DOMAIN f |-> g[y]]
      BY <1>1 DEF ForwardTo
    <3> QED
      BY <3>1, <1>5, <1>9
  <2> QED
    BY <2>1, <1>9
<1>11. \A y \in DOMAIN g : g[y] \in DOMAIN g
  BY <1>5, <1>6
<1>12. \E H \in [DOMAIN g -> Nat] : Descends(g, H)
  <2>1. PICK H \in [DOMAIN f -> Nat] : Descends(f, H)
    BY DEF Forwards
  <2> DEFINE G == [y \in DOMAIN g |-> IF e[y] = r /\ y # dest THEN H[y] + H[dest] + 1 ELSE H[y]]
  <2>2. G \in [DOMAIN g -> Nat]
    BY <1>5
  <2>3. ASSUME NEW y \in DOMAIN g, g[y] # y PROVE G[g[y]] < G[y]
    <3>1. CASE y \in C
      <4>1. g[y] = dest /\ y # dest /\ e[y] = r
        BY <3>1, <2>3, <1>5, <1>6
      <4>2. G[y] = H[y] + H[dest] + 1 /\ G[dest] = H[dest] /\ H[y] \in Nat /\ H[dest] \in Nat
        BY <4>1, <1>5
      <4> QED
        BY <4>1, <4>2
    <3>2. CASE y \notin C
      <4>1. g[y] = f[y] /\ f[y] # y /\ y # dest /\ e[f[y]] = e[y] /\ f[y] \in DOMAIN f
        BY <3>2, <2>3, <1>5, <1>6
      <4>2. H[f[y]] < H[y] /\ H[y] \in Nat /\ H[f[y]] \in Nat /\ H[dest] \in Nat
        BY <4>1, <2>1, <1>5 DEF Descends
      <4>3. G[y] = IF e[y] = r THEN H[y] + H[dest] + 1 ELSE H[y]
        BY <4>1
      <4>4. G[f[y]] = IF e[y] = r /\ f[y] # dest THEN H[f[y]] + H[dest] + 1 ELSE H[f[y]]
        BY <4>1, <1>5
      <4>5. G[f[y]] < G[y]
        BY <4>2, <4>3, <4>4
      <4> QED
        BY <4>1, <4>5
    <3> QED
      BY <3>1, <3>2
  <2>4. Descends(g, G)
    <3> HIDE DEF G
    <3> QED BY <2>3 DEF Descends
  <2> QED
    BY <2>2, <2>4
<1>13. Forwards(g)
  BY <1>10, <1>11, <1>12 DEF Forwards
<1> DEFINE R == [y \in DOMAIN f |-> IF e[y] = r THEN dest ELSE e[y]]
<1>14. g[dest] = dest
  BY <1>5
<1>15. ASSUME NEW y \in DOMAIN g PROVE R[g[y]] = R[y] /\ (g[y] = y => R[y] = y)
  <2>1. CASE y \in C
    <3>1. g[y] = dest /\ R[y] = dest /\ R[dest] = dest
      BY <2>1, <1>5, <1>6, <1>7
    <3> QED
      BY <3>1
  <2>2. CASE y \notin C
    <3>1. g[y] = f[y] /\ e[f[y]] = e[y] /\ f[y] \in DOMAIN f
      BY <2>2, <1>5, <1>6
    <3>2. f[y] = y => e[y] = y /\ e[y] # r
      BY <2>2, <1>5, <1>6
    <3> QED
      BY <3>1, <3>2, <1>5
  <2> QED
    BY <2>1, <2>2
<1>16. \A y \in DOMAIN g : Get(g, y) = R[y]
  <2> HIDE DEF R
  <2> QED BY <1>13, <1>15, GetIs
<1> QED
  BY <1>1, <1>3, <1>5, <1>8, <1>10, <1>13, <1>14, <1>16
-----------------------------------------------------------------------------
(* Lists.                                                                  *)

LEMMA ListIs ==
  ASSUME NEW s, IsList(s)
  PROVE  Len(s) \in Nat /\ DOMAIN s = 1..Len(s)
BY DEF IsList

LEMMA ListAppend ==
  ASSUME NEW s, IsList(s), NEW e
  PROVE  /\ IsList(Append(s, e)) /\ Len(Append(s, e)) = Len(s) + 1
         /\ Append(s, e)[Len(s) + 1] = e /\ \A k \in DOMAIN s : Append(s, e)[k] = s[k]
<1>1. PICK V : V = Range(s) \cup {e}
  OBVIOUS
<1>2. Len(s) \in Nat /\ DOMAIN s = 1..Len(s) /\ \A k \in DOMAIN s : s[k] \in V
  BY <1>1 DEF IsList, Range
<1>3. s \in Seq(V) /\ e \in V
  <2>1. s = [k \in 1..Len(s) |-> s[k]]
    BY DEF IsList
  <2>2. s \in [1..Len(s) -> V]
    BY <1>2, <2>1
  <2> QED
    BY <1>1, <1>2, <2>2
<1>4. PICK t : t = Append(s, e)
  OBVIOUS
<1>5. /\ t \in Seq(V) /\ Len(t) = Len(s) + 1 /\ t[Len(s) + 1] = e
      /\ \A k \in DOMAIN s : t[k] = s[k]
  BY <1>2, <1>3, <1>4
<1>6. t \in Seq(Range(t))
  <2>1. Len(t) \in Nat /\ DOMAIN t = 1..Len(t) /\ t = [k \in 1..Len(t) |-> t[k]]
    BY <1>5
  <2>2. \A k \in 1..Len(t) : t[k] \in Range(t)
    BY <2>1 DEF Range
  <2>3. t \in [1..Len(t) -> Range(t)]
    BY <2>1, <2>2
  <2> QED
    BY <2>1, <2>3
<1> QED
  BY <1>4, <1>5, <1>6 DEF IsList

(* A list whose items are replaced is as long a list.                      *)
LEMMA ListReplace ==
  ASSUME NEW s, IsList(s), NEW t, t = [k \in DOMAIN s |-> t[k]]
  PROVE  IsList(t) /\ Len(t) = Len(s) /\ DOMAIN t = DOMAIN s
<1>1. Len(s) \in Nat /\ DOMAIN s = 1..Len(s) /\ DOMAIN t = DOMAIN s
  BY ListIs
<1>2. \A k \in DOMAIN t : t[k] \in Range(t)
  BY DEF Range
<1>3. PICK n \in Nat : n = Len(s)
  BY <1>1
<1>4. t \in [1..n -> Range(t)]
  BY <1>1, <1>2, <1>3
<1>5. t \in Seq(Range(t)) /\ Len(t) = n
  BY <1>4
<1> QED
  BY <1>1, <1>3, <1>5 DEF IsList
-----------------------------------------------------------------------------
(* External variables.                                                     *)

External(k) == cfg.external_vars[k]

(* What joins two entries is an equivalence.                               *)
LEMMA LinkedIs ==
  /\ \A j, k, l \in Entries : Linked(j, k) /\ Linked(k, l) => Linked(j, l)
  /\ \A j, k \in Entries : Linked(j, k) => Linked(k, j)
  /\ \A j, k \in Entries : SameThing(j, k) => Linked(j, k)
  /\ \A j \in Entries : Linked(j, j)
<1>1. \A j, k, l \in Entries : Linked(j, k) /\ Linked(k, l) => Linked(j, l)
  BY DEF Linked
<1>2. \A j, k \in Entries : SameThing(j, k) => Linked(j, k)
  BY DEF Linked
<1>3. \A j \in Entries : Linked(j, j)
  BY DEF Linked
<1>4. ASSUME NEW j \in Entries, NEW k \in Entries, Linked(j, k) PROVE Linked(k, j)
  <2> SUFFICES ASSUME NEW C \in SUBSET Entries, k \in C,
                      \A x \in C, y \in Entries : SameThing(x, y) => y \in C,
                      j \notin C
               PROVE  FALSE
    BY DEF Linked
  <2>1. PICK D : D = Entries \ C
    OBVIOUS
  <2>2. \A x, y \in Entries : SameThing(x, y) => SameThing(y, x)
    BY DEF SameThing
  <2>3. \A x \in D, y \in Entries : SameThing(x, y) => y \in D
    BY <2>1, <2>2
  <2>4. D \in SUBSET Entries /\ j \in D
    BY <2>1
  <2>5. k \in D
    BY <1>4, <2>3, <2>4 DEF Linked
  <2> QED
    BY <2>1, <2>5
<1> QED
  BY <1>1, <1>2, <1>3, <1>4

(* What all that is joined in one step has in common, all linked have.     *)
LEMMA LinkedKeeps ==
  ASSUME NEW R, \A j, k \in Entries : SameThing(j, k) => R[j] = R[k]
  PROVE  \A j, k \in Entries : Linked(j, k) => R[j] = R[k]
<1> TAKE j, k \in Entries
<1>1. PICK C : C = {x \in Entries : R[x] = R[j]}
  OBVIOUS
<1>2. C \in SUBSET Entries /\ j \in C /\ \A x \in C, y \in Entries : SameThing(x, y) => y \in C
  BY <1>1
<1> QED
  BY <1>1, <1>2 DEF Linked

LEMMA LinkedSame ==
  ASSUME UNCHANGED <<cfg, ea_to_func>>
  PROVE  /\ Entries' = Entries
         /\ \A k : External(k)' = External(k)
         /\ \A j, k : Linked(j, k)' <=> Linked(j, k)
<1>1. Entries' = Entries /\ \A k : External(k)' = External(k)
  BY DEF Entries, External
<1>2. \A j, k : SameThing(j, k)' <=> SameThing(j, k)
  BY DEF SameThing
<1>3. \A j, k : Linked(j, k)' <=> Linked(j, k)
  BY <1>1, <1>2 DEF Linked
<1> QED
  BY <1>1, <1>3
-----------------------------------------------------------------------------
(* The variable that an address leads to.                                  *)
Root(ea) == Get(var_forward, ea_to_var[ea])

(* The loop over the external variables has made the entries below at into *)
(* variables. The segment at an address and the table of names lead to the *)
(* same variable as the address, and only linked entries share one.        *)
Seen == {k \in Entries : k < at}
Lists == IsList(variables) /\ Forwards(var_forward) /\ Len(var_forward) = Len(variables)
ByAddress ==
  /\ DOMAIN ea_to_var = {External(k).ea : k \in Seen} /\ DOMAIN ea_to_seg = DOMAIN ea_to_var
  /\ \A ea \in DOMAIN ea_to_var : ea_to_var[ea] \in DOMAIN var_forward
  /\ \A ea \in DOMAIN ea_to_seg :
       /\ ea_to_seg[ea] \in DOMAIN segs /\ segs[ea_to_seg[ea]].ea = ea
       /\ segs[ea_to_seg[ea]].as_extern_var \in DOMAIN var_forward
       /\ Get(var_forward, segs[ea_to_seg[ea]].as_extern_var) = Root(ea)
ByName ==
  /\ DOMAIN name_to_extern_var = {External(k).name : k \in Seen}
  /\ \A k \in Seen :
       /\ name_to_extern_var[External(k).name] \in DOMAIN var_forward
       /\ Get(var_forward, name_to_extern_var[External(k).name]) = Root(External(k).ea)
OnlyLinked == \A j, k \in Seen : Root(External(j).ea) = Root(External(k).ea) => Linked(j, k)
Joining == at \in Nat \ {0} /\ IsList(segs) /\ Lists /\ ByAddress /\ ByName /\ OnlyLinked

(* The chains that a new variable joins.                                   *)
Joins(x, ea, name) ==
  \/ ea \in DOMAIN ea_to_seg /\ Get(var_forward, x) = Get(var_forward, segs[ea_to_seg[ea]].as_extern_var)
  \/ name \in DOMAIN name_to_extern_var /\ Get(var_forward, x) = Get(var_forward, name_to_extern_var[name])

Joinable(ea, name) ==
  /\ Lists
  /\ ea \in DOMAIN ea_to_seg => segs[ea_to_seg[ea]].as_extern_var \in DOMAIN var_forward
  /\ name \in DOMAIN name_to_extern_var => name_to_extern_var[name] \in DOMAIN var_forward
Joined(g, v, ea, name) ==
  /\ Forwards(g) /\ DOMAIN g = DOMAIN var_forward \cup {v} /\ Len(g) = v
  /\ v \notin DOMAIN var_forward /\ Get(g, v) = v
  /\ \A x \in DOMAIN var_forward :
       Get(g, x) = IF Joins(x, ea, name) THEN v ELSE Get(var_forward, x)

LEMMA ForwardedIs ==
  ASSUME NEW ea, NEW name, NEW v, v = Len(variables) + 1, Joinable(ea, name)
  PROVE  Joined(ForwardedVariables(ea, name, v), v, ea, name)
<1>1. PICK f : f = var_forward /\ Forwards(f) /\ v = Len(f) + 1
  BY DEF Joinable, Lists
<1>2. PICK f1 : f1 = Append(f, v)
  OBVIOUS
<1>3. /\ Forwards(f1) /\ DOMAIN f1 = DOMAIN f \cup {v} /\ v \notin DOMAIN f /\ Len(f1) = v
      /\ f1[v] = v /\ Get(f1, v) = v
      /\ \A x \in DOMAIN f : Get(f1, x) = Get(f, x)
  BY <1>1, <1>2, AppendIs
<1>4. PICK a : a = segs[ea_to_seg[ea]].as_extern_var
  OBVIOUS
<1>5. PICK b : b = name_to_extern_var[name]
  OBVIOUS
<1>6. PICK f2 : f2 = IF ea \in DOMAIN ea_to_seg THEN ForwardTo(f1, a, v) ELSE f1
  OBVIOUS
<1>7. PICK f3 : f3 = IF name \in DOMAIN name_to_extern_var THEN ForwardTo(f2, b, v) ELSE f2
  OBVIOUS
<1>8. f3 = ForwardedVariables(ea, name, v)
  BY <1>1, <1>2, <1>4, <1>5, <1>6, <1>7 DEF ForwardedVariables
<1>9. \A x \in DOMAIN f : Get(f, x) \in DOMAIN f
  BY <1>1, GetGives
<1>10. /\ Forwards(f2) /\ DOMAIN f2 = DOMAIN f1 /\ Len(f2) = v /\ f2[v] = v /\ Get(f2, v) = v
       /\ \A x \in DOMAIN f : Get(f2, x) =
            IF ea \in DOMAIN ea_to_seg /\ Get(f, x) = Get(f, a) THEN v ELSE Get(f, x)
  <2>1. CASE ea \in DOMAIN ea_to_seg
    <3>1. a \in DOMAIN f /\ a \in DOMAIN f1 /\ v \in DOMAIN f1 /\ f2 = ForwardTo(f1, a, v)
      BY <2>1, <1>1, <1>3, <1>4, <1>6 DEF Joinable
    <3>2. /\ Forwards(f2) /\ DOMAIN f2 = DOMAIN f1 /\ Len(f2) = Len(f1) /\ f2[v] = v
          /\ \A y \in DOMAIN f1 : Get(f2, y) = IF Get(f1, y) = Get(f1, a) THEN v ELSE Get(f1, y)
      BY <3>1, <1>3, ForwardToIs
    <3>3. Get(f2, v) = v
      BY <3>2, <1>3
    <3> QED
      BY <2>1, <3>1, <3>2, <3>3, <1>3
  <2>2. CASE ea \notin DOMAIN ea_to_seg
    BY <2>2, <1>3, <1>6
  <2> QED
    BY <2>1, <2>2
<1>11. /\ Forwards(f3) /\ DOMAIN f3 = DOMAIN f1 /\ Len(f3) = v /\ Get(f3, v) = v
       /\ \A x \in DOMAIN f : Get(f3, x) =
            IF name \in DOMAIN name_to_extern_var /\ Get(f2, x) = Get(f2, b) THEN v ELSE Get(f2, x)
  <2>1. CASE name \in DOMAIN name_to_extern_var
    <3>1. b \in DOMAIN f /\ b \in DOMAIN f2 /\ v \in DOMAIN f2 /\ f3 = ForwardTo(f2, b, v)
      BY <2>1, <1>1, <1>3, <1>5, <1>7, <1>10 DEF Joinable
    <3>2. /\ Forwards(f3) /\ DOMAIN f3 = DOMAIN f2 /\ Len(f3) = Len(f2) /\ f3[v] = v
          /\ \A y \in DOMAIN f2 : Get(f3, y) = IF Get(f2, y) = Get(f2, b) THEN v ELSE Get(f2, y)
      BY <3>1, <1>10, ForwardToIs
    <3>3. Get(f3, v) = v
      BY <3>2, <1>10, <1>3
    <3> QED
      BY <2>1, <3>1, <3>2, <3>3, <1>10, <1>3
  <2>2. CASE name \notin DOMAIN name_to_extern_var
    BY <2>2, <1>10, <1>7
  <2> QED
    BY <2>1, <2>2
<1>12. name \in DOMAIN name_to_extern_var => b \in DOMAIN f
  BY <1>1, <1>5 DEF Joinable
<1>13. ASSUME NEW x \in DOMAIN f PROVE Get(f3, x) = IF Joins(x, ea, name) THEN v ELSE Get(f, x)
  <2>1. Joins(x, ea, name) <=>
          \/ ea \in DOMAIN ea_to_seg /\ Get(f, x) = Get(f, a)
          \/ name \in DOMAIN name_to_extern_var /\ Get(f, x) = Get(f, b)
    BY <1>1, <1>4, <1>5 DEF Joins
  <2>2. Get(f, x) # v /\ (name \in DOMAIN name_to_extern_var => Get(f, b) # v)
    BY <1>3, <1>9, <1>12
  <2> QED
    BY <2>1, <2>2, <1>10, <1>11, <1>12
<1> QED
  BY <1>1, <1>3, <1>8, <1>11, <1>13 DEF Joined

(* Entry at becomes a variable.                                            *)
LEMMA JoiningAdds ==
  ASSUME Joining, IsList(cfg.external_vars), at \in Entries, AddExternalVariable(External(at)),
         at' = at + 1, UNCHANGED <<cfg, ea_to_func>>
  PROVE  Joining'
<1>1. PICK ea : ea = External(at).ea
  OBVIOUS
<1>2. PICK name : name = External(at).name
  OBVIOUS
<1>3. PICK v : v = Len(variables) + 1
  OBVIOUS
<1>4. PICK s : s = Len(segs) + 1
  OBVIOUS
<1>5. /\ at \in Nat /\ IsList(segs) /\ IsList(variables) /\ Lists
      /\ Seen \subseteq Entries /\ at \notin Seen /\ Seen' = Seen \cup {at}
      /\ \A k : External(k)' = External(k)
      /\ \A j, k : Linked(j, k)' <=> Linked(j, k)
  <2>1. at \in Nat /\ IsList(segs) /\ IsList(variables) /\ Lists
    BY DEF Joining, Lists
  <2>2. /\ Entries' = Entries /\ (\A k : External(k)' = External(k))
        /\ \A j, k : Linked(j, k)' <=> Linked(j, k)
    BY LinkedSame
  <2>3. \A k \in Entries : k \in Nat
    BY ListIs DEF Entries
  <2>4. \A k \in Entries : k < at + 1 <=> k < at \/ k = at
    BY <2>1, <2>3
  <2>5. Seen' = {k \in Entries : k < at + 1}
    BY <2>2 DEF Seen
  <2>6. at \notin Seen /\ Seen \subseteq Entries
    BY <2>1 DEF Seen
  <2>7. Seen' = Seen \cup {at}
    BY <2>4, <2>5 DEF Seen
  <2> QED
    BY <2>1, <2>2, <2>6, <2>7
<1>6. /\ ea_to_var' = Put(ea_to_var, ea, v) /\ ea_to_seg' = Put(ea_to_seg, ea, s)
      /\ name_to_extern_var' = Put(name_to_extern_var, name, v)
      /\ var_forward' = ForwardedVariables(ea, name, v)
      /\ \E q : variables' = Append(variables, q)
  BY <1>1, <1>2, <1>3, <1>4 DEF AddExternalVariable
<1>30. /\ DOMAIN ea_to_var' = DOMAIN ea_to_var \cup {ea} /\ ea_to_var'[ea] = v
       /\ \A e \in DOMAIN ea_to_var : e # ea => ea_to_var'[e] = ea_to_var[e]
  <2>1. ea_to_var' = Put(ea_to_var, ea, v)
    BY <1>6
  <2> QED
    BY <2>1 DEF Put
<1>31. /\ DOMAIN ea_to_seg' = DOMAIN ea_to_seg \cup {ea} /\ ea_to_seg'[ea] = s
       /\ \A e \in DOMAIN ea_to_seg : e # ea => ea_to_seg'[e] = ea_to_seg[e]
  <2>1. ea_to_seg' = Put(ea_to_seg, ea, s)
    BY <1>6
  <2> QED
    BY <2>1 DEF Put
<1>32. /\ DOMAIN name_to_extern_var' = DOMAIN name_to_extern_var \cup {name} /\ name_to_extern_var'[name] = v
       /\ \A n \in DOMAIN name_to_extern_var : n # name => name_to_extern_var'[n] = name_to_extern_var[n]
  <2>1. name_to_extern_var' = Put(name_to_extern_var, name, v)
    BY <1>6
  <2> QED
    BY <2>1 DEF Put
<1>7. /\ IsList(segs') /\ s \in DOMAIN segs' /\ segs'[s].ea = ea /\ segs'[s].as_extern_var = v
      /\ DOMAIN segs \subseteq DOMAIN segs' /\ s \notin DOMAIN segs
      /\ \A k \in DOMAIN segs : (ea \in DOMAIN ea_to_seg => k # ea_to_seg[ea]) => segs'[k] = segs[k]
  <2>1. PICK t : t = IF ea \in DOMAIN ea_to_seg
                     THEN [segs EXCEPT ![ea_to_seg[ea]].as_extern_var = v] ELSE segs
    OBVIOUS
  <2>2. \E q : q.ea = ea /\ q.as_extern_var = v /\ segs' = Append(t, q)
    <3> DEFINE item == External(at)
               old == ea_to_seg[item.ea]
               q == [ea |-> item.ea, name |-> item.name,
                     size |-> IF item.ea \in DOMAIN ea_to_seg /\ segs[old].size > item.size
                              THEN segs[old].size ELSE item.size,
                     is_external |-> TRUE, is_exported |-> FALSE,
                     is_thread_local |-> item.is_thread_local, is_read_only |-> FALSE,
                     as_extern_var |-> v, entries |-> << >>]
    <3>1. segs' = Append(t, q)
      BY <1>1, <1>3, <2>1 DEF AddExternalVariable
    <3>2. q.ea = ea /\ q.as_extern_var = v
      BY <1>1
    <3> HIDE DEF q
    <3> QED
      BY <3>1, <3>2
  <2>3. PICK q : q.ea = ea /\ q.as_extern_var = v /\ segs' = Append(t, q)
    BY <2>2
  <2>4. /\ t = [k \in DOMAIN segs |-> t[k]]
        /\ \A k \in DOMAIN segs : (ea \in DOMAIN ea_to_seg => k # ea_to_seg[ea]) => t[k] = segs[k]
    <3>1. segs = [k \in DOMAIN segs |-> segs[k]]
      BY <1>5 DEF IsList
    <3>2. CASE ea \in DOMAIN ea_to_seg
      <4>1. t = [k \in DOMAIN segs |-> IF k = ea_to_seg[ea]
                   THEN [segs[k] EXCEPT !.as_extern_var = v] ELSE segs[k]]
        BY <2>1, <3>2
      <4> QED
        BY <3>2, <4>1
    <3>3. CASE ea \notin DOMAIN ea_to_seg
      BY <2>1, <3>1, <3>3
    <3> QED
      BY <3>2, <3>3
  <2>5. IsList(t) /\ Len(t) = Len(segs) /\ DOMAIN t = DOMAIN segs
    BY <2>4, <1>5, ListReplace
  <2>6. /\ IsList(segs') /\ Len(segs') = Len(t) + 1 /\ segs'[Len(t) + 1] = q
        /\ \A k \in DOMAIN t : segs'[k] = t[k]
    BY <2>3, <2>5, ListAppend
  <2>7. DOMAIN segs' = 1..Len(segs') /\ DOMAIN segs = 1..Len(segs) /\ Len(segs) \in Nat
    BY <1>5, <2>6, ListIs
  <2> QED
    BY <2>3, <2>4, <2>5, <2>6, <2>7, <1>4
<1>8. IsList(variables') /\ Len(variables') = v
  BY <1>3, <1>5, <1>6, ListAppend
<1>9. /\ Forwards(var_forward') /\ DOMAIN var_forward' = DOMAIN var_forward \cup {v}
      /\ Len(var_forward') = v /\ v \notin DOMAIN var_forward /\ Get(var_forward', v) = v
      /\ \A x \in DOMAIN var_forward :
           Get(var_forward', x) = IF Joins(x, ea, name) THEN v ELSE Get(var_forward, x)
  <2>1. ea \in DOMAIN ea_to_seg => segs[ea_to_seg[ea]].as_extern_var \in DOMAIN var_forward
    BY DEF Joining, ByAddress
  <2>2. name \in DOMAIN name_to_extern_var => name_to_extern_var[name] \in DOMAIN var_forward
    BY DEF Joining, ByName
  <2> QED
    <3>1. Joinable(ea, name)
      BY <1>5, <2>1, <2>2 DEF Joinable
    <3>2. Joined(ForwardedVariables(ea, name, v), v, ea, name)
      BY <1>3, <3>1, ForwardedIs
    <3>3. Joined(var_forward', v, ea, name)
      BY <1>6, <3>2
    <3> QED
      BY <3>3 DEF Joined
<1>10. Lists'
  BY <1>8, <1>9 DEF Lists
<1> DEFINE J(k) == Joins(ea_to_var[External(k).ea], ea, name)
<1>11. \A k \in Seen : External(k).ea \in DOMAIN ea_to_var /\ ea_to_var[External(k).ea] \in DOMAIN var_forward
  BY DEF Joining, ByAddress
<1>12. \A e \in DOMAIN ea_to_var : ea_to_var[e] \in DOMAIN var_forward
  BY DEF Joining, ByAddress
<1>13. ASSUME NEW e \in DOMAIN ea_to_var
       PROVE  Root(e)' = IF Joins(ea_to_var[e], ea, name) THEN v ELSE Root(e)
  <2>1. CASE e = ea
    <3>1. ea \in DOMAIN ea_to_seg /\ Root(e) = Get(var_forward, segs[ea_to_seg[ea]].as_extern_var)
      BY <2>1 DEF Joining, ByAddress
    <3>2. Joins(ea_to_var[e], ea, name)
      BY <3>1 DEF Joins, Root
    <3>3. Root(e)' = v
      BY <2>1, <1>30, <1>9 DEF Root
    <3> QED
      BY <3>2, <3>3
  <2>2. CASE e # ea
    <3>1. ea_to_var'[e] = ea_to_var[e]
      BY <2>2, <1>30
    <3> QED
      BY <3>1, <1>9, <1>12 DEF Root
  <2> QED
    BY <2>1, <2>2
<1>14. Root(ea)' = v
  BY <1>30, <1>9 DEF Root
<1>15. \A e \in DOMAIN ea_to_var : Root(e) # v /\ Root(e) \in DOMAIN var_forward
  <2>1. \A x \in DOMAIN var_forward : Get(var_forward, x) \in DOMAIN var_forward
    BY <1>5, GetGives DEF Lists
  <2> QED
    BY <2>1, <1>9, <1>12 DEF Root
<1>16. ASSUME NEW k \in Seen, J(k) PROVE Linked(k, at)
  <2>1. CASE ea \in DOMAIN ea_to_seg /\ Root(External(k).ea) = Get(var_forward, segs[ea_to_seg[ea]].as_extern_var)
    <3>1. PICK j \in Seen : External(j).ea = ea /\ Root(External(k).ea) = Root(External(j).ea)
      BY <2>1 DEF Joining, ByAddress
    <3>2. Linked(k, j) /\ SameThing(j, at)
      BY <3>1, <1>1 DEF Joining, OnlyLinked, SameThing, External
    <3> QED
      BY <3>1, <3>2, <1>5, LinkedIs
  <2>2. CASE /\ name \in DOMAIN name_to_extern_var
             /\ Root(External(k).ea) = Get(var_forward, name_to_extern_var[name])
    <3>1. PICK j \in Seen : External(j).name = name /\ Root(External(k).ea) = Root(External(j).ea)
      BY <2>2 DEF Joining, ByName
    <3>2. Linked(k, j) /\ SameThing(j, at)
      BY <3>1, <1>2 DEF Joining, OnlyLinked, SameThing, External
    <3> QED
      BY <3>1, <3>2, <1>5, LinkedIs
  <2> QED
    BY <1>16, <2>1, <2>2 DEF Joins, Root
<1>17. ByAddress'
  <2>1. /\ DOMAIN ea_to_var = {External(k).ea : k \in Seen} /\ DOMAIN ea_to_seg = DOMAIN ea_to_var
        /\ \A e \in DOMAIN ea_to_seg :
             /\ ea_to_seg[e] \in DOMAIN segs /\ segs[ea_to_seg[e]].ea = e
             /\ segs[ea_to_seg[e]].as_extern_var \in DOMAIN var_forward
             /\ Get(var_forward, segs[ea_to_seg[e]].as_extern_var) = Root(e)
    BY DEF Joining, ByAddress
  <2>2. /\ DOMAIN ea_to_var' = DOMAIN ea_to_var \cup {ea} /\ DOMAIN ea_to_seg' = DOMAIN ea_to_seg \cup {ea}
        /\ ea_to_var'[ea] = v /\ ea_to_seg'[ea] = s
        /\ \A e \in DOMAIN ea_to_var : e # ea => ea_to_var'[e] = ea_to_var[e]
        /\ \A e \in DOMAIN ea_to_seg : e # ea => ea_to_seg'[e] = ea_to_seg[e]
    BY <1>30, <1>31
  <2>3. DOMAIN ea_to_var' = {External(k)'.ea : k \in Seen'}
    BY <2>1, <2>2, <1>1, <1>5
  <2>4. \A e \in DOMAIN ea_to_var' : ea_to_var'[e] \in DOMAIN var_forward'
    BY <2>2, <1>9, <1>12
  <2>5. ASSUME NEW e \in DOMAIN ea_to_seg'
        PROVE  /\ ea_to_seg'[e] \in DOMAIN segs' /\ segs'[ea_to_seg'[e]].ea = e
               /\ segs'[ea_to_seg'[e]].as_extern_var \in DOMAIN var_forward'
               /\ Get(var_forward', segs'[ea_to_seg'[e]].as_extern_var) = Root(e)'
    <3>1. CASE e = ea
      BY <3>1, <2>2, <1>7, <1>9, <1>14
    <3>2. CASE e # ea
      <4>1. e \in DOMAIN ea_to_seg /\ e \in DOMAIN ea_to_var /\ ea_to_seg'[e] = ea_to_seg[e]
        BY <3>2, <2>1, <2>2
      <4>2. ea \in DOMAIN ea_to_seg => ea_to_seg[e] # ea_to_seg[ea]
        BY <4>1, <3>2, <2>1
      <4>3. segs'[ea_to_seg'[e]] = segs[ea_to_seg[e]] /\ ea_to_seg'[e] \in DOMAIN segs'
        BY <4>1, <4>2, <2>1, <1>7
      <4>4. PICK x : x = segs[ea_to_seg[e]].as_extern_var
        OBVIOUS
      <4>5. x \in DOMAIN var_forward /\ Get(var_forward, x) = Root(e)
        BY <4>1, <4>4, <2>1
      <4>6. Joins(x, ea, name) <=> Joins(ea_to_var[e], ea, name)
        BY <4>5 DEF Joins, Root
      <4>7. Get(var_forward', x) = Root(e)'
        BY <4>1, <4>5, <4>6, <1>9, <1>13
      <4> QED
        BY <4>1, <4>3, <4>4, <4>5, <4>7, <2>1, <1>9
    <3> QED
      BY <3>1, <3>2
  <2>6. DOMAIN ea_to_seg' = DOMAIN ea_to_var'
    BY <2>1, <2>2
  <2> QED
    BY <2>3, <2>4, <2>5, <2>6 DEF ByAddress
<1>18. ByName'
  <2>1. /\ DOMAIN name_to_extern_var = {External(k).name : k \in Seen}
        /\ \A k \in Seen :
             /\ name_to_extern_var[External(k).name] \in DOMAIN var_forward
             /\ Get(var_forward, name_to_extern_var[External(k).name]) = Root(External(k).ea)
    BY DEF Joining, ByName
  <2>2. /\ DOMAIN name_to_extern_var' = DOMAIN name_to_extern_var \cup {name} /\ name_to_extern_var'[name] = v
        /\ \A n \in DOMAIN name_to_extern_var : n # name => name_to_extern_var'[n] = name_to_extern_var[n]
    BY <1>32
  <2>3. DOMAIN name_to_extern_var' = {External(k)'.name : k \in Seen'}
    BY <2>1, <2>2, <1>2, <1>5
  <2>4. ASSUME NEW k \in Seen'
        PROVE  /\ name_to_extern_var'[External(k).name] \in DOMAIN var_forward'
               /\ Get(var_forward', name_to_extern_var'[External(k).name]) = Root(External(k).ea)'
    <3>1. CASE k = at
      <4>1. External(k).ea = ea /\ External(k).name = name
        BY <3>1, <1>1, <1>2
      <4>2. Root(External(k).ea)' = v
        BY <4>1, <1>14, <1>5
      <4> QED
        BY <4>1, <4>2, <2>2, <1>9
    <3>2. CASE k \in Seen /\ External(k).name = name
      <4>1. name \in DOMAIN name_to_extern_var /\ Get(var_forward, name_to_extern_var[name]) = Root(External(k).ea)
        BY <3>2, <2>1
      <4>2. J(k)
        BY <4>1 DEF Joins, Root
      <4>3. Root(External(k).ea)' = v
        BY <3>2, <4>2, <1>5, <1>11, <1>13
      <4> QED
        BY <3>2, <4>3, <2>2, <1>9
    <3>3. CASE k \in Seen /\ External(k).name # name
      <4>1. PICK x : x = name_to_extern_var[External(k).name]
        OBVIOUS
      <4>2. x \in DOMAIN var_forward /\ Get(var_forward, x) = Root(External(k).ea)
        BY <3>3, <4>1, <2>1
      <4>3. name_to_extern_var'[External(k).name] = x
        BY <3>3, <4>1, <2>1, <2>2
      <4>4. Joins(x, ea, name) <=> J(k)
        BY <4>2 DEF Joins, Root
      <4>5. Get(var_forward', x) = Root(External(k).ea)'
        BY <3>3, <4>2, <4>4, <1>5, <1>9, <1>11, <1>13
      <4> QED
        BY <4>2, <4>3, <4>5, <1>9
    <3> QED
      BY <3>1, <3>2, <3>3, <1>5
  <2>5. ASSUME NEW k \in Seen'
        PROVE  /\ name_to_extern_var'[External(k)'.name] \in DOMAIN var_forward'
               /\ Get(var_forward', name_to_extern_var'[External(k)'.name]) = Root(External(k).ea)'
    BY <2>4, <1>5
  <2> QED
    BY <2>3, <2>5 DEF ByName
<1>19. OnlyLinked'
  <2> SUFFICES ASSUME NEW j \in Seen', NEW k \in Seen', Root(External(j).ea)' = Root(External(k).ea)'
               PROVE  Linked(j, k)
    BY <1>5 DEF OnlyLinked
  <2>1. ASSUME NEW i \in Seen', Root(External(i).ea)' = v PROVE Linked(i, at)
    <3>1. CASE i = at
      BY <3>1, LinkedIs
    <3>2. CASE i \in Seen
      <4>1. J(i)
        BY <3>2, <2>1, <1>5, <1>11, <1>13, <1>15
      <4> QED
        BY <3>2, <4>1, <1>16
    <3> QED
      BY <3>1, <3>2, <1>5
  <2>2. ASSUME NEW i \in Seen', Root(External(i).ea)' # v
        PROVE  i \in Seen /\ Root(External(i).ea)' = Root(External(i).ea)
    <3>1. i \in Seen
      BY <2>2, <1>1, <1>5, <1>14
    <3> QED
      BY <3>1, <2>2, <1>5, <1>11, <1>13
  <2>3. CASE Root(External(j).ea)' = v
    <3>1. Linked(j, at) /\ Linked(k, at) /\ j \in Entries /\ k \in Entries
      BY <2>1, <2>3, <1>5
    <3> QED
      BY <3>1, LinkedIs
  <2>4. CASE Root(External(j).ea)' # v
    BY <2>2, <2>4 DEF Joining, OnlyLinked
  <2> QED
    BY <2>3, <2>4
<1>20. at' \in Nat \ {0}
  BY <1>5
<1> QED
  BY <1>7, <1>10, <1>17, <1>18, <1>19, <1>20 DEF Joining

(* After the loop: linked entries, and only they, lead to one variable.    *)
AllJoined ==
  /\ Lists
  /\ \A ea \in DOMAIN ea_to_var : ea_to_var[ea] \in DOMAIN var_forward
  /\ \A k \in Entries : External(k).ea \in DOMAIN ea_to_var
  /\ \A j, k \in Entries : Linked(j, k) <=> Root(External(j).ea) = Root(External(k).ea)

LEMMA JoiningEnds ==
  ASSUME Joining, IsList(cfg.external_vars), at > Len(cfg.external_vars)
  PROVE  AllJoined
<1>1. Seen = Entries
  BY ListIs DEF Joining, Seen, Entries
<1>2. Lists /\ \A ea \in DOMAIN ea_to_var : ea_to_var[ea] \in DOMAIN var_forward
  BY DEF Joining, ByAddress
<1>3. \A k \in Entries : External(k).ea \in DOMAIN ea_to_var
  BY <1>1 DEF Joining, ByAddress
<1> DEFINE R == [k \in Entries |-> Root(External(k).ea)]
<1>4. \A j, k \in Entries : SameThing(j, k) => R[j] = R[k]
  <2> SUFFICES ASSUME NEW j \in Entries, NEW k \in Entries, SameThing(j, k)
               PROVE  Root(External(j).ea) = Root(External(k).ea)
    OBVIOUS
  <2>1. CASE External(j).ea = External(k).ea
    BY <2>1
  <2>2. CASE External(j).name = External(k).name
    BY <2>2, <1>1 DEF Joining, ByName
  <2> QED
    BY <2>1, <2>2 DEF SameThing, External
<1>5. \A j, k \in Entries : Linked(j, k) => R[j] = R[k]
  <2> HIDE DEF R
  <2> QED BY <1>4, LinkedKeeps
<1>6. \A j, k \in Entries : Root(External(j).ea) = Root(External(k).ea) => Linked(j, k)
  BY <1>1 DEF Joining, OnlyLinked
<1> QED
  BY <1>2, <1>3, <1>5, <1>6 DEF AllJoined
-----------------------------------------------------------------------------
Early == {"functions", "externals"}
Late == {"segments", "xrefs", "blobs", "blocks", "merge"}

VarInv ==
  /\ cfg \in Modules
  /\ pc \in Early \cup {"variables"} \cup Late \cup {"done", "abort"}
  /\ pc \in Early => /\ variables = << >> /\ var_forward = << >> /\ ea_to_var = << >>
                     /\ name_to_extern_var = << >> /\ segs = << >> /\ ea_to_seg = << >>
  /\ pc = "variables" => Joining
  /\ pc \in Late => AllJoined
  /\ SameVariable

(* What a step that makes no variable leaves as it is.                     *)
LEMMA JoinedStays ==
  ASSUME AllJoined, UNCHANGED <<cfg, ea_to_func, variables, var_forward, ea_to_var>>
  PROVE  AllJoined'
<1>1. /\ Entries' = Entries /\ (\A k : External(k)' = External(k))
      /\ \A j, k : Linked(j, k)' <=> Linked(j, k)
  BY LinkedSame
<1>2. \A ea : Root(ea)' = Root(ea)
  BY DEF Root
<1> QED
  BY <1>1, <1>2 DEF AllJoined, Lists

LEMMA NextLoopIs ==
  ASSUME NextLoop
  PROVE  \/ pc = "functions" /\ pc' = "externals"
         \/ pc = "externals" /\ pc' = "variables"
         \/ pc = "variables" /\ pc' = "segments"
         \/ pc = "segments" /\ pc' = "xrefs"
         \/ pc = "xrefs" /\ pc' = "blobs"
         \/ pc = "blobs" /\ pc' = "blocks"
         \/ pc = "blocks" /\ pc' = "merge"
<1>1. PICK k \in 1..7 : pc = Loops[k] /\ pc' = Loops[k + 1]
  BY DEF NextLoop
<1>2. k = 1 \/ k = 2 \/ k = 3 \/ k = 4 \/ k = 5 \/ k = 6 \/ k = 7
  OBVIOUS
<1> QED
  BY <1>1, <1>2 DEF Loops

LEMMA NotDone ==
  ASSUME pc # "done"
  PROVE  SameVariable
BY DEF SameVariable, Done

LEMMA VarNextLoop ==
  ASSUME VarInv, NextLoop
  PROVE  VarInv'
<1>1. UNCHANGED <<cfg, ea_to_func, variables, var_forward, ea_to_var, name_to_extern_var, segs, ea_to_seg>>
  BY DEF NextLoop, function_tables, variable_tables, segment_tables
<1>2. at' = 1 /\ at > Len(List)
  BY DEF NextLoop
<1>3. SameVariable'
  BY NextLoopIs DEF SameVariable, Done
<1>4. cfg \in Modules /\ IsList(cfg.external_vars)
  BY ModulesAssumption DEF VarInv
<1>5. CASE pc = "functions" /\ pc' = "externals"
  BY <1>1, <1>3, <1>5 DEF VarInv, Early, Late
<1>6. CASE pc = "externals" /\ pc' = "variables"
  <2>1. /\ variables' = << >> /\ var_forward' = << >> /\ ea_to_var' = << >>
        /\ name_to_extern_var' = << >> /\ segs' = << >> /\ ea_to_seg' = << >>
    BY <1>1, <1>6 DEF VarInv, Early
  <2>2. Seen' = {}
    <3>1. Entries' \subseteq Nat \ {0}
      BY <1>1, <1>4, ListIs DEF Entries
    <3>2. Seen' = {k \in Entries' : k < 1}
      BY <1>2 DEF Seen
    <3>3. \A k \in Nat \ {0} : ~(k < 1)
      OBVIOUS
    <3> QED
      BY <3>1, <3>2, <3>3
  <2>3. IsList(variables)' /\ IsList(segs)'
    BY <2>1 DEF IsList
  <2>4. Forwards(var_forward)' /\ Len(var_forward)' = Len(variables)'
    <3>1. [x \in {} |-> 0] \in [DOMAIN var_forward' -> Nat]
      BY <2>1
    <3>2. Descends(var_forward', [x \in {} |-> 0])
      BY <2>1 DEF Descends
    <3>3. /\ var_forward' \in Seq(Nat) /\ DOMAIN var_forward' = {}
          /\ Len(var_forward') = 0 /\ Len(variables') = 0
      BY <2>1
    <3> QED
      BY <3>1, <3>2, <3>3 DEF Forwards
  <2>5. ByAddress' /\ ByName' /\ OnlyLinked'
    BY <2>1, <2>2 DEF ByAddress, ByName, OnlyLinked
  <2>6. Joining'
    BY <2>3, <2>4, <2>5, <1>2 DEF Joining, Lists
  <2> QED
    BY <2>6, <1>1, <1>3, <1>4, <1>6 DEF VarInv, Early, Late
<1>7. CASE pc = "variables" /\ pc' = "segments"
  <2>1. at > Len(cfg.external_vars)
    BY <1>2, <1>7 DEF List
  <2>2. AllJoined
    BY <2>1, <1>4, <1>7, JoiningEnds DEF VarInv
  <2>3. AllJoined'
    BY <2>2, <1>1, JoinedStays
  <2> QED
    BY <2>3, <1>1, <1>3, <1>4, <1>7 DEF VarInv, Early, Late
<1>8. CASE pc \in Late /\ pc' \in Late
  <2>1. AllJoined'
    BY <1>1, <1>8, JoinedStays DEF VarInv
  <2> QED
    BY <2>1, <1>1, <1>3, <1>4, <1>8 DEF VarInv, Early, Late
<1> QED
  BY <1>5, <1>6, <1>7, <1>8, NextLoopIs DEF Late

LEMMA VarInit == Init => VarInv
<1> SUFFICES ASSUME Init PROVE VarInv
  OBVIOUS
<1>1. pc = "functions" /\ cfg \in Modules
  BY DEF Init
<1>2. SameVariable
  BY <1>1, NotDone
<1> QED
  BY <1>1, <1>2 DEF Init, VarInv, Early, Late

LEMMA VarEarly ==
  ASSUME VarInv, ReadFunction \/ ReadExternalFunction
  PROVE  VarInv'
<1>1. /\ pc \in Early /\ pc' \in {pc, "abort"}
      /\ UNCHANGED <<cfg, variables, var_forward, ea_to_var, name_to_extern_var, segs, ea_to_seg>>
  BY DEF ReadFunction, ReadExternalFunction, InLoop, NextItem, Abort, variable_tables, segment_tables, Early
<1>2. SameVariable'
  BY <1>1 DEF SameVariable, Done, Early
<1> QED
  BY <1>1, <1>2 DEF VarInv, Early, Late

LEMMA VarVariable ==
  ASSUME VarInv, ReadExternalVariable
  PROVE  VarInv'
<1>1. pc = "variables" /\ at <= Len(cfg.external_vars) /\ Item = External(at)
  BY DEF ReadExternalVariable, InLoop, List, Item, External
<1>2. cfg \in Modules /\ IsList(cfg.external_vars) /\ Joining /\ at \in Nat /\ UNCHANGED <<cfg, ea_to_func>>
  BY <1>1, ModulesAssumption
  DEF VarInv, Joining, ReadExternalVariable, AddExternalVariable, function_tables
<1>3. pc' \in {"variables", "abort"} /\ (pc' = "variables" => at' = at + 1)
  BY <1>1 DEF ReadExternalVariable, AddExternalVariable, NextItem, Abort
<1>4. SameVariable'
  BY <1>3 DEF SameVariable, Done
<1>5. ASSUME pc' = "variables" PROVE Joining'
  <2>1. CASE Item.name = None \/ Item.ea \in DOMAIN ea_to_func
    <3>1. /\ UNCHANGED <<variables, var_forward, ea_to_var, name_to_extern_var, segs, ea_to_seg>>
          /\ at \notin Entries
      BY <2>1, <1>1 DEF ReadExternalVariable, variable_tables, segment_tables, Entries, External
    <3>2. /\ Entries' = Entries /\ (\A k : External(k)' = External(k))
          /\ \A j, k : Linked(j, k)' <=> Linked(j, k)
      BY <1>2, LinkedSame
    <3>3. \A k \in Entries : k \in Nat
      BY <1>2, ListIs DEF Entries
    <3>4. Seen' = Seen
      BY <3>1, <3>2, <3>3, <1>2, <1>3, <1>5 DEF Seen
    <3>5. \A ea : Root(ea)' = Root(ea)
      BY <3>1 DEF Root
    <3>6. ByAddress'
      BY <3>1, <3>2, <3>4, <3>5, <1>2 DEF Joining, ByAddress
    <3>7. ByName'
      BY <3>1, <3>2, <3>4, <3>5, <1>2 DEF Joining, ByName
    <3>8. OnlyLinked'
      BY <3>1, <3>2, <3>4, <3>5, <1>2 DEF Joining, OnlyLinked
    <3> QED
      BY <3>1, <3>6, <3>7, <3>8, <1>2, <1>3, <1>5 DEF Joining, Lists
  <2>2. CASE Item.name # None /\ Item.ea \notin DOMAIN ea_to_func
    <3>1. AddExternalVariable(External(at))
      BY <2>2, <1>1 DEF ReadExternalVariable
    <3>2. at \in Entries
      <4>1. at \in Nat \ {0} /\ Len(cfg.external_vars) \in Nat
        BY <1>2, ListIs DEF Joining
      <4> QED
        BY <4>1, <2>2, <1>1, <1>2, ListIs DEF Entries, External
    <3> QED
      BY <3>1, <3>2, <1>2, <1>3, <1>5, JoiningAdds
  <2> QED
    BY <2>1, <2>2
<1> QED
  BY <1>2, <1>3, <1>4, <1>5 DEF VarInv, Early, Late

LEMMA VarStays ==
  ASSUME VarInv, pc \in Late, pc' \in Late \cup {"abort"},
         UNCHANGED <<cfg, ea_to_func, variables, var_forward, ea_to_var>>
  PROVE  VarInv'
<1>1. AllJoined'
  BY JoinedStays DEF VarInv
<1>2. SameVariable'
  BY DEF SameVariable, Done, Late
<1> QED
  BY <1>1, <1>2 DEF VarInv, Early, Late

(* A variable of a segment is new, and its address leads to it.            *)
LEMMA VarRead ==
  ASSUME VarInv, ReadVariable
  PROVE  VarInv'
<1>1. pc = "segments" /\ pc' = pc /\ UNCHANGED <<cfg, ea_to_func>> /\ AllJoined
  BY DEF ReadVariable, InLoop, NextSub, function_tables, VarInv, Late
<1>2. CASE UNCHANGED <<variables, var_forward, ea_to_var>>
  BY <1>1, <1>2, VarStays DEF Late
<1>3. CASE UNCHANGED <<var_forward, ea_to_var>> /\ variables' = [v \in DOMAIN variables |-> variables'[v]]
  <2>1. IsList(variables') /\ Len(variables') = Len(variables)
    BY <1>1, <1>3, ListReplace DEF AllJoined, Lists
  <2>2. /\ Entries' = Entries /\ (\A k : External(k)' = External(k))
        /\ \A j, k : Linked(j, k)' <=> Linked(j, k)
    BY <1>1, LinkedSame
  <2>3. \A ea : Root(ea)' = Root(ea)
    BY <1>3 DEF Root
  <2>4. AllJoined'
    BY <1>1, <1>3, <2>1, <2>2, <2>3 DEF AllJoined, Lists
  <2>5. SameVariable'
    BY <1>1 DEF SameVariable, Done
  <2> QED
    BY <1>1, <2>4, <2>5 DEF VarInv, Early, Late
<1>4. ASSUME NEW ea, NEW q, NEW v, v = Len(variables) + 1, ea \notin DOMAIN ea_to_var,
             variables' = Append(variables, q), var_forward' = Append(var_forward, v),
             ea_to_var' = Put(ea_to_var, ea, v)
      PROVE  VarInv'
  <2>1. IsList(variables') /\ Len(variables') = v
    BY <1>1, <1>4, ListAppend DEF AllJoined, Lists
  <2>2. /\ Forwards(var_forward') /\ DOMAIN var_forward' = DOMAIN var_forward \cup {v}
        /\ Len(var_forward') = v
        /\ \A x \in DOMAIN var_forward : Get(var_forward', x) = Get(var_forward, x)
    <3>1. Forwards(var_forward) /\ v = Len(var_forward) + 1
      BY <1>1, <1>4 DEF AllJoined, Lists
    <3> QED
      BY <3>1, <1>4, AppendIs
  <2>3. /\ DOMAIN ea_to_var' = DOMAIN ea_to_var \cup {ea} /\ ea_to_var'[ea] = v
        /\ \A e \in DOMAIN ea_to_var : ea_to_var'[e] = ea_to_var[e]
    BY <1>4 DEF Put
  <2>4. /\ Entries' = Entries /\ (\A k : External(k)' = External(k))
        /\ \A j, k : Linked(j, k)' <=> Linked(j, k)
    BY <1>1, LinkedSame
  <2>5. \A e \in DOMAIN ea_to_var : Root(e)' = Root(e)
    BY <1>1, <2>2, <2>3 DEF Root, AllJoined
  <2>6. \A k \in Entries : External(k).ea \in DOMAIN ea_to_var
    BY <1>1 DEF AllJoined
  <2>7. \A j, k \in Entries' : Linked(j, k)' <=> Root(External(j).ea)' = Root(External(k).ea)'
    BY <1>1, <2>4, <2>5, <2>6 DEF AllJoined
  <2>8. AllJoined'
    BY <1>1, <2>1, <2>2, <2>3, <2>4, <2>6, <2>7 DEF AllJoined, Lists
  <2>9. SameVariable'
    BY <1>1 DEF SameVariable, Done
  <2> QED
    BY <1>1, <2>8, <2>9 DEF VarInv, Early, Late
<1>5. PICK var : var = Item.vars[sub - 1]
  OBVIOUS
<1>6. CASE var.ea \in DOMAIN ea_to_var
  BY <1>3, <1>5, <1>6 DEF ReadVariable
<1>7. CASE var.ea \notin DOMAIN ea_to_var /\ (var.ea \in DOMAIN ea_to_func \/ var.name = None)
  BY <1>2, <1>5, <1>7 DEF ReadVariable
<1>8. CASE var.ea \notin DOMAIN ea_to_var /\ ~(var.ea \in DOMAIN ea_to_func \/ var.name = None)
  <2>1. PICK v : v = Len(variables) + 1
    OBVIOUS
  <2>2. /\ \E q : variables' = Append(variables, q)
        /\ var_forward' = Append(var_forward, v) /\ ea_to_var' = Put(ea_to_var, var.ea, v)
    BY <1>5, <1>8, <2>1 DEF ReadVariable
  <2> QED
    BY <1>4, <1>8, <2>1, <2>2
<1> QED
  BY <1>6, <1>7, <1>8

(* At the end every address leads to what its variable forwards to.        *)
LEMMA VarResolve ==
  ASSUME VarInv, Resolve
  PROVE  VarInv'
<1>1. pc = "merge" /\ pc' = "done" /\ AllJoined /\ UNCHANGED <<cfg, ea_to_func>>
  BY DEF Resolve, VarInv, Late
<1>2. /\ Entries' = Entries /\ (\A k : External(k)' = External(k))
      /\ \A j, k : Linked(j, k)' <=> Linked(j, k)
  BY <1>1, LinkedSame
<1>3. ea_to_var' = [ea \in DOMAIN ea_to_var |-> Get(var_forward, ea_to_var[ea])]
  BY DEF Resolve
<1>4. \A k \in Entries : ea_to_var'[External(k).ea] = Root(External(k).ea)
  BY <1>1, <1>3 DEF AllJoined, Root
<1>5. SameVariable'
  BY <1>1, <1>2, <1>4 DEF SameVariable, AllJoined, External
<1> QED
  BY <1>1, <1>5 DEF VarInv, Early, Late

LEMMA VarIdle ==
  ASSUME VarInv, UNCHANGED state
  PROVE  VarInv'
<1>1. /\ UNCHANGED <<cfg, ea_to_func, variables, var_forward, ea_to_var, name_to_extern_var, segs, ea_to_seg>>
      /\ UNCHANGED <<pc, at>>
  BY DEF state, control, function_tables, variable_tables, segment_tables
<1>2. /\ Entries' = Entries /\ (\A k : External(k)' = External(k))
      /\ \A j, k : Linked(j, k)' <=> Linked(j, k)
  BY <1>1, LinkedSame
<1>3. \A ea : Root(ea)' = Root(ea)
  BY <1>1 DEF Root
<1>4. Seen' = Seen
  BY <1>1, <1>2 DEF Seen
<1>5. ASSUME Joining PROVE Joining'
  <2>1. ByAddress' /\ ByName' /\ OnlyLinked'
    BY <1>1, <1>2, <1>3, <1>4, <1>5 DEF Joining, ByAddress, ByName, OnlyLinked
  <2> QED
    BY <1>1, <1>5, <2>1 DEF Joining, Lists
<1>6. AllJoined => AllJoined'
  BY <1>1, JoinedStays
<1>7. SameVariable'
  BY <1>1, <1>2 DEF VarInv, SameVariable, Done, External
<1> QED
  BY <1>1, <1>5, <1>6, <1>7 DEF VarInv

LEMMA VarStep == VarInv /\ [Next]_state => VarInv'
<1> SUFFICES ASSUME VarInv, [Next]_state PROVE VarInv'
  OBVIOUS
<1> DEFINE Kept == UNCHANGED <<cfg, ea_to_func, variables, var_forward, ea_to_var>>
<1>1. ASSUME BeginSegment \/ EndSegment
      PROVE  pc \in Late /\ pc' \in Late \cup {"abort"} /\ Kept
  BY <1>1 DEF BeginSegment, EndSegment, InLoop, NextItem, NextSub, function_tables, variable_tables, Late
<1>2. ASSUME ReadXref \/ EndXrefs \/ FillBlobs
      PROVE  pc \in Late /\ pc' \in Late \cup {"abort"} /\ Kept
  BY <1>2
  DEF ReadXref, EndXrefs, FillBlobs, InLoop, NextItem, NextSub, Abort, function_tables, variable_tables, Late
<1>3. ASSUME ReadBlock \/ EndFunction
      PROVE  pc \in Late /\ pc' \in Late \cup {"abort"} /\ Kept
  BY <1>3
  DEF ReadBlock, EndFunction, InLoop, NextItem, NextSub, Abort, function_tables, variable_tables, Late
<1>4. ASSUME SortForMerge \/ MergeStep
      PROVE  pc \in Late /\ pc' \in Late \cup {"abort"} /\ Kept
  BY <1>4 DEF SortForMerge, MergeStep, function_tables, variable_tables, Late
<1> QED
  BY <1>1, <1>2, <1>3, <1>4, VarStays, VarNextLoop, VarEarly, VarVariable, VarRead, VarResolve, VarIdle
  DEF Next, Finished

(* Addresses of external variables lead to one variable exactly when the   *)
(* CFG links them.                                                         *)
THEOREM SameVariableHolds == Spec => []SameVariable
<1>1. VarInv => SameVariable
  BY DEF VarInv
<1> QED
  BY <1>1, VarInit, VarStep, PTL DEF Spec
-----------------------------------------------------------------------------
(* Functions and blocks.                                                   *)

LEMMA GreatestIs ==
  ASSUME NEW S, S \subseteq Nat, S # {}, NEW n \in Nat, \A x \in S : x <= n
  PROVE  Greatest(S) \in S /\ \A x \in S : x <= Greatest(S)
<1>1. PICK U : U = {m \in Nat : \A x \in S : x <= m}
  OBVIOUS
<1>2. U \subseteq Nat /\ n \in U
  BY <1>1
<1>3. Least(U) \in U /\ \A m \in U : Least(U) <= m
  BY <1>2, LeastIs
<1>4. PICK m \in Nat : m \in U /\ \A k \in U : m <= k
  BY <1>2, <1>3
<1>5. m \in S
  <2> SUFFICES ASSUME m \notin S PROVE FALSE
    OBVIOUS
  <2>1. \A x \in S : x <= m /\ x # m /\ x \in Nat
    BY <1>1, <1>4
  <2>2. m # 0
    <3>1. PICK x \in S : TRUE
      OBVIOUS
    <3>2. x <= m /\ x # m /\ x \in Nat
      BY <2>1
    <3> QED
      BY <3>2
  <2>3. m - 1 \in Nat /\ \A x \in S : x <= m - 1
    BY <2>1, <2>2
  <2>4. m - 1 \in U
    BY <2>3, <1>1
  <2> QED
    BY <2>4, <1>4
<1>6. \A x \in S : x <= m
  BY <1>1, <1>4
<1> QED
  BY <1>5, <1>6 DEF Greatest

(* The addresses of a list's items are bounded.                            *)
LEMMA ListBounded ==
  ASSUME NEW l, IsList(l), \A k \in DOMAIN l : l[k].ea \in Nat
  PROVE  \E m \in Nat : \A k \in DOMAIN l : l[k].ea <= m
<1>1. PICK N \in Nat : N = Len(l) /\ DOMAIN l = 1..N
  BY ListIs
<1> DEFINE S == {n \in 0..N : \E m \in Nat : \A k \in 1..n : l[k].ea <= m}
<1>2. 0 \in S /\ 0 \in 0..N
  OBVIOUS
<1>3. ASSUME NEW n \in 0..N, 0 <= n, n < N, n \in S PROVE n + 1 \in S
  <2>1. PICK m \in Nat : \A k \in 1..n : l[k].ea <= m
    BY <1>3
  <2>2. n + 1 \in 0..N /\ n + 1 \in 1..N /\ l[n + 1].ea \in Nat
    BY <1>1, <1>3
  <2>3. m + l[n + 1].ea \in Nat
    BY <2>1, <2>2
  <2>4. \A k \in 1..(n + 1) : k = n + 1 \/ k \in 1..n
    BY <1>3
  <2>5. ASSUME NEW k \in 1..(n + 1) PROVE l[k].ea <= m + l[n + 1].ea
    <3>1. l[k].ea \in Nat
      BY <1>1, <2>2
    <3> QED
      BY <3>1, <2>1, <2>2, <2>4
  <2> QED
    BY <2>2, <2>3, <2>5
<1>4. \A n \in 0..N : n \in S
  <2> HIDE DEF S
  <2> QED BY <1>2, <1>3, StepByStep
<1>5. N \in S
  <2> HIDE DEF S
  <2> QED BY <1>4
<1> QED
  BY <1>1, <1>5

(* The extent of a block that is read reaches that of the old one and of   *)
(* each of its instructions.                                               *)
LEMMA MergeReaches ==
  ASSUME NEW old, old.last_inst_ea \in Nat, NEW block, IsList(block.instructions),
         \A k \in DOMAIN block.instructions : block.instructions[k].ea \in Nat,
         NEW new, new = MergeBlock(old, block)
  PROVE  /\ new.last_inst_ea \in Nat /\ old.last_inst_ea <= new.last_inst_ea
         /\ \A k \in DOMAIN block.instructions : block.instructions[k].ea <= new.last_inst_ea
         /\ new.successors = old.successors \cup Range(block.successor_eas)
<1>1. PICK S : S = {old.last_inst_ea} \cup
                   {block.instructions[k].ea : k \in DOMAIN block.instructions}
  OBVIOUS
<1>2. PICK m \in Nat : \A k \in DOMAIN block.instructions : block.instructions[k].ea <= m
  BY ListBounded
<1>3. S \subseteq Nat /\ S # {} /\ old.last_inst_ea + m \in Nat
  BY <1>1, <1>2
<1>4. \A x \in S : x <= old.last_inst_ea + m
  <2> TAKE x \in S
  <2>1. x \in Nat /\ (x = old.last_inst_ea \/ x <= m)
    BY <1>1, <1>2, <1>3
  <2> QED
    BY <2>1, <1>2
<1>5. Greatest(S) \in S /\ \A x \in S : x <= Greatest(S)
  BY <1>3, <1>4, GreatestIs
<1>6. new.last_inst_ea = Greatest(S) /\ new.successors = old.successors \cup Range(block.successor_eas)
  BY <1>1 DEF MergeBlock
<1> QED
  BY <1>1, <1>3, <1>5, <1>6

(* Every instruction with a landing pad or references is recorded.         *)
LEMMA InstructionsRecorded ==
  ASSUME NEW insts, IsList(insts), NEW new, new = WithInstructions(insts)
  PROVE  /\ DOMAIN ea_to_inst \subseteq DOMAIN new
         /\ \A k \in DOMAIN insts :
              insts[k].lp_ea # 0 \/ insts[k].xrefs # << >> => insts[k].ea \in DOMAIN new
<1>1. PICK recorded : recorded = {k \in DOMAIN insts : Recorded(insts[k])}
  OBVIOUS
<1>2. PICK fresh : fresh = {k \in recorded : \A j \in recorded : j < k => insts[j].ea # insts[k].ea}
  OBVIOUS
<1>3. DOMAIN new = DOMAIN ea_to_inst \cup {insts[k].ea : k \in fresh}
  BY <1>1, <1>2 DEF WithInstructions
<1>4. DOMAIN insts \subseteq Nat
  BY ListIs
<1>5. ASSUME NEW k \in recorded PROVE insts[k].ea \in DOMAIN new
  <2>1. PICK S : S = {j \in recorded : insts[j].ea = insts[k].ea}
    OBVIOUS
  <2>2. S \subseteq Nat /\ S # {}
    BY <2>1, <1>1, <1>4
  <2>3. PICK j \in S : \A i \in S : j <= i
    BY <2>2, LeastIs
  <2>4. ASSUME NEW i \in recorded, i < j PROVE insts[i].ea # insts[j].ea
    <3>1. i \notin S
      BY <2>2, <2>3, <2>4, <1>1, <1>4
    <3> QED
      BY <3>1, <2>1
  <2>5. j \in fresh
    BY <2>1, <2>4, <1>2
  <2> QED
    BY <2>1, <2>5, <1>3
<1>6. ASSUME NEW k \in DOMAIN insts, insts[k].lp_ea # 0 \/ insts[k].xrefs # << >>
      PROVE  insts[k].ea \in DOMAIN new
  BY <1>1, <1>3, <1>5, <1>6 DEF Recorded
<1> QED
  BY <1>3, <1>6

(* What the loops over the functions have made: a function at each address *)
(* they have read, with a list of blocks.                                  *)
HasBlocks(f) == "blocks" \in DOMAIN f /\ IsList(f.blocks)
FunctionTables ==
  /\ IsList(functions) /\ \A i \in DOMAIN functions : HasBlocks(functions[i])
  /\ \A ea \in DOMAIN ea_to_func : ea_to_func[ea] \in DOMAIN functions
Begun == \A k \in DOMAIN cfg.funcs : k < at => cfg.funcs[k].ea \in DOMAIN ea_to_func
AllFunctions == \A f \in Range(cfg.funcs) : f.ea \in DOMAIN ea_to_func

(* What the loop over the blocks has made of a block of the function f.    *)
BlockRead(f, block) ==
  /\ block.ea \in Range(functions[ea_to_func[f.ea]].blocks)
  /\ block.ea \in DOMAIN ea_to_block
  /\ Range(block.successor_eas) \subseteq ea_to_block[block.ea].successors
  /\ \A inst \in Range(block.instructions) :
       /\ inst.ea <= ea_to_block[block.ea].last_inst_ea
       /\ inst.lp_ea # 0 \/ inst.xrefs # << >> => inst.ea \in DOMAIN ea_to_inst
Extents == \A ea \in DOMAIN ea_to_block : ea_to_block[ea].last_inst_ea \in Nat
BlocksRead ==
  \A k \in DOMAIN cfg.funcs : cfg.funcs[k].ea \in mapped =>
    \A j \in DOMAIN cfg.funcs[k].blocks :
      k < at \/ (k = at /\ j < sub) => BlockRead(cfg.funcs[k], cfg.funcs[k].blocks[j])
AllBlocks ==
  \A f \in Range(cfg.funcs) : f.ea \in mapped =>
    \A block \in Range(f.blocks) : BlockRead(f, block)

FuncInv ==
  /\ cfg \in Modules
  /\ pc \in Early \cup {"variables"} \cup Late \cup {"done", "abort"}
  /\ pc # "abort" =>
       /\ FunctionTables
       /\ pc \in {"functions", "blocks"} => at \in Nat \ {0} /\ sub \in Nat \ {0}
       /\ IF pc = "functions" THEN Begun ELSE AllFunctions
       /\ pc # "done" /\ pc \notin {"blocks", "merge"} => ea_to_block = << >>
       /\ pc = "blocks" => Extents /\ BlocksRead
       /\ pc \in {"merge", "done"} => AllBlocks

LEMMA ExportKeeps ==
  ASSUME FunctionTables, NEW i \in DOMAIN functions, NEW name, NEW fs, fs = Export(functions, i, name)
  PROVE  /\ IsList(fs) /\ DOMAIN fs = DOMAIN functions
         /\ \A k \in DOMAIN functions : HasBlocks(fs[k]) /\ fs[k].blocks = functions[k].blocks
<1>1. CASE functions[i].is_exported
  BY <1>1 DEF Export, FunctionTables
<1>2. CASE ~functions[i].is_exported
  <2>1. PICK g : g = [functions EXCEPT ![i].is_exported = TRUE]
    OBVIOUS
  <2>2. /\ g = [k \in DOMAIN functions |-> g[k]]
        /\ \A k \in DOMAIN functions : HasBlocks(g[k]) /\ g[k].blocks = functions[k].blocks
    BY <2>1 DEF FunctionTables, HasBlocks
  <2>3. PICK x : x = IF name = None THEN functions[i].name ELSE name
    OBVIOUS
  <2>4. fs = [g EXCEPT ![i].name = x]
    BY <1>2, <2>1, <2>3 DEF Export
  <2>5. /\ fs = [k \in DOMAIN functions |-> fs[k]]
        /\ \A k \in DOMAIN functions : HasBlocks(fs[k]) /\ fs[k].blocks = functions[k].blocks
    BY <2>2, <2>4 DEF HasBlocks
  <2>6. IsList(fs) /\ DOMAIN fs = DOMAIN functions
    BY <2>5, ListReplace DEF FunctionTables
  <2> QED
    BY <2>5, <2>6
<1> QED
  BY <1>1, <1>2

LEMMA FuncInit == Init => FuncInv
<1> SUFFICES ASSUME Init PROVE FuncInv
  OBVIOUS
<1>1. cfg \in Modules /\ pc = "functions" /\ at = 1 /\ sub = 1 /\ functions = << >> /\ ea_to_func = << >>
      /\ ea_to_block = << >>
  BY DEF Init
<1>2. FunctionTables
  BY <1>1 DEF FunctionTables, IsList
<1>3. Begun
  <2>1. DOMAIN cfg.funcs \subseteq Nat \ {0}
    BY <1>1, ModulesAssumption, ListIs
  <2>2. \A k \in Nat \ {0} : ~(k < 1)
    OBVIOUS
  <2> QED
    BY <2>1, <2>2, <1>1 DEF Begun
<1> QED
  BY <1>1, <1>2, <1>3 DEF FuncInv, Early

LEMMA FuncNextLoop ==
  ASSUME FuncInv, NextLoop
  PROVE  FuncInv'
<1>1. UNCHANGED <<cfg, functions, ea_to_func, mapped, ea_to_block, ea_to_inst>>
  BY DEF NextLoop, function_tables, code_tables
<1>2. at' = 1 /\ sub' = 1 /\ at > Len(List)
  BY DEF NextLoop
<1>3. cfg \in Modules /\ IsList(cfg.funcs)
  BY ModulesAssumption DEF FuncInv
<1>4. FunctionTables'
  BY <1>1, NextLoopIs DEF FuncInv, FunctionTables
<1>5. AllFunctions => AllFunctions'
  BY <1>1 DEF AllFunctions
<1>6. CASE pc = "functions" /\ pc' = "externals"
  <2>1. at > Len(cfg.funcs) /\ at \in Nat /\ Begun
    BY <1>2, <1>6 DEF FuncInv, List
  <2>2. AllFunctions
    BY <2>1, <1>3, ListIs DEF Begun, AllFunctions, Range
  <2> QED
    BY <2>2, <1>1, <1>3, <1>4, <1>5, <1>6 DEF FuncInv, Early
<1>7. CASE \/ pc = "externals" /\ pc' = "variables"
           \/ pc = "variables" /\ pc' = "segments"
           \/ pc = "segments" /\ pc' = "xrefs"
           \/ pc = "xrefs" /\ pc' = "blobs"
  BY <1>1, <1>3, <1>4, <1>5, <1>7 DEF FuncInv, Early, Late
<1>8. CASE pc = "blobs" /\ pc' = "blocks"
  <2>1. ea_to_block' = << >>
    BY <1>1, <1>8 DEF FuncInv
  <2>2. Extents'
    BY <2>1 DEF Extents
  <2>3. BlocksRead'
    <3>1. DOMAIN cfg.funcs \subseteq Nat \ {0}
      BY <1>3, ListIs
    <3>2. \A f \in Range(cfg.funcs) : DOMAIN f.blocks \subseteq Nat \ {0}
      BY <1>3, ModulesAssumption, ListIs
    <3>3. \A k \in DOMAIN cfg.funcs : cfg.funcs[k] \in Range(cfg.funcs)
      BY DEF Range
    <3>4. \A k \in Nat \ {0} : ~(k < 1)
      OBVIOUS
    <3> QED
      BY <3>1, <3>2, <3>3, <3>4, <1>1, <1>2 DEF BlocksRead
  <2> QED
    BY <2>1, <2>2, <2>3, <1>1, <1>2, <1>3, <1>4, <1>5, <1>8 DEF FuncInv, Early, Late
<1>9. CASE pc = "blocks" /\ pc' = "merge"
  <2>1. at > Len(cfg.funcs) /\ at \in Nat /\ BlocksRead
    BY <1>2, <1>9 DEF FuncInv, List
  <2>2. \A k \in DOMAIN cfg.funcs : k < at
    BY <2>1, <1>3, ListIs
  <2>3. AllBlocks
    BY <2>1, <2>2 DEF BlocksRead, AllBlocks, Range
  <2>4. AllBlocks'
    BY <2>3, <1>1 DEF AllBlocks, BlockRead
  <2> QED
    BY <2>4, <1>1, <1>3, <1>4, <1>5, <1>9 DEF FuncInv, Early, Late
<1> QED
  BY <1>6, <1>7, <1>8, <1>9, NextLoopIs

(* The steps that change neither functions nor blocks.                     *)
LEMMA FuncStays ==
  ASSUME FuncInv, pc \in {"segments", "xrefs", "blobs"}, pc' \in {pc, "abort"},
         UNCHANGED <<cfg, functions, ea_to_func, ea_to_block>>
  PROVE  FuncInv'
<1>1. FunctionTables'
  BY DEF FuncInv, FunctionTables
<1>2. AllFunctions'
  BY DEF FuncInv, AllFunctions
<1> QED
  BY <1>1, <1>2 DEF FuncInv, Early, Late

LEMMA BlocksStay ==
  ASSUME FunctionTables, AllFunctions, AllBlocks,
         UNCHANGED <<cfg, ea_to_func, mapped, ea_to_block, ea_to_inst>>,
         \A i \in DOMAIN functions : functions'[i].blocks = functions[i].blocks
  PROVE  AllBlocks'
<1>1. ASSUME NEW f \in Range(cfg.funcs), NEW block, BlockRead(f, block) PROVE BlockRead(f, block)'
  <2>1. ea_to_func[f.ea] \in DOMAIN functions /\ ea_to_func'[f.ea] = ea_to_func[f.ea]
    BY DEF FunctionTables, AllFunctions
  <2>2. functions'[ea_to_func'[f.ea]].blocks = functions[ea_to_func[f.ea]].blocks
    BY <2>1
  <2> QED
    BY <1>1, <2>2 DEF BlockRead
<1> QED
  BY <1>1 DEF AllBlocks

LEMMA FuncMerge ==
  ASSUME FuncInv, SortForMerge \/ MergeStep
  PROVE  FuncInv'
<1>1. /\ pc = "merge" /\ pc' = "merge"
      /\ UNCHANGED <<cfg, functions, ea_to_func, mapped, ea_to_block, ea_to_inst>>
  BY DEF SortForMerge, MergeStep, function_tables, code_tables
<1>2. FunctionTables /\ AllFunctions /\ AllBlocks
  BY <1>1 DEF FuncInv
<1>3. FunctionTables' /\ AllFunctions'
  BY <1>1, <1>2 DEF FunctionTables, AllFunctions
<1>4. AllBlocks'
  BY <1>1, <1>2, BlocksStay
<1> QED
  BY <1>1, <1>3, <1>4 DEF FuncInv, Early, Late

LEMMA FuncResolve ==
  ASSUME FuncInv, Resolve
  PROVE  FuncInv'
<1>1. /\ pc = "merge" /\ pc' = "done"
      /\ UNCHANGED <<cfg, ea_to_func, mapped, ea_to_block, ea_to_inst>>
      /\ functions' = [i \in DOMAIN functions |->
                         [functions[i] EXCEPT !.is_exported = Exported(functions[i])]]
  BY DEF Resolve, code_tables
<1>2. FunctionTables /\ AllFunctions /\ AllBlocks
  BY <1>1 DEF FuncInv
<1>3. /\ functions' = [i \in DOMAIN functions |-> functions'[i]]
      /\ \A i \in DOMAIN functions : HasBlocks(functions'[i]) /\ functions'[i].blocks = functions[i].blocks
  BY <1>1, <1>2 DEF FunctionTables, HasBlocks
<1>4. IsList(functions') /\ DOMAIN functions' = DOMAIN functions
  BY <1>2, <1>3, ListReplace DEF FunctionTables
<1>5. FunctionTables'
  BY <1>1, <1>2, <1>3, <1>4 DEF FunctionTables
<1>6. AllFunctions'
  BY <1>1, <1>2 DEF AllFunctions
<1>7. AllBlocks'
  BY <1>1, <1>2, <1>3, BlocksStay
<1> QED
  BY <1>1, <1>5, <1>6, <1>7 DEF FuncInv, Early, Late

LEMMA TablesExport ==
  ASSUME FunctionTables, NEW ea, ea \in DOMAIN ea_to_func, NEW name,
         functions' = Export(functions, ea_to_func[ea], name), UNCHANGED ea_to_func
  PROVE  FunctionTables'
<1>1. ea_to_func[ea] \in DOMAIN functions
  BY DEF FunctionTables
<1>2. /\ IsList(functions') /\ DOMAIN functions' = DOMAIN functions
      /\ \A k \in DOMAIN functions : HasBlocks(functions'[k])
  BY <1>1, ExportKeeps
<1> QED
  BY <1>2 DEF FunctionTables

LEMMA TablesAppend ==
  ASSUME FunctionTables, NEW ea, NEW f, HasBlocks(f), functions' = Append(functions, f),
         ea_to_func' = Put(ea_to_func, ea, Len(functions) + 1)
  PROVE  FunctionTables'
<1>1. PICK n : n = Len(functions)
  OBVIOUS
<1>2. /\ IsList(functions') /\ Len(functions') = n + 1 /\ functions'[n + 1] = f
      /\ \A k \in DOMAIN functions : functions'[k] = functions[k]
  BY <1>1, ListAppend DEF FunctionTables
<1>3. n \in Nat /\ DOMAIN functions = 1..n /\ DOMAIN functions' = 1..(n + 1)
  BY <1>1, <1>2, ListIs DEF FunctionTables
<1>4. \A k \in DOMAIN functions' : k = n + 1 \/ k \in DOMAIN functions
  BY <1>3
<1>5. \A k \in DOMAIN functions' : HasBlocks(functions'[k])
  BY <1>2, <1>4 DEF FunctionTables
<1>6. /\ DOMAIN ea_to_func' = DOMAIN ea_to_func \cup {ea}
      /\ \A e \in DOMAIN ea_to_func' :
           \/ ea_to_func'[e] = n + 1
           \/ e \in DOMAIN ea_to_func /\ ea_to_func'[e] = ea_to_func[e]
  BY <1>1 DEF Put
<1>7. \A e \in DOMAIN ea_to_func' : ea_to_func'[e] \in DOMAIN functions'
  BY <1>3, <1>6 DEF FunctionTables
<1> QED
  BY <1>2, <1>5, <1>7 DEF FunctionTables

LEMMA TablesStay ==
  ASSUME FunctionTables, UNCHANGED function_tables
  PROVE  FunctionTables'
BY DEF FunctionTables, function_tables

LEMMA FuncRead ==
  ASSUME FuncInv, ReadFunction
  PROVE  FuncInv'
<1>1. /\ pc = "functions" /\ pc' \in {"functions", "abort"} /\ Item = cfg.funcs[at]
      /\ at <= Len(cfg.funcs) /\ UNCHANGED <<cfg, ea_to_block>>
  BY DEF ReadFunction, InLoop, NextItem, Abort, Item, List, code_tables
<1>2. cfg \in Modules /\ IsList(cfg.funcs) /\ FunctionTables /\ at \in Nat \ {0} /\ sub \in Nat \ {0} /\ Begun
      /\ ea_to_block = << >>
  BY <1>1, ModulesAssumption DEF FuncInv
<1>3. CASE pc' = "abort"
  BY <1>1, <1>2, <1>3 DEF FuncInv
<1>4. CASE pc' = "functions"
  <2>1. at' = at + 1 /\ sub' = 1
    BY <1>4 DEF ReadFunction, NextItem, Abort
  <2>2. ASSUME Item.ea \in DOMAIN ea_to_func
        PROVE  FunctionTables' /\ DOMAIN ea_to_func' = DOMAIN ea_to_func \cup {Item.ea}
    <3>1. /\ UNCHANGED ea_to_func
          /\ \/ functions' = functions
             \/ functions' = Export(functions, ea_to_func[Item.ea], Item.name)
      BY <2>2 DEF ReadFunction
    <3>2. FunctionTables'
      BY <2>2, <3>1, <1>2, TablesExport, TablesStay DEF function_tables
    <3> QED
      BY <2>2, <3>1, <3>2
  <2>3. ASSUME Item.ea \notin DOMAIN ea_to_func
        PROVE  FunctionTables' /\ DOMAIN ea_to_func' = DOMAIN ea_to_func \cup {Item.ea}
    <3> DEFINE f == [ea |-> Item.ea, name |-> Item.name, is_external |-> FALSE,
                     is_exported |-> Item.is_entrypoint /\ Item.name \notin PrivateNames,
                     blocks |-> << >>]
    <3>1. functions' = Append(functions, f) /\ ea_to_func' = Put(ea_to_func, Item.ea, Len(functions) + 1)
      BY <2>3 DEF ReadFunction
    <3>2. HasBlocks(f)
      BY DEF HasBlocks, IsList
    <3> HIDE DEF f
    <3>3. FunctionTables'
      BY <3>1, <3>2, <1>2, TablesAppend
    <3>4. DOMAIN ea_to_func' = DOMAIN ea_to_func \cup {Item.ea}
      BY <3>1 DEF Put
    <3> QED
      BY <3>3, <3>4
  <2>4. FunctionTables' /\ DOMAIN ea_to_func' = DOMAIN ea_to_func \cup {Item.ea}
    BY <2>2, <2>3
  <2>5. Begun'
    <3>1. \A k \in DOMAIN cfg.funcs : k < at + 1 <=> k < at \/ k = at
      BY <1>2, ListIs
    <3> QED
      BY <3>1, <2>1, <2>4, <1>1, <1>2 DEF Begun
  <2> QED
    BY <2>1, <2>4, <2>5, <1>1, <1>2, <1>4 DEF FuncInv, Early, Late
<1> QED
  BY <1>1, <1>3, <1>4

LEMMA FuncExternals ==
  ASSUME FuncInv, ReadExternalFunction \/ ReadExternalVariable
  PROVE  FuncInv'
<1>1. /\ pc \in {"externals", "variables"} /\ pc' \in {pc, "abort"} /\ UNCHANGED <<cfg, ea_to_block>>
      /\ FunctionTables /\ AllFunctions /\ ea_to_block = << >>
  BY DEF ReadExternalFunction, ReadExternalVariable, AddExternalVariable, InLoop, NextItem, Abort,
         code_tables, FuncInv
<1>2. \/ UNCHANGED function_tables
      \/ /\ Item.ea \in DOMAIN ea_to_func /\ UNCHANGED ea_to_func
         /\ functions' = Export(functions, ea_to_func[Item.ea], Item.name)
      \/ \E f : /\ HasBlocks(f) /\ functions' = Append(functions, f)
                /\ ea_to_func' = Put(ea_to_func, Item.ea, Len(functions) + 1)
  <2>1. CASE ReadExternalVariable
    BY <2>1 DEF ReadExternalVariable, AddExternalVariable
  <2>2. CASE ReadExternalFunction /\ Item.name # None /\ Item.ea \notin DOMAIN ea_to_func
    <3> DEFINE f == [ea |-> Item.ea, name |-> Item.name, is_external |-> TRUE,
                     is_exported |-> TRUE, blocks |-> << >>]
    <3>1. functions' = Append(functions, f) /\ ea_to_func' = Put(ea_to_func, Item.ea, Len(functions) + 1)
      BY <2>2 DEF ReadExternalFunction
    <3>2. HasBlocks(f)
      BY DEF HasBlocks, IsList
    <3> HIDE DEF f
    <3> QED
      BY <3>1, <3>2
  <2>3. CASE ReadExternalFunction /\ (Item.name = None \/ Item.ea \in DOMAIN ea_to_func)
    BY <2>3 DEF ReadExternalFunction
  <2> QED
    BY <2>1, <2>2, <2>3
<1>3. FunctionTables' /\ DOMAIN ea_to_func \subseteq DOMAIN ea_to_func'
  <2>1. CASE UNCHANGED function_tables
    BY <2>1, <1>1, TablesStay DEF function_tables
  <2>2. CASE /\ Item.ea \in DOMAIN ea_to_func /\ UNCHANGED ea_to_func
             /\ functions' = Export(functions, ea_to_func[Item.ea], Item.name)
    BY <2>2, <1>1, TablesExport
  <2>3. ASSUME NEW f, HasBlocks(f), functions' = Append(functions, f),
               ea_to_func' = Put(ea_to_func, Item.ea, Len(functions) + 1)
        PROVE  FunctionTables' /\ DOMAIN ea_to_func \subseteq DOMAIN ea_to_func'
    <3>1. FunctionTables'
      BY <2>3, <1>1, TablesAppend
    <3> QED
      BY <3>1, <2>3 DEF Put
  <2> QED
    BY <2>1, <2>2, <2>3, <1>2
<1>4. AllFunctions'
  BY <1>1, <1>3 DEF AllFunctions
<1> QED
  BY <1>1, <1>3, <1>4 DEF FuncInv, Early, Late

(* A block that is read stays read when another is, and so does the one    *)
(* that is read now.                                                       *)
LEMMA FuncBlock ==
  ASSUME FuncInv, ReadBlock
  PROVE  FuncInv'
<1>1. PICK f : f = cfg.funcs[at]
  OBVIOUS
<1>2. PICK block : block = f.blocks[sub]
  OBVIOUS
<1>3. PICK i : i = ea_to_func[f.ea]
  OBVIOUS
<1>4. /\ pc = "blocks" /\ pc' \in {"blocks", "abort"} /\ Item = f /\ f.ea \in mapped
      /\ at <= Len(cfg.funcs) /\ sub <= Len(f.blocks) /\ UNCHANGED <<cfg, ea_to_func, mapped>>
  BY <1>1 DEF ReadBlock, InLoop, NextSub, Abort, Item, List
<1>5. CASE pc' = "abort"
  BY <1>4, <1>5 DEF FuncInv
<1>6. /\ cfg \in Modules /\ IsList(cfg.funcs) /\ FunctionTables /\ AllFunctions
      /\ at \in Nat \ {0} /\ sub \in Nat \ {0} /\ Extents /\ BlocksRead
  BY <1>4, ModulesAssumption DEF FuncInv
<1>7. at \in DOMAIN cfg.funcs /\ f \in Range(cfg.funcs) /\ i \in DOMAIN functions /\ IsList(f.blocks)
  <2>1. at \in DOMAIN cfg.funcs
    BY <1>4, <1>6, ListIs
  <2>2. f \in Range(cfg.funcs)
    BY <2>1, <1>1 DEF Range
  <2> QED
    BY <2>1, <2>2, <1>3, <1>6, ModulesAssumption DEF AllFunctions, FunctionTables
<1>8. CASE pc' = "blocks"
  <2>1. at' = at /\ sub' = sub + 1
    BY <1>4, <1>8 DEF ReadBlock, NextSub, Abort
  <2>2. block \in Range(f.blocks)
    <3>1. sub \in DOMAIN f.blocks
      BY <1>4, <1>6, <1>7, ListIs
    <3> QED
      BY <3>1, <1>2 DEF Range
  <2>3. \A g \in Range(cfg.funcs) : \A b \in Range(g.blocks) :
          /\ IsList(b.instructions) /\ \A inst \in Range(b.instructions) : inst.ea \in Nat
    BY <1>6, ModulesAssumption
  <2>4. IsList(block.instructions) /\ \A k \in DOMAIN block.instructions : block.instructions[k].ea \in Nat
    BY <2>2, <2>3, <1>7 DEF Range
  <2>5. PICK old : old = IF block.ea \in DOMAIN ea_to_block THEN ea_to_block[block.ea] ELSE NewBlock
    OBVIOUS
  <2>6. old.last_inst_ea \in Nat
    BY <2>5, <1>6 DEF Extents, NewBlock
  <2>7. PICK new : new = MergeBlock(old, block)
    OBVIOUS
  <2>8. /\ new.last_inst_ea \in Nat /\ old.last_inst_ea <= new.last_inst_ea
        /\ \A k \in DOMAIN block.instructions : block.instructions[k].ea <= new.last_inst_ea
        /\ new.successors = old.successors \cup Range(block.successor_eas)
    BY <2>4, <2>6, <2>7, MergeReaches
  <2>9. /\ ea_to_block' = Put(ea_to_block, block.ea, new)
        /\ ea_to_inst' = WithInstructions(block.instructions)
        /\ functions' = [functions EXCEPT ![i].blocks = Append(functions[i].blocks, block.ea)]
    BY <1>2, <1>3, <1>4, <2>5, <2>7 DEF ReadBlock
  <2>10. /\ DOMAIN ea_to_block' = DOMAIN ea_to_block \cup {block.ea} /\ ea_to_block'[block.ea] = new
         /\ \A e \in DOMAIN ea_to_block : e # block.ea => ea_to_block'[e] = ea_to_block[e]
    BY <2>9 DEF Put
  <2>11. /\ DOMAIN ea_to_inst \subseteq DOMAIN ea_to_inst'
         /\ \A k \in DOMAIN block.instructions :
              block.instructions[k].lp_ea # 0 \/ block.instructions[k].xrefs # << >> =>
                block.instructions[k].ea \in DOMAIN ea_to_inst'
    <3>1. PICK insts : insts = WithInstructions(block.instructions)
      OBVIOUS
    <3>2. /\ DOMAIN ea_to_inst \subseteq DOMAIN insts
          /\ \A k \in DOMAIN block.instructions :
               block.instructions[k].lp_ea # 0 \/ block.instructions[k].xrefs # << >> =>
                 block.instructions[k].ea \in DOMAIN insts
      BY <3>1, <2>4, InstructionsRecorded
    <3> QED
      BY <3>1, <3>2, <2>9
  <2>12. HasBlocks(functions[i])
    BY <1>6, <1>7 DEF FunctionTables
  <2>13. PICK l : l = Append(functions[i].blocks, block.ea)
    OBVIOUS
  <2>14. IsList(l) /\ Range(functions[i].blocks) \subseteq Range(l) /\ block.ea \in Range(l)
    <3>1. PICK t : t = functions[i].blocks /\ IsList(t)
      BY <2>12 DEF HasBlocks
    <3>2. /\ IsList(l) /\ Len(l) = Len(t) + 1 /\ l[Len(t) + 1] = block.ea
          /\ \A k \in DOMAIN t : l[k] = t[k]
      BY <2>13, <3>1, ListAppend
    <3>3. DOMAIN t = 1..Len(t) /\ Len(t) \in Nat /\ DOMAIN l = 1..(Len(t) + 1)
      BY <3>1, <3>2, ListIs
    <3>4. Len(t) + 1 \in DOMAIN l /\ DOMAIN t \subseteq DOMAIN l
      BY <3>3
    <3> QED
      BY <3>1, <3>2, <3>4 DEF Range
  <2>15. /\ functions' = [k \in DOMAIN functions |-> functions'[k]]
         /\ functions'[i] = [functions[i] EXCEPT !.blocks = l]
         /\ \A k \in DOMAIN functions : k # i => functions'[k] = functions[k]
    BY <2>9, <2>13, <1>7
  <2>16. functions'[i].blocks = l /\ HasBlocks(functions'[i])
    BY <2>12, <2>14, <2>15 DEF HasBlocks
  <2>17. IsList(functions') /\ DOMAIN functions' = DOMAIN functions
    BY <2>15, <1>6, ListReplace DEF FunctionTables
  <2>18. FunctionTables'
    BY <2>15, <2>16, <2>17, <1>4, <1>6 DEF FunctionTables
  <2>19. AllFunctions'
    BY <1>4, <1>6 DEF AllFunctions
  <2>20. Extents'
    BY <2>8, <2>10, <1>6 DEF Extents
  <2>21. BlockRead(f, block)'
    <3>1. block.ea \in Range(functions'[ea_to_func'[f.ea]].blocks)
      BY <2>14, <2>16, <1>3, <1>4
    <3>2. block.ea \in DOMAIN ea_to_block' /\ Range(block.successor_eas) \subseteq ea_to_block'[block.ea].successors
      BY <2>8, <2>10
    <3>3. \A inst \in Range(block.instructions) :
            /\ inst.ea <= ea_to_block'[block.ea].last_inst_ea
            /\ inst.lp_ea # 0 \/ inst.xrefs # << >> => inst.ea \in DOMAIN ea_to_inst'
      BY <2>8, <2>10, <2>11 DEF Range
    <3> QED
      BY <3>1, <3>2, <3>3 DEF BlockRead
  <2>22. ASSUME NEW g \in Range(cfg.funcs), NEW b \in Range(g.blocks), BlockRead(g, b)
         PROVE  BlockRead(g, b)'
    <3>1. ea_to_func[g.ea] \in DOMAIN functions
      BY <1>6 DEF AllFunctions, FunctionTables
    <3>2. b.ea \in Range(functions'[ea_to_func'[g.ea]].blocks)
      <4>1. CASE ea_to_func[g.ea] = i
        BY <4>1, <2>14, <2>16, <2>22, <1>4 DEF BlockRead
      <4>2. CASE ea_to_func[g.ea] # i
        BY <4>2, <3>1, <2>15, <2>22, <1>4 DEF BlockRead
      <4> QED
        BY <4>1, <4>2
    <3>3. b.ea \in DOMAIN ea_to_block /\ b.ea \in DOMAIN ea_to_block'
      BY <2>10, <2>22 DEF BlockRead
    <3>4. /\ ea_to_block[b.ea].successors \subseteq ea_to_block'[b.ea].successors
          /\ ea_to_block[b.ea].last_inst_ea <= ea_to_block'[b.ea].last_inst_ea
          /\ ea_to_block[b.ea].last_inst_ea \in Nat /\ ea_to_block'[b.ea].last_inst_ea \in Nat
      <4>1. CASE b.ea = block.ea
        BY <4>1, <3>3, <2>5, <2>6, <2>8, <2>10
      <4>2. CASE b.ea # block.ea
        BY <4>2, <3>3, <2>10, <1>6 DEF Extents
      <4> QED
        BY <4>1, <4>2
    <3>5. \A inst \in Range(b.instructions) :
            /\ inst.ea <= ea_to_block'[b.ea].last_inst_ea
            /\ inst.lp_ea # 0 \/ inst.xrefs # << >> => inst.ea \in DOMAIN ea_to_inst'
      <4> TAKE inst \in Range(b.instructions)
      <4>1. inst.ea \in Nat /\ inst.ea <= ea_to_block[b.ea].last_inst_ea
        BY <2>3, <2>22 DEF BlockRead
      <4>2. inst.lp_ea # 0 \/ inst.xrefs # << >> => inst.ea \in DOMAIN ea_to_inst'
        BY <2>11, <2>22 DEF BlockRead
      <4> QED
        BY <4>1, <4>2, <3>4
    <3>6. Range(b.successor_eas) \subseteq ea_to_block'[b.ea].successors
      BY <3>4, <2>22 DEF BlockRead
    <3> QED
      BY <3>2, <3>3, <3>5, <3>6 DEF BlockRead
  <2>23. BlocksRead'
    <3> SUFFICES ASSUME NEW k \in DOMAIN cfg.funcs, cfg.funcs[k].ea \in mapped,
                        NEW j \in DOMAIN cfg.funcs[k].blocks,
                        k < at \/ (k = at /\ j < sub + 1)
                 PROVE  BlockRead(cfg.funcs[k], cfg.funcs[k].blocks[j])'
      BY <2>1, <1>4 DEF BlocksRead
    <3>1. PICK g : g = cfg.funcs[k] /\ g \in Range(cfg.funcs)
      BY DEF Range
    <3>2. PICK b : b = g.blocks[j] /\ b \in Range(g.blocks)
      BY <3>1 DEF Range
    <3>3. j \in Nat
      <4>1. IsList(g.blocks)
        BY <3>1, <1>6, ModulesAssumption
      <4> QED
        BY <4>1, <3>1, ListIs
    <3>4. CASE k = at /\ j = sub
      <4>1. g = f /\ b = block
        BY <3>1, <3>2, <3>4, <1>1, <1>2
      <4> QED
        BY <4>1, <3>1, <3>2, <2>21, <1>4
    <3>5. CASE k < at \/ (k = at /\ j < sub)
      <4>1. BlockRead(g, b)
        BY <3>1, <3>2, <3>5, <1>6 DEF BlocksRead
      <4>2. BlockRead(g, b)'
        BY <3>1, <3>2, <4>1, <2>22
      <4> QED
        BY <3>1, <3>2, <4>2, <1>4
    <3>6. j < sub + 1 => j < sub \/ j = sub
      BY <3>3, <1>6
    <3> QED
      BY <3>4, <3>5, <3>6
  <2>24. sub' \in Nat \ {0}
    BY <2>1, <1>6
  <2> QED
    BY <2>1, <2>18, <2>19, <2>20, <2>23, <2>24, <1>4, <1>6, <1>8 DEF FuncInv, Early, Late
<1> QED
  BY <1>4, <1>5, <1>8

LEMMA BlockReadKept ==
  ASSUME UNCHANGED <<functions, ea_to_func, ea_to_block, ea_to_inst>>
  PROVE  \A f, block : BlockRead(f, block)' = BlockRead(f, block)
  BY DEF BlockRead

LEMMA FuncEnds ==
  ASSUME FuncInv, EndFunction
  PROVE  FuncInv'
<1>1. /\ pc = "blocks" /\ pc' = "blocks" /\ at' = at + 1 /\ sub' = 1 /\ at <= Len(cfg.funcs)
      /\ cfg.funcs[at].ea \notin mapped \/ sub > Len(cfg.funcs[at].blocks)
      /\ UNCHANGED <<cfg, functions, ea_to_func, mapped, ea_to_block, ea_to_inst>>
  BY DEF EndFunction, InLoop, NextItem, Item, List, function_tables, code_tables
<1>2. /\ cfg \in Modules /\ IsList(cfg.funcs) /\ FunctionTables /\ AllFunctions
      /\ at \in Nat \ {0} /\ sub \in Nat \ {0} /\ Extents /\ BlocksRead
  BY <1>1, ModulesAssumption DEF FuncInv
<1>3. FunctionTables' /\ AllFunctions' /\ Extents'
  BY <1>1, <1>2 DEF FunctionTables, AllFunctions, Extents
<1>4. BlocksRead'
  <2> SUFFICES ASSUME NEW k \in DOMAIN cfg.funcs, cfg.funcs[k].ea \in mapped,
                      NEW j \in DOMAIN cfg.funcs[k].blocks,
                      k < at + 1 \/ (k = at + 1 /\ j < 1)
               PROVE  BlockRead(cfg.funcs[k], cfg.funcs[k].blocks[j])
    BY <1>1, BlockReadKept DEF BlocksRead
  <2>1. IsList(cfg.funcs[k].blocks)
    BY <1>2, ModulesAssumption DEF Range
  <2>2. k \in Nat /\ j \in Nat \ {0} /\ j <= Len(cfg.funcs[k].blocks) /\ Len(cfg.funcs[k].blocks) \in Nat
    BY <2>1, <1>2, ListIs
  <2>3. k < at \/ (k = at /\ j < sub)
    BY <2>2, <1>1, <1>2
  <2> QED
    BY <2>3, <1>2 DEF BlocksRead
<1>5. at' \in Nat \ {0} /\ sub' \in Nat \ {0}
  BY <1>1, <1>2
<1> QED
  BY <1>1, <1>2, <1>3, <1>4, <1>5 DEF FuncInv, Early, Late

LEMMA FuncIdle ==
  ASSUME FuncInv, UNCHANGED state
  PROVE  FuncInv'
<1>1. UNCHANGED <<cfg, pc, at, sub, functions, ea_to_func, mapped, ea_to_block, ea_to_inst>>
  BY DEF state, control, function_tables, code_tables
<1>2. /\ FunctionTables => FunctionTables'
      /\ Begun => Begun'
      /\ AllFunctions => AllFunctions'
      /\ Extents => Extents'
  BY <1>1 DEF FunctionTables, Begun, AllFunctions, Extents
<1>3. /\ BlocksRead => BlocksRead'
      /\ AllBlocks => AllBlocks'
  BY <1>1, BlockReadKept DEF BlocksRead, AllBlocks
<1> QED
  BY <1>1, <1>2, <1>3 DEF FuncInv

LEMMA FuncStep == FuncInv /\ [Next]_state => FuncInv'
<1> SUFFICES ASSUME FuncInv, [Next]_state PROVE FuncInv'
  OBVIOUS
<1>1. ASSUME BeginSegment \/ ReadVariable \/ EndSegment PROVE FuncInv'
  <2>1. /\ pc = "segments" /\ pc' = pc /\ UNCHANGED <<cfg, functions, ea_to_func, ea_to_block>>
    BY <1>1 DEF BeginSegment, ReadVariable, EndSegment, InLoop, NextItem, NextSub, function_tables, code_tables
  <2> QED
    BY <2>1, FuncStays
<1>2. ASSUME ReadXref \/ EndXrefs \/ FillBlobs PROVE FuncInv'
  <2>1. /\ pc \in {"xrefs", "blobs"} /\ pc' \in {pc, "abort"}
        /\ UNCHANGED <<cfg, functions, ea_to_func, ea_to_block>>
    BY <1>2
    DEF ReadXref, EndXrefs, FillBlobs, InLoop, NextItem, NextSub, Abort, function_tables, code_tables
  <2> QED
    BY <2>1, FuncStays
<1> QED
  BY <1>1, <1>2, FuncNextLoop, FuncRead, FuncExternals, FuncBlock, FuncEnds, FuncMerge, FuncResolve, FuncIdle
  DEF Next, Finished

(* Every block of the CFG reaches its function, with all its successors    *)
(* and its whole extent.                                                   *)
THEOREM BlocksCompleteHolds == Spec => []BlocksComplete
<1>1. FuncInv => BlocksComplete
  BY DEF FuncInv, AllBlocks, BlockRead, BlocksComplete, Done
<1> QED
  BY <1>1, FuncInit, FuncStep, PTL DEF Spec
-----------------------------------------------------------------------------
(* Segments.                                                               *)

(* A list of all members of a set has each once.                           *)
LEMMA OrderIs ==
  ASSUME NEW S, IsFiniteSet(S), NEW o \in SetToSeqs(S)
  PROVE  /\ IsList(o) /\ Range(o) = S
         /\ \A j, k \in DOMAIN o : j # k => o[j] # o[k]
<1>1. PICK n \in Nat : n = Cardinality(S)
  BY FS_CardinalityType
<1>2. PICK D : D = 1..n
  OBVIOUS
<1>3. o \in [D -> S] /\ \A j, k \in D : j # k => o[j] # o[k]
  BY <1>1, <1>2 DEF SetToSeqs
<1>4. IsFiniteSet(D) /\ Cardinality(D) = n
  <2>1. IsFiniteSet(1..n) /\ Cardinality(1..n) = IF 1 > n THEN 0 ELSE n - 1 + 1
    BY FS_Interval
  <2> QED
    BY <2>1, <1>1, <1>2
<1>5. o \in Injection(D, S)
  BY <1>3 DEF Injection, IsInjective
<1>6. o \in Surjection(D, S)
  BY <1>1, <1>4, <1>5, FS_Injection
<1>7. Range(o) = S
  BY <1>3, <1>6 DEF Surjection, Range
<1>8. o \in Seq(Range(o))
  <2>1. o \in [1..n -> Range(o)]
    BY <1>2, <1>3, <1>7
  <2> QED
    BY <2>1, <1>1
<1> QED
  BY <1>3, <1>7, <1>8 DEF IsList

IsEntry(e) ==
  /\ e.next \in Nat /\ e.blob \in {"none", "zero", "data"}
  /\ e.blob = "none" =>
       /\ {"next", "blob", "segment", "target_ea", "target_segment"} \subseteq DOMAIN e
       /\ e.target_ea \in Nat
AreEntries(entries) ==
  DOMAIN entries \subseteq Nat /\ \A a \in DOMAIN entries : IsEntry(entries[a])
IsSegment(r) ==
  /\ {"ea", "size", "is_external", "entries"} \subseteq DOMAIN r
  /\ r.ea \in Nat /\ r.size \in Nat /\ r.is_external \in BOOLEAN /\ AreEntries(r.entries)

(* Every segment is listed until it forwards to another, and an address    *)
(* leads to one that begins there.                                         *)
SegmentTables ==
  /\ IsList(segs) /\ Forwards(seg_forward) /\ Len(seg_forward) = Len(segs)
  /\ \A s \in DOMAIN segs : IsSegment(segs[s])
  /\ IsList(segments) /\ Range(segments) \subseteq DOMAIN segs
  /\ Live(seg_forward) \subseteq Range(segments)
Addressed ==
  \A ea \in DOMAIN ea_to_seg : ea_to_seg[ea] \in DOMAIN segs /\ segs[ea_to_seg[ea]].ea = ea

(* Below `sub` no segment of the list was merged.                          *)
Unmerged ==
  /\ \A j, k \in DOMAIN segments : j # k => segments[j] # segments[k]
  /\ sub \in Nat /\ sub <= Len(segments)
  /\ \A k \in DOMAIN segments : k <= sub => seg_forward[segments[k]] = segments[k]

Running == pc \notin {"done", "abort"}

TabInv ==
  /\ cfg \in Modules
  /\ pc \in Early \cup {"variables"} \cup Late \cup {"done", "abort"}
  /\ Running =>
       /\ at \in Nat \ {0} /\ sub \in Nat /\ (pc # "merge" => sub # 0)
       /\ SegmentTables /\ Addressed
       /\ pc \in Early => segs = << >>
       /\ pc = "variables" => \A s \in DOMAIN segs : segs[s].is_external
       /\ pc = "segments" /\ sub > 1 => Len(segs) # 0 /\ segs[Len(segs)].ea = Item.ea
       /\ pc = "merge" /\ at # 1 /\ sub > 1 => Unmerged

(* A new segment, listed.                                                  *)
LEMMA SegmentAppend ==
  ASSUME SegmentTables, NEW ss, NEW r, IsSegment(r), NEW s, s = Len(segs) + 1,
         IsList(ss), DOMAIN ss = DOMAIN segs, \A k \in DOMAIN ss : IsSegment(ss[k]),
         segs' = Append(ss, r), segments' = Append(segments, s),
         Forwards(seg_forward'), Len(seg_forward') = s,
         Live(seg_forward') \subseteq Live(seg_forward) \cup {s}
  PROVE  /\ SegmentTables' /\ DOMAIN segs' = DOMAIN segs \cup {s} /\ segs'[s] = r
         /\ s \notin DOMAIN segs /\ \A k \in DOMAIN segs : segs'[k] = ss[k]
<1>1. Len(segs) \in Nat /\ DOMAIN segs = 1..Len(segs) /\ Len(ss) = Len(segs)
  <2>1. Len(segs) \in Nat /\ DOMAIN segs = 1..Len(segs) /\ Len(ss) \in Nat /\ DOMAIN ss = 1..Len(ss)
    BY ListIs DEF SegmentTables
  <2> QED
    BY <2>1
<1>2. IsList(segs') /\ Len(segs') = s /\ segs'[s] = r /\ \A k \in DOMAIN segs : segs'[k] = ss[k]
  BY <1>1, ListAppend
<1>3. DOMAIN segs' = DOMAIN segs \cup {s} /\ s \notin DOMAIN segs
  <2>1. DOMAIN segs' = 1..s
    BY <1>2, ListIs
  <2> QED
    BY <2>1, <1>1
<1>4. \A k \in DOMAIN segs' : IsSegment(segs'[k])
  BY <1>2, <1>3
<1>5. IsList(segments') /\ Range(segments') = Range(segments) \cup {s}
  <2>1. Len(segments) \in Nat /\ DOMAIN segments = 1..Len(segments)
    BY ListIs DEF SegmentTables
  <2>2. /\ IsList(segments') /\ Len(segments') = Len(segments) + 1
        /\ segments'[Len(segments) + 1] = s /\ \A k \in DOMAIN segments : segments'[k] = segments[k]
    BY ListAppend DEF SegmentTables
  <2>3. DOMAIN segments' = DOMAIN segments \cup {Len(segments) + 1}
    <3>1. DOMAIN segments' = 1..(Len(segments) + 1)
      BY <2>2, ListIs
    <3> QED
      BY <3>1, <2>1
  <2> QED
    BY <2>2, <2>3 DEF Range
<1> QED
  BY <1>2, <1>3, <1>4, <1>5 DEF SegmentTables

(* A segment with other entries, or another name.                          *)
SameBut(t, r) == t.ea = r.ea /\ t.size = r.size /\ t.is_external = r.is_external

LEMMA SegmentsReplaced ==
  ASSUME SegmentTables, segs' = [s \in DOMAIN segs |-> segs'[s]],
         \A s \in DOMAIN segs : IsSegment(segs'[s]), UNCHANGED <<seg_forward, segments>>
  PROVE  SegmentTables' /\ DOMAIN segs' = DOMAIN segs /\ Len(segs') = Len(segs)
<1>1. IsList(segs') /\ Len(segs') = Len(segs) /\ DOMAIN segs' = DOMAIN segs
  BY ListReplace DEF SegmentTables
<1> QED
  BY <1>1 DEF SegmentTables

LEMMA EntriesReplaced ==
  ASSUME SegmentTables, NEW s \in DOMAIN segs, NEW en, AreEntries(en),
         segs' = [segs EXCEPT ![s].entries = en], UNCHANGED <<seg_forward, segments>>
  PROVE  /\ SegmentTables' /\ DOMAIN segs' = DOMAIN segs /\ Len(segs') = Len(segs)
         /\ \A t \in DOMAIN segs : SameBut(segs'[t], segs[t]) /\ (t # s => segs'[t] = segs[t])
         /\ segs'[s].entries = en
<1>1. \A t \in DOMAIN segs : IsSegment(segs[t])
  BY DEF SegmentTables
<1>2. segs' = [t \in DOMAIN segs |-> segs'[t]] /\ \A t \in DOMAIN segs : t # s => segs'[t] = segs[t]
  OBVIOUS
<1>3. PICK r : r = segs[s]
  OBVIOUS
<1>4. segs'[s] = [r EXCEPT !.entries = en] /\ {"ea", "size", "is_external", "entries"} \subseteq DOMAIN r
  BY <1>1, <1>3 DEF IsSegment
<1>5. SameBut(segs'[s], r) /\ segs'[s].entries = en /\ DOMAIN segs'[s] = DOMAIN r
  BY <1>4 DEF SameBut
<1>6. IsSegment(segs'[s])
  BY <1>1, <1>3, <1>4, <1>5 DEF IsSegment, SameBut
<1>7. \A t \in DOMAIN segs : IsSegment(segs'[t])
  BY <1>1, <1>2, <1>6
<1>8. SegmentTables' /\ DOMAIN segs' = DOMAIN segs /\ Len(segs') = Len(segs)
  BY <1>2, <1>7, SegmentsReplaced
<1> QED
  BY <1>2, <1>3, <1>5, <1>8 DEF SameBut

LEMMA LiveForwarded ==
  ASSUME NEW f, Forwards(f), NEW x \in DOMAIN f, NEW dest \in DOMAIN f, f[dest] = dest
  PROVE  Live(ForwardTo(f, x, dest)) \subseteq Live(f)
<1>1. PICK g : g = ForwardTo(f, x, dest)
  OBVIOUS
<1>2. /\ Forwards(g) /\ DOMAIN g = DOMAIN f
      /\ \A y \in DOMAIN f : Get(g, y) = IF Get(f, y) = Get(f, x) THEN dest ELSE Get(f, y)
  BY <1>1, ForwardToIs
<1>3. ASSUME NEW y \in DOMAIN f, g[y] = y PROVE f[y] = y
  <2>1. Get(g, y) = y
    BY <1>2, <1>3, GetGives
  <2>2. y = dest \/ y = Get(f, y)
    BY <2>1, <1>2
  <2>3. f[Get(f, y)] = Get(f, y)
    BY GetGives
  <2> QED
    BY <2>2, <2>3
<1> QED
  BY <1>1, <1>2, <1>3 DEF Live

(* The segment of an external variable replaces the one at its address.    *)
Replaces(k, ea) == ea \in DOMAIN ea_to_seg /\ Get(seg_forward, k) = Get(seg_forward, ea_to_seg[ea])

LEMMA ExternalSegment ==
  ASSUME SegmentTables, Addressed, NEW item, item.ea \in Nat, item.size \in Nat,
         AddExternalVariable(item), NEW s, s = Len(segs) + 1
  PROVE  /\ SegmentTables' /\ Addressed'
         /\ DOMAIN segs' = DOMAIN segs \cup {s} /\ s \notin DOMAIN segs
         /\ segs'[s].ea = item.ea /\ segs'[s].is_external /\ segs'[s].entries = << >>
         /\ \A k \in DOMAIN segs : SameBut(segs'[k], segs[k]) /\ segs'[k].entries = segs[k].entries
         /\ Get(seg_forward', s) = s
         /\ \A k \in DOMAIN segs :
              Get(seg_forward', k) = IF Replaces(k, item.ea) THEN s ELSE Get(seg_forward, k)
<1>1. PICK ea : ea = item.ea /\ ea \in Nat
  OBVIOUS
<1>2. PICK old : old = ea_to_seg[ea]
  OBVIOUS
<1>3. PICK v : v = Len(variables) + 1
  OBVIOUS
<1>4. PICK ss : ss = IF ea \in DOMAIN ea_to_seg THEN [segs EXCEPT ![old].as_extern_var = v] ELSE segs
  OBVIOUS
<1>5. PICK size : size = IF ea \in DOMAIN ea_to_seg /\ segs[old].size > item.size
                         THEN segs[old].size ELSE item.size
  OBVIOUS
<1>6. PICK r : r = [ea |-> ea, name |-> item.name, size |-> size, is_external |-> TRUE,
        is_exported |-> FALSE, is_thread_local |-> item.is_thread_local,
        is_read_only |-> FALSE, as_extern_var |-> v, entries |-> << >>]
  OBVIOUS
<1>7. /\ segs' = Append(ss, r) /\ ea_to_seg' = Put(ea_to_seg, ea, s) /\ segments' = Append(segments, s)
      /\ seg_forward' = IF ea \in DOMAIN ea_to_seg THEN ForwardTo(Append(seg_forward, s), old, s)
                        ELSE Append(seg_forward, s)
  BY <1>1, <1>2, <1>3, <1>4, <1>5, <1>6 DEF AddExternalVariable
<1>8. ea \in DOMAIN ea_to_seg => old \in DOMAIN segs /\ segs[old].ea = ea /\ segs[old].size \in Nat
  BY <1>2 DEF Addressed, SegmentTables, IsSegment
<1>9. IsSegment(r) /\ r.ea = ea /\ r.is_external /\ r.entries = << >>
  <2>1. size \in Nat
    BY <1>5, <1>8
  <2> QED
    BY <1>1, <1>6, <2>1 DEF IsSegment, AreEntries
<1>10. /\ IsList(ss) /\ DOMAIN ss = DOMAIN segs
       /\ \A k \in DOMAIN segs : IsSegment(ss[k]) /\ SameBut(ss[k], segs[k]) /\ ss[k].entries = segs[k].entries
  <2>1. CASE ea \in DOMAIN ea_to_seg
    <3>1. ss = [k \in DOMAIN segs |-> ss[k]]
      BY <2>1, <1>4
    <3>2. IsList(ss) /\ DOMAIN ss = DOMAIN segs
      BY <3>1, ListReplace DEF SegmentTables
    <3>3. PICK o : o = segs[old] /\ IsSegment(o)
      BY <2>1, <1>8 DEF SegmentTables
    <3>4. PICK q : q = [o EXCEPT !.as_extern_var = v]
      OBVIOUS
    <3>5. IsSegment(q) /\ SameBut(q, o) /\ q.entries = o.entries
      BY <3>3, <3>4 DEF IsSegment, SameBut
    <3>6. \A k \in DOMAIN segs : ss[k] = IF k = old THEN q ELSE segs[k]
      BY <2>1, <1>4, <1>8, <3>3, <3>4
    <3> QED
      BY <3>2, <3>3, <3>5, <3>6 DEF SameBut, SegmentTables
  <2>2. CASE ea \notin DOMAIN ea_to_seg
    BY <2>2, <1>4 DEF SegmentTables, SameBut
  <2> QED
    BY <2>1, <2>2
<1>11. PICK f : f = seg_forward /\ Forwards(f) /\ s = Len(f) + 1
  BY DEF SegmentTables
<1>12. PICK g : g = Append(f, s)
  OBVIOUS
<1>13. /\ Forwards(g) /\ DOMAIN g = DOMAIN f \cup {s} /\ s \notin DOMAIN f /\ Len(g) = s
       /\ g[s] = s /\ Get(g, s) = s
       /\ \A k \in DOMAIN f : Get(g, k) = Get(f, k)
  BY <1>11, <1>12, AppendIs
<1>14. DOMAIN f = DOMAIN segs
  BY <1>11, ListIs, ForwardsIs DEF SegmentTables
<1>15. Live(g) \subseteq Live(f) \cup {s}
  <2>1. \A k \in DOMAIN f : g[k] = f[k]
    BY <1>11, <1>12, ForwardsIs DEF Forwards
  <2> QED
    BY <2>1, <1>13 DEF Live
<1>16. PICK h : h = seg_forward'
  OBVIOUS
<1>17. /\ Forwards(h) /\ Len(h) = s /\ Get(h, s) = s /\ Live(h) \subseteq Live(f) \cup {s}
       /\ \A k \in DOMAIN f : Get(h, k) =
            IF ea \in DOMAIN ea_to_seg /\ Get(f, k) = Get(f, old) THEN s ELSE Get(f, k)
  <2>1. CASE ea \in DOMAIN ea_to_seg
    <3>1. h = ForwardTo(g, old, s) /\ old \in DOMAIN f
      BY <2>1, <1>7, <1>8, <1>11, <1>12, <1>14, <1>16
    <3>2. /\ Forwards(h) /\ DOMAIN h = DOMAIN g /\ Len(h) = Len(g) /\ h[s] = s
          /\ \A k \in DOMAIN g : Get(h, k) = IF Get(g, k) = Get(g, old) THEN s ELSE Get(g, k)
      BY <3>1, <1>13, ForwardToIs
    <3>3. Live(h) \subseteq Live(g)
      BY <3>1, <1>13, LiveForwarded
    <3> QED
      BY <2>1, <3>1, <3>2, <3>3, <1>13, <1>15
  <2>2. CASE ea \notin DOMAIN ea_to_seg
    BY <2>2, <1>7, <1>11, <1>12, <1>13, <1>15, <1>16
  <2> QED
    BY <2>1, <2>2
<1>18. /\ SegmentTables' /\ DOMAIN segs' = DOMAIN segs \cup {s} /\ segs'[s] = r
       /\ s \notin DOMAIN segs /\ \A k \in DOMAIN segs : segs'[k] = ss[k]
  BY <1>7, <1>9, <1>10, <1>11, <1>16, <1>17, SegmentAppend
<1>19. Addressed'
  <2>1. /\ DOMAIN ea_to_seg' = DOMAIN ea_to_seg \cup {ea} /\ ea_to_seg'[ea] = s
        /\ \A e \in DOMAIN ea_to_seg : e # ea => ea_to_seg'[e] = ea_to_seg[e]
    BY <1>7 DEF Put
  <2> QED
    BY <2>1, <1>9, <1>10, <1>18 DEF Addressed, SameBut
<1>20. \A k \in DOMAIN segs : Get(seg_forward', k) =
         IF Replaces(k, item.ea) THEN s ELSE Get(seg_forward, k)
  BY <1>1, <1>2, <1>11, <1>14, <1>16, <1>17 DEF Replaces
<1> QED
  BY <1>1, <1>9, <1>10, <1>16, <1>17, <1>18, <1>19, <1>20

LEMMA PrunedIs ==
  ASSUME SegmentTables
  PROVE  Pruned = Live(seg_forward) /\ Pruned \subseteq DOMAIN segs /\ IsFiniteSet(Pruned)
<1>1. PICK n \in Nat : DOMAIN segs = 1..n /\ DOMAIN seg_forward = 1..n
  <2>1. Len(segs) \in Nat /\ DOMAIN segs = 1..Len(segs) /\ DOMAIN seg_forward = 1..Len(seg_forward)
    BY ListIs, ForwardsIs DEF SegmentTables
  <2> QED
    BY <2>1 DEF SegmentTables
<1>2. Pruned = Live(seg_forward) /\ Pruned \subseteq DOMAIN segs
  BY <1>1 DEF SegmentTables, Pruned, Live
<1>3. IsFiniteSet(1..n)
  BY FS_Interval
<1>4. IsFiniteSet(Pruned)
  BY <1>1, <1>2, <1>3, FS_Subset
<1> QED
  BY <1>2, <1>4

(* Two neighbours become one.                                              *)
AreNeighbours(s, p) ==
  s = segments[sub] /\ p = segments[sub - 1] /\ Adjacent(segs[p], segs[s])

MergesInto(s, p) ==
  /\ s \in DOMAIN segs /\ p \in DOMAIN segs /\ s # p
  /\ Get(seg_forward, s) = s /\ Get(seg_forward, p) = p
  /\ DOMAIN segs' = DOMAIN segs
  /\ \A k \in DOMAIN segs :
       /\ segs'[k].ea = segs[k].ea /\ segs'[k].is_external = segs[k].is_external
       /\ k \notin {s, p} => segs'[k] = segs[k]
  /\ segs'[p].size = segs[p].size + segs[s].size
  /\ segs'[p].entries = Filled(segs[p].entries, segs[s].entries)
  /\ segs'[s].size = 0 /\ segs'[s].entries = << >>
  /\ \A k \in DOMAIN segs :
       Get(seg_forward', k) = IF Get(seg_forward, k) = s THEN p ELSE Get(seg_forward, k)

LEMMA NeighboursMerged ==
  ASSUME SegmentTables, Unmerged, sub > 1, NEW s, NEW p, AreNeighbours(s, p),
         segs' = [segs EXCEPT ![p] = Merged(@, segs[s]), ![s].size = 0, ![s].entries = << >>],
         seg_forward' = ForwardTo(seg_forward, s, p), sub' = sub - 1, UNCHANGED segments
  PROVE  MergesInto(s, p) /\ SegmentTables' /\ Unmerged'
<1>1. PICK f : f = seg_forward /\ Forwards(f)
  BY DEF SegmentTables
<1>2. DOMAIN f = DOMAIN segs
  BY <1>1, ListIs, ForwardsIs DEF SegmentTables
<1>3. PICK n \in Nat : n = Len(segments) /\ DOMAIN segments = 1..n
  BY ListIs DEF SegmentTables
<1>4. sub \in 1..n /\ sub - 1 \in 1..n /\ sub \in Nat /\ sub - 1 \in Nat /\ sub - 1 <= sub /\ sub # sub - 1
  BY <1>3 DEF Unmerged
<1>5. /\ s \in Range(segments) /\ p \in Range(segments) /\ s # p /\ f[s] = s /\ f[p] = p
  BY <1>1, <1>3, <1>4 DEF Unmerged, AreNeighbours, Range
<1>6. s \in DOMAIN segs /\ p \in DOMAIN segs /\ s \in DOMAIN f /\ p \in DOMAIN f
  BY <1>2, <1>5 DEF SegmentTables
<1>7. Get(f, s) = s /\ Get(f, p) = p
  BY <1>1, <1>5, <1>6, GetGives
<1>8. PICK g : g = seg_forward'
  OBVIOUS
<1>9. /\ Forwards(g) /\ DOMAIN g = DOMAIN f /\ Len(g) = Len(f) /\ Live(g) \subseteq Live(f)
      /\ \A k \in DOMAIN f : Get(g, k) = IF Get(f, k) = s THEN p ELSE Get(f, k)
  <2>1. g = ForwardTo(f, s, p)
    BY <1>1, <1>8
  <2>2. /\ Forwards(g) /\ DOMAIN g = DOMAIN f /\ Len(g) = Len(f)
        /\ \A k \in DOMAIN f : Get(g, k) = IF Get(f, k) = Get(f, s) THEN p ELSE Get(f, k)
    BY <2>1, <1>1, <1>5, <1>6, ForwardToIs
  <2>3. Live(g) \subseteq Live(f)
    BY <2>1, <1>1, <1>5, <1>6, LiveForwarded
  <2> QED
    BY <2>2, <2>3, <1>7
<1>10. PICK a : a = segs[p] /\ IsSegment(a)
  BY <1>6 DEF SegmentTables
<1>11. PICK b : b = segs[s] /\ IsSegment(b)
  BY <1>6 DEF SegmentTables
<1>12. PICK u : u = Merged(a, b)
  OBVIOUS
<1>13. PICK w : w = [b EXCEPT !.size = 0, !.entries = << >>]
  OBVIOUS
<1>14. segs' = [segs EXCEPT ![p] = u, ![s] = w]
  BY <1>5, <1>6, <1>10, <1>11, <1>12, <1>13
<1>15. \A k \in DOMAIN segs : segs'[k] = IF k = s THEN w ELSE IF k = p THEN u ELSE segs[k]
  BY <1>14
<1>16. /\ u.ea = a.ea /\ u.is_external = a.is_external /\ u.size = a.size + b.size
       /\ u.entries = Filled(a.entries, b.entries)
       /\ {"ea", "size", "is_external", "entries"} \subseteq DOMAIN u
  <2>1. PICK en : en = Filled(a.entries, b.entries)
    OBVIOUS
  <2>2. PICK ro : ro = (a.is_read_only /\ b.is_read_only)
    OBVIOUS
  <2>3. u = [a EXCEPT !.size = @ + b.size, !.entries = en, !.is_read_only = ro]
    BY <1>12, <2>1, <2>2 DEF Merged
  <2> QED
    BY <2>1, <2>3, <1>10 DEF IsSegment
<1>17. /\ w.ea = b.ea /\ w.is_external = b.is_external /\ w.size = 0 /\ w.entries = << >>
       /\ {"ea", "size", "is_external", "entries"} \subseteq DOMAIN w
  BY <1>11, <1>13 DEF IsSegment
<1>18. AreEntries(u.entries) /\ AreEntries(w.entries)
  <2>1. AreEntries(a.entries) /\ AreEntries(b.entries)
    BY <1>10, <1>11 DEF IsSegment
  <2>2. AreEntries(Filled(a.entries, b.entries))
    BY <2>1 DEF AreEntries, Filled
  <2> QED
    BY <2>2, <1>16, <1>17 DEF AreEntries
<1>19. IsSegment(u) /\ IsSegment(w)
  BY <1>10, <1>11, <1>16, <1>17, <1>18 DEF IsSegment
<1>20. IsList(segs') /\ Len(segs') = Len(segs) /\ DOMAIN segs' = DOMAIN segs
  <2>1. segs' = [k \in DOMAIN segs |-> segs'[k]]
    BY <1>14
  <2> QED
    BY <2>1, ListReplace DEF SegmentTables
<1>21. SegmentTables'
  BY <1>1, <1>8, <1>9, <1>15, <1>19, <1>20 DEF SegmentTables
<1>22. Unmerged'
  <2>1. ASSUME NEW k \in DOMAIN segments, k <= sub - 1 PROVE g[segments[k]] = segments[k]
    <3>1. PICK y : y = segments[k]
      OBVIOUS
    <3>2. y \in DOMAIN f /\ y # s /\ f[y] = y
      <4>1. k # sub /\ k <= sub /\ k \in Nat
        BY <2>1, <1>3, <1>4
      <4>2. y \in Range(segments)
        BY <3>1, <2>1 DEF Range
      <4> QED
        BY <4>1, <4>2, <3>1, <2>1, <1>1, <1>2, <1>3, <1>4 DEF Unmerged, AreNeighbours, SegmentTables
    <3>3. Get(f, y) = y
      BY <3>2, <1>1, GetGives
    <3>4. Get(g, y) = y
      BY <3>2, <3>3, <1>9
    <3>5. g[Get(g, y)] = Get(g, y)
      BY <3>2, <1>9, GetGives
    <3> QED
      BY <3>1, <3>4, <3>5
  <2>2. sub' \in Nat /\ sub' = sub - 1 /\ sub' <= Len(segments)
    BY <1>3, <1>4
  <2> QED
    BY <2>1, <2>2, <1>8 DEF Unmerged
<1> QED
  BY <1>1, <1>2, <1>5, <1>6, <1>7, <1>8, <1>9, <1>10, <1>11, <1>15, <1>16, <1>17, <1>20, <1>21, <1>22 DEF MergesInto
-----------------------------------------------------------------------------
LEMMA TabInit == Init => TabInv
<1> SUFFICES ASSUME Init PROVE TabInv
  OBVIOUS
<1>1. /\ cfg \in Modules /\ pc = "functions" /\ at = 1 /\ sub = 1
      /\ segs = << >> /\ seg_forward = << >> /\ ea_to_seg = << >> /\ segments = << >>
  BY DEF Init
<1>2. IsList(segs) /\ IsList(segments) /\ Len(seg_forward) = Len(segs)
  BY <1>1 DEF IsList
<1>3. Forwards(seg_forward)
  <2>1. [x \in {} |-> 0] \in [DOMAIN seg_forward -> Nat]
    BY <1>1
  <2>2. Descends(seg_forward, [x \in {} |-> 0])
    BY <1>1 DEF Descends
  <2>3. seg_forward \in Seq(Nat) /\ DOMAIN seg_forward = {}
    BY <1>1
  <2> QED
    BY <2>1, <2>2, <2>3 DEF Forwards
<1>4. SegmentTables
  BY <1>1, <1>2, <1>3 DEF SegmentTables, Live, Range
<1>5. Addressed
  BY <1>1 DEF Addressed
<1> QED
  BY <1>1, <1>4, <1>5 DEF TabInv, Early

(* Where an item of the list is read, it is one of the CFG's.              *)
LEMMA SegmentItem ==
  ASSUME TabInv, pc \in {"segments", "xrefs", "blobs"}, at <= Len(List)
  PROVE  /\ Item = cfg.segments[at] /\ at \in DOMAIN cfg.segments /\ Item \in Range(cfg.segments)
         /\ Item.ea \in Nat /\ Item.is_external \in BOOLEAN
         /\ IsList(Item.data) /\ IsList(Item.vars) /\ IsList(Item.xrefs)
         /\ \A xref \in Range(Item.xrefs) : xref.ea \in Nat /\ xref.width \in Nat /\ xref.target_ea \in Nat
<1>1. List = cfg.segments /\ Item = cfg.segments[at]
  BY DEF List, Item
<1>2. IsList(cfg.segments) /\ at \in Nat \ {0} /\ cfg \in Modules
  BY ModulesAssumption DEF TabInv, Running
<1>3. at \in DOMAIN cfg.segments
  <2>1. Len(cfg.segments) \in Nat /\ DOMAIN cfg.segments = 1..Len(cfg.segments)
    BY <1>2, ListIs
  <2> QED
    BY <2>1, <1>1, <1>2
<1>4. Item \in Range(cfg.segments)
  BY <1>1, <1>3 DEF Range
<1> QED
  BY <1>1, <1>2, <1>3, <1>4, ModulesAssumption

LEMMA ExternalItem ==
  ASSUME TabInv, pc = "variables", at <= Len(List)
  PROVE  Item.ea \in Nat /\ Item.size \in Nat
<1>1. List = cfg.external_vars /\ Item = cfg.external_vars[at]
  BY DEF List, Item
<1>2. IsList(cfg.external_vars) /\ at \in Nat \ {0} /\ cfg \in Modules
  BY ModulesAssumption DEF TabInv, Running
<1>3. at \in DOMAIN cfg.external_vars
  <2>1. Len(cfg.external_vars) \in Nat /\ DOMAIN cfg.external_vars = 1..Len(cfg.external_vars)
    BY <1>2, ListIs
  <2> QED
    BY <2>1, <1>1, <1>2
<1>4. Item \in Range(cfg.external_vars)
  BY <1>1, <1>3 DEF Range
<1> QED
  BY <1>2, <1>4, ModulesAssumption

LEMMA TablesKept ==
  ASSUME UNCHANGED segment_tables
  PROVE  (SegmentTables => SegmentTables') /\ (Addressed => Addressed')
BY DEF segment_tables, SegmentTables, Addressed, Live

(* Steps that leave the segments alone.                                    *)
LEMMA TabStays ==
  ASSUME TabInv, Running, UNCHANGED <<cfg, segment_tables>>, pc' \in {pc, "abort"},
         pc \notin {"segments", "merge"}, at' \in Nat \ {0}, sub' \in Nat \ {0}
  PROVE  TabInv'
BY TablesKept DEF TabInv, Running, segment_tables, Early, Late

LEMMA TabNextLoop ==
  ASSUME TabInv, NextLoop
  PROVE  TabInv'
<1>1. UNCHANGED <<cfg, segment_tables>> /\ at' = 1 /\ sub' = 1
  BY DEF NextLoop
<1>2. Running /\ SegmentTables' /\ Addressed' /\ cfg \in Modules
  BY <1>1, NextLoopIs, TablesKept DEF TabInv, Running
<1>3. segs' = segs
  BY <1>1 DEF segment_tables
<1>4. pc' = "variables" => \A s \in DOMAIN segs' : segs'[s].is_external
  BY <1>2, <1>3, NextLoopIs DEF TabInv, Early
<1>5. pc' \in Early => segs' = << >>
  BY <1>2, <1>3, NextLoopIs DEF TabInv, Early
<1>6. pc' \in Early \cup {"variables"} \cup Late
  BY NextLoopIs DEF Early, Late
<1> QED
  BY <1>1, <1>2, <1>4, <1>5, <1>6 DEF TabInv

LEMMA TabExternal ==
  ASSUME TabInv, ReadExternalVariable
  PROVE  TabInv'
<1>1. /\ pc = "variables" /\ at <= Len(List) /\ UNCHANGED cfg
      /\ cfg \in Modules /\ at \in Nat \ {0} /\ SegmentTables /\ Addressed
      /\ \A s \in DOMAIN segs : segs[s].is_external
  BY DEF ReadExternalVariable, InLoop, TabInv, Running
<1>2. pc' \in {pc, "abort"} /\ at' \in Nat \ {0} /\ sub' \in Nat \ {0}
  <2>1. NextItem \/ Abort
    BY DEF ReadExternalVariable, AddExternalVariable
  <2> QED
    BY <2>1, <1>1 DEF NextItem, Abort, TabInv, Running
<1>3. CASE UNCHANGED segment_tables
  BY <1>1, <1>2, <1>3, TabStays DEF Running
<1>4. CASE AddExternalVariable(Item)
  <2>1. PICK s : s = Len(segs) + 1
    OBVIOUS
  <2>2. /\ SegmentTables' /\ Addressed' /\ DOMAIN segs' = DOMAIN segs \cup {s} /\ segs'[s].is_external
        /\ \A k \in DOMAIN segs : SameBut(segs'[k], segs[k])
    BY <2>1, <1>1, <1>4, ExternalItem, ExternalSegment
  <2>3. \A k \in DOMAIN segs' : segs'[k].is_external
    BY <2>2, <1>1 DEF SameBut
  <2> QED
    BY <2>2, <2>3, <1>1, <1>2 DEF TabInv, Running, Early, Late
<1> QED
  BY <1>3, <1>4 DEF ReadExternalVariable

(* A segment of the CFG.                                                   *)
LEMMA BeginIs ==
  ASSUME TabInv, BeginSegment, NEW s, s = Len(segs) + 1
  PROVE  /\ pc = "segments" /\ pc' = pc /\ sub = 1 /\ at <= Len(List) /\ UNCHANGED <<cfg, ea_to_seg>>
         /\ SegmentTables' /\ Addressed'
         /\ \/ at' = at + 1 /\ sub' = 1 /\ UNCHANGED segment_tables
            \/ /\ at' = at /\ sub' = 2
               /\ DOMAIN segs' = DOMAIN segs \cup {s} /\ s \notin DOMAIN segs /\ Len(segs') = s
               /\ segs'[s].ea = Item.ea /\ segs'[s].size = Len(Item.data)
               /\ segs'[s].is_external = Item.is_external /\ segs'[s].entries = << >>
               /\ \A k \in DOMAIN segs : segs'[k] = segs[k]
               /\ Get(seg_forward', s) = s
               /\ \A k \in DOMAIN segs : Get(seg_forward', k) = Get(seg_forward, k)
<1>1. /\ pc = "segments" /\ pc' = pc /\ sub = 1 /\ at <= Len(List) /\ UNCHANGED <<cfg, ea_to_seg>>
      /\ SegmentTables /\ Addressed /\ at \in Nat /\ sub \in Nat
  BY DEF BeginSegment, InLoop, NextItem, NextSub, TabInv, Running, segment_tables
<1>2. CASE Skipped(Item)
  <2>1. at' = at + 1 /\ sub' = 1 /\ UNCHANGED segment_tables
    BY <1>2 DEF BeginSegment, NextItem
  <2>2. SegmentTables' /\ Addressed'
    BY <1>1, <2>1, TablesKept
  <2> QED
    BY <1>1, <2>1, <2>2
<1>3. CASE ~Skipped(Item)
  <2>1. PICK r : r = [ea |-> Item.ea, size |-> Len(Item.data),
                name |-> IF Item.variable_name # None THEN Item.variable_name ELSE Item.name,
                is_external |-> Item.is_external, is_exported |-> Item.is_exported,
                is_thread_local |-> Item.is_thread_local, is_read_only |-> Item.is_read_only,
                as_extern_var |-> 0, entries |-> << >>]
    OBVIOUS
  <2>2. /\ segs' = Append(segs, r) /\ seg_forward' = Append(seg_forward, s)
        /\ segments' = Append(segments, s) /\ at' = at /\ sub' = sub + 1
    BY <1>3, <2>1 DEF BeginSegment, NextSub
  <2>3. /\ r.ea = Item.ea /\ r.size = Len(Item.data) /\ r.is_external = Item.is_external
        /\ r.entries = << >> /\ IsSegment(r)
    <3>1. Item.ea \in Nat /\ Len(Item.data) \in Nat /\ Item.is_external \in BOOLEAN
      BY <1>1, SegmentItem, ListIs
    <3> QED
      BY <2>1, <3>1 DEF IsSegment, AreEntries
  <2>4. PICK f : f = seg_forward /\ Forwards(f) /\ s = Len(f) + 1
    BY <1>1 DEF SegmentTables
  <2>5. PICK g : g = Append(f, s)
    OBVIOUS
  <2>6. /\ Forwards(g) /\ DOMAIN g = DOMAIN f \cup {s} /\ s \notin DOMAIN f /\ Len(g) = s
        /\ g[s] = s /\ Get(g, s) = s
        /\ \A k \in DOMAIN f : Get(g, k) = Get(f, k)
    BY <2>4, <2>5, AppendIs
  <2>7. Live(g) \subseteq Live(f) \cup {s}
    <3>1. \A k \in DOMAIN f : g[k] = f[k]
      BY <2>4, <2>5, ForwardsIs DEF Forwards
    <3> QED
      BY <3>1, <2>6 DEF Live
  <2>8. g = seg_forward' /\ DOMAIN f = DOMAIN segs
    BY <1>1, <2>2, <2>4, <2>5, ListIs, ForwardsIs DEF SegmentTables
  <2>9. IsList(segs) /\ \A k \in DOMAIN segs : IsSegment(segs[k])
    BY <1>1 DEF SegmentTables
  <2>10. /\ SegmentTables' /\ DOMAIN segs' = DOMAIN segs \cup {s} /\ segs'[s] = r
         /\ s \notin DOMAIN segs /\ \A k \in DOMAIN segs : segs'[k] = segs[k]
    BY <1>1, <2>2, <2>3, <2>4, <2>6, <2>7, <2>8, <2>9, SegmentAppend
  <2>11. Addressed'
    BY <1>1, <2>10 DEF Addressed
  <2>12. Len(segs') = s
    BY <2>6, <2>8, <2>10 DEF SegmentTables
  <2> QED
    BY <1>1, <2>2, <2>3, <2>4, <2>6, <2>8, <2>10, <2>11, <2>12
<1> QED
  BY <1>2, <1>3

(* A variable of a segment may name it.                                    *)
LEMMA VariableIs ==
  ASSUME TabInv, ReadVariable
  PROVE  /\ pc = "segments" /\ pc' = pc /\ sub > 1 /\ sub' = sub + 1 /\ at' = at
         /\ UNCHANGED <<cfg, seg_forward, ea_to_seg, segments>>
         /\ SegmentTables' /\ Addressed' /\ DOMAIN segs' = DOMAIN segs /\ Len(segs') = Len(segs)
         /\ \A k \in DOMAIN segs : SameBut(segs'[k], segs[k]) /\ segs'[k].entries = segs[k].entries
<1>1. /\ pc = "segments" /\ pc' = pc /\ sub > 1 /\ sub' = sub + 1 /\ at' = at /\ SegmentTables /\ Addressed
      /\ UNCHANGED <<cfg, seg_forward, ea_to_seg, segments>>
  <2>1. /\ pc = "segments" /\ sub \in 2..(Len(Item.vars) + 1) /\ sub' = sub + 1
        /\ UNCHANGED <<pc, at, cfg, seg_forward, ea_to_seg, segments>>
    BY DEF ReadVariable, InLoop, NextSub
  <2>2. SegmentTables /\ Addressed /\ sub \in Nat
    BY <2>1 DEF TabInv, Running
  <2> QED
    BY <2>1, <2>2
<1>2. PICK s : s = Len(segs)
  OBVIOUS
<1>3. s \in DOMAIN segs
  <2>1. s \in Nat /\ DOMAIN segs = 1..s
    BY <1>1, <1>2, ListIs DEF SegmentTables
  <2> QED
    BY <2>1, <1>1, <1>2 DEF TabInv, Running
<1>4. PICK r : r = segs[s] /\ IsSegment(r)
  BY <1>1, <1>3 DEF SegmentTables
<1>5. \/ segs' = segs
      \/ \E x : segs' = [segs EXCEPT ![s].name = x]
  BY <1>2 DEF ReadVariable
<1>6. ASSUME NEW x, segs' = [segs EXCEPT ![s].name = x]
      PROVE  /\ segs' = [k \in DOMAIN segs |-> segs'[k]]
             /\ \A k \in DOMAIN segs : /\ IsSegment(segs'[k]) /\ SameBut(segs'[k], segs[k])
                                        /\ segs'[k].entries = segs[k].entries
  <2>1. PICK q : q = [r EXCEPT !.name = x]
    OBVIOUS
  <2>2. IsSegment(q) /\ SameBut(q, r) /\ q.entries = r.entries
    BY <1>4, <2>1 DEF IsSegment, SameBut
  <2>3. \A k \in DOMAIN segs : segs'[k] = IF k = s THEN q ELSE segs[k]
    BY <1>3, <1>4, <1>6, <2>1
  <2>4. \A k \in DOMAIN segs : IsSegment(segs[k])
    BY <1>1 DEF SegmentTables
  <2> QED
    BY <1>4, <1>6, <2>2, <2>3, <2>4 DEF SameBut
<1>7. CASE segs' = segs
  BY <1>1, <1>7 DEF SegmentTables, Addressed, SameBut
<1>8. ASSUME NEW x, segs' = [segs EXCEPT ![s].name = x]
      PROVE  /\ SegmentTables' /\ DOMAIN segs' = DOMAIN segs /\ Len(segs') = Len(segs)
             /\ \A k \in DOMAIN segs : SameBut(segs'[k], segs[k]) /\ segs'[k].entries = segs[k].entries
  BY <1>1, <1>6, <1>8, SegmentsReplaced
<1>9. /\ SegmentTables' /\ DOMAIN segs' = DOMAIN segs /\ Len(segs') = Len(segs)
      /\ \A k \in DOMAIN segs : SameBut(segs'[k], segs[k]) /\ segs'[k].entries = segs[k].entries
  BY <1>5, <1>7, <1>8, <1>1 DEF SameBut
<1>10. Addressed'
  BY <1>1, <1>9 DEF Addressed, SameBut
<1> QED
  BY <1>1, <1>9, <1>10

(* A cross-reference that resolves is an entry of the segment at the       *)
(* address of the CFG's segment.                                           *)
LEMMA XrefIs ==
  ASSUME TabInv, ReadXref
  PROVE  /\ pc = "xrefs" /\ pc' \in {pc, "abort"} /\ at' = at /\ sub' \in {sub, sub + 1}
         /\ UNCHANGED <<cfg, seg_forward, ea_to_seg, segments>>
         /\ SegmentTables' /\ Addressed' /\ DOMAIN segs' = DOMAIN segs /\ Len(segs') = Len(segs)
         /\ \/ segs' = segs
            \/ \E s \in DOMAIN segs, xref \in Range(Item.xrefs) :
                 /\ xref.target_ea \in Nat
                 /\ \A k \in DOMAIN segs : SameBut(segs'[k], segs[k]) /\ (k # s => segs'[k] = segs[k])
                 /\ segs'[s].entries = Put(segs[s].entries, xref.ea, Xref(s, xref))
<1>1. /\ pc = "xrefs" /\ pc' \in {pc, "abort"} /\ at' = at /\ sub' \in {sub, sub + 1}
      /\ UNCHANGED <<cfg, seg_forward, ea_to_seg, segments>> /\ SegmentTables /\ Addressed
      /\ at <= Len(List) /\ sub \in Nat /\ sub <= Len(Item.xrefs)
  BY DEF ReadXref, InLoop, NextSub, Abort, TabInv, Running
<1>2. PICK xref : xref = Item.xrefs[sub]
  OBVIOUS
<1>3. PICK s : s = IF Item.ea \in DOMAIN ea_to_seg THEN ea_to_seg[Item.ea] ELSE 0
  OBVIOUS
<1>4. CASE segs' = segs
  BY <1>1, <1>4 DEF SegmentTables, Addressed
<1>5. CASE segs' # segs
  <2>1. /\ Item.ea \in DOMAIN ea_to_seg
        /\ segs' = [segs EXCEPT ![s].entries = Put(@, xref.ea, Xref(s, xref))]
    BY <1>2, <1>3, <1>5 DEF ReadXref
  <2>2. xref \in Range(Item.xrefs) /\ xref.ea \in Nat /\ xref.width \in Nat /\ xref.target_ea \in Nat
    <3>1. IsList(Item.xrefs) /\ \A x \in Range(Item.xrefs) : x.ea \in Nat /\ x.width \in Nat /\ x.target_ea \in Nat
      BY <1>1, SegmentItem
    <3>2. sub \in DOMAIN Item.xrefs
      <4>1. Len(Item.xrefs) \in Nat /\ DOMAIN Item.xrefs = 1..Len(Item.xrefs)
        BY <3>1, ListIs
      <4>2. sub # 0
        BY <1>1 DEF TabInv, Running
      <4> QED
        BY <4>1, <4>2, <1>1
    <3>3. xref \in Range(Item.xrefs)
      BY <3>2, <1>2 DEF Range
    <3> QED
      BY <3>1, <3>3
  <2>3. s \in DOMAIN segs
    BY <2>1, <1>1, <1>3 DEF Addressed
  <2>4. PICK r : r = segs[s] /\ IsSegment(r)
    BY <2>3, <1>1 DEF SegmentTables
  <2>5. PICK e : e = Xref(s, xref)
    OBVIOUS
  <2>6. IsEntry(e)
    BY <2>2, <2>5 DEF IsEntry, Xref
  <2>7. PICK en : en = Put(r.entries, xref.ea, e)
    OBVIOUS
  <2>8. AreEntries(en)
    BY <2>2, <2>4, <2>6, <2>7 DEF AreEntries, IsSegment, Put
  <2>9. segs' = [segs EXCEPT ![s].entries = en]
    BY <2>1, <2>3, <2>4, <2>5, <2>7
  <2>10. /\ SegmentTables' /\ DOMAIN segs' = DOMAIN segs /\ Len(segs') = Len(segs)
         /\ \A k \in DOMAIN segs : SameBut(segs'[k], segs[k]) /\ (k # s => segs'[k] = segs[k])
         /\ segs'[s].entries = en
    BY <1>1, <2>3, <2>8, <2>9, EntriesReplaced
  <2>11. Addressed'
    BY <1>1, <2>10 DEF Addressed, SameBut
  <2> QED
    BY <1>1, <2>2, <2>3, <2>4, <2>5, <2>7, <2>10, <2>11
<1> QED
  BY <1>1, <1>4, <1>5

(* Blobs are entries whatever the cross-references are.                    *)
LEMMA BlobsAre ==
  ASSUME NEW lo \in Nat, NEW hi \in Nat, NEW xrefs, NEW vars, NEW bytes,
         NEW blobs, blobs = Blobs(xrefs, lo, hi, vars, bytes)
  PROVE  AreEntries(blobs) /\ \A a \in DOMAIN blobs : blobs[a].blob \in {"zero", "data"}
<1>1. PICK gap : gap = Gap(xrefs, lo, hi) /\ gap \subseteq lo..(hi - 1)
  BY DEF Gap
<1>2. PICK zeros : zeros = ZeroGroups(gap, vars, bytes)
  OBVIOUS
<1>3. PICK starts : starts = BlobStarts(gap, zeros) /\ starts \subseteq gap
  BY DEF BlobStarts
<1>4. /\ DOMAIN blobs = starts
      /\ \A a \in starts : /\ blobs[a].next = Least(Ends(gap, starts, hi, a))
                          /\ blobs[a].blob = IF a \in zeros THEN "zero" ELSE "data"
  BY <1>1, <1>2, <1>3 DEF Blobs, Ends
<1>5. ASSUME NEW a \in starts PROVE a \in Nat /\ blobs[a].next \in Nat
  <2>1. a \in gap /\ a \in Nat
    BY <1>1, <1>3
  <2>2. Least(Ends(gap, starts, hi, a)) \in (a + 1)..hi
    BY <1>1, <2>1, BlobEnds
  <2> QED
    BY <1>4, <2>1, <2>2
<1>6. \A a \in starts : blobs[a].blob \in {"zero", "data"}
  BY <1>4
<1> QED
  BY <1>4, <1>5, <1>6 DEF AreEntries, IsEntry

(* A segment is filled.                                                    *)
Bytes(item) == item.ea..(item.ea + Len(item.data) - 1)
FillsWith(s, bytes, end, xrefs) ==
  /\ Item.ea \in DOMAIN ea_to_seg /\ s = ea_to_seg[Item.ea] /\ s \in DOMAIN segs /\ segs[s].ea = Item.ea
  /\ end = Item.ea + segs[s].size /\ xrefs = Within(segs[s].entries, end)
  /\ bytes \in SegmentBytes(segs[s], Item)
  /\ Bytes(Item) # {} /\ Bytes(Item) \cap mapped = {} /\ mapped' = mapped \cup Bytes(Item)
  /\ \A k \in DOMAIN segs : SameBut(segs'[k], segs[k]) /\ (k # s => segs'[k] = segs[k])
  /\ segs'[s].entries = Filled(xrefs, Blobs(xrefs, Item.ea, end, DOMAIN ea_to_var, bytes))
  /\ Partitions(segs'[s].entries, Item.ea, end)

LEMMA FillIs ==
  ASSUME TabInv, FillBlobs
  PROVE  /\ pc = "blobs" /\ pc' \in {pc, "abort"} /\ at <= Len(List)
         /\ UNCHANGED <<cfg, seg_forward, ea_to_seg, segments>>
         /\ SegmentTables' /\ Addressed' /\ DOMAIN segs' = DOMAIN segs
         /\ pc' = pc => /\ at' = at + 1 /\ sub' = 1
                        /\ \E s, bytes, end, xrefs : FillsWith(s, bytes, end, xrefs)
<1>1. /\ pc = "blobs" /\ pc' \in {pc, "abort"} /\ at <= Len(List)
      /\ UNCHANGED <<cfg, seg_forward, ea_to_seg, segments>> /\ SegmentTables /\ Addressed
  BY DEF FillBlobs, InLoop, NextItem, Abort, TabInv, Running
<1>2. PICK range : range = Bytes(Item)
  OBVIOUS
<1>3. CASE segs' = segs /\ pc' = "abort"
  BY <1>1, <1>3 DEF SegmentTables, Addressed
<1>4. CASE Item.ea \in DOMAIN ea_to_seg /\ range # {} /\ range \cap mapped = {}
  <2>1. PICK s : s = ea_to_seg[Item.ea] /\ s \in DOMAIN segs /\ segs[s].ea = Item.ea
    BY <1>1, <1>4 DEF Addressed
  <2>2. PICK r : r = segs[s] /\ IsSegment(r)
    BY <2>1, <1>1 DEF SegmentTables
  <2>3. PICK end : end = Item.ea + r.size
    OBVIOUS
  <2>4. PICK xrefs : xrefs = Within(r.entries, end)
    OBVIOUS
  <2>5. PICK bytes \in SegmentBytes(r, Item) : \E en :
          /\ en = Filled(xrefs, Blobs(xrefs, Item.ea, end, DOMAIN ea_to_var, bytes))
          /\ segs' = [segs EXCEPT ![s].entries = en]
          /\ IF Partitions(en, Item.ea, end) THEN NextItem ELSE Abort
    BY <1>2, <1>4, <2>1, <2>2, <2>3, <2>4 DEF FillBlobs, Bytes
  <2>6. PICK en :
          /\ en = Filled(xrefs, Blobs(xrefs, Item.ea, end, DOMAIN ea_to_var, bytes))
          /\ segs' = [segs EXCEPT ![s].entries = en]
          /\ IF Partitions(en, Item.ea, end) THEN NextItem ELSE Abort
    BY <2>5
  <2>7. mapped' = mapped \cup range
    BY <1>2, <1>4 DEF FillBlobs, Bytes
  <2>8. AreEntries(en)
    <3>1. PICK blobs : blobs = Blobs(xrefs, Item.ea, end, DOMAIN ea_to_var, bytes)
      OBVIOUS
    <3>2. Item.ea \in Nat /\ end \in Nat
      BY <1>1, <2>2, <2>3, SegmentItem DEF IsSegment
    <3>3. AreEntries(blobs)
      BY <3>1, <3>2, BlobsAre
    <3>4. AreEntries(xrefs)
      BY <2>2, <2>4 DEF IsSegment, AreEntries, Within
    <3> QED
      BY <2>6, <3>1, <3>3, <3>4 DEF AreEntries, Filled
  <2>9. /\ SegmentTables' /\ DOMAIN segs' = DOMAIN segs
        /\ \A k \in DOMAIN segs : SameBut(segs'[k], segs[k]) /\ (k # s => segs'[k] = segs[k])
        /\ segs'[s].entries = en
    BY <1>1, <2>1, <2>6, <2>8, EntriesReplaced
  <2>10. Addressed'
    BY <1>1, <2>9 DEF Addressed, SameBut
  <2>11. pc' = pc => NextItem /\ Partitions(en, Item.ea, end)
    BY <1>1, <2>6 DEF Abort
  <2>12. pc' = pc => FillsWith(s, bytes, end, xrefs)
    BY <1>2, <1>4, <2>1, <2>2, <2>3, <2>4, <2>5, <2>6, <2>7, <2>9, <2>11 DEF FillsWith
  <2> QED
    BY <1>1, <2>9, <2>10, <2>11, <2>12 DEF NextItem
<1> QED
  BY <1>2, <1>3, <1>4 DEF FillBlobs, Bytes, Abort

LEMMA EndIs ==
  ASSUME TabInv, EndSegment
  PROVE  /\ pc = "segments" /\ pc' = pc /\ sub > 1 /\ at <= Len(List) /\ at' = at + 1 /\ sub' = 1
         /\ UNCHANGED <<cfg, segs, seg_forward, segments>>
         /\ Len(segs) \in DOMAIN segs /\ segs[Len(segs)].ea = Item.ea
         /\ ea_to_seg' = Put(ea_to_seg, Item.ea, Len(segs))
         /\ SegmentTables' /\ Addressed'
<1>1. /\ pc = "segments" /\ pc' = pc /\ at <= Len(List) /\ at' = at + 1 /\ sub' = 1
      /\ UNCHANGED <<cfg, segs, seg_forward, segments>>
      /\ ea_to_seg' = Put(ea_to_seg, Item.ea, Len(segs)) /\ sub = Len(Item.vars) + 2
      /\ SegmentTables /\ Addressed /\ sub \in Nat
  BY DEF EndSegment, InLoop, NextItem, TabInv, Running
<1>2. sub > 1
  <2>1. Len(Item.vars) \in Nat
    BY <1>1, SegmentItem, ListIs
  <2> QED
    BY <2>1, <1>1
<1>3. Len(segs) # 0 /\ segs[Len(segs)].ea = Item.ea
  BY <1>1, <1>2 DEF TabInv, Running
<1>4. Len(segs) \in DOMAIN segs
  <2>1. Len(segs) \in Nat /\ DOMAIN segs = 1..Len(segs)
    BY <1>1, ListIs DEF SegmentTables
  <2> QED
    BY <2>1, <1>3
<1>5. /\ DOMAIN ea_to_seg' = DOMAIN ea_to_seg \cup {Item.ea} /\ ea_to_seg'[Item.ea] = Len(segs)
      /\ \A e \in DOMAIN ea_to_seg : e # Item.ea => ea_to_seg'[e] = ea_to_seg[e]
  BY <1>1 DEF Put
<1>6. Addressed'
  BY <1>1, <1>3, <1>4, <1>5 DEF Addressed
<1>7. SegmentTables'
  BY <1>1 DEF SegmentTables, Live
<1> QED
  BY <1>1, <1>2, <1>3, <1>4, <1>6, <1>7

LEMMA TabSegments ==
  ASSUME TabInv, BeginSegment \/ ReadVariable \/ EndSegment
  PROVE  TabInv'
<1>1. cfg \in Modules /\ at \in Nat \ {0} /\ pc = "segments" /\ sub \in Nat \ {0}
  BY DEF BeginSegment, ReadVariable, EndSegment, InLoop, TabInv, Running
<1>2. CASE BeginSegment
  <2>1. PICK s : s = Len(segs) + 1
    OBVIOUS
  <2>2. pc' = pc /\ UNCHANGED cfg /\ SegmentTables' /\ Addressed'
    BY <1>2, <2>1, BeginIs
  <2>3. \/ at' = at + 1 /\ sub' = 1
        \/ at' = at /\ sub' = 2 /\ Len(segs') = s /\ segs'[s].ea = Item.ea
    BY <1>2, <2>1, BeginIs
  <2>4. Len(segs) \in Nat
    BY <1>1, ListIs DEF TabInv, Running, SegmentTables
  <2>5. sub' > 1 => Len(segs') # 0 /\ segs'[Len(segs')].ea = Item'.ea
    <3>1. UNCHANGED <<cfg, pc>>
      BY <2>2
    <3>2. at' = at => Item' = Item
      BY <3>1 DEF Item, List
    <3> QED
      BY <2>1, <2>3, <2>4, <3>2
  <2>6. at' \in Nat \ {0} /\ sub' \in Nat \ {0}
    BY <1>1, <2>3
  <2> QED
    BY <1>1, <2>2, <2>5, <2>6 DEF TabInv, Running, Early, Late
<1>3. CASE ReadVariable
  <2>1. /\ pc' = pc /\ sub > 1 /\ sub' = sub + 1 /\ at' = at /\ UNCHANGED cfg
        /\ SegmentTables' /\ Addressed' /\ DOMAIN segs' = DOMAIN segs /\ Len(segs') = Len(segs)
        /\ \A k \in DOMAIN segs : SameBut(segs'[k], segs[k])
    BY <1>3, VariableIs
  <2>2. Len(segs) # 0 /\ segs[Len(segs)].ea = Item.ea
    BY <1>1, <2>1 DEF TabInv, Running
  <2>3. Len(segs) \in DOMAIN segs
    <3>1. Len(segs) \in Nat /\ DOMAIN segs = 1..Len(segs)
      BY <1>1, ListIs DEF TabInv, Running, SegmentTables
    <3> QED
      BY <3>1, <2>2
  <2>4. Item' = Item
    BY <2>1 DEF Item, List
  <2>5. Len(segs') # 0 /\ segs'[Len(segs')].ea = Item'.ea
    BY <2>1, <2>2, <2>3, <2>4 DEF SameBut
  <2>6. at' \in Nat \ {0} /\ sub' \in Nat \ {0}
    BY <1>1, <2>1
  <2> QED
    BY <1>1, <2>1, <2>5, <2>6 DEF TabInv, Running, Early, Late
<1>4. CASE EndSegment
  <2>1. /\ pc' = pc /\ at' = at + 1 /\ sub' = 1 /\ UNCHANGED cfg
        /\ SegmentTables' /\ Addressed'
    BY <1>4, EndIs
  <2> QED
    BY <1>1, <2>1 DEF TabInv, Running, Early, Late
<1> QED
  BY <1>2, <1>3, <1>4

LEMMA TabFill ==
  ASSUME TabInv, ReadXref \/ FillBlobs
  PROVE  TabInv'
<1>1. cfg \in Modules /\ at \in Nat \ {0} /\ sub \in Nat \ {0}
  BY DEF ReadXref, FillBlobs, InLoop, TabInv, Running
<1>2. CASE ReadXref
  <2>1. /\ pc = "xrefs" /\ pc' \in {pc, "abort"} /\ at' = at /\ sub' \in {sub, sub + 1} /\ UNCHANGED cfg
        /\ SegmentTables' /\ Addressed'
    BY <1>2, XrefIs
  <2> QED
    BY <1>1, <2>1 DEF TabInv, Running, Early, Late
<1>3. CASE FillBlobs
  <2>1. /\ pc = "blobs" /\ pc' \in {pc, "abort"} /\ UNCHANGED cfg /\ SegmentTables' /\ Addressed'
        /\ pc' = pc => at' = at + 1 /\ sub' = 1
    BY <1>3, FillIs
  <2> QED
    BY <1>1, <2>1 DEF TabInv, Running, Early, Late
<1> QED
  BY <1>2, <1>3

LEMMA TabSort ==
  ASSUME TabInv, SortForMerge
  PROVE  TabInv' /\ UNCHANGED <<cfg, segs, seg_forward, ea_to_seg>>
<1>1. /\ pc = "merge" /\ pc' = pc /\ at' = 2 /\ UNCHANGED <<cfg, segs, seg_forward, ea_to_seg>>
      /\ sub' = IF MergeAdjacent THEN Len(segments') ELSE 1
      /\ cfg \in Modules /\ SegmentTables /\ Addressed
  BY DEF SortForMerge, TabInv, Running
<1>2. segments' \in SetToSeqs(Pruned)
  BY DEF SortForMerge
<1>3. /\ IsList(segments') /\ Range(segments') = Pruned
      /\ \A j, k \in DOMAIN segments' : j # k => segments'[j] # segments'[k]
  BY <1>1, <1>2, PrunedIs, OrderIs
<1>4. SegmentTables'
  <2>1. Pruned = Live(seg_forward) /\ Pruned \subseteq DOMAIN segs
    BY <1>1, PrunedIs
  <2>2. Live(seg_forward)' = Live(seg_forward)
    BY <1>1 DEF Live
  <2> QED
    BY <2>1, <2>2, <1>1, <1>3 DEF SegmentTables
<1>5. Addressed'
  BY <1>1 DEF Addressed
<1>6. Len(segments') \in Nat
  BY <1>3, ListIs
<1>7. MergeAdjacent => Unmerged'
  <2>1. \A k \in DOMAIN segments' : seg_forward[segments'[k]] = segments'[k]
    BY <1>3 DEF Range, Pruned
  <2> QED
    BY <2>1, <1>1, <1>3, <1>6 DEF Unmerged
<1> QED
  BY <1>1, <1>4, <1>5, <1>6, <1>7 DEF TabInv, Running, Early, Late

LEMMA MergeIs ==
  ASSUME TabInv, MergeStep
  PROVE  /\ pc = "merge" /\ pc' = pc /\ UNCHANGED <<cfg, ea_to_seg>> /\ TabInv'
         /\ \/ UNCHANGED <<segs, seg_forward>>
            \/ \E s, p : Adjacent(segs[p], segs[s]) /\ MergesInto(s, p)
<1>1. /\ pc = "merge" /\ pc' = pc /\ at = 2 /\ at' = at /\ sub > 1 /\ sub' = sub - 1
      /\ UNCHANGED <<cfg, ea_to_seg, segments>>
      /\ cfg \in Modules /\ SegmentTables /\ Addressed /\ Unmerged /\ sub \in Nat
  BY DEF MergeStep, TabInv, Running
<1>2. PICK s : s = segments[sub]
  OBVIOUS
<1>3. PICK p : p = segments[sub - 1]
  OBVIOUS
<1>4. CASE Adjacent(segs[p], segs[s])
  <2>1. /\ segs' = [segs EXCEPT ![p] = Merged(@, segs[s]), ![s].size = 0, ![s].entries = << >>]
        /\ seg_forward' = ForwardTo(seg_forward, s, p)
    BY <1>2, <1>3, <1>4 DEF MergeStep
  <2>2. AreNeighbours(s, p)
    BY <1>2, <1>3, <1>4 DEF AreNeighbours
  <2>3. MergesInto(s, p) /\ SegmentTables' /\ Unmerged'
    BY <1>1, <2>1, <2>2, NeighboursMerged
  <2>4. Addressed'
    BY <1>1, <2>3 DEF Addressed, MergesInto
  <2>5. TabInv'
    BY <1>1, <2>3, <2>4 DEF TabInv, Running, Early, Late
  <2> QED
    BY <1>1, <1>4, <2>3, <2>5
<1>5. CASE ~Adjacent(segs[p], segs[s])
  <2>1. UNCHANGED <<segs, seg_forward>>
    BY <1>2, <1>3, <1>5 DEF MergeStep
  <2>2. SegmentTables' /\ Addressed'
    BY <1>1, <2>1, TablesKept DEF segment_tables
  <2>3. Unmerged'
    <3>1. Len(segments) \in Nat /\ DOMAIN segments = 1..Len(segments)
      BY <1>1, ListIs DEF SegmentTables
    <3> QED
      BY <3>1, <1>1, <2>1 DEF Unmerged
  <2>4. TabInv'
    BY <1>1, <2>2, <2>3 DEF TabInv, Running, Early, Late
  <2> QED
    BY <1>1, <2>1, <2>4
<1> QED
  BY <1>4, <1>5

LEMMA TabStep == TabInv /\ [Next]_state => TabInv'
<1> SUFFICES ASSUME TabInv, [Next]_state PROVE TabInv'
  OBVIOUS
<1>1. ASSUME ReadFunction \/ ReadExternalFunction PROVE TabInv'
  <2>1. /\ pc \in Early /\ UNCHANGED <<cfg, segment_tables>> /\ (NextItem \/ Abort)
    BY <1>1 DEF ReadFunction, ReadExternalFunction, InLoop, Early
  <2> QED
    BY <2>1, TabStays DEF NextItem, Abort, TabInv, Running, Early
<1>2. ASSUME EndXrefs \/ EndFunction \/ ReadBlock PROVE TabInv'
  <2>1. pc \in {"xrefs", "blocks"} /\ UNCHANGED <<cfg, segment_tables>> /\ (NextItem \/ NextSub \/ Abort)
    BY <1>2 DEF EndXrefs, EndFunction, ReadBlock, InLoop
  <2> QED
    BY <2>1, TabStays DEF NextItem, NextSub, Abort, TabInv, Running
<1>3. ASSUME Resolve PROVE TabInv'
  BY <1>3 DEF Resolve, TabInv, Running, Early, Late
<1>4. ASSUME UNCHANGED state PROVE TabInv'
  <2>1. UNCHANGED <<cfg, pc, at, sub, segment_tables>>
    BY <1>4 DEF state, control
  <2>2. (SegmentTables => SegmentTables') /\ (Addressed => Addressed')
    BY <2>1, TablesKept
  <2>3. UNCHANGED <<segs, seg_forward, segments, Item>>
    BY <2>1 DEF segment_tables, Item, List
  <2>4. Unmerged' <=> Unmerged
    BY <2>1, <2>3 DEF Unmerged
  <2> QED
    BY <2>1, <2>2, <2>3, <2>4 DEF TabInv, Running
<1> QED
  BY <1>1, <1>2, <1>3, <1>4, TabNextLoop, TabExternal, TabSegments, TabFill, TabSort, MergeIs DEF Next, Finished

(* At the end the entries say where the segments they named have gone.     *)
EntryResolved(n, e) ==
  /\ n.next = e.next /\ n.blob = e.blob
  /\ e.blob = "none" =>
       /\ n.target_ea = e.target_ea /\ n.segment = Get(seg_forward, e.segment)
       /\ n.target_segment = IF e.target_segment = 0 THEN 0 ELSE Get(seg_forward, e.target_segment)

LEMMA ResolveIs ==
  ASSUME TabInv, Resolve
  PROVE  /\ pc = "merge" /\ pc' = "done" /\ UNCHANGED <<cfg, seg_forward>>
         /\ Range(segments') = Pruned /\ Pruned = Live(seg_forward) /\ Pruned \subseteq DOMAIN segs
         /\ DOMAIN segs' = DOMAIN segs
         /\ \A s \in DOMAIN segs :
              /\ SameBut(segs'[s], segs[s]) /\ DOMAIN segs'[s].entries = DOMAIN segs[s].entries
              /\ s \in Pruned => \A a \in DOMAIN segs[s].entries :
                                EntryResolved(segs'[s].entries[a], segs[s].entries[a])
<1>1. /\ pc = "merge" /\ pc' = "done" /\ UNCHANGED <<cfg, seg_forward>> /\ SegmentTables
  BY DEF Resolve, TabInv, Running
<1>2. Pruned = Live(seg_forward) /\ Pruned \subseteq DOMAIN segs /\ IsFiniteSet(Pruned)
  BY <1>1, PrunedIs
<1>3. segments' \in SetToSeqs(Pruned)
  BY DEF Resolve
<1>4. Range(segments') = Pruned
  BY <1>2, <1>3, OrderIs
<1>5. segs' = [s \in DOMAIN segs |->
                 IF s \in Pruned
                 THEN [segs[s] EXCEPT !.entries = [a \in DOMAIN @ |-> ResolvedEntry(@[a])]]
                 ELSE segs[s]]
  BY DEF Resolve
<1>6. ASSUME NEW s \in DOMAIN segs
      PROVE  /\ SameBut(segs'[s], segs[s]) /\ DOMAIN segs'[s].entries = DOMAIN segs[s].entries
             /\ s \in Pruned => \A a \in DOMAIN segs[s].entries :
                               EntryResolved(segs'[s].entries[a], segs[s].entries[a])
  <2>1. PICK r : r = segs[s] /\ IsSegment(r)
    BY <1>1 DEF SegmentTables
  <2>2. CASE s \notin Pruned
    BY <2>2, <1>5 DEF SameBut
  <2>3. CASE s \in Pruned
    <3>1. PICK en : en = [a \in DOMAIN r.entries |-> ResolvedEntry(r.entries[a])]
      OBVIOUS
    <3>2. segs'[s] = [r EXCEPT !.entries = en]
      BY <2>1, <2>3, <3>1, <1>5
    <3>3. SameBut(segs'[s], r) /\ segs'[s].entries = en
      BY <2>1, <3>2 DEF IsSegment, SameBut
    <3>4. ASSUME NEW a \in DOMAIN r.entries PROVE EntryResolved(en[a], r.entries[a])
      <4>1. PICK e : e = r.entries[a] /\ IsEntry(e)
        BY <2>1 DEF IsSegment, AreEntries
      <4>2. en[a] = ResolvedEntry(e)
        BY <3>1, <4>1
      <4>3. CASE e.blob # "none"
        BY <4>1, <4>2, <4>3 DEF ResolvedEntry, EntryResolved
      <4>4. CASE e.blob = "none"
        <5>1. PICK x : x = Get(seg_forward, e.segment)
          OBVIOUS
        <5>2. PICK y : y = IF e.target_segment = 0 THEN 0 ELSE Get(seg_forward, e.target_segment)
          OBVIOUS
        <5>3. en[a] = [e EXCEPT !.segment = x, !.target_segment = y]
          BY <4>2, <4>4, <5>1, <5>2 DEF ResolvedEntry
        <5>4. {"next", "blob", "segment", "target_ea", "target_segment"} \subseteq DOMAIN e
          BY <4>1, <4>4 DEF IsEntry
        <5>5. /\ en[a].next = e.next /\ en[a].blob = e.blob /\ en[a].target_ea = e.target_ea
              /\ en[a].segment = x /\ en[a].target_segment = y
          BY <5>3, <5>4
        <5> QED
          BY <4>1, <5>1, <5>2, <5>5 DEF EntryResolved
      <4> QED
        BY <4>3, <4>4
    <3> QED
      BY <2>1, <2>3, <3>1, <3>3, <3>4
  <2> QED
    BY <2>2, <2>3
<1>7. DOMAIN segs' = DOMAIN segs
  BY <1>5
<1> QED
  BY <1>1, <1>2, <1>4, <1>6, <1>7
-----------------------------------------------------------------------------
(* The bytes of segments.                                                  *)

(* Segment s was made for the CFG's segment k, and is found at its address *)
(* unless there are others there: then loading will not end.               *)
Made(s, k) ==
  /\ ~segs[s].is_external /\ segs[s].ea = cfg.segments[k].ea /\ segs[s].size = Len(cfg.segments[k].data)
Doubled(k) == \E j \in DOMAIN cfg.segments : j # k /\ cfg.segments[j].ea = cfg.segments[k].ea
Found(s, k) == cfg.segments[k].ea \in DOMAIN ea_to_seg /\ ea_to_seg[cfg.segments[k].ea] = s

OwnZeros(s, k) ==
  \A a \in DOMAIN segs[s].entries : segs[s].entries[a].blob = "zero" =>
    \A b \in a..(segs[s].entries[a].next - 1) : cfg.segments[k].data[b - cfg.segments[k].ea + 1] = 0
Partitioned(s) == Partitions(segs[s].entries, segs[s].ea, segs[s].ea + segs[s].size)
Unfilled(s) == \A a \in DOMAIN segs[s].entries : segs[s].entries[a].blob = "none"

(* The CFG's segments below at were filled, and lie apart.                 *)
BytesRead ==
  \A k \in DOMAIN cfg.segments : k < at =>
    /\ Bytes(cfg.segments[k]) # {} /\ Bytes(cfg.segments[k]) \subseteq mapped
    /\ \A j \in DOMAIN cfg.segments : j < k =>
         Bytes(cfg.segments[j]) \cap Bytes(cfg.segments[k]) = {}

ZerosOnly(s) ==
  \A a \in DOMAIN segs[s].entries : segs[s].entries[a].blob = "zero" =>
    \A b \in a..(segs[s].entries[a].next - 1) : DataAt(b) \subseteq {0}

Internal == {s \in DOMAIN segs : ~segs[s].is_external}
Making(s) ==
  /\ Unfilled(s)
  /\ \E k \in DOMAIN cfg.segments :
       /\ Made(s, k)
       /\ \/ k < at /\ (Doubled(k) \/ Found(s, k))
          \/ k = at /\ sub > 1 /\ s = Len(segs)
Filling(s) ==
  \E k \in DOMAIN cfg.segments :
    /\ Made(s, k)
    /\ Doubled(k) \/ (Found(s, k) /\ IF k < at THEN Partitioned(s) /\ OwnZeros(s, k) ELSE Unfilled(s))

DescInv ==
  /\ pc = "segments" => \A s \in Internal : Making(s)
  /\ pc = "xrefs" =>
       \A s \in Internal : Unfilled(s) /\ \E k \in DOMAIN cfg.segments : Made(s, k) /\ (Doubled(k) \/ Found(s, k))
  /\ pc = "blobs" => BytesRead /\ \A s \in Internal : Filling(s)
  /\ pc \in {"blocks", "merge"} => \A s \in Internal : Partitioned(s) /\ ZerosOnly(s)
  /\ SegmentsDescribed

(* Where no two of the CFG's segments share a byte, a segment's own data   *)
(* is all there is.                                                        *)
LEMMA AllFilled ==
  ASSUME TabInv, Running, DescInv, pc = "blobs", at > Len(cfg.segments), NEW s \in Internal
  PROVE  Partitioned(s) /\ ZerosOnly(s)
<1>1. IsList(cfg.segments) /\ \A m \in Range(cfg.segments) : m.ea \in Nat /\ IsList(m.data)
  BY ModulesAssumption DEF TabInv
<1>2. /\ Len(cfg.segments) \in Nat /\ DOMAIN cfg.segments = 1..Len(cfg.segments) /\ at \in Nat
      /\ \A k \in DOMAIN cfg.segments : k < at /\ cfg.segments[k].ea \in Nat /\ Len(cfg.segments[k].data) \in Nat
  <2>1. Len(cfg.segments) \in Nat /\ DOMAIN cfg.segments = 1..Len(cfg.segments) /\ at \in Nat
    BY <1>1, ListIs DEF TabInv
  <2>2. \A k \in DOMAIN cfg.segments : cfg.segments[k] \in Range(cfg.segments)
    BY DEF Range
  <2>3. \A k \in DOMAIN cfg.segments : Len(cfg.segments[k].data) \in Nat
    BY <2>2, <1>1, ListIs
  <2>4. \A k \in DOMAIN cfg.segments : k < at
    BY <2>1
  <2> QED
    BY <2>1, <2>2, <2>3, <2>4, <1>1
<1>3. ASSUME NEW j \in DOMAIN cfg.segments, NEW k \in DOMAIN cfg.segments, j # k
      PROVE  Bytes(cfg.segments[j]) \cap Bytes(cfg.segments[k]) = {}
  <2>1. BytesRead
    BY DEF DescInv
  <2>2. j < k \/ k < j
    BY <1>2, <1>3
  <2> QED
    BY <2>1, <2>2, <1>2 DEF BytesRead
<1>4. ASSUME NEW k \in DOMAIN cfg.segments PROVE ~Doubled(k)
  <2> SUFFICES ASSUME NEW j \in DOMAIN cfg.segments, j # k, cfg.segments[j].ea = cfg.segments[k].ea
               PROVE  FALSE
    BY DEF Doubled
  <2>1. Bytes(cfg.segments[j]) # {} /\ Bytes(cfg.segments[k]) # {}
    BY <1>2 DEF DescInv, BytesRead
  <2>2. cfg.segments[k].ea \in Bytes(cfg.segments[j]) /\ cfg.segments[k].ea \in Bytes(cfg.segments[k])
    <3>1. PICK ea \in Nat : ea = cfg.segments[k].ea /\ ea = cfg.segments[j].ea
      BY <1>2
    <3>2. PICK m \in Nat : m = Len(cfg.segments[j].data)
      BY <1>2
    <3>3. PICK n \in Nat : n = Len(cfg.segments[k].data)
      BY <1>2
    <3>4. ea..(ea + m - 1) # {} /\ ea..(ea + n - 1) # {}
      BY <2>1, <3>1, <3>2, <3>3 DEF Bytes
    <3>5. ea \in ea..(ea + m - 1) /\ ea \in ea..(ea + n - 1)
      BY <3>4
    <3> QED
      BY <3>1, <3>2, <3>3, <3>5 DEF Bytes
  <2> QED
    BY <2>2, <1>3
<1>5. PICK k \in DOMAIN cfg.segments : Made(s, k) /\ Partitioned(s) /\ OwnZeros(s, k)
  BY <1>2, <1>4 DEF DescInv, Filling
<1>6. ASSUME NEW a \in DOMAIN segs[s].entries, segs[s].entries[a].blob = "zero",
             NEW b \in a..(segs[s].entries[a].next - 1)
      PROVE  DataAt(b) \subseteq {0}
  <2>1. a \in Nat /\ segs[s].entries[a].next \in Nat /\ segs[s].ea \in Nat /\ segs[s].size \in Nat
    BY DEF TabInv, SegmentTables, Internal, IsSegment, AreEntries, IsEntry
  <2>2. b \in Bytes(cfg.segments[k])
    <3>1. PICK ea \in Nat : ea = segs[s].ea /\ ea = cfg.segments[k].ea
      BY <1>5, <2>1 DEF Made
    <3>2. PICK n \in Nat : n = segs[s].size /\ n = Len(cfg.segments[k].data)
      BY <1>5, <2>1 DEF Made
    <3>3. PICK x \in Nat : x = segs[s].entries[a].next
      BY <2>1
    <3>4. ea <= a /\ x <= ea + n
      BY <1>5, <1>6, <3>1, <3>2, <3>3 DEF Partitioned, Partitions
    <3>5. b \in a..(x - 1)
      BY <1>6, <3>3
    <3>6. b \in ea..(ea + n - 1)
      BY <3>4, <3>5, <2>1
    <3> QED
      BY <3>1, <3>2, <3>6 DEF Bytes
  <2>3. cfg.segments[k].data[b - cfg.segments[k].ea + 1] = 0
    BY <1>5, <1>6 DEF OwnZeros
  <2>4. ASSUME NEW j \in DOMAIN cfg.segments, cfg.segments[j].ea <= b,
               b < cfg.segments[j].ea + Len(cfg.segments[j].data)
        PROVE  j = k
    <3>1. b \in Nat
      BY <1>6, <2>1
    <3>2. PICK ea \in Nat : ea = cfg.segments[j].ea
      BY <1>2
    <3>3. PICK n \in Nat : n = Len(cfg.segments[j].data)
      BY <1>2
    <3>4. ea <= b /\ b < ea + n
      BY <2>4, <3>2, <3>3
    <3>5. b \in ea..(ea + n - 1)
      BY <3>1, <3>4
    <3>6. b \in Bytes(cfg.segments[j])
      BY <3>2, <3>3, <3>5 DEF Bytes
    <3> QED
      BY <3>6, <2>2, <1>3
  <2> QED
    BY <2>3, <2>4 DEF DataAt, Range
<1> QED
  BY <1>5, <1>6 DEF ZerosOnly

LEMMA DescribedSame ==
  ASSUME UNCHANGED <<cfg, segs>>
  PROVE  \A s : (Partitioned(s)' <=> Partitioned(s)) /\ (ZerosOnly(s)' <=> ZerosOnly(s))
<1>1. \A ea : DataAt(ea)' = DataAt(ea)
  BY DEF DataAt
<1> QED
  BY <1>1 DEF Partitioned, ZerosOnly

LEMMA DescNextLoop ==
  ASSUME TabInv, DescInv, NextLoop
  PROVE  DescInv'
<1>1. /\ UNCHANGED <<cfg, segs, seg_forward, ea_to_seg, mapped>> /\ at' = 1 /\ sub' = 1 /\ at > Len(List)
      /\ at \in Nat /\ IsList(cfg.segments) /\ Running
  BY NextLoopIs, ModulesAssumption DEF NextLoop, segment_tables, TabInv, Running
<1>2. Internal' = Internal
  BY <1>1 DEF Internal
<1>3. \A k \in DOMAIN cfg.segments : ~(k < 1)
  BY <1>1, ListIs
<1>4. SegmentsDescribed'
  BY NextLoopIs DEF SegmentsDescribed, Done
<1>5. CASE pc = "variables" /\ pc' = "segments"
  <2>1. Internal' = {}
    BY <1>2, <1>5 DEF TabInv, Running, Internal
  <2> QED
    BY <2>1, <1>4, <1>5 DEF DescInv
<1>6. CASE pc = "segments" /\ pc' = "xrefs"
  <2>1. at > Len(cfg.segments)
    BY <1>1, <1>6 DEF List
  <2>2. \A k \in DOMAIN cfg.segments : k # at
    BY <2>1, <1>1, ListIs
  <2>3. ASSUME NEW s \in Internal
        PROVE  Unfilled(s)' /\ \E k \in DOMAIN cfg.segments : Made(s, k)' /\ (Doubled(k)' \/ Found(s, k)')
    <3>1. Making(s)
      BY <2>3, <1>6 DEF DescInv
    <3> QED
      BY <3>1, <2>2, <1>1 DEF Making, Unfilled, Made, Doubled, Found
  <2> QED
    BY <2>3, <1>1, <1>2, <1>4, <1>6 DEF DescInv
<1>7. CASE pc = "xrefs" /\ pc' = "blobs"
  <2>1. BytesRead'
    BY <1>1, <1>3 DEF BytesRead
  <2>2. ASSUME NEW s \in Internal PROVE Filling(s)'
    BY <1>1, <1>3, <1>7 DEF DescInv, Filling, Unfilled, Made, Doubled, Found
  <2> QED
    BY <2>1, <2>2, <1>2, <1>4, <1>7 DEF DescInv
<1>8. CASE pc = "blobs" /\ pc' = "blocks"
  <2>1. at > Len(cfg.segments)
    BY <1>1, <1>8 DEF List
  <2>2. \A s \in Internal : Partitioned(s) /\ ZerosOnly(s)
    BY <2>1, <1>1, <1>8, AllFilled
  <2> QED
    BY <2>2, <1>1, <1>2, <1>4, <1>8, DescribedSame DEF DescInv
<1>9. CASE pc = "blocks" /\ pc' = "merge"
  BY <1>1, <1>2, <1>4, <1>9, DescribedSame DEF DescInv
<1> QED
  BY <1>4, <1>5, <1>6, <1>7, <1>8, <1>9, NextLoopIs DEF DescInv

LEMMA DescStays ==
  ASSUME DescInv, Running, UNCHANGED <<cfg, segs>>, pc' \in {pc, "abort"},
         pc \notin {"segments", "blobs"}, pc = "xrefs" => UNCHANGED ea_to_seg
  PROVE  DescInv'
<1>1. SegmentsDescribed' /\ Internal' = Internal
  BY DEF SegmentsDescribed, Done, Running, Internal
<1>2. CASE pc = "xrefs"
  BY <1>1, <1>2 DEF DescInv, Unfilled, Made, Doubled, Found
<1>3. CASE pc \in {"blocks", "merge"}
  BY <1>1, <1>3, DescribedSame DEF DescInv
<1> QED
  BY <1>1, <1>2, <1>3 DEF DescInv

LEMMA DescSegments ==
  ASSUME TabInv, DescInv, BeginSegment \/ ReadVariable \/ EndSegment
  PROVE  DescInv'
<1>1. pc = "segments" /\ pc' = pc /\ UNCHANGED cfg /\ at \in Nat /\ sub \in Nat
  BY DEF BeginSegment, ReadVariable, EndSegment, InLoop, NextItem, NextSub, TabInv, Running
<1>2. at \in DOMAIN cfg.segments /\ Item = cfg.segments[at]
  BY <1>1, SegmentItem DEF BeginSegment, ReadVariable, EndSegment, InLoop
<1>3. \A k \in DOMAIN cfg.segments : k \in Nat
  BY <1>1, ListIs, ModulesAssumption DEF TabInv
<1>4. \A s \in Internal : Making(s)
  BY <1>1 DEF DescInv
<1>5. SegmentsDescribed'
  BY <1>1 DEF SegmentsDescribed, Done
<1>6. ASSUME BeginSegment, NEW t \in Internal' PROVE Making(t)'
  <2>1. PICK s : s = Len(segs) + 1
    OBVIOUS
  <2>2. /\ sub = 1 /\ UNCHANGED ea_to_seg
        /\ \/ at' = at + 1 /\ sub' = 1 /\ UNCHANGED segment_tables
           \/ /\ at' = at /\ sub' = 2
              /\ DOMAIN segs' = DOMAIN segs \cup {s} /\ s \notin DOMAIN segs /\ Len(segs') = s
              /\ segs'[s].ea = Item.ea /\ segs'[s].size = Len(Item.data)
              /\ segs'[s].is_external = Item.is_external /\ segs'[s].entries = << >>
              /\ \A k \in DOMAIN segs : segs'[k] = segs[k]
    BY <1>6, <2>1, BeginIs
  <2>3. CASE t \in Internal
    <3>1. segs'[t] = segs[t]
      BY <2>2, <2>3 DEF segment_tables, Internal
    <3>2. PICK k \in DOMAIN cfg.segments : Unfilled(t) /\ Made(t, k) /\ k < at /\ (Doubled(k) \/ Found(t, k))
      BY <2>2, <2>3, <1>4 DEF Making
    <3>3. k < at'
      BY <2>2, <3>2, <1>1, <1>3
    <3> QED
      BY <1>1, <2>2, <3>1, <3>2, <3>3 DEF Making, Unfilled, Made, Doubled, Found
  <2>4. CASE t \notin Internal
    <3>1. t = s /\ at' = at /\ sub' = 2 /\ Len(segs') = s
      BY <1>6, <2>2, <2>4 DEF Internal, segment_tables
    <3>2. Unfilled(t)' /\ Made(t, at)'
      BY <1>1, <1>2, <1>6, <2>2, <3>1 DEF Unfilled, Made, Internal
    <3> QED
      BY <1>1, <1>2, <3>1, <3>2 DEF Making
  <2> QED
    BY <2>3, <2>4
<1>7. ASSUME ReadVariable, NEW t \in Internal' PROVE Making(t)'
  <2>1. /\ sub > 1 /\ sub' = sub + 1 /\ at' = at /\ UNCHANGED ea_to_seg
        /\ DOMAIN segs' = DOMAIN segs /\ Len(segs') = Len(segs)
        /\ \A k \in DOMAIN segs : SameBut(segs'[k], segs[k]) /\ segs'[k].entries = segs[k].entries
    BY <1>7, VariableIs
  <2>2. t \in Internal /\ t \in DOMAIN segs
    BY <1>7, <2>1 DEF Internal, SameBut
  <2>3. Making(t)
    BY <2>2, <1>4
  <2>4. sub' > 1
    BY <2>1, <1>1
  <2> QED
    BY <1>1, <2>1, <2>2, <2>3, <2>4 DEF Making, Unfilled, Made, Doubled, Found, SameBut
<1>8. ASSUME EndSegment, NEW t \in Internal' PROVE Making(t)'
  <2>1. /\ at' = at + 1 /\ UNCHANGED segs /\ ea_to_seg' = Put(ea_to_seg, Item.ea, Len(segs))
    BY <1>8, EndIs
  <2>2. /\ DOMAIN ea_to_seg' = DOMAIN ea_to_seg \cup {Item.ea} /\ ea_to_seg'[Item.ea] = Len(segs)
        /\ \A e \in DOMAIN ea_to_seg : e # Item.ea => ea_to_seg'[e] = ea_to_seg[e]
    BY <2>1 DEF Put
  <2>3. t \in Internal
    BY <1>8, <2>1 DEF Internal
  <2>4. PICK k \in DOMAIN cfg.segments :
          /\ Unfilled(t) /\ Made(t, k)
          /\ \/ k < at /\ (Doubled(k) \/ Found(t, k))
             \/ k = at /\ sub > 1 /\ t = Len(segs)
    BY <2>3, <1>4 DEF Making
  <2>5. k < at'
    BY <2>1, <2>4, <1>1, <1>3
  <2>6. Doubled(k)' \/ Found(t, k)'
    <3>1. CASE k = at
      BY <3>1, <2>2, <2>4, <1>1, <1>2 DEF Found, Doubled
    <3>2. CASE k # at /\ cfg.segments[k].ea = Item.ea
      BY <3>2, <1>1, <1>2 DEF Doubled
    <3>3. CASE k # at /\ cfg.segments[k].ea # Item.ea
      BY <3>3, <2>2, <2>4, <1>1 DEF Doubled, Found
    <3> QED
      BY <3>1, <3>2, <3>3
  <2> QED
    BY <1>1, <2>1, <2>4, <2>5, <2>6 DEF Making, Unfilled, Made
<1> QED
  BY <1>1, <1>5, <1>6, <1>7, <1>8 DEF DescInv

LEMMA DescXref ==
  ASSUME TabInv, DescInv, ReadXref
  PROVE  DescInv'
<1>1. /\ pc = "xrefs" /\ pc' \in {pc, "abort"} /\ UNCHANGED <<cfg, ea_to_seg>> /\ DOMAIN segs' = DOMAIN segs
      /\ \/ segs' = segs
         \/ \E s \in DOMAIN segs, xref \in Range(Item.xrefs) :
              /\ \A k \in DOMAIN segs : SameBut(segs'[k], segs[k]) /\ (k # s => segs'[k] = segs[k])
              /\ segs'[s].entries = Put(segs[s].entries, xref.ea, Xref(s, xref))
  BY XrefIs
<1>2. \A t \in DOMAIN segs : SameBut(segs'[t], segs[t]) /\ (Unfilled(t) => Unfilled(t)')
  <2>1. CASE segs' = segs
    BY <2>1 DEF SameBut, Unfilled
  <2>2. ASSUME NEW s \in DOMAIN segs, NEW xref,
               \A k \in DOMAIN segs : SameBut(segs'[k], segs[k]) /\ (k # s => segs'[k] = segs[k]),
               segs'[s].entries = Put(segs[s].entries, xref.ea, Xref(s, xref)),
               NEW t \in DOMAIN segs, Unfilled(t)
        PROVE  Unfilled(t)'
    <3>1. CASE t # s
      BY <3>1, <2>2 DEF Unfilled
    <3>2. CASE t = s
      <4>1. Xref(s, xref).blob = "none"
        BY DEF Xref
      <4>2. \A a \in DOMAIN segs'[s].entries :
              segs'[s].entries[a] = IF a = xref.ea THEN Xref(s, xref) ELSE segs[s].entries[a]
        BY <2>2 DEF Put
      <4>3. DOMAIN segs'[s].entries = DOMAIN segs[s].entries \cup {xref.ea}
        BY <2>2 DEF Put
      <4>4. \A a \in DOMAIN segs[s].entries : segs[s].entries[a].blob = "none"
        BY <2>2, <3>2 DEF Unfilled
      <4>5. \A a \in DOMAIN segs'[s].entries : segs'[s].entries[a].blob = "none"
        BY <4>1, <4>2, <4>3, <4>4
      <4> QED
        BY <4>5, <3>2 DEF Unfilled
    <3> QED
      BY <3>1, <3>2
  <2> QED
    BY <1>1, <2>1, <2>2
<1>3. Internal' \subseteq Internal /\ Internal \subseteq DOMAIN segs
  BY <1>1, <1>2 DEF Internal, SameBut
<1>4. SegmentsDescribed'
  BY <1>1 DEF SegmentsDescribed, Done
<1>5. ASSUME NEW t \in Internal'
      PROVE  Unfilled(t)' /\ \E k \in DOMAIN cfg.segments : Made(t, k)' /\ (Doubled(k)' \/ Found(t, k)')
  BY <1>1, <1>2, <1>3, <1>5 DEF DescInv, Made, Doubled, Found, SameBut
<1> QED
  BY <1>1, <1>4, <1>5 DEF DescInv

(* A segment is filled where it was not.                                   *)
LEMMA NewlyFilled ==
  ASSUME TabInv, DescInv, FillBlobs, NEW s, NEW bytes, NEW end, NEW xrefs, FillsWith(s, bytes, end, xrefs),
         NEW k, k = at, Unfilled(s), Made(s, k)
  PROVE  Partitions(segs'[s].entries, segs[s].ea, segs[s].ea + segs[s].size) /\ OwnZeros(s, k)'
<1>1. pc = "blobs" /\ at <= Len(List) /\ UNCHANGED cfg /\ SegmentTables
  BY FillIs DEF TabInv, Running
<1>2. /\ at \in DOMAIN cfg.segments /\ Item = cfg.segments[at] /\ Item.ea \in Nat
      /\ Len(Item.data) \in Nat
  BY <1>1, SegmentItem, ListIs
<1>3. s \in DOMAIN segs /\ IsSegment(segs[s])
  BY <1>1 DEF FillsWith, SegmentTables
<1>4. PICK lo \in Nat : lo = Item.ea /\ lo = segs[s].ea
  BY <1>2, <1>3 DEF Made
<1>5. PICK n \in Nat : n = Len(Item.data) /\ n = segs[s].size
  BY <1>2 DEF Made
<1>6. end = lo + n /\ end \in Nat
  BY <1>4, <1>5 DEF FillsWith
<1>7. PICK blobs : blobs = Blobs(xrefs, lo, end, DOMAIN ea_to_var, bytes)
  OBVIOUS
<1>8. PICK en : en = segs'[s].entries
  OBVIOUS
<1>9. en = Filled(xrefs, blobs) /\ Partitions(en, lo, end)
  BY <1>4, <1>7, <1>8 DEF FillsWith
<1>10. /\ DOMAIN en = DOMAIN xrefs \cup DOMAIN blobs
       /\ \A a \in DOMAIN en : en[a] = IF a \in DOMAIN xrefs THEN xrefs[a] ELSE blobs[a]
  BY <1>9 DEF Filled
<1>11. /\ DOMAIN xrefs \subseteq Nat
       /\ \A a \in DOMAIN xrefs : xrefs[a].next \in Nat /\ xrefs[a].blob = "none"
  <2>1. PICK old : old = segs[s].entries
    OBVIOUS
  <2>2. \A a \in DOMAIN old : a \in Nat /\ old[a].next \in Nat /\ old[a].blob = "none"
    BY <1>3, <2>1 DEF IsSegment, AreEntries, IsEntry, Unfilled
  <2>3. xrefs = [a \in DOMAIN old \ {end} |-> old[a]]
    BY <2>1 DEF FillsWith, Within
  <2> QED
    BY <2>2, <2>3
<1>12. Apart(xrefs, lo, end)
  BY <1>9, <1>10, <1>11 DEF Partitions, Apart
<1>13. ASSUME NEW a \in DOMAIN en, en[a].blob = "zero", NEW b \in a..(en[a].next - 1)
       PROVE  cfg.segments[k].data[b - lo + 1] = 0
  <2>1. a \notin DOMAIN xrefs /\ a \in DOMAIN blobs /\ en[a] = blobs[a]
    BY <1>10, <1>11, <1>13
  <2>2. bytes[b] = 0
    <3>1. blobs[a].blob = "zero" /\ b \in a..(blobs[a].next - 1)
      BY <2>1, <1>13
    <3> QED
      BY <3>1, <2>1, <1>6, <1>7, <1>12, ZerosAreZero
  <2>3. a \in Nat /\ en[a].next \in Nat
    BY <2>1, <1>6, <1>7, BlobsAre DEF AreEntries, IsEntry
  <2>4. lo <= a /\ en[a].next <= end
    BY <1>9 DEF Partitions
  <2>5. PICK x \in Nat : x = en[a].next
    BY <2>3
  <2>6. b \in Nat /\ lo <= b /\ b < lo + n
    BY <1>13, <2>3, <2>4, <2>5, <1>6
  <2>7. PICK i \in Nat : i = b - lo + 1
    BY <2>6
  <2>8. i \in 1..n /\ lo + i - 1 = b
    BY <2>6, <2>7
  <2>9. bytes[lo + i - 1] = Item.data[i]
    <3>1. PICK seg : seg = segs[s]
      OBVIOUS
    <3>2. bytes \in SegmentBytes(seg, Item)
      BY <3>1 DEF FillsWith
    <3>3. \A j \in 1..Len(Item.data) : j <= seg.size => bytes[seg.ea + j - 1] = Item.data[j]
      BY <3>2 DEF SegmentBytes
    <3>4. seg.ea = lo /\ seg.size = n /\ Len(Item.data) = n
      BY <3>1, <1>4, <1>5
    <3>5. i \in 1..n /\ i <= n
      BY <2>8
    <3> QED
      BY <3>3, <3>4, <3>5
  <2> QED
    BY <2>2, <2>7, <2>8, <2>9, <1>2
<1>14. OwnZeros(s, k)'
  <2>1. cfg.segments[k].ea = lo
    BY <1>2, <1>4
  <2> QED
    BY <2>1, <1>1, <1>8, <1>13 DEF OwnZeros
<1> QED
  BY <1>4, <1>5, <1>6, <1>8, <1>9, <1>14

LEMMA DescFill ==
  ASSUME TabInv, DescInv, FillBlobs
  PROVE  DescInv'
<1>1. /\ pc = "blobs" /\ pc' \in {pc, "abort"} /\ at <= Len(List) /\ at \in Nat
      /\ UNCHANGED <<cfg, ea_to_seg>> /\ DOMAIN segs' = DOMAIN segs
  BY FillIs DEF TabInv, Running
<1>2. at \in DOMAIN cfg.segments /\ Item = cfg.segments[at]
  BY <1>1, SegmentItem
<1>3. \A k \in DOMAIN cfg.segments : k \in Nat
  BY ListIs, ModulesAssumption DEF TabInv
<1>4. BytesRead /\ \A t \in Internal : Filling(t)
  BY <1>1 DEF DescInv
<1>5. SegmentsDescribed'
  BY <1>1 DEF SegmentsDescribed, Done
<1>6. CASE pc' = "abort"
  BY <1>5, <1>6 DEF DescInv
<1>7. CASE pc' = pc
  <2>1. PICK s, bytes, end, xrefs : at' = at + 1 /\ FillsWith(s, bytes, end, xrefs)
    BY <1>7, FillIs
  <2>2. \A k \in DOMAIN cfg.segments : k < at' <=> (k < at \/ k = at)
    BY <2>1, <1>1, <1>3
  <2>3. /\ s \in DOMAIN segs /\ segs[s].ea = Item.ea /\ s = ea_to_seg[Item.ea]
        /\ Bytes(Item) # {} /\ Bytes(Item) \cap mapped = {} /\ mapped' = mapped \cup Bytes(Item)
        /\ \A t \in DOMAIN segs : SameBut(segs'[t], segs[t]) /\ (t # s => segs'[t] = segs[t])
    BY <2>1 DEF FillsWith
  <2>4. BytesRead'
    <3>1. \A k : Bytes(cfg.segments[k])' = Bytes(cfg.segments[k])
      BY <1>1 DEF Bytes
    <3>2. ASSUME NEW k \in DOMAIN cfg.segments, k < at
          PROVE  /\ Bytes(cfg.segments[k]) # {} /\ Bytes(cfg.segments[k]) \subseteq mapped'
                 /\ \A j \in DOMAIN cfg.segments : j < k =>
                      Bytes(cfg.segments[j]) \cap Bytes(cfg.segments[k]) = {}
      BY <3>2, <2>3, <1>4 DEF BytesRead
    <3>3. /\ Bytes(cfg.segments[at]) # {} /\ Bytes(cfg.segments[at]) \subseteq mapped'
          /\ \A j \in DOMAIN cfg.segments : j < at =>
               Bytes(cfg.segments[j]) \cap Bytes(cfg.segments[at]) = {}
      BY <2>3, <1>2, <1>4 DEF BytesRead
    <3> QED
      BY <3>1, <3>2, <3>3, <2>2, <1>1 DEF BytesRead
  <2>5. ASSUME NEW t \in Internal' PROVE Filling(t)'
    <3>1. t \in Internal /\ t \in DOMAIN segs
      BY <2>3, <2>5, <1>1 DEF Internal, SameBut
    <3>2. PICK k \in DOMAIN cfg.segments :
            /\ Made(t, k)
            /\ Doubled(k) \/ (Found(t, k) /\ IF k < at THEN Partitioned(t) /\ OwnZeros(t, k) ELSE Unfilled(t))
      BY <3>1, <1>4 DEF Filling
    <3>3. Made(t, k)' /\ (Doubled(k)' <=> Doubled(k)) /\ (Found(t, k)' <=> Found(t, k))
      BY <3>1, <3>2, <2>3, <1>1 DEF Made, Doubled, Found, SameBut
    <3>4. CASE Doubled(k)
      BY <3>3, <3>4, <1>1 DEF Filling
    <3>5. CASE ~Doubled(k) /\ t # s
      <4>1. k # at
        BY <3>2, <3>5, <2>3, <1>2 DEF Found
      <4>2. segs'[t] = segs[t]
        BY <3>1, <3>5, <2>3
      <4>3. (Partitioned(t)' <=> Partitioned(t)) /\ (OwnZeros(t, k)' <=> OwnZeros(t, k))
            /\ (Unfilled(t)' <=> Unfilled(t))
        BY <4>2, <1>1 DEF Partitioned, OwnZeros, Unfilled
      <4>4. k < at' <=> k < at
        BY <4>1, <2>2
      <4> QED
        BY <4>3, <4>4, <3>2, <3>3, <3>5, <1>1 DEF Filling
    <3>6. CASE ~Doubled(k) /\ t = s
      <4>1. k = at
        BY <3>2, <3>6, <2>3, <1>2 DEF Made, Doubled
      <4>2. Unfilled(t)
        BY <4>1, <3>2, <3>6, <1>1
      <4>3. Partitions(segs'[t].entries, segs[t].ea, segs[t].ea + segs[t].size) /\ OwnZeros(t, k)'
        BY <4>1, <4>2, <3>2, <3>6, <2>1, NewlyFilled
      <4>4. Partitioned(t)'
        BY <4>3, <3>1, <2>3 DEF Partitioned, SameBut
      <4>5. k < at'
        BY <4>1, <2>2
      <4> QED
        BY <4>3, <4>4, <4>5, <3>2, <3>3, <3>6, <1>1 DEF Filling
    <3> QED
      BY <3>4, <3>5, <3>6
  <2> QED
    BY <2>4, <2>5, <1>1, <1>5, <1>7 DEF DescInv
<1> QED
  BY <1>1, <1>6, <1>7

LEMMA DescMerge ==
  ASSUME TabInv, DescInv, MergeStep
  PROVE  DescInv'
<1>1. /\ pc = "merge" /\ pc' = pc /\ UNCHANGED cfg
      /\ \/ UNCHANGED <<segs, seg_forward>>
         \/ \E s, p : Adjacent(segs[p], segs[s]) /\ MergesInto(s, p)
  BY MergeIs
<1>2. \A t \in Internal : Partitioned(t) /\ ZerosOnly(t)
  BY <1>1 DEF DescInv
<1>3. CASE UNCHANGED <<segs, seg_forward>>
  BY <1>1, <1>3, DescStays DEF Running
<1>4. ASSUME NEW s, NEW p, Adjacent(segs[p], segs[s]), MergesInto(s, p), NEW t \in Internal'
      PROVE  Partitioned(t)' /\ ZerosOnly(t)'
  <2>1. /\ s \in DOMAIN segs /\ p \in DOMAIN segs /\ s # p
        /\ DOMAIN segs' = DOMAIN segs
        /\ \A k \in DOMAIN segs :
             /\ segs'[k].ea = segs[k].ea /\ segs'[k].is_external = segs[k].is_external
             /\ k \notin {s, p} => segs'[k] = segs[k]
        /\ segs'[p].size = segs[p].size + segs[s].size
        /\ segs'[p].entries = Filled(segs[p].entries, segs[s].entries)
        /\ segs'[s].size = 0 /\ segs'[s].entries = << >>
    BY <1>4 DEF MergesInto
  <2>2. t \in Internal /\ s \in Internal /\ p \in Internal
    BY <2>1, <1>4 DEF Internal, Adjacent
  <2>3. \A ea : DataAt(ea)' = DataAt(ea)
    BY <1>1 DEF DataAt
  <2>4. IsSegment(segs[s]) /\ IsSegment(segs[p])
    BY <2>1, <1>1 DEF TabInv, Running, SegmentTables
  <2>5. CASE t \notin {s, p}
    BY <2>1, <2>2, <2>3, <2>5, <1>2 DEF Partitioned, ZerosOnly, Internal
  <2>6. CASE t = s
    <3>1. PICK ea \in Nat : ea = segs'[t].ea
      BY <2>1, <2>4, <2>6 DEF IsSegment
    <3>2. Partitions(<< >>, ea, ea + 0)
      <4>1. DOMAIN << >> = {} /\ ea..(ea + 0 - 1) = {}
        OBVIOUS
      <4> QED
        BY <4>1 DEF Partitions
    <3> QED
      BY <3>1, <3>2, <2>1, <2>6 DEF Partitioned, ZerosOnly
  <2>7. CASE t = p
    <3>1. PICK lo \in Nat : lo = segs[p].ea
      BY <2>4 DEF IsSegment
    <3>2. PICK m \in Nat : m = segs[p].size
      BY <2>4 DEF IsSegment
    <3>3. PICK n \in Nat : n = segs[s].size
      BY <2>4 DEF IsSegment
    <3>4. PICK mid \in Nat : mid = lo + m /\ mid = segs[s].ea
      BY <3>1, <3>2, <1>4 DEF Adjacent
    <3>5. PICK hi \in Nat : hi = mid + n /\ hi = lo + (m + n) /\ lo <= mid /\ mid <= hi
      BY <3>4
    <3>6. PICK first : first = segs[p].entries
      OBVIOUS
    <3>7. PICK second : second = segs[s].entries
      OBVIOUS
    <3>8. AreEntries(first) /\ AreEntries(second)
      BY <2>4, <3>6, <3>7 DEF IsSegment
    <3>9. Partitions(first, lo, mid) /\ Partitions(second, mid, hi)
      BY <2>2, <1>2, <3>1, <3>2, <3>3, <3>4, <3>5, <3>6, <3>7 DEF Partitioned
    <3>10. PICK all : all = Filled(first, second)
      OBVIOUS
    <3>11. Partitions(all, lo, hi)
      BY <3>4, <3>5, <3>8, <3>9, <3>10, MergingPartitions DEF AreEntries, IsEntry
    <3>12. segs'[t].entries = all /\ segs'[t].ea = lo /\ segs'[t].size = m + n
      BY <2>1, <2>7, <3>1, <3>2, <3>3, <3>6, <3>7, <3>10
    <3>13. Partitioned(t)'
      BY <3>5, <3>11, <3>12 DEF Partitioned
    <3>14. /\ DOMAIN all = DOMAIN first \cup DOMAIN second
           /\ \A a \in DOMAIN all : all[a] = IF a \in DOMAIN first THEN first[a] ELSE second[a]
      BY <3>10 DEF Filled
    <3>15. ZerosOnly(s) /\ ZerosOnly(p)
      BY <2>2, <1>2
    <3>16. ASSUME NEW a \in DOMAIN all, all[a].blob = "zero", NEW b \in a..(all[a].next - 1)
           PROVE  DataAt(b) \subseteq {0}
      <4>1. CASE a \in DOMAIN first
        <5>1. all[a] = first[a]
          BY <4>1, <3>14
        <5> QED
          BY <5>1, <4>1, <3>6, <3>15, <3>16 DEF ZerosOnly
      <4>2. CASE a \notin DOMAIN first
        <5>1. all[a] = second[a] /\ a \in DOMAIN second
          BY <4>2, <3>14, <3>16
        <5> QED
          BY <5>1, <3>7, <3>15, <3>16 DEF ZerosOnly
      <4> QED
        BY <4>1, <4>2
    <3>17. ZerosOnly(t)'
      BY <3>12, <3>16, <2>3 DEF ZerosOnly
    <3> QED
      BY <3>13, <3>17
  <2> QED
    BY <2>5, <2>6, <2>7
<1>5. SegmentsDescribed'
  BY <1>1 DEF SegmentsDescribed, Done
<1> QED
  BY <1>1, <1>3, <1>4, <1>5 DEF DescInv

LEMMA DescResolve ==
  ASSUME TabInv, DescInv, Resolve
  PROVE  DescInv'
<1>1. /\ pc = "merge" /\ pc' = "done" /\ UNCHANGED cfg
      /\ Range(segments') = Pruned /\ Pruned \subseteq DOMAIN segs
      /\ \A s \in DOMAIN segs :
           /\ SameBut(segs'[s], segs[s]) /\ DOMAIN segs'[s].entries = DOMAIN segs[s].entries
           /\ s \in Pruned => \A a \in DOMAIN segs[s].entries :
                             EntryResolved(segs'[s].entries[a], segs[s].entries[a])
  BY ResolveIs
<1>2. ASSUME NEW s \in Range(segments'), ~segs'[s].is_external
      PROVE  /\ Partitions(segs'[s].entries, segs'[s].ea, segs'[s].ea + segs'[s].size)
             /\ \A a \in DOMAIN segs'[s].entries : segs'[s].entries[a].blob = "zero" =>
                  \A b \in a..(segs'[s].entries[a].next - 1) : DataAt(b)' \subseteq {0}
  <2>1. s \in Pruned /\ s \in DOMAIN segs /\ SameBut(segs'[s], segs[s]) /\ s \in Internal
    BY <1>1, <1>2 DEF SameBut, Internal
  <2>2. Partitioned(s) /\ ZerosOnly(s)
    BY <2>1, <1>1 DEF DescInv
  <2>3. PICK old : old = segs[s].entries
    OBVIOUS
  <2>4. PICK new : new = segs'[s].entries
    OBVIOUS
  <2>5. /\ DOMAIN new = DOMAIN old
        /\ \A a \in DOMAIN old : new[a].next = old[a].next /\ new[a].blob = old[a].blob
    BY <2>1, <2>3, <2>4, <1>1 DEF EntryResolved
  <2>6. Partitions(new, segs[s].ea, segs[s].ea + segs[s].size)
    BY <2>2, <2>3, <2>5 DEF Partitioned, Partitions
  <2>7. \A ea : DataAt(ea)' = DataAt(ea)
    BY <1>1 DEF DataAt
  <2>8. \A a \in DOMAIN new : new[a].blob = "zero" =>
          \A b \in a..(new[a].next - 1) : DataAt(b)' \subseteq {0}
    BY <2>2, <2>3, <2>5, <2>7 DEF ZerosOnly
  <2> QED
    BY <2>1, <2>4, <2>6, <2>8 DEF SameBut
<1>3. SegmentsDescribed'
  BY <1>2 DEF SegmentsDescribed
<1> QED
  BY <1>1, <1>3 DEF DescInv

LEMMA DescStep == TabInv /\ DescInv /\ [Next]_state => DescInv'
<1> SUFFICES ASSUME TabInv, DescInv, [Next]_state PROVE DescInv'
  OBVIOUS
<1>1. ASSUME ReadFunction \/ ReadExternalFunction \/ ReadExternalVariable PROVE DescInv'
  <2>1. pc \in Early \cup {"variables"} /\ pc' \in {pc, "abort"}
    BY <1>1 DEF ReadFunction, ReadExternalFunction, ReadExternalVariable, AddExternalVariable,
                InLoop, NextItem, Abort, Early
  <2> QED
    BY <2>1 DEF DescInv, SegmentsDescribed, Done, Early
<1>2. ASSUME EndXrefs \/ EndFunction \/ ReadBlock \/ SortForMerge PROVE DescInv'
  <2>1. /\ pc \in {"xrefs", "blocks", "merge"} /\ UNCHANGED <<cfg, segs, ea_to_seg>> /\ pc' \in {pc, "abort"}
    BY <1>2 DEF EndXrefs, EndFunction, ReadBlock, SortForMerge, InLoop, NextItem, NextSub, Abort,
                segment_tables
  <2> QED
    BY <2>1, DescStays DEF Running
<1>3. ASSUME UNCHANGED state PROVE DescInv'
  <2>1. UNCHANGED <<cfg, pc, at, sub, segs, seg_forward, ea_to_seg, segments, mapped>>
    BY <1>3 DEF state, control, segment_tables
  <2>2. \A s : DataAt(s)' = DataAt(s)
    BY <2>1 DEF DataAt
  <2>3. Internal' = Internal /\ \A s : (Making(s)' <=> Making(s)) /\ (Filling(s)' <=> Filling(s))
    BY <2>1 DEF Internal, Making, Filling, Unfilled, Made, Doubled, Found, Partitioned, OwnZeros
  <2>4. BytesRead' <=> BytesRead
    BY <2>1 DEF BytesRead, Bytes
  <2>5. SegmentsDescribed' <=> SegmentsDescribed
    BY <2>1, <2>2 DEF SegmentsDescribed, Done
  <2>6. \A s, k : (Unfilled(s)' <=> Unfilled(s)) /\ (Made(s, k)' <=> Made(s, k))
                  /\ (Doubled(k)' <=> Doubled(k)) /\ (Found(s, k)' <=> Found(s, k))
    BY <2>1 DEF Unfilled, Made, Doubled, Found
  <2> QED
    BY <2>1, <2>3, <2>4, <2>5, <2>6, DescribedSame DEF DescInv
<1> QED
  BY <1>1, <1>2, <1>3, DescNextLoop, DescSegments, DescXref, DescFill, DescMerge, DescResolve
  DEF Next, Finished

(* After loading the bytes of every internal segment are described once    *)
(* each, and none that is not zero as zero, whatever the CFG, the order of *)
(* equal segments and the bytes behind a segment's data are.               *)
THEOREM SegmentsDescribedHolds == Spec => []SegmentsDescribed
<1>1. Init => TabInv /\ DescInv
  <2>1. Init => DescInv
    BY DEF Init, DescInv, SegmentsDescribed, Done
  <2> QED
    BY <2>1, TabInit
<1>2. TabInv /\ DescInv /\ [Next]_state => TabInv' /\ DescInv'
  BY TabStep, DescStep
<1>3. TabInv /\ DescInv => SegmentsDescribed
  BY DEF DescInv
<1> QED
  BY <1>1, <1>2, <1>3, PTL DEF Spec
-----------------------------------------------------------------------------
(* What leads to segments.                                                 *)

Final(s) == Get(seg_forward, s)
IsExternalAt(s, ea) == segs[s].is_external /\ segs[s].ea = ea

IsVariable(r) ==
  /\ {"ea", "segment", "is_external"} \subseteq DOMAIN r
  /\ r.segment \in DOMAIN segs
  /\ r.is_external => IsExternalAt(r.segment, r.ea)

(* An external segment is replaced by an external one at its address only. *)
ExternalsStay ==
  \A s \in DOMAIN segs : segs[s].is_external => IsExternalAt(Final(s), segs[s].ea)

(* An entry that is a cross-reference names its segment, and a target that *)
(* holds the address it is for, or ones that forward to these.             *)
IsPlaced(s, e) ==
  /\ e.segment \in DOMAIN segs /\ Final(e.segment) = Final(s)
  /\ e.target_segment # 0 =>
       e.target_segment \in DOMAIN segs /\ Holds(Final(e.target_segment), e.target_ea)
EntriesPlaced ==
  \A s \in DOMAIN segs : \A a \in DOMAIN segs[s].entries :
    segs[s].entries[a].blob = "none" => IsPlaced(s, segs[s].entries[a])

LiveTables ==
  /\ IsList(variables) /\ \A v \in DOMAIN variables : IsVariable(variables[v])
  /\ ExternalsStay /\ EntriesPlaced
  /\ pc \in {"variables", "segments"} => \A s \in DOMAIN segs : segs[s].entries = << >>
LiveInv == (Running => LiveTables) /\ LookupsLive

LEMMA FinalIs ==
  ASSUME SegmentTables
  PROVE  \A s \in DOMAIN segs : Final(s) \in Live(seg_forward) /\ Final(s) \in DOMAIN segs
<1>1. DOMAIN segs = DOMAIN seg_forward
  BY ListIs, ForwardsIs DEF SegmentTables
<1> QED
  BY <1>1, GetGives DEF SegmentTables, Final, Live

(* The segment that is found holds the address.                            *)
LEMMA TryGetSegmentIs ==
  ASSUME SegmentTables, NEW ea, NEW t, t = TryGetSegment(ea), t # 0
  PROVE  t \in DOMAIN segs /\ Final(t) = t /\ Holds(t, ea)
<1>1. PICK hits : hits = {k \in DOMAIN segments : Holds(Get(seg_forward, segments[k]), ea)}
  OBVIOUS
<1>2. hits # {} /\ t = Get(seg_forward, segments[Least(hits)])
  BY <1>1 DEF TryGetSegment
<1>3. hits \subseteq Nat
  <2>1. Len(segments) \in Nat /\ DOMAIN segments = 1..Len(segments)
    BY ListIs DEF SegmentTables
  <2> QED
    BY <2>1, <1>1
<1>4. Least(hits) \in hits
  BY <1>2, <1>3, LeastIs
<1>5. PICK x : x = segments[Least(hits)]
  OBVIOUS
<1>6. x \in DOMAIN segs /\ t = Final(x) /\ Holds(t, ea)
  BY <1>1, <1>2, <1>4, <1>5 DEF SegmentTables, Range, Final
<1>7. t \in DOMAIN segs /\ t \in Live(seg_forward)
  BY <1>6, FinalIs
<1>8. Final(t) = t
  BY <1>7, GetGives DEF Live, Final, SegmentTables
<1> QED
  BY <1>6, <1>7, <1>8

LEMMA LiveInit == Init => LiveInv
<1> SUFFICES ASSUME Init PROVE LiveInv
  OBVIOUS
<1>1. variables = << >> /\ segs = << >> /\ pc = "functions"
  BY DEF Init
<1>2. IsList(variables)
  BY <1>1 DEF IsList
<1> QED
  BY <1>1, <1>2 DEF LiveInv, LiveTables, ExternalsStay, EntriesPlaced, LookupsLive, Done

(* Steps that change neither segments nor variables.                       *)
LEMMA LiveKept ==
  ASSUME LiveTables, UNCHANGED <<segs, seg_forward, variables>>, pc' \in {"variables", "segments"} => pc' = pc
  PROVE  LiveTables'
<1>1. (\A s : Final(s)' = Final(s)) /\ (\A s, ea : IsExternalAt(s, ea)' <=> IsExternalAt(s, ea))
  BY DEF Final, IsExternalAt
<1>2. \A s, e : IsPlaced(s, e)' <=> IsPlaced(s, e)
  BY <1>1 DEF IsPlaced, Holds
<1>3. \A r : IsVariable(r)' <=> IsVariable(r)
  BY <1>1 DEF IsVariable
<1>4. ExternalsStay' /\ EntriesPlaced'
  BY <1>1, <1>2 DEF LiveTables, ExternalsStay, EntriesPlaced
<1> QED
  BY <1>3, <1>4 DEF LiveTables

LEMMA LiveStays ==
  ASSUME LiveInv, Running, UNCHANGED <<segs, seg_forward, variables>>, pc' \in {pc, "abort"}
  PROVE  LiveInv'
<1>1. Running' => LiveTables'
  BY LiveKept DEF LiveInv, Running
<1> QED
  BY <1>1 DEF LiveInv, LookupsLive, Done, Running

LEMMA LiveNextLoop ==
  ASSUME TabInv, VarInv, LiveInv, NextLoop
  PROVE  LiveInv'
<1>1. UNCHANGED <<segs, seg_forward, variables>> /\ Running /\ LiveTables
  BY NextLoopIs DEF NextLoop, segment_tables, variable_tables, Running, LiveInv
<1>2. pc' # "done"
  BY NextLoopIs
<1>3. CASE pc' \notin {"variables", "segments"}
  <2>1. LiveTables'
    BY <1>1, <1>3, LiveKept
  <2> QED
    BY <2>1, <1>2 DEF LiveInv, LookupsLive, Done
<1>4. CASE pc' \in {"variables", "segments"}
  <2>1. \A s \in DOMAIN segs : segs[s].entries = << >>
    BY <1>1, <1>4, NextLoopIs DEF TabInv, Running, Early, LiveTables
  <2>2. (\A s : Final(s)' = Final(s)) /\ (\A s, ea : IsExternalAt(s, ea)' <=> IsExternalAt(s, ea))
    BY <1>1 DEF Final, IsExternalAt
  <2>3. \A r : IsVariable(r)' <=> IsVariable(r)
    BY <1>1, <2>2 DEF IsVariable
  <2>4. ExternalsStay' /\ EntriesPlaced'
    BY <1>1, <2>1, <2>2 DEF LiveTables, ExternalsStay, EntriesPlaced
  <2>5. LiveTables'
    BY <1>1, <2>1, <2>3, <2>4 DEF LiveTables
  <2> QED
    BY <2>5, <1>2 DEF LiveInv, LookupsLive, Done
<1> QED
  BY <1>3, <1>4

LEMMA LiveExternal ==
  ASSUME TabInv, LiveInv, ReadExternalVariable
  PROVE  LiveInv'
<1>1. /\ pc = "variables" /\ at <= Len(List) /\ Running /\ LiveTables /\ pc' \in {pc, "abort"}
      /\ SegmentTables /\ Addressed /\ \A s \in DOMAIN segs : segs[s].is_external
      /\ \A s \in DOMAIN segs : segs[s].entries = << >>
  BY DEF ReadExternalVariable, AddExternalVariable, NextItem, Abort, InLoop, TabInv, Running, LiveInv,
         LiveTables
<1>2. CASE UNCHANGED <<variable_tables, segment_tables>>
  BY <1>1, <1>2, LiveStays DEF variable_tables, segment_tables
<1>3. CASE AddExternalVariable(Item)
  <2>1. PICK s : s = Len(segs) + 1
    OBVIOUS
  <2>2. PICK ea : ea = Item.ea /\ ea \in Nat
    BY <1>1, ExternalItem
  <2>3. /\ DOMAIN segs' = DOMAIN segs \cup {s} /\ s \notin DOMAIN segs
        /\ segs'[s].ea = ea /\ segs'[s].is_external /\ segs'[s].entries = << >>
        /\ \A k \in DOMAIN segs : SameBut(segs'[k], segs[k]) /\ segs'[k].entries = segs[k].entries
        /\ Get(seg_forward', s) = s
        /\ \A k \in DOMAIN segs :
             Get(seg_forward', k) = IF Replaces(k, ea) THEN s ELSE Get(seg_forward, k)
    BY <1>1, <1>3, <2>1, <2>2, ExternalItem, ExternalSegment
  <2>4. \A k \in DOMAIN segs : segs[Final(k)].ea = segs[k].ea /\ Final(k) \in DOMAIN segs
    BY <1>1, FinalIs DEF LiveTables, ExternalsStay, IsExternalAt
  <2>5. ASSUME NEW k \in DOMAIN segs, Replaces(k, ea) PROVE segs[k].ea = ea
    <3>1. ea_to_seg[ea] \in DOMAIN segs /\ segs[ea_to_seg[ea]].ea = ea /\ Final(k) = Final(ea_to_seg[ea])
      BY <2>5, <1>1 DEF Replaces, Addressed, Final
    <3> QED
      BY <3>1, <2>4
  <2>6. ExternalsStay'
    <3>1. ASSUME NEW k \in DOMAIN segs, Replaces(k, ea) PROVE IsExternalAt(Final(k), segs[k].ea)'
      <4>1. Get(seg_forward', k) = s /\ segs'[k].ea = ea
        BY <3>1, <2>3, <2>5 DEF SameBut
      <4> QED
        BY <4>1, <2>3 DEF Final, IsExternalAt
    <3>2. ASSUME NEW k \in DOMAIN segs, ~Replaces(k, ea) PROVE IsExternalAt(Final(k), segs[k].ea)'
      <4>1. PICK f : f = Final(k)
        OBVIOUS
      <4>2. Get(seg_forward', k) = f /\ f \in DOMAIN segs /\ segs[f].ea = segs[k].ea
        BY <3>2, <4>1, <2>3, <2>4 DEF Final
      <4> QED
        BY <4>2, <1>1, <2>3 DEF Final, IsExternalAt, SameBut
    <3>3. IsExternalAt(Final(s), segs[s].ea)'
      BY <2>3 DEF Final, IsExternalAt
    <3> QED
      BY <3>1, <3>2, <3>3, <2>3 DEF ExternalsStay
  <2>7. \A k \in DOMAIN segs' : segs'[k].entries = << >>
    BY <2>3, <1>1
  <2>8. EntriesPlaced'
    BY <2>7 DEF EntriesPlaced
  <2>9. PICK q : q = [ea |-> ea, name |-> Item.name, segment |-> s, is_external |-> TRUE,
                      is_exported |-> q.is_exported, is_thread_local |-> q.is_thread_local]
                 /\ variables' = Append(variables, q)
    BY <1>3, <2>1, <2>2 DEF AddExternalVariable
  <2>10. IsList(variables') /\ \A v \in DOMAIN variables' : IsVariable(variables[v])'
    <3>1. PICK n \in Nat : n = Len(variables) /\ DOMAIN variables = 1..n
      BY <1>1, ListIs DEF LiveTables
    <3>2. /\ IsList(variables') /\ Len(variables') = n + 1 /\ variables'[n + 1] = q
          /\ \A v \in DOMAIN variables : variables'[v] = variables[v]
      BY <1>1, <2>9, <3>1, ListAppend DEF LiveTables
    <3>3. DOMAIN variables' = 1..(n + 1)
      BY <3>2, ListIs
    <3>4. IsVariable(q)'
      <4>1. q.segment = s /\ q.ea = ea /\ {"ea", "segment", "is_external"} \subseteq DOMAIN q
        BY <2>9
      <4> QED
        BY <4>1, <2>3 DEF IsVariable, IsExternalAt
    <3>5. ASSUME NEW v \in DOMAIN variables PROVE IsVariable(variables[v])'
      <4>1. PICK r : r = variables[v] /\ IsVariable(r)
        BY <1>1 DEF LiveTables
      <4>2. IsVariable(r)'
        BY <4>1, <2>3 DEF IsVariable, IsExternalAt, SameBut
      <4> QED
        BY <4>1, <4>2, <3>2 DEF IsVariable
    <3>6. \A v \in 1..(n + 1) : v \in 1..n \/ v = n + 1
      OBVIOUS
    <3>7. ASSUME NEW v \in DOMAIN variables' PROVE IsVariable(variables[v])'
      <4>1. v = n + 1 \/ v \in DOMAIN variables
        BY <3>1, <3>3, <3>6
      <4>2. CASE v = n + 1
        BY <4>2, <3>2, <3>4 DEF IsVariable
      <4>3. CASE v \in DOMAIN variables
        BY <4>3, <3>5, <3>2 DEF IsVariable
      <4> QED
        BY <4>1, <4>2, <4>3
    <3> QED
      BY <3>2, <3>7
  <2>11. LiveTables'
    BY <2>6, <2>7, <2>8, <2>10 DEF LiveTables
  <2> QED
    BY <2>11, <1>1 DEF LiveInv, LookupsLive, Done
<1> QED
  BY <1>2, <1>3 DEF ReadExternalVariable

(* Segments that keep their place and extent.                              *)
LEMMA LivePlaces ==
  ASSUME SegmentTables, ExternalsStay, UNCHANGED seg_forward, DOMAIN segs' = DOMAIN segs,
         \A k \in DOMAIN segs : SameBut(segs'[k], segs[k])
  PROVE  /\ ExternalsStay' /\ \A s \in DOMAIN segs : \A e : IsPlaced(s, e) => IsPlaced(s, e)'
         /\ \A r : IsVariable(r) => IsVariable(r)'
<1>1. \A s \in DOMAIN segs : Final(s) \in DOMAIN segs
  BY FinalIs
<1>2. \A s : Final(s)' = Final(s)
  BY DEF Final
<1>3. \A s \in DOMAIN segs : \A ea : (IsExternalAt(s, ea)' <=> IsExternalAt(s, ea)) /\ (Holds(s, ea)' <=> Holds(s, ea))
  BY DEF IsExternalAt, Holds, SameBut
<1>4. ExternalsStay'
  <2>1. ASSUME NEW s \in DOMAIN segs, segs'[s].is_external PROVE IsExternalAt(Final(s), segs[s].ea)'
    <3>1. PICK f : f = Final(s) /\ f \in DOMAIN segs
      BY <1>1
    <3>2. IsExternalAt(f, segs[s].ea)
      BY <2>1, <3>1 DEF ExternalsStay, SameBut
    <3> QED
      BY <3>1, <3>2, <1>2 DEF IsExternalAt, SameBut
  <2> QED
    BY <2>1 DEF ExternalsStay
<1>5. ASSUME NEW s \in DOMAIN segs, NEW e, IsPlaced(s, e) PROVE IsPlaced(s, e)'
  <2>1. e.target_segment # 0 => Holds(Final(e.target_segment), e.target_ea)'
    <3>1. SUFFICES ASSUME e.target_segment # 0 PROVE Holds(Final(e.target_segment), e.target_ea)'
      OBVIOUS
    <3>2. PICK f : f = Final(e.target_segment) /\ f \in DOMAIN segs /\ Holds(f, e.target_ea)
      BY <3>1, <1>1, <1>5 DEF IsPlaced
    <3> QED
      BY <3>2, <1>2 DEF Holds, SameBut
  <2> QED
    BY <2>1, <1>2, <1>5 DEF IsPlaced
<1>6. ASSUME NEW r, IsVariable(r) PROVE IsVariable(r)'
  BY <1>6 DEF IsVariable, IsExternalAt, SameBut
<1> QED
  BY <1>4, <1>5, <1>6

LEMMA LiveBegin ==
  ASSUME TabInv, LiveInv, BeginSegment
  PROVE  LiveInv'
<1>1. PICK s : s = Len(segs) + 1
  OBVIOUS
<1>2. /\ pc = "segments" /\ pc' = pc /\ UNCHANGED variables /\ SegmentTables /\ LiveTables
      /\ \/ UNCHANGED segment_tables
         \/ /\ DOMAIN segs' = DOMAIN segs \cup {s} /\ s \notin DOMAIN segs
            /\ segs'[s].entries = << >>
            /\ \A k \in DOMAIN segs : segs'[k] = segs[k]
            /\ Get(seg_forward', s) = s
            /\ \A k \in DOMAIN segs : Get(seg_forward', k) = Get(seg_forward, k)
  BY <1>1, BeginIs DEF BeginSegment, variable_tables, TabInv, Running, LiveInv
<1>3. CASE UNCHANGED segment_tables
  BY <1>2, <1>3, LiveStays DEF segment_tables, Running
<1>4. CASE ~(UNCHANGED segment_tables)
  <2>1. /\ DOMAIN segs' = DOMAIN segs \cup {s} /\ s \notin DOMAIN segs
        /\ segs'[s].entries = << >>
        /\ \A k \in DOMAIN segs : segs'[k] = segs[k]
        /\ Get(seg_forward', s) = s
        /\ \A k \in DOMAIN segs : Get(seg_forward', k) = Get(seg_forward, k)
    BY <1>2, <1>4
  <2>2. \A k \in DOMAIN segs' : segs'[k].entries = << >>
    BY <2>1, <1>2 DEF LiveTables
  <2>3. \A k \in DOMAIN segs : Final(k) \in DOMAIN segs
    BY <1>2, FinalIs
  <2>4. ExternalsStay'
    <3>1. ASSUME NEW k \in DOMAIN segs, segs'[k].is_external PROVE IsExternalAt(Final(k), segs[k].ea)'
      <4>1. PICK f : f = Final(k) /\ f \in DOMAIN segs
        BY <2>3
      <4>2. IsExternalAt(f, segs[k].ea)
        BY <3>1, <4>1, <2>1, <1>2 DEF LiveTables, ExternalsStay
      <4>3. Get(seg_forward', k) = f
        BY <4>1, <2>1 DEF Final
      <4> QED
        BY <4>1, <4>2, <4>3, <2>1 DEF IsExternalAt, Final
    <3>2. segs'[s].is_external => IsExternalAt(Final(s), segs[s].ea)'
      BY <2>1 DEF IsExternalAt, Final
    <3> QED
      BY <3>1, <3>2, <2>1 DEF ExternalsStay
  <2>5. EntriesPlaced'
    BY <2>2 DEF EntriesPlaced
  <2>6. \A r : IsVariable(r) => IsVariable(r)'
    BY <2>1 DEF IsVariable, IsExternalAt
  <2>7. IsList(variables') /\ \A v \in DOMAIN variables' : IsVariable(variables[v])'
    <3>1. ASSUME NEW v \in DOMAIN variables PROVE IsVariable(variables[v])'
      <4>1. PICK r : r = variables[v] /\ IsVariable(r) /\ IsVariable(r)'
        BY <1>2, <2>6 DEF LiveTables
      <4> QED
        BY <4>1, <1>2 DEF IsVariable
    <3> QED
      BY <3>1, <1>2 DEF LiveTables
  <2>8. LiveTables'
    BY <2>2, <2>4, <2>5, <2>7 DEF LiveTables
  <2> QED
    BY <2>8, <1>2 DEF LiveInv, LookupsLive, Done
<1> QED
  BY <1>3, <1>4

(* Variables are made for the last segment, or change in what is not told  *)
(* apart here.                                                             *)
VariablesRead ==
  \/ UNCHANGED variables
  \/ /\ variables' = [v \in DOMAIN variables |-> variables'[v]]
     /\ \A v \in DOMAIN variables :
          /\ DOMAIN variables'[v] = DOMAIN variables[v] /\ variables'[v].ea = variables[v].ea
          /\ variables'[v].segment = variables[v].segment
          /\ variables'[v].is_external = variables[v].is_external
  \/ \E q : /\ variables' = Append(variables, q)
            /\ {"ea", "segment", "is_external"} \subseteq DOMAIN q
            /\ q.segment = Len(segs) /\ q.is_external = FALSE

LEMMA VariableReads ==
  ASSUME ReadVariable, \A v \in DOMAIN variables : IsVariable(variables[v])
  PROVE  VariablesRead
<1>1. PICK var : var = Item.vars[sub - 1]
  OBVIOUS
<1>2. PICK s : s = Len(segs)
  OBVIOUS
<1>3. PICK i : i = ea_to_var[var.ea]
  OBVIOUS
<1>4. CASE var.ea \in DOMAIN ea_to_var
  <2>1. PICK x, y : variables' = [variables EXCEPT ![i].is_exported = x, ![i].is_thread_local = y]
    <3>1. PICK m, n : /\ m = segs[s].is_exported /\ n = segs[s].is_thread_local
      OBVIOUS
    <3>2. variables' = [variables EXCEPT ![i].is_exported = @ \/ m, ![i].is_thread_local = @ \/ n]
      BY <1>1, <1>2, <1>3, <1>4, <3>1 DEF ReadVariable
    <3>3. variables' = [variables EXCEPT
            ![i].is_exported = variables[i].is_exported \/ m,
            ![i].is_thread_local = variables[i].is_thread_local \/ n]
      BY <3>2
    <3> QED
      BY <3>3
  <2>2. variables' = [v \in DOMAIN variables |-> variables'[v]]
    BY <2>1
  <2>3. ASSUME NEW v \in DOMAIN variables
        PROVE  /\ DOMAIN variables'[v] = DOMAIN variables[v] /\ variables'[v].ea = variables[v].ea
               /\ variables'[v].segment = variables[v].segment
               /\ variables'[v].is_external = variables[v].is_external
    <3>1. PICK r : r = variables[v] /\ {"ea", "segment", "is_external"} \subseteq DOMAIN r
      BY DEF IsVariable
    <3>2. CASE v = i
      <4>1. variables'[v] = [r EXCEPT !.is_exported = x, !.is_thread_local = y]
        BY <2>1, <3>1, <3>2
      <4> QED
        BY <3>1, <4>1
    <3>3. CASE v # i
      BY <2>1, <3>3
    <3> QED
      BY <3>2, <3>3
  <2> QED
    BY <2>2, <2>3 DEF VariablesRead
<1>5. CASE var.ea \notin DOMAIN ea_to_var /\ (var.ea \in DOMAIN ea_to_func \/ var.name = None)
  BY <1>1, <1>5 DEF ReadVariable, VariablesRead
<1>6. CASE var.ea \notin DOMAIN ea_to_var /\ ~(var.ea \in DOMAIN ea_to_func \/ var.name = None)
  <2>1. PICK q : q = [ea |-> var.ea, name |-> var.name, segment |-> s, is_external |-> FALSE,
                      is_exported |-> FALSE, is_thread_local |-> FALSE]
    OBVIOUS
  <2>2. variables' = Append(variables, q)
    BY <1>1, <1>2, <1>6, <2>1 DEF ReadVariable
  <2>3. {"ea", "segment", "is_external"} \subseteq DOMAIN q /\ q.segment = s /\ q.is_external = FALSE
    BY <2>1
  <2> QED
    BY <1>2, <2>2, <2>3 DEF VariablesRead
<1> QED
  BY <1>4, <1>5, <1>6

LEMMA LiveRead ==
  ASSUME TabInv, LiveInv, ReadVariable
  PROVE  LiveInv'
<1>1. /\ pc = "segments" /\ pc' = pc /\ UNCHANGED seg_forward /\ SegmentTables /\ LiveTables
      /\ DOMAIN segs' = DOMAIN segs
      /\ \A k \in DOMAIN segs : SameBut(segs'[k], segs[k]) /\ segs'[k].entries = segs[k].entries
  BY VariableIs DEF TabInv, Running, LiveInv
<1>2. /\ IsList(variables) /\ \A v \in DOMAIN variables : IsVariable(variables[v])
      /\ \A k \in DOMAIN segs : segs[k].entries = << >>
  BY <1>1 DEF LiveTables
<1>3. ExternalsStay' /\ \A r : IsVariable(r) => IsVariable(r)'
  BY <1>1, LivePlaces DEF LiveTables
<1>4. \A k \in DOMAIN segs' : segs'[k].entries = << >>
  BY <1>1, <1>2
<1>5. IsList(variables') /\ \A v \in DOMAIN variables' : IsVariable(variables[v])'
  <2>1. CASE UNCHANGED variables
    <3>1. ASSUME NEW v \in DOMAIN variables PROVE IsVariable(variables[v])'
      <4>1. PICK r : r = variables[v] /\ IsVariable(r) /\ IsVariable(r)'
        BY <1>2, <1>3
      <4> QED
        BY <4>1, <2>1 DEF IsVariable
    <3> QED
      BY <3>1, <2>1, <1>2
  <2>2. ASSUME variables' = [v \in DOMAIN variables |-> variables'[v]],
               \A v \in DOMAIN variables :
                 /\ DOMAIN variables'[v] = DOMAIN variables[v] /\ variables'[v].ea = variables[v].ea
                 /\ variables'[v].segment = variables[v].segment
                 /\ variables'[v].is_external = variables[v].is_external
        PROVE  IsList(variables') /\ \A v \in DOMAIN variables' : IsVariable(variables[v])'
    <3>1. IsList(variables') /\ DOMAIN variables' = DOMAIN variables
      BY <2>2, <1>2, ListReplace
    <3>2. ASSUME NEW v \in DOMAIN variables PROVE IsVariable(variables[v])'
      <4>1. PICK r : r = variables[v] /\ IsVariable(r) /\ IsVariable(r)'
        BY <1>2, <1>3
      <4> QED
        BY <4>1, <2>2 DEF IsVariable
    <3> QED
      BY <3>1, <3>2
  <2>3. ASSUME NEW q, variables' = Append(variables, q), {"ea", "segment", "is_external"} \subseteq DOMAIN q,
               q.segment = Len(segs), q.is_external = FALSE
        PROVE  IsList(variables') /\ \A v \in DOMAIN variables' : IsVariable(variables[v])'
    <3>1. PICK n \in Nat : n = Len(variables) /\ DOMAIN variables = 1..n
      BY <1>2, ListIs
    <3>2. /\ IsList(variables') /\ Len(variables') = n + 1 /\ variables'[n + 1] = q
          /\ \A v \in DOMAIN variables : variables'[v] = variables[v]
      BY <1>2, <2>3, <3>1, ListAppend
    <3>3. DOMAIN variables' = 1..(n + 1)
      BY <3>2, ListIs
    <3>4. IsVariable(q)'
      <4>1. Len(segs) # 0
        BY <1>1, VariableIs DEF TabInv, Running
      <4>2. Len(segs) \in Nat /\ DOMAIN segs = 1..Len(segs)
        BY <1>1, ListIs DEF SegmentTables
      <4> QED
        BY <4>1, <4>2, <2>3, <1>1 DEF IsVariable
    <3>5. ASSUME NEW v \in DOMAIN variables' PROVE IsVariable(variables[v])'
      <4>1. v = n + 1 \/ v \in DOMAIN variables
        BY <3>1, <3>3
      <4>2. CASE v = n + 1
        BY <4>2, <3>2, <3>4 DEF IsVariable
      <4>3. CASE v \in DOMAIN variables
        <5>1. PICK r : r = variables[v] /\ IsVariable(r) /\ IsVariable(r)'
          BY <4>3, <1>2, <1>3
        <5> QED
          BY <5>1, <4>3, <3>2 DEF IsVariable
      <4> QED
        BY <4>1, <4>2, <4>3
    <3> QED
      BY <3>2, <3>5
  <2> QED
    BY <2>1, <2>2, <2>3, <1>2, VariableReads DEF VariablesRead
<1>6. LiveTables'
  BY <1>3, <1>4, <1>5 DEF LiveTables, EntriesPlaced
<1> QED
  BY <1>1, <1>6 DEF LiveInv, LookupsLive, Done

(* Entries change where the segments stay.                                 *)
LEMMA LiveEntries ==
  ASSUME LiveInv, Running, SegmentTables, UNCHANGED <<seg_forward, variables>>, DOMAIN segs' = DOMAIN segs,
         \A k \in DOMAIN segs : SameBut(segs'[k], segs[k]),
         pc' \in {pc, "abort"}, pc \notin {"variables", "segments"}, 
         \A s \in DOMAIN segs : \A a \in DOMAIN segs'[s].entries :
           segs'[s].entries[a].blob = "none" => IsPlaced(s, segs'[s].entries[a])
  PROVE  LiveInv'
<1>1. LiveTables
  BY DEF LiveInv
<1>2. /\ ExternalsStay' /\ \A s \in DOMAIN segs : \A e : IsPlaced(s, e) => IsPlaced(s, e)'
      /\ \A r : IsVariable(r) => IsVariable(r)'
  BY <1>1, LivePlaces DEF LiveTables
<1>3. EntriesPlaced'
  <2>1. ASSUME NEW s \in DOMAIN segs', NEW a \in DOMAIN segs'[s].entries, segs'[s].entries[a].blob = "none"
        PROVE  IsPlaced(s, segs[s].entries[a])'
    <3>1. PICK e : e = segs'[s].entries[a]
      OBVIOUS
    <3>2. IsPlaced(s, e)'
      BY <2>1, <3>1, <1>2
    <3> QED
      BY <3>1, <3>2 DEF IsPlaced
  <2> QED
    BY <2>1 DEF EntriesPlaced
<1>4. \A v \in DOMAIN variables' : IsVariable(variables[v])'
  <2>1. ASSUME NEW v \in DOMAIN variables PROVE IsVariable(variables[v])'
    <3>1. PICK r : r = variables[v] /\ IsVariable(r) /\ IsVariable(r)'
      BY <1>1, <1>2 DEF LiveTables
    <3> QED
      BY <3>1 DEF IsVariable
  <2> QED
    BY <2>1
<1>5. Running' => LiveTables'
  BY <1>1, <1>2, <1>3, <1>4 DEF LiveTables, Running
<1> QED
  BY <1>5 DEF LiveInv, LookupsLive, Done, Running

LEMMA LiveXref ==
  ASSUME TabInv, LiveInv, ReadXref
  PROVE  LiveInv'
<1>1. /\ pc = "xrefs" /\ pc' \in {pc, "abort"} /\ UNCHANGED <<seg_forward, variables>>
      /\ SegmentTables /\ LiveTables /\ Running /\ DOMAIN segs' = DOMAIN segs
      /\ \/ segs' = segs
         \/ \E s \in DOMAIN segs, xref \in Range(Item.xrefs) :
              /\ \A k \in DOMAIN segs : SameBut(segs'[k], segs[k]) /\ (k # s => segs'[k] = segs[k])
              /\ segs'[s].entries = Put(segs[s].entries, xref.ea, Xref(s, xref))
  BY XrefIs DEF ReadXref, variable_tables, TabInv, Running, LiveInv
<1>2. CASE segs' = segs
  BY <1>1, <1>2, LiveStays
<1>3. ASSUME NEW s \in DOMAIN segs, NEW xref,
             \A k \in DOMAIN segs : SameBut(segs'[k], segs[k]) /\ (k # s => segs'[k] = segs[k]),
             segs'[s].entries = Put(segs[s].entries, xref.ea, Xref(s, xref))
      PROVE  LiveInv'
  <2>1. PICK e : e = Xref(s, xref)
    OBVIOUS
  <2>2. IsPlaced(s, e)
    <3>1. e.segment = s /\ e.target_segment = TryGetSegment(xref.target_ea) /\ e.target_ea = xref.target_ea
      BY <2>1 DEF Xref
    <3>2. PICK t : t = TryGetSegment(xref.target_ea)
      OBVIOUS
    <3>3. t # 0 => t \in DOMAIN segs /\ Final(t) = t /\ Holds(t, xref.target_ea)
      BY <1>1, <3>2, TryGetSegmentIs
    <3> QED
      BY <3>1, <3>2, <3>3 DEF IsPlaced
  <2>3. ASSUME NEW k \in DOMAIN segs, NEW a \in DOMAIN segs'[k].entries, segs'[k].entries[a].blob = "none"
        PROVE  IsPlaced(k, segs'[k].entries[a])
    <3>1. CASE k = s /\ a = xref.ea
      BY <3>1, <2>1, <2>2, <1>3 DEF Put
    <3>2. CASE k = s /\ a # xref.ea
      <4>1. a \in DOMAIN segs[k].entries /\ segs'[k].entries[a] = segs[k].entries[a]
        BY <3>2, <2>3, <1>3 DEF Put
      <4> QED
        BY <4>1, <2>3, <1>1 DEF LiveTables, EntriesPlaced
    <3>3. CASE k # s
      BY <3>3, <2>3, <1>1, <1>3 DEF LiveTables, EntriesPlaced
    <3> QED
      BY <3>1, <3>2, <3>3
  <2> QED
    BY <2>3, <1>1, <1>3, LiveEntries
<1> QED
  BY <1>1, <1>2, <1>3

LEMMA LiveFill ==
  ASSUME TabInv, LiveInv, FillBlobs
  PROVE  LiveInv'
<1>1. /\ pc = "blobs" /\ pc' \in {pc, "abort"} /\ at <= Len(List) /\ UNCHANGED <<seg_forward, variables>>
      /\ SegmentTables /\ Addressed /\ LiveTables /\ Running /\ DOMAIN segs' = DOMAIN segs
      /\ pc' = pc => \E s, bytes, end, xrefs : FillsWith(s, bytes, end, xrefs)
  BY FillIs DEF FillBlobs, variable_tables, TabInv, Running, LiveInv
<1>2. CASE pc' = "abort"
  BY <1>2 DEF LiveInv, LookupsLive, Done, Running
<1>3. ASSUME NEW s, NEW bytes, NEW end, NEW xrefs, FillsWith(s, bytes, end, xrefs)
      PROVE  LiveInv'
  <2>1. /\ s \in DOMAIN segs /\ segs[s].ea = Item.ea
        /\ \A k \in DOMAIN segs : SameBut(segs'[k], segs[k]) /\ (k # s => segs'[k] = segs[k])
    BY <1>3 DEF FillsWith
  <2>2. PICK old : old = segs[s].entries
    OBVIOUS
  <2>3. PICK blobs : blobs = Blobs(xrefs, Item.ea, end, DOMAIN ea_to_var, bytes)
    OBVIOUS
  <2>4. \A a \in DOMAIN blobs : blobs[a].blob \in {"zero", "data"}
    <3>1. Item.ea \in Nat /\ end \in Nat
      BY <1>1, <1>3, <2>1, SegmentItem DEF FillsWith, SegmentTables, IsSegment
    <3> QED
      BY <3>1, <2>3, BlobsAre
  <2>5. xrefs = [a \in DOMAIN old \ {end} |-> old[a]]
    BY <1>3, <2>2 DEF FillsWith, Within
  <2>6. PICK new : new = segs'[s].entries /\ new = Filled(xrefs, blobs)
    BY <1>3, <2>3 DEF FillsWith
  <2>7. \A a \in DOMAIN new : new[a].blob = "none" => a \in DOMAIN old /\ new[a] = old[a]
    BY <2>4, <2>5, <2>6 DEF Filled
  <2>8. ASSUME NEW k \in DOMAIN segs, NEW a \in DOMAIN segs'[k].entries, segs'[k].entries[a].blob = "none"
        PROVE  IsPlaced(k, segs'[k].entries[a])
    <3>1. CASE k = s
      <4>1. a \in DOMAIN old /\ segs'[k].entries[a] = old[a] /\ old[a].blob = "none"
        BY <3>1, <2>6, <2>7, <2>8
      <4> QED
        BY <4>1, <3>1, <2>2, <1>1 DEF LiveTables, EntriesPlaced
    <3>2. CASE k # s
      BY <3>2, <2>1, <2>8, <1>1 DEF LiveTables, EntriesPlaced
    <3> QED
      BY <3>1, <3>2
  <2> QED
    BY <2>1, <2>8, <1>1, LiveEntries
<1> QED
  BY <1>1, <1>2, <1>3

(* What the merged segment held its neighbour now holds.                   *)
LEMMA MergePlaces ==
  ASSUME SegmentTables, NEW s, NEW p, Adjacent(segs[p], segs[s]), MergesInto(s, p)
  PROVE  /\ \A k \in DOMAIN segs : Final(k)' = IF Final(k) = s THEN p ELSE Final(k)
         /\ \A k \in DOMAIN segs, ea \in Nat : Holds(Final(k), ea) => Holds(Final(k), ea)'
<1>1. /\ s \in DOMAIN segs /\ p \in DOMAIN segs /\ s # p
      /\ \A k \in DOMAIN segs :
           segs'[k].ea = segs[k].ea /\ (k \notin {s, p} => segs'[k] = segs[k])
      /\ segs'[p].size = segs[p].size + segs[s].size
      /\ \A k \in DOMAIN segs :
           Get(seg_forward', k) = IF Get(seg_forward, k) = s THEN p ELSE Get(seg_forward, k)
  BY DEF MergesInto
<1>2. \A k \in DOMAIN segs : Final(k)' = IF Final(k) = s THEN p ELSE Final(k)
  BY <1>1 DEF Final
<1>3. ASSUME NEW k \in DOMAIN segs, NEW ea \in Nat, Holds(Final(k), ea) PROVE Holds(Final(k), ea)'
  <2>1. PICK f : f = Final(k) /\ f \in DOMAIN segs
    BY FinalIs
  <2>2. PICK lo \in Nat : lo = segs[p].ea
    BY <1>1 DEF SegmentTables, IsSegment
  <2>3. PICK m \in Nat : m = segs[p].size
    BY <1>1 DEF SegmentTables, IsSegment
  <2>4. PICK n \in Nat : n = segs[s].size
    BY <1>1 DEF SegmentTables, IsSegment
  <2>5. segs[s].ea = lo + m /\ segs'[p].ea = lo /\ segs'[p].size = m + n
    BY <1>1, <2>2, <2>3, <2>4 DEF Adjacent
  <2>6. PICK g : g = Final(k)'
    OBVIOUS
  <2>7. CASE f = s
    <3>1. g = p
      BY <2>1, <2>6, <2>7, <1>2
    <3>2. lo + m <= ea /\ ea < lo + m + n
      BY <1>3, <2>1, <2>4, <2>5, <2>7 DEF Holds
    <3>3. lo <= ea /\ ea < lo + (m + n)
      BY <3>2
    <3> QED
      BY <3>1, <3>3, <2>5, <2>6 DEF Holds
  <2>8. CASE f = p
    <3>1. g = p
      BY <2>1, <2>6, <2>8, <1>1, <1>2
    <3>2. lo <= ea /\ ea < lo + m
      BY <1>3, <2>1, <2>2, <2>3, <2>8 DEF Holds
    <3>3. lo <= ea /\ ea < lo + (m + n)
      BY <3>2
    <3> QED
      BY <3>1, <3>3, <2>5, <2>6 DEF Holds
  <2>9. CASE f \notin {s, p}
    <3>1. g = f /\ segs'[f] = segs[f]
      BY <2>1, <2>6, <2>9, <1>1, <1>2
    <3> QED
      BY <3>1, <1>3, <2>1, <2>6 DEF Holds
  <2> QED
    BY <2>7, <2>8, <2>9
<1> QED
  BY <1>2, <1>3

LEMMA LiveMerge ==
  ASSUME TabInv, LiveInv, MergeStep
  PROVE  LiveInv'
<1>1. /\ pc = "merge" /\ pc' = pc /\ UNCHANGED variables /\ SegmentTables /\ LiveTables /\ Running
      /\ \/ UNCHANGED <<segs, seg_forward>>
         \/ \E s, p : Adjacent(segs[p], segs[s]) /\ MergesInto(s, p)
  BY MergeIs DEF MergeStep, variable_tables, TabInv, Running, LiveInv
<1>2. CASE UNCHANGED <<segs, seg_forward>>
  BY <1>1, <1>2, LiveStays
<1>3. ASSUME NEW s, NEW p, Adjacent(segs[p], segs[s]), MergesInto(s, p)
      PROVE  LiveInv'
  <2>1. /\ s \in DOMAIN segs /\ p \in DOMAIN segs /\ s # p /\ Final(s) = s /\ Final(p) = p
        /\ DOMAIN segs' = DOMAIN segs
        /\ \A k \in DOMAIN segs :
             /\ segs'[k].ea = segs[k].ea /\ segs'[k].is_external = segs[k].is_external
             /\ k \notin {s, p} => segs'[k] = segs[k]
        /\ segs'[p].entries = Filled(segs[p].entries, segs[s].entries) /\ segs'[s].entries = << >>
        /\ ~segs[s].is_external
    BY <1>3 DEF MergesInto, Adjacent, Final
  <2>2. /\ \A k \in DOMAIN segs : Final(k)' = IF Final(k) = s THEN p ELSE Final(k)
        /\ \A k \in DOMAIN segs, ea \in Nat : Holds(Final(k), ea) => Holds(Final(k), ea)'
    BY <1>1, <1>3, MergePlaces
  <2>3. ExternalsStay'
    <3>1. ASSUME NEW k \in DOMAIN segs, segs'[k].is_external PROVE IsExternalAt(Final(k), segs[k].ea)'
      <4>1. PICK f : f = Final(k) /\ f \in DOMAIN segs
        BY <1>1, FinalIs
      <4>2. IsExternalAt(f, segs[k].ea)
        BY <3>1, <4>1, <2>1, <1>1 DEF LiveTables, ExternalsStay
      <4>3. Final(k)' = f
        BY <4>1, <4>2, <2>1, <2>2 DEF IsExternalAt
      <4> QED
        BY <4>1, <4>2, <4>3, <2>1 DEF IsExternalAt
    <3> QED
      BY <3>1, <2>1 DEF ExternalsStay
  <2>4. ASSUME NEW k \in DOMAIN segs, NEW e, IsPlaced(k, e), e.target_ea \in Nat,
               NEW j \in DOMAIN segs, Final(j)' = Final(k)'
        PROVE  IsPlaced(j, e)'
    <3>1. e.segment \in DOMAIN segs' /\ Final(e.segment)' = Final(j)'
      BY <2>1, <2>2, <2>4 DEF IsPlaced
    <3>2. ASSUME e.target_segment # 0
          PROVE  e.target_segment \in DOMAIN segs' /\ Holds(Final(e.target_segment), e.target_ea)'
      <4>1. PICK t : t = e.target_segment
        OBVIOUS
      <4>2. PICK ea \in Nat : ea = e.target_ea
        BY <2>4
      <4>3. t \in DOMAIN segs /\ Holds(Final(t), ea)
        BY <3>2, <4>1, <4>2, <2>4 DEF IsPlaced
      <4>4. Holds(Final(t), ea)'
        BY <4>2, <4>3, <2>2
      <4> QED
        BY <4>1, <4>2, <4>3, <4>4, <2>1
    <3> QED
      BY <3>1, <3>2 DEF IsPlaced
  <2>5. \A k \in DOMAIN segs : \A a : a \in DOMAIN segs[k].entries /\ segs[k].entries[a].blob = "none" =>
          IsPlaced(k, segs[k].entries[a]) /\ segs[k].entries[a].target_ea \in Nat
    BY <1>1 DEF LiveTables, EntriesPlaced, SegmentTables, IsSegment, AreEntries, IsEntry
  <2>6. EntriesPlaced'
    <3>1. ASSUME NEW k \in DOMAIN segs', NEW a \in DOMAIN segs'[k].entries, segs'[k].entries[a].blob = "none"
          PROVE  IsPlaced(k, segs[k].entries[a])'
      <4>1. PICK e : e = segs'[k].entries[a]
        OBVIOUS
      <4>2. PICK j \in DOMAIN segs : /\ a \in DOMAIN segs[j].entries /\ e = segs[j].entries[a]
                                     /\ Final(k)' = Final(j)'
        <5>1. CASE k \notin {s, p}
          BY <5>1, <4>1, <3>1, <2>1
        <5>2. CASE k = s
          BY <5>2, <3>1, <2>1
        <5>3. CASE k = p
          <6>1. \/ a \in DOMAIN segs[p].entries /\ e = segs[p].entries[a]
                \/ a \in DOMAIN segs[s].entries /\ e = segs[s].entries[a]
            BY <5>3, <4>1, <3>1, <2>1 DEF Filled
          <6>2. Final(p)' = p /\ Final(s)' = p
            BY <2>1, <2>2
          <6> QED
            BY <5>3, <6>1, <6>2, <2>1
        <5> QED
          BY <5>1, <5>2, <5>3
      <4>3. IsPlaced(j, e) /\ e.target_ea \in Nat
        BY <4>1, <4>2, <3>1, <2>5
      <4>4. k \in DOMAIN segs
        BY <2>1
      <4>5. IsPlaced(k, e)'
        BY <4>2, <4>3, <4>4, <2>4
      <4> QED
        BY <4>1, <4>5 DEF IsPlaced
    <3> QED
      BY <3>1 DEF EntriesPlaced
  <2>7. \A v \in DOMAIN variables' : IsVariable(variables[v])'
    <3>1. ASSUME NEW v \in DOMAIN variables PROVE IsVariable(variables[v])'
      <4>1. PICK r : r = variables[v] /\ IsVariable(r)
        BY <1>1 DEF LiveTables
      <4> QED
        BY <4>1, <2>1, <1>1 DEF IsVariable, IsExternalAt
    <3> QED
      BY <3>1, <1>1
  <2>8. LiveTables'
    BY <2>3, <2>6, <2>7, <1>1 DEF LiveTables
  <2> QED
    BY <2>8, <1>1 DEF LiveInv, LookupsLive, Done
<1> QED
  BY <1>1, <1>2, <1>3

(* At the end all that is looked up is forwarded.                          *)
LEMMA LiveResolve ==
  ASSUME TabInv, VarInv, LiveInv, Resolve
  PROVE  LiveInv'
<1>1. /\ pc = "merge" /\ pc' = "done" /\ UNCHANGED seg_forward
      /\ Range(segments') = Pruned /\ Pruned = Live(seg_forward) /\ Pruned \subseteq DOMAIN segs
      /\ DOMAIN segs' = DOMAIN segs
      /\ \A s \in DOMAIN segs :
           /\ SameBut(segs'[s], segs[s]) /\ DOMAIN segs'[s].entries = DOMAIN segs[s].entries
           /\ s \in Pruned => \A a \in DOMAIN segs[s].entries :
                             EntryResolved(segs'[s].entries[a], segs[s].entries[a])
  BY ResolveIs
<1>2. SegmentTables /\ Addressed /\ LiveTables /\ AllJoined
  BY <1>1 DEF TabInv, VarInv, LiveInv, Running, Late
<1>3. \A s \in DOMAIN segs : Final(s) \in Pruned /\ Final(s) \in DOMAIN segs
  BY <1>1, <1>2, FinalIs
<1>4. /\ ea_to_seg' = [ea \in DOMAIN ea_to_seg |-> Final(ea_to_seg[ea])]
      /\ ea_to_var' = [ea \in DOMAIN ea_to_var |-> Get(var_forward, ea_to_var[ea])]
      /\ UNCHANGED var_forward
      /\ variables' = [v \in DOMAIN variables |->
                         IF v \in Range(ea_to_var')
                         THEN [variables[v] EXCEPT !.segment = Final(@)] ELSE variables[v]]
  BY DEF Resolve, Final
<1>5. Range(segments') = Live(seg_forward')
  BY <1>1
<1>6. Range(ea_to_seg') \subseteq Range(segments')
  BY <1>1, <1>2, <1>3, <1>4 DEF Addressed, Range
<1>7. ASSUME NEW ea \in DOMAIN ea_to_var'
      PROVE  /\ ea_to_var'[ea] \in Live(var_forward')
             /\ variables'[ea_to_var'[ea]].segment \in Range(segments')
             /\ variables'[ea_to_var'[ea]].is_external =>
                  /\ segs'[variables'[ea_to_var'[ea]].segment].is_external
                  /\ segs'[variables'[ea_to_var'[ea]].segment].ea = variables'[ea_to_var'[ea]].ea
  <2>1. PICK v : v = ea_to_var'[ea]
    OBVIOUS
  <2>2. ea \in DOMAIN ea_to_var /\ v = Get(var_forward, ea_to_var[ea]) /\ ea_to_var[ea] \in DOMAIN var_forward
    BY <1>2, <1>4, <1>7, <2>1 DEF AllJoined
  <2>3. v \in DOMAIN var_forward /\ var_forward[v] = v
    BY <2>2, <1>2, GetGives DEF AllJoined, Lists
  <2>4. v \in DOMAIN variables
    <3>1. DOMAIN variables = 1..Len(variables) /\ DOMAIN var_forward = 1..Len(var_forward)
      BY <1>2, ListIs, ForwardsIs DEF AllJoined, Lists
    <3> QED
      BY <3>1, <2>3, <1>2 DEF AllJoined, Lists
  <2>5. PICK r : r = variables[v] /\ IsVariable(r)
    BY <2>4, <1>2 DEF LiveTables
  <2>6. PICK x : x = Final(r.segment) /\ r.segment \in DOMAIN segs
    BY <2>5 DEF IsVariable
  <2>7. v \in Range(ea_to_var')
    BY <2>1, <1>7 DEF Range
  <2>8. variables'[v] = [r EXCEPT !.segment = x]
    BY <2>4, <2>5, <2>6, <2>7, <1>4
  <2>9. variables'[v].segment = x /\ variables'[v].ea = r.ea /\ variables'[v].is_external = r.is_external
    BY <2>5, <2>8 DEF IsVariable
  <2>10. x \in Pruned /\ x \in DOMAIN segs
    BY <2>6, <1>3
  <2>11. r.is_external => segs'[x].is_external /\ segs'[x].ea = r.ea
    <3>1. r.is_external => IsExternalAt(x, r.ea)
      BY <2>5, <2>6, <1>2 DEF IsVariable, LiveTables, ExternalsStay, IsExternalAt
    <3> QED
      BY <3>1, <2>10, <1>1 DEF IsExternalAt, SameBut
  <2>12. v \in Live(var_forward')
    BY <2>3, <1>4 DEF Live
  <2> QED
    BY <2>1, <2>9, <2>10, <2>11, <2>12, <1>1
<1>8. ASSUME NEW s \in Range(segments'), NEW a \in DOMAIN segs'[s].entries, segs'[s].entries[a].blob = "none"
      PROVE  /\ segs'[s].entries[a].segment = s
             /\ segs'[s].entries[a].target_segment # 0 =>
                  /\ segs'[s].entries[a].target_segment \in Range(segments')
                  /\ Holds(segs[s].entries[a].target_segment, segs[s].entries[a].target_ea)'
  <2>1. s \in Pruned /\ s \in DOMAIN segs /\ a \in DOMAIN segs[s].entries
    BY <1>1, <1>8
  <2>2. PICK e : e = segs[s].entries[a]
    OBVIOUS
  <2>3. PICK n : n = segs'[s].entries[a] /\ EntryResolved(n, e)
    BY <2>1, <2>2, <1>1
  <2>4. e.blob = "none" /\ IsPlaced(s, e)
    BY <2>1, <2>2, <2>3, <1>2, <1>8 DEF EntryResolved, LiveTables, EntriesPlaced
  <2>5. /\ n.target_ea = e.target_ea /\ n.segment = Final(e.segment)
        /\ n.target_segment = IF e.target_segment = 0 THEN 0 ELSE Final(e.target_segment)
    BY <2>3, <2>4 DEF EntryResolved, Final
  <2>6. Final(s) = s
    BY <2>1, <1>1, <1>2, GetGives DEF Live, Final, SegmentTables
  <2>7. n.segment = s
    BY <2>4, <2>5, <2>6 DEF IsPlaced
  <2>8. ASSUME n.target_segment # 0
        PROVE  n.target_segment \in Range(segments') /\ Holds(segs[s].entries[a].target_segment, segs[s].entries[a].target_ea)'
    <3>1. PICK t : t = n.target_segment
      OBVIOUS
    <3>2. PICK ea : ea = n.target_ea
      OBVIOUS
    <3>3. t = Final(e.target_segment) /\ e.target_segment \in DOMAIN segs /\ Holds(t, ea)
      BY <3>1, <3>2, <2>4, <2>5, <2>8 DEF IsPlaced
    <3>4. t \in Pruned /\ t \in DOMAIN segs
      BY <3>3, <1>3
    <3>5. Holds(t, ea)'
      BY <3>3, <3>4, <1>1 DEF Holds, SameBut
    <3> QED
      BY <3>1, <3>2, <3>4, <3>5, <2>3, <1>1 DEF Holds
  <2> QED
    BY <2>3, <2>7, <2>8
<1>9. LookupsLive'
  BY <1>5, <1>6, <1>7, <1>8 DEF LookupsLive
<1> QED
  BY <1>1, <1>9 DEF LiveInv, Running

LEMMA LiveStep == TabInv /\ VarInv /\ LiveInv /\ [Next]_state => LiveInv'
<1> SUFFICES ASSUME TabInv, VarInv, LiveInv, [Next]_state PROVE LiveInv'
  OBVIOUS
<1>1. ASSUME ReadFunction \/ ReadExternalFunction PROVE LiveInv'
  <2>1. Running /\ UNCHANGED <<segs, seg_forward, variables>> /\ pc' \in {pc, "abort"}
    BY <1>1 DEF ReadFunction, ReadExternalFunction, InLoop, NextItem, Abort, Running, variable_tables,
                segment_tables
  <2> QED
    BY <2>1, LiveStays
<1>2. ASSUME EndSegment \/ EndXrefs \/ EndFunction \/ ReadBlock \/ SortForMerge PROVE LiveInv'
  <2>1. Running /\ UNCHANGED <<segs, seg_forward, variables>> /\ pc' \in {pc, "abort"}
    BY <1>2 DEF EndSegment, EndXrefs, EndFunction, ReadBlock, SortForMerge, InLoop, NextItem, NextSub, Abort,
                Running, variable_tables, segment_tables
  <2> QED
    BY <2>1, LiveStays
<1>3. ASSUME UNCHANGED state PROVE LiveInv'
  <2>1. UNCHANGED <<pc, segs, seg_forward, variables, ea_to_seg, segments, ea_to_var, var_forward>>
    BY <1>3 DEF state, control, segment_tables, variable_tables
  <2>2. Running => LiveTables'
    BY <2>1, LiveKept DEF LiveInv
  <2>3. LookupsLive' <=> LookupsLive
    <3>1. \A s, ea : Holds(s, ea)' <=> Holds(s, ea)
      BY <2>1 DEF Holds
    <3> QED
      BY <2>1, <3>1 DEF LookupsLive, Done, Live
  <2> QED
    BY <2>1, <2>2, <2>3 DEF LiveInv, Running
<1> QED
  BY <1>1, <1>2, <1>3, LiveNextLoop, LiveExternal, LiveBegin, LiveRead, LiveXref, LiveFill, LiveMerge, LiveResolve
  DEF Next, Finished

(* After loading, the tables and the cross-references lead to segments and *)
(* variables that are lifted, an external variable to its own segment, and *)
(* a target to the segment that holds its address, whatever was replaced   *)
(* or merged in between.                                                   *)
THEOREM LookupsLiveHolds == Spec => []LookupsLive
<1>1. Init => TabInv /\ VarInv /\ LiveInv
  BY TabInit, VarInit, LiveInit
<1>2. TabInv /\ VarInv /\ LiveInv /\ [Next]_state => TabInv' /\ VarInv' /\ LiveInv'
  BY TabStep, VarStep, LiveStep
<1>3. TabInv /\ VarInv /\ LiveInv => LookupsLive
  BY DEF LiveInv
<1> QED
  BY <1>1, <1>2, <1>3, PTL DEF Spec
=============================================================================
