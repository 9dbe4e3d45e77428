------------------------ MODULE MachineRuntimeProofs ------------------------
(***************************************************************************)
(* Theorems about MachineRuntime, for stacks of any depth that the calls   *)
(* stay within. Each running function has a level on either stack: nothing *)
(* below its levels is of use to it, and what the functions outside it     *)
(* need to go on lies above.                                               *)
(***************************************************************************)
EXTENDS MachineRuntime, TLAPS

IsSeq(s) == \E S : s \in Seq(S)
Index(r) == SelectInSeq(Saved, LAMBDA x : x = r)

(* What State has of a function while another one runs: a lifted one's     *)
(* original, or, of a native one, what the machine had at its call.        *)
StateKind(b) == IF b.kind = "native" THEN "native" ELSE "original"
Original(b) == <<StateKind(b), b.id>>
ReturnTo(b) == IF b.kind = "native" THEN Code("detach_ret") ELSE <<"lifted", b.id>>

SavedIn(m, at, kind, id, rs) == \A r \in rs : m[at + 7 - Index(r)] = Own(kind, id, r)
KeptIn(from, kind, id, rs) == \A r \in rs : from[r] = Own(kind, id, r)

(* The levels of the i-th function on the lifted and on the native stack.  *)
Low(s, i) ==
  IF i = 1 THEN StackTop ELSE IF s[i].kind = "lifted" THEN s[i].rsp ELSE s[i - 1].rsp - 10
High(s, i) == IF s[i].kind = "native" THEN s[i].rsp ELSE s[i].emulated

(* What a function's frames, at low and high, hold for the one that called *)
(* it.                                                                     *)
Joins(b, a, m, low, high) ==
  /\ SavedIn(m, high, StateKind(b), b.id, IsSaved)
  /\ SavedIn(m, low, b.kind, b.id, IsSaved)
  /\ a.kind = "lifted" => m[low + 7] = ReturnTo(b) /\ m[high + 7] = Original(b)
  /\ a.kind = "native" =>
       /\ m[high + 7] = Code("attach_ret")
       /\ m[low] = Original(b) /\ m[low + 9] = <<"lifted", b.id>>
Link(s, m, i) == Joins(s[i - 1], s[i], m, Low(s, i), High(s, i))

(* How the functions lie on the stacks.                                    *)
NativeTop == NativeBase + NativeWords - 2
Step(s, i) ==
  /\ Low(s, i) = Low(s, i - 1) - (IF s[i].kind = "lifted" THEN 8 ELSE 10)
  /\ High(s, i) = High(s, i - 1) - 8
  /\ s[i].kind = "native" => s[i - 1].kind = "lifted"
Act(s, i) ==
  LET a == s[i] IN
  /\ a.kind \in {"native", "lifted"}
  /\ Low(s, i) \in Int /\ High(s, i) \in Int
  /\ Low(s, i) % 2 = 0
  /\ Low(s, i) >= StackTop - 10 * (i - 1) /\ Low(s, i) <= StackTop
  /\ High(s, i) = NativeTop - 8 * (i - 1)
Nested(s) ==
  /\ IsSeq(s) /\ Len(s) >= 1 /\ s[1].kind = "native"
  /\ \A i \in 1 .. Len(s) : Act(s, i)
  /\ \A i \in 2 .. Len(s) : Step(s, i)
  /\ \A i, j \in 1 .. Len(s) : i <= j => Low(s, j) <= Low(s, i)
Linked(s, m) == \A i \in 2 .. Len(s) : Link(s, m, i)

Top == acts[Len(acts)]
L == Low(acts, Len(acts))
H == High(acts, Len(acts))

(* What each place of the code finds.                                      *)
Fits == stateRSP = L \/ (Len(acts) = 1 /\ stateRSP = 0)
Stashed ==
  /\ SavedIn(mem, L - 10, "lifted", Top.id, IsSaved)
  /\ mem[L - 10] = Original(Top) /\ mem[L - 1] = <<"lifted", Top.id>>
Called ==
  /\ rsp = L - 1 /\ stateRSP = H - 1
  /\ mem[L - 1] = ReturnTo(Top) /\ mem[H - 1] = Original(Top)
  /\ KeptIn(regs, Top.kind, Top.id, IsSaved)
  /\ KeptIn(state, StateKind(Top), Top.id, IsSaved)

AtNative ==
  Top.kind = "native" =>
    rsp = H /\ Fits /\ KeptIn(regs, "native", Top.id, IsSaved)
AtLifted ==
  Top.kind = "lifted" =>
    /\ rsp = L /\ stateRSP = H
    /\ KeptIn(regs, "lifted", Top.id, IsSaved)
    /\ KeptIn(state, "original", Top.id, IsSaved)
AtAttachCall ==
  rip = Code("attach_call") =>
    /\ Top.kind = "native" /\ Fits
    /\ rsp = H - 3 /\ mem[H - 1] = Original(Top) /\ mem[H - 2] = Code("function")
    /\ KeptIn(regs, "native", Top.id, IsSaved)
AtFunction == rip = Code("function") => Called
AtFunctionCall ==
  rip = Code("function_call") =>
    Top.kind = "lifted" /\ Called /\ regs["rsi"] = Code("target")
AtTarget ==
  rip = Code("target") =>
    /\ Top.kind = "lifted" /\ Stashed
    /\ rsp = H - 1 /\ stateRSP = L - 10 /\ mem[H - 1] = Code("attach_ret")
    /\ KeptIn(regs, "original", Top.id, IsSaved)
AtDetachRet ==
  rip = Code("detach_ret") =>
    /\ Top.kind = "native"
    /\ rsp = L /\ stateRSP = H /\ mem[H - 1] = Original(Top)
    /\ KeptIn(state, "native", Top.id, IsSaved)
AtAttachRet ==
  rip = Code("attach_ret") =>
    /\ Top.kind = "lifted" /\ Stashed
    /\ rsp = H /\ stateRSP = L - 10
    /\ KeptIn(regs, "original", Top.id, IsSaved)
Calling == {Code("attach_call"), Code("function"), Code("function_call"), Code("target")}
Returning == {Code("detach_ret"), Code("attach_ret")}
Where ==
  /\ rip \in Calling \cup Returning \cup {<<Top.kind, Top.id>>}
  /\ rip = <<Top.kind, Top.id>> => AtNative /\ AtLifted
  /\ AtAttachCall /\ AtFunction /\ AtFunctionCall /\ AtTarget
  /\ AtDetachRet /\ AtAttachRet

Shapes ==
  /\ DOMAIN regs = Registers /\ DOMAIN state = Registers \cup {"rip"}
  /\ DOMAIN mem = Addresses
  /\ calls \in 0 .. MaxCalls
  /\ Len(acts) <= calls + 1 /\ (rip \in Calling => Len(acts) <= calls)

IInv == Shapes /\ Nested(acts) /\ Linked(acts, mem) /\ Where

(* What is passed, on its way.                                             *)
Carried ==
  /\ rip[1] \in {"attach_call", "target"} => \A r \in Args : regs[r] = passed
  /\ rip[1] \in {"function", "function_call"} => \A r \in Args : state[r] = passed
  /\ rip[1] = "detach_ret" => state["rax"] = passed
  /\ rip[1] = "attach_ret" => regs["rax"] = passed
  /\ rip[1] = "native" /\ passed[1] = "result" => regs["rax"] = passed
  /\ rip[1] = "lifted" /\ passed[1] = "result" => state["rax"] = passed
-----------------------------------------------------------------------------
(* Registers, words and stacks.                                            *)

LEMMA SavedFacts ==
  /\ Len(Saved) = 6 /\ DOMAIN Saved = 1 .. 6
  /\ Saved[1] = "rbx" /\ Saved[2] = "rbp" /\ Saved[3] = "r12"
  /\ Saved[4] = "r13" /\ Saved[5] = "r14" /\ Saved[6] = "r15"
  BY DEF Saved

LEMMA SavedAre == IsSaved = {"rbx", "rbp", "r12", "r13", "r14", "r15"}
  BY SavedFacts DEF IsSaved

LEMMA IndexOf ==
  ASSUME NEW k \in 1 .. 6
  PROVE  Index(Saved[k]) = k
<1> DEFINE I == {i \in 1 .. Len(Saved) : Saved[i] = Saved[k]}
<1>1. I = {k}
  BY SavedFacts
<1>2. Index(Saved[k]) = IF I # {} THEN Min(I) ELSE 0
  BY DEF Index, SelectInSeq
<1> HIDE DEF I
<1>3. Min(I) = k
  BY <1>1 DEF Min
<1> QED
  BY <1>1, <1>2, <1>3

LEMMA IndexFacts ==
  ASSUME NEW r \in IsSaved
  PROVE  Index(r) \in 1 .. 6 /\ Saved[Index(r)] = r
<1>1. PICK k \in 1 .. 6 : r = Saved[k]
  BY SavedFacts DEF IsSaved
<1> QED
  BY <1>1, IndexOf

LEMMA RegisterFacts ==
  /\ \A r \in IsSaved : r \in Registers /\ r \notin Args
                        /\ r \notin {"rax", "flags", "cw", "rip", "rdi", "rsi", "rdx", "rcx"}
  /\ "rax" \in Registers /\ "rbp" \in IsSaved
  /\ \A r \in Args : r \in Registers /\ r \notin {"rip", "cw", "rax", "flags"}
  BY SavedAre DEF Registers, Args

LEMMA PushedFacts ==
  ASSUME NEW m, NEW top, NEW words
  PROVE  /\ DOMAIN Pushed(m, top, words) = DOMAIN m
         /\ \A a \in DOMAIN m :
              Pushed(m, top, words)[a] =
                IF a \in top - Len(words) .. top - 1 THEN words[top - a] ELSE m[a]
  BY DEF Pushed

LEMMA WordsFacts ==
  ASSUME NEW from
  PROVE  /\ Words(from, Saved) \in Seq({from[r] : r \in IsSaved})
         /\ Len(Words(from, Saved)) = 6
         /\ \A k \in 1 .. 6 : Words(from, Saved)[k] = from[Saved[k]]
<1>1. Words(from, Saved) = [i \in 1 .. 6 |-> from[Saved[i]]]
  BY SavedFacts DEF Words
<1>2. \A i \in 1 .. 6 : Saved[i] \in IsSaved
  BY SavedFacts DEF IsSaved
<1> QED
  BY <1>1, <1>2

Followed(u, s, w) ==
  /\ Len(u) = Len(s) + 1
  /\ \A k \in 1 .. Len(s) : u[k] = s[k]
  /\ u[Len(s) + 1] = w

LEMMA AppendWord ==
  ASSUME NEW S, NEW s \in Seq(S), NEW w
  PROVE  Followed(s \o <<w>>, s, w)
<1> DEFINE T == S \cup {w}
<1>1. s \in Seq(T) /\ <<w>> \in Seq(T)
  OBVIOUS
<1>2. Len(<<w>>) = 1 /\ <<w>>[1] = w
  OBVIOUS
<1> HIDE DEF T
<1> QED
  BY <1>1, <1>2 DEF Followed

LEMMA FrameFacts ==
  ASSUME NEW from
  PROVE  /\ Len(Frame(from)) = 7
         /\ \A k \in 1 .. 6 : Frame(from)[k] = from[Saved[k]]
<1>1. Followed(Words(from, Saved) \o <<Nothing>>, Words(from, Saved), Nothing)
  BY WordsFacts, AppendWord
<1>2. Followed(Frame(from), Words(from, Saved), Nothing)
  BY <1>1 DEF Frame
<1>3. /\ Len(Words(from, Saved)) = 6
      /\ \A k \in 1 .. 6 : Words(from, Saved)[k] = from[Saved[k]]
  BY WordsFacts
<1> HIDE DEF Frame
<1> QED
  BY <1>2, <1>3 DEF Followed

LEMMA PushesFacts ==
  /\ Len(Pushes) = 8 /\ DOMAIN Pushes = 1 .. 8
  /\ Pushes[1] = "rdx" /\ Pushes[2] = "rdx"
  /\ \A k \in 1 .. 6 : Pushes[k + 2] = Saved[k]
<1>1. /\ Pushes[1] = "rdx" /\ Pushes[2] = "rdx" /\ Pushes[3] = "rbx"
      /\ Pushes[4] = "rbp" /\ Pushes[5] = "r12" /\ Pushes[6] = "r13"
      /\ Pushes[7] = "r14" /\ Pushes[8] = "r15"
      /\ Len(Pushes) = 8 /\ DOMAIN Pushes = 1 .. 8
  BY DEF Pushes, Saved
<1>2. ASSUME NEW k \in 1 .. 6 PROVE Pushes[k + 2] = Saved[k]
  <2>1. k = 1 \/ k = 2 \/ k = 3 \/ k = 4 \/ k = 5 \/ k = 6
    OBVIOUS
  <2> QED
    BY <1>1, <2>1, SavedFacts
<1> QED
  BY <1>1, <1>2

LEMMA StashFacts ==
  ASSUME NEW returnTo
  PROVE  /\ Len(Stash(returnTo)) = 9 /\ StashSize = 9
         /\ \A k \in 1 .. 6 : Stash(returnTo)[k + 2] = regs[Saved[k]]
         /\ Stash(returnTo)[9] = returnTo
<1> DEFINE S == {regs[Pushes[i]] : i \in 1 .. 8}
           w == Words(regs, Pushes)
<1>1. w = [i \in 1 .. 8 |-> regs[Pushes[i]]]
  BY PushesFacts DEF Words
<1>2. w \in Seq(S) /\ Len(w) = 8
  BY <1>1
<1>3. \A k \in 1 .. 6 : w[k + 2] = regs[Saved[k]]
  BY <1>1, PushesFacts
<1> HIDE DEF S, w
<1>4. Followed(w \o <<returnTo>>, w, returnTo)
  BY <1>2, AppendWord
<1>5. Followed(Stash(returnTo), w, returnTo)
  BY <1>4 DEF Stash, w
<1>6. \A k \in 1 .. 6 : Stash(returnTo)[k + 2] = w[k + 2]
  BY <1>2, <1>5 DEF Followed
<1> QED
  BY <1>2, <1>3, <1>5, <1>6, PushesFacts DEF Followed, StashSize

LEMMA UnstashIndex ==
  ASSUME NEW r \in IsSaved
  PROVE  SelectInSeq(Pushes, LAMBDA x : x = r) = Index(r) + 2
<1> DEFINE I == {i \in 1 .. Len(Pushes) : Pushes[i] = r}
<1>1. PICK k \in 1 .. 6 : r = Saved[k]
  BY SavedFacts DEF IsSaved
<1>2. I = {k + 2}
  <2>1. \A i \in 1 .. 8 : Pushes[i] = r => i = k + 2
    <3> SUFFICES ASSUME NEW i \in 1 .. 8, Pushes[i] = r PROVE i = k + 2
      OBVIOUS
    <3>1. i # 1 /\ i # 2
      BY <1>1, SavedAre, PushesFacts
    <3>2. i - 2 \in 1 .. 6 /\ Pushes[(i - 2) + 2] = Saved[i - 2]
      BY <3>1, PushesFacts
    <3>3. Saved[i - 2] = Saved[k]
      BY <1>1, <3>2
    <3>4. i - 2 = k
      BY <3>2, <3>3, IndexOf
    <3> QED
      BY <3>4
  <2> QED
    BY <1>1, <2>1, PushesFacts
<1>3. SelectInSeq(Pushes, LAMBDA x : x = r) = IF I # {} THEN Min(I) ELSE 0
  BY DEF SelectInSeq
<1> HIDE DEF I
<1>4. Min(I) = k + 2
  BY <1>2 DEF Min
<1> QED
  BY <1>1, <1>2, <1>3, <1>4, IndexOf
-----------------------------------------------------------------------------
(* The functions on the stacks.                                            *)

LEMMA SeqFacts ==
  ASSUME NEW s, IsSeq(s)
  PROVE  Len(s) \in Nat /\ DOMAIN s = 1 .. Len(s)
  BY DEF IsSeq

LEMMA TopFacts ==
  ASSUME Nested(acts), Len(acts) <= MaxCalls + 1
  PROVE  /\ Len(acts) \in Nat /\ Len(acts) \in 1 .. Len(acts) /\ DOMAIN acts = 1 .. Len(acts)
         /\ Act(acts, Len(acts)) /\ Top.kind \in {"native", "lifted"}
         /\ L \in Int /\ H \in Int /\ L % 2 = 0 /\ L >= 2 /\ L <= StackTop
         /\ H >= NativeBase
         /\ H = NativeTop - 8 * (Len(acts) - 1)
         /\ L >= StackTop - 10 * (Len(acts) - 1)
         /\ Top.kind = "lifted" => Len(acts) > 1 /\ L = Top.rsp /\ H = Top.emulated
         /\ Top.kind = "native" => H = Top.rsp
<1>1. Len(acts) \in Nat /\ Len(acts) \in 1 .. Len(acts) /\ DOMAIN acts = 1 .. Len(acts)
  BY SeqFacts DEF Nested
<1>2. Act(acts, Len(acts))
  BY <1>1 DEF Nested
<1>3. /\ Top.kind \in {"native", "lifted"} /\ L \in Int /\ H \in Int /\ L % 2 = 0
      /\ L <= StackTop
      /\ H = NativeTop - 8 * (Len(acts) - 1)
      /\ L >= StackTop - 10 * (Len(acts) - 1)
  BY <1>2 DEF Act, Top, L, H
<1>4. L >= 2 /\ H >= NativeBase
  BY <1>1, <1>3, RuntimeAssumption DEF StackTop, NativeBase, NativeTop
<1>5. Top.kind = "lifted" => Len(acts) > 1
  BY <1>1 DEF Nested, Top
<1>6. Top.kind = "lifted" => L = Top.rsp /\ H = Top.emulated
  BY <1>5 DEF L, H, Low, High, Top
<1>7. Top.kind = "native" => H = Top.rsp
  BY DEF H, High, Top
<1> HIDE DEF L, H, Top
<1> QED
  BY <1>1, <1>2, <1>3, <1>4, <1>5, <1>6, <1>7

(* Where nothing was written above the levels of the n-th function, the    *)
(* frames of all functions up to it are as they were.                      *)
SameAbove(m, m2, low, high) ==
  \A a \in (low .. StackTop - 1) \cup (high .. NativeTop - 1) : m2[a] = m[a]

LEMMA WordIn ==
  ASSUME NEW a \in Int, NEW b \in Int, NEW c \in Int, NEW k \in 0 .. 7, a <= b, b + 7 <= c - 1
  PROVE  b + k \in a .. c - 1
  OBVIOUS

LEMMA LinksKept ==
  ASSUME NEW s, Nested(s), NEW n \in 1 .. Len(s), NEW m, NEW m2,
         SameAbove(m, m2, Low(s, n), High(s, n)),
         NEW i \in 2 .. n, Link(s, m, i)
  PROVE  Link(s, m2, i)
<1>1. Len(s) \in Nat /\ i \in 1 .. Len(s) /\ i - 1 \in 1 .. Len(s) /\ i \in 2 .. Len(s) /\ i <= n
  BY SeqFacts DEF Nested
<1>2. /\ Act(s, i) /\ Act(s, i - 1) /\ Act(s, n) /\ Step(s, i) /\ Low(s, n) <= Low(s, i)
  BY <1>1 DEF Nested
<1> DEFINE low == Low(s, i)
           high == High(s, i)
<1>3. /\ low \in Int /\ high \in Int /\ Low(s, n) \in Int /\ High(s, n) \in Int
      /\ Low(s, i - 1) \in Int /\ Low(s, i - 1) <= StackTop
      /\ s[i].kind \in {"native", "lifted"}
      /\ High(s, n) = NativeTop - 8 * (n - 1)
      /\ high = NativeTop - 8 * (i - 1)
      /\ Low(s, n) <= low
      /\ low = Low(s, i - 1) - (IF s[i].kind = "lifted" THEN 8 ELSE 10)
  BY <1>2 DEF Act, Step
<1>4. StackTop \in Int /\ NativeTop \in Int
  BY RuntimeAssumption DEF StackTop, NativeTop, NativeBase
<1> HIDE DEF low, high
<1>5. High(s, n) <= high /\ high + 7 <= NativeTop - 1
  BY <1>1, <1>3, <1>4
<1>6. low + 7 <= StackTop - 1 /\ (s[i].kind = "native" => low + 9 <= StackTop - 1)
  <2>1. CASE s[i].kind = "lifted"
    <3>1. low = Low(s, i - 1) - 8
      BY <1>3, <2>1
    <3> QED
      BY <1>3, <1>4, <2>1, <3>1
  <2>2. CASE s[i].kind = "native"
    <3>1. low = Low(s, i - 1) - 10
      BY <1>3, <2>2
    <3> QED
      BY <1>3, <1>4, <3>1
  <2> QED
    BY <1>3, <2>1, <2>2
<1>7. \A k \in 0 .. 7 : m2[high + k] = m[high + k] /\ m2[low + k] = m[low + k]
  <2> SUFFICES ASSUME NEW k \in 0 .. 7
               PROVE  m2[high + k] = m[high + k] /\ m2[low + k] = m[low + k]
    OBVIOUS
  <2>1. high + k \in High(s, n) .. NativeTop - 1
    BY <1>3, <1>4, <1>5, WordIn
  <2>2. low + k \in Low(s, n) .. StackTop - 1
    BY <1>3, <1>4, <1>6, WordIn
  <2>3. m2[high + k] = m[high + k]
    BY <2>1 DEF SameAbove
  <2>4. m2[low + k] = m[low + k]
    BY <2>2 DEF SameAbove
  <2> QED
    BY <2>3, <2>4
<1>8. s[i].kind = "native" => m2[low] = m[low] /\ m2[low + 9] = m[low + 9]
  <2> SUFFICES ASSUME s[i].kind = "native"
               PROVE  m2[low] = m[low] /\ m2[low + 9] = m[low + 9]
    OBVIOUS
  <2>1. low \in Low(s, n) .. StackTop - 1 /\ low + 9 \in Low(s, n) .. StackTop - 1
    <3>1. low + 9 <= StackTop - 1
      BY <1>6
    <3>2. Low(s, n) <= low /\ low \in Int /\ Low(s, n) \in Int
      BY <1>3
    <3> QED
      BY <1>4, <3>1, <3>2
  <2> QED
    BY <2>1 DEF SameAbove
<1>9. \A r \in IsSaved : 7 - Index(r) \in 0 .. 7
  BY IndexFacts
<1>10. ASSUME NEW r \in IsSaved
       PROVE  m2[high + 7 - Index(r)] = m[high + 7 - Index(r)] /\ m2[low + 7 - Index(r)] = m[low + 7 - Index(r)]
  <2>1. /\ high + 7 - Index(r) = high + (7 - Index(r))
        /\ low + 7 - Index(r) = low + (7 - Index(r))
    BY <1>3, IndexFacts
  <2> QED
    BY <1>7, <1>9, <2>1
<1> QED
  BY <1>7, <1>8, <1>10 DEF Link, Joins, SavedIn, low, high

(* The innermost functions return.                                         *)
LEMMA CutLevels ==
  ASSUME NEW s, Nested(s), NEW n \in 1 .. Len(s), NEW t, IsSeq(t), Len(t) = n,
         \A i \in 1 .. n : t[i] = s[i]
  PROVE  /\ Nested(t)
         /\ \A i \in 1 .. n : Low(t, i) = Low(s, i) /\ High(t, i) = High(s, i)
         /\ \A m : Linked(s, m) => Linked(t, m)
<1>1. Len(s) \in Nat /\ 1 .. n \subseteq 1 .. Len(s) /\ 2 .. n \subseteq 2 .. Len(s)
  BY SeqFacts DEF Nested
<1>2. \A i \in 2 .. n : i - 1 \in 1 .. n /\ i \in 1 .. n /\ i # 1
  BY <1>1
<1>3. ASSUME NEW i \in 1 .. n
      PROVE  Low(t, i) = Low(s, i) /\ High(t, i) = High(s, i)
  <2>1. i # 1 => i \in 2 .. n
    BY <1>1
  <2> QED
    BY <1>2, <2>1 DEF Low, High
<1>4. ASSUME NEW i \in 1 .. n
      PROVE  Act(t, i)
  <2>1. Act(s, i)
    BY <1>1 DEF Nested
  <2>2. Low(t, i) = Low(s, i) /\ High(t, i) = High(s, i) /\ t[i] = s[i]
    BY <1>3
  <2> QED
    BY <2>1, <2>2 DEF Act
<1>5. ASSUME NEW i \in 2 .. n
      PROVE  Step(t, i)
  <2>1. Step(s, i)
    BY <1>1 DEF Nested
  <2>2. t[i].kind = s[i].kind /\ t[i - 1].kind = s[i - 1].kind
    BY <1>2
  <2>3. /\ Low(t, i) = Low(s, i) /\ High(t, i) = High(s, i)
        /\ Low(t, i - 1) = Low(s, i - 1) /\ High(t, i - 1) = High(s, i - 1)
    BY <1>2, <1>3
  <2> QED
    BY <2>1, <2>2, <2>3 DEF Step
<1>6. Nested(t)
  <2>1. t[1].kind = "native"
    <3>1. 1 \in 1 .. n
      BY <1>1
    <3> QED
      BY <3>1 DEF Nested
  <2>2. \A i, j \in 1 .. n : i <= j => Low(t, j) <= Low(t, i)
    BY <1>1, <1>3 DEF Nested
  <2> QED
    BY <1>1, <1>4, <1>5, <2>1, <2>2 DEF Nested
<1>7. ASSUME NEW m, Linked(s, m), NEW i \in 2 .. n
      PROVE  Link(t, m, i)
  <2>1. Link(s, m, i)
    BY <1>1, <1>7 DEF Linked
  <2>2. t[i - 1] = s[i - 1] /\ t[i].kind = s[i].kind
    BY <1>2
  <2>3. Low(t, i) = Low(s, i) /\ High(t, i) = High(s, i)
    BY <1>2, <1>3
  <2> QED
    BY <2>1, <2>2, <2>3 DEF Link, Joins
<1> QED
  BY <1>3, <1>6, <1>7 DEF Linked

(* A function is entered from the innermost one.                           *)
Enters(s, a) ==
  /\ a.kind \in {"native", "lifted"}
  /\ a.kind = "lifted" =>
       a.rsp = Low(s, Len(s)) - 8 /\ a.emulated = High(s, Len(s)) - 8
  /\ a.kind = "native" => s[Len(s)].kind = "lifted" /\ a.rsp = High(s, Len(s)) - 8
Grows(t, s, a, n) ==
  /\ Nested(t) /\ Len(t) = n + 1 /\ t[n + 1] = a /\ t[n] = s[n]
  /\ \A i \in 1 .. n : Low(t, i) = Low(s, i) /\ High(t, i) = High(s, i)
  /\ Low(t, n + 1) = Low(s, n) - (IF a.kind = "lifted" THEN 8 ELSE 10)
  /\ High(t, n + 1) = High(s, n) - 8
  /\ \A m : \A i \in 2 .. n : Link(s, m, i) => Link(t, m, i)

LEMMA GrownLevels ==
  ASSUME NEW s, Nested(s), NEW a, Enters(s, a)
  PROVE  Grows(Append(s, a), s, a, Len(s))
<1> DEFINE n == Len(s)
<1>0. /\ a.kind \in {"native", "lifted"}
      /\ a.kind = "lifted" => a.rsp = Low(s, n) - 8 /\ a.emulated = High(s, n) - 8
      /\ a.kind = "native" => s[n].kind = "lifted" /\ a.rsp = High(s, n) - 8
      /\ n = Len(s)
  BY DEF Enters
<1> HIDE DEF n
<1>1. PICK S : s \in Seq(S)
  BY DEF Nested, IsSeq
<1>2. PICK t : t = Append(s, a)
  OBVIOUS
<1>3. /\ n \in Nat /\ n >= 1 /\ Len(t) = n + 1 /\ IsSeq(t) /\ t[n + 1] = a
      /\ \A i \in 1 .. n : t[i] = s[i]
  <2>1. s \in Seq(S \cup {a})
    BY <1>0, <1>1
  <2>2. t \in Seq(S \cup {a})
    BY <1>0, <1>2, <2>1
  <2> QED
    BY <1>0, <1>2, <2>1, <2>2 DEF IsSeq, Nested
<1>4. \A i \in 2 .. n : i - 1 \in 1 .. n /\ i \in 1 .. n
  BY <1>0, <1>3
<1>5. \A i \in 1 .. n : Low(t, i) = Low(s, i) /\ High(t, i) = High(s, i)
  BY <1>0, <1>3, <1>4 DEF Low, High
<1>6. /\ Act(s, n) /\ n \in 1 .. n
      /\ s[n].kind = "lifted" => n # 1 /\ Low(s, n) = s[n].rsp
  <2>1. n \in 1 .. n /\ Act(s, n)
    BY <1>0, <1>3 DEF Nested
  <2> QED
    BY <1>0, <1>3, <2>1 DEF Nested, Low
<1>7. /\ Low(t, n + 1) = Low(s, n) - (IF a.kind = "lifted" THEN 8 ELSE 10)
      /\ High(t, n + 1) = High(s, n) - 8
  BY <1>0, <1>3, <1>6 DEF Low, High
<1>8. ASSUME NEW i \in 1 .. n
      PROVE  Act(t, i)
  <2>1. Act(s, i) /\ t[i] = s[i] /\ Low(t, i) = Low(s, i) /\ High(t, i) = High(s, i)
    BY <1>0, <1>3, <1>5 DEF Nested
  <2> QED
    BY <1>0, <2>1 DEF Act
<1>9. Act(t, n + 1)
  <2>1. /\ Low(s, n) \in Int /\ High(s, n) \in Int /\ Low(s, n) % 2 = 0
        /\ Low(s, n) >= StackTop - 10 * (n - 1) /\ Low(s, n) <= StackTop
        /\ High(s, n) = NativeTop - 8 * (n - 1)
    BY <1>0, <1>6 DEF Act
  <2>2. StackTop \in Int /\ NativeTop \in Int
    BY RuntimeAssumption DEF StackTop, NativeTop, NativeBase
  <2>3. /\ Low(t, n + 1) \in Int /\ High(t, n + 1) \in Int /\ Low(t, n + 1) % 2 = 0
        /\ Low(t, n + 1) >= StackTop - 10 * n /\ Low(t, n + 1) <= StackTop
        /\ High(t, n + 1) = NativeTop - 8 * n
    BY <1>0, <1>3, <1>7, <2>1, <2>2
  <2>4. (n + 1) - 1 = n
    BY <1>0, <1>3
  <2> QED
    BY <1>0, <1>3, <2>3, <2>4 DEF Act
<1>10. ASSUME NEW i \in 2 .. n + 1
       PROVE  Step(t, i)
  <2>1. CASE i \in 2 .. n
    <3>1. Step(s, i)
      BY <1>0, <2>1 DEF Nested
    <3> QED
      BY <1>0, <1>3, <1>4, <1>5, <2>1, <3>1 DEF Step
  <2>2. CASE i = n + 1
    <3>1. i - 1 = n /\ t[i - 1] = s[n] /\ Low(t, i - 1) = Low(s, n) /\ High(t, i - 1) = High(s, n)
      BY <1>0, <1>3, <1>5, <1>6, <2>2
    <3> QED
      BY <1>0, <1>3, <1>7, <2>2, <3>1 DEF Step
  <2> QED
    BY <1>0, <1>3, <2>1, <2>2
<1>11. ASSUME NEW i \in 1 .. n + 1, NEW j \in 1 .. n + 1, i <= j
       PROVE  Low(t, j) <= Low(t, i)
  <2>1. CASE j \in 1 .. n
    BY <1>0, <1>3, <1>5, <1>11, <2>1 DEF Nested
  <2>2. CASE j = n + 1 /\ i \in 1 .. n
    <3>1. Low(s, n) <= Low(s, i) /\ Low(s, i) \in Int /\ Low(s, n) \in Int
      <4>1. i \in 1 .. Len(s) /\ n \in 1 .. Len(s) /\ i <= n
        BY <1>0, <1>3, <2>2
      <4>2. Act(s, i) /\ Act(s, n) /\ Low(s, n) <= Low(s, i)
        BY <4>1 DEF Nested
      <4> QED
        BY <4>2 DEF Act
    <3> QED
      BY <1>0, <1>5, <1>7, <2>2, <3>1
  <2>3. CASE j = n + 1 /\ i = n + 1
    BY <1>0, <1>9, <2>3 DEF Act
  <2> QED
    BY <1>0, <1>3, <2>1, <2>2, <2>3
<1>12. Nested(t)
  <2>1. t[1].kind = "native"
    BY <1>0, <1>3 DEF Nested
  <2>2. \A i \in 1 .. n + 1 : Act(t, i)
    BY <1>0, <1>3, <1>8, <1>9
  <2> QED
    BY <1>0, <1>3, <1>10, <1>11, <2>1, <2>2 DEF Nested
<1>13. ASSUME NEW m, NEW i \in 2 .. n, Link(s, m, i)
       PROVE  Link(t, m, i)
  BY <1>0, <1>3, <1>4, <1>5, <1>13 DEF Link, Joins
<1> QED
  BY <1>0, <1>2, <1>3, <1>5, <1>7, <1>12, <1>13 DEF Grows
-----------------------------------------------------------------------------
(* Where the code goes.                                                    *)

LEMMA CodesApart ==
  /\ \A c \in Calling \cup Returning :
       c[1] \in {"attach_call", "function", "function_call", "target", "detach_ret",
                "attach_ret"}
       /\ c = Code(c[1])
  /\ \A x : Code(x)[1] = x
  /\ \A k, i : <<k, i>>[1] = k
  BY DEF Calling, Returning, Code

LEMMA Arrives ==
  ASSUME (Top.kind)' \in {"native", "lifted"}
  PROVE  /\ rip' = Code("attach_call") /\ AtAttachCall' => Where'
         /\ rip' = Code("function") /\ AtFunction' => Where'
         /\ rip' = Code("function_call") /\ AtFunctionCall' => Where'
         /\ rip' = Code("target") /\ AtTarget' => Where'
         /\ rip' = Code("detach_ret") /\ AtDetachRet' => Where'
         /\ rip' = Code("attach_ret") /\ AtAttachRet' => Where'
         /\ rip' = <<Top.kind, Top.id>>' /\ AtNative' /\ AtLifted' => Where'
<1>1. rip' # <<Top.kind, Top.id>>' => (rip = <<Top.kind, Top.id>> => AtNative /\ AtLifted)'
  OBVIOUS
<1>2. /\ rip' # Code("attach_call") => AtAttachCall'
      /\ rip' # Code("function") => AtFunction'
      /\ rip' # Code("function_call") => AtFunctionCall'
      /\ rip' # Code("target") => AtTarget'
      /\ rip' # Code("detach_ret") => AtDetachRet'
      /\ rip' # Code("attach_ret") => AtAttachRet'
  BY DEF AtAttachCall, AtFunction, AtFunctionCall, AtTarget, AtDetachRet, AtAttachRet
<1>3. \A x, y : Code(x) = Code(y) => x = y
  BY DEF Code
<1>4. \A x : Code(x) = <<Top.kind, Top.id>>' => x = (Top.kind)'
  BY DEF Code
<1>5. Where' <=>
        /\ rip' \in Calling \cup Returning \cup {<<Top.kind, Top.id>>'}
        /\ (rip = <<Top.kind, Top.id>> => AtNative /\ AtLifted)'
        /\ AtAttachCall' /\ AtFunction' /\ AtFunctionCall' /\ AtTarget'
        /\ AtDetachRet' /\ AtAttachRet'
  BY DEF Where, Calling, Returning, Code
<1> HIDE DEF AtAttachCall, AtFunction, AtFunctionCall, AtTarget, AtDetachRet, AtAttachRet,
             AtNative, AtLifted, Where
<1>6. \A x : x \in {"attach_call", "function", "function_call", "target", "detach_ret",
                  "attach_ret"} => Code(x) \in Calling \cup Returning
  BY DEF Calling, Returning
<1>7. rip' = <<Top.kind, Top.id>>' => \A x : x \notin {"native", "lifted"} => rip' # Code(x)
  BY <1>4
<1> QED
  BY <1>1, <1>2, <1>3, <1>4, <1>5, <1>6, <1>7
-----------------------------------------------------------------------------
(* One step of the invariant at a time: where the stacks end, and what a   *)
(* step that leaves the running functions alone leaves of their frames.    *)

LEMMA InvariantFacts ==
  ASSUME IInv
  PROVE  /\ Len(acts) <= MaxCalls + 1 /\ calls \in Nat
         /\ Nested(acts) /\ Linked(acts, mem) /\ Where /\ DOMAIN mem = Addresses
         /\ Top.kind \in {"native", "lifted"}
         /\ L \in Int /\ H \in Int /\ StackTop \in Int /\ NativeTop \in Int
         /\ L >= 2 /\ L <= StackTop /\ StackTop < H - 1 /\ H <= NativeTop
         /\ Len(acts) \in Nat /\ Len(acts) >= 1 /\ DOMAIN acts = 1 .. Len(acts)
         /\ L % 2 = 0 /\ H % 2 = 0
<1>1. /\ Nested(acts) /\ calls \in 0 .. MaxCalls /\ Len(acts) <= calls + 1
      /\ Linked(acts, mem) /\ Where /\ DOMAIN mem = Addresses
  BY DEF IInv, Shapes
<1>2. Len(acts) \in Nat /\ Len(acts) >= 1
  BY <1>1, SeqFacts DEF Nested
<1>3. Len(acts) <= MaxCalls + 1
  BY <1>1, <1>2, RuntimeAssumption
<1> QED
  BY <1>1, <1>2, <1>3, TopFacts, RuntimeAssumption DEF StackTop, NativeTop, NativeBase

(* Where code was called, there is room for what the call pushes.          *)
LEMMA CallRoom ==
  ASSUME IInv, rip \in Calling \/ (calls < MaxCalls)
  PROVE  /\ \A k \in 1 .. 10 : L - k \in Addresses
         /\ \A k \in 1 .. 8 : H - k \in Addresses /\ H - k > StackTop
<1>1. Len(acts) \in Nat /\ Len(acts) <= MaxCalls /\ Len(acts) <= MaxCalls + 1
  BY InvariantFacts, RuntimeAssumption DEF IInv, Shapes
<1>2. /\ L \in Int /\ H \in Int /\ L <= StackTop
      /\ H = NativeTop - 8 * (Len(acts) - 1)
      /\ L >= StackTop - 10 * (Len(acts) - 1)
  BY <1>1, TopFacts DEF IInv
<1>3. L >= 12 /\ H - 8 >= NativeBase
  BY <1>1, <1>2, RuntimeAssumption DEF StackTop, NativeBase, NativeTop
<1>4. H <= NativeBase + NativeWords - 2
  BY InvariantFacts DEF NativeTop
<1>5. /\ NativeBase \in Int /\ StackTop \in Int /\ NativeBase = StackTop + 2
      /\ NativeWords \in Int /\ NativeWords >= 0
  BY RuntimeAssumption DEF StackTop, NativeBase
<1>6. ASSUME NEW k \in 1 .. 10
      PROVE  L - k \in Addresses
  BY <1>2, <1>3, <1>5 DEF Addresses
<1>7. ASSUME NEW k \in 1 .. 8
      PROVE  H - k \in Addresses /\ H - k > StackTop
  <2>1. H - k >= NativeBase /\ H - k <= NativeBase + NativeWords - 1
    BY <1>2, <1>3, <1>4, <1>5
  <2> QED
    BY <1>5, <1>2, <2>1, RuntimeAssumption DEF Addresses, StackTop
<1> QED
  BY <1>6, <1>7

LEMMA AboveAddresses ==
  ASSUME IInv
  PROVE  \A a \in (L .. StackTop - 1) \cup (H .. NativeTop - 1) :
           a \in Addresses /\ a \in Int /\ a >= L /\ (a >= H \/ a < StackTop)
  BY InvariantFacts, RuntimeAssumption DEF Addresses, StackTop, NativeTop, NativeBase

(* What is pushed, and what is not touched.                                *)
OnTop(m2, m, top, words) ==
  /\ DOMAIN m2 = DOMAIN m
  /\ \A k \in 1 .. Len(words) : top - k \in DOMAIN m => m2[top - k] = words[k]
  /\ \A a \in DOMAIN m :
       a \in Int /\ (a < top - Len(words) \/ a >= top) => m2[a] = m[a]

LEMMA PushedAt ==
  ASSUME NEW m, NEW top \in Int, NEW words, Len(words) \in Nat
  PROVE  OnTop(Pushed(m, top, words), m, top, words)
<1>1. \A k \in 1 .. Len(words) :
        top - (top - k) = k /\ top - k \in top - Len(words) .. top - 1
  OBVIOUS
<1> QED
  BY <1>1, PushedFacts DEF OnTop

LEMMA ActsKept ==
  ASSUME IInv, acts' = acts, SameAbove(mem, mem', L, H)
  PROVE  /\ Nested(acts)' /\ Linked(acts, mem)'
         /\ Top' = Top /\ L' = L /\ H' = H
         /\ (Top.kind)' \in {"native", "lifted"}
<1>1. Top' = Top /\ L' = L /\ H' = H
  BY DEF Top, L, H, Low, High
<1>2. Nested(acts')
  BY DEF IInv
<1>3. ASSUME NEW i \in 2 .. Len(acts)
      PROVE  Link(acts, mem', i)
  <2>1. Len(acts) \in 1 .. Len(acts) /\ Nested(acts) /\ Link(acts, mem, i)
    BY InvariantFacts DEF Linked
  <2> QED
    BY <2>1, LinksKept DEF L, H
<1>4. Linked(acts', mem')
  BY <1>3 DEF Linked
<1>5. Nested(acts)' /\ Linked(acts, mem)'
  BY <1>2, <1>4 DEF Nested, Linked, IsSeq, Act, Step, Low, High, Link, Joins, SavedIn, StateKind, ReturnTo, Original
<1> QED
  BY <1>1, <1>5, InvariantFacts
-----------------------------------------------------------------------------
(* The routines keep the invariant.                                        *)

LEMMA AttachCallKeeps ==
  ASSUME IInv, AttachCall
  PROVE  IInv'
<1>1. rip = Code("attach_call") /\ rip \in Calling /\ AtAttachCall
  BY DEF AttachCall, Calling, IInv, Where
<1>2. /\ Top.kind = "native" /\ Fits /\ rsp = H - 3
      /\ mem[H - 1] = Original(Top) /\ mem[H - 2] = Code("function")
      /\ KeptIn(regs, "native", Top.id, IsSaved)
  BY <1>1 DEF AtAttachCall
<1>3. (IF stateRSP = 0 THEN StackTop ELSE stateRSP) = L
  <2>1. Len(acts) = 1 => L = StackTop
    BY DEF L, Low
  <2>2. L # 0
    BY InvariantFacts
  <2> QED
    BY <1>2, <2>1, <2>2 DEF Fits
<1>4. mem[rsp] = mem[H - 3] /\ mem[rsp + 1] = Code("function") /\ rsp + 2 = H - 1
  BY <1>2, InvariantFacts
<1> DEFINE words == <<Code("detach_ret"), Code("function")>>
<1>5. /\ mem' = Pushed(mem, L, words)
      /\ state' = Marshalled(mem[rsp])
      /\ stateRSP' = H - 1 /\ rsp' = L - 1 /\ rip' = Code("function")
      /\ regs' = [Loaded EXCEPT !["rdi"] = Code("State"), !["rsi"] = mem[rsp],
                                !["rdx"] = Nothing, !["rax"] = Code("detach_ret")]
      /\ acts' = acts /\ calls' = calls
  BY <1>3, <1>4 DEF AttachCall, observed
<1>6. /\ L - 1 \in Addresses /\ L - 2 \in Addresses /\ H - 1 \in Addresses
      /\ DOMAIN mem = Addresses
      /\ L \in Int /\ H \in Int /\ L <= StackTop /\ StackTop < H - 1 /\ StackTop \in Int
  BY <1>1, CallRoom, InvariantFacts
<1>7. /\ DOMAIN mem' = Addresses
      /\ mem'[L - 1] = Code("detach_ret")
      /\ \A a \in Addresses : a \in Int /\ a >= L => mem'[a] = mem[a]
  <2>1. Len(words) = 2 /\ words[1] = Code("detach_ret")
    OBVIOUS
  <2> HIDE DEF words
  <2>2. /\ DOMAIN mem' = DOMAIN mem
        /\ \A k \in 1 .. 2 : L - k \in DOMAIN mem => mem'[L - k] = words[k]
        /\ \A a \in DOMAIN mem : a \in Int /\ (a < L - 2 \/ a >= L) => mem'[a] = mem[a]
    <3>1. Len(words) \in Nat /\ L \in Int
      BY <1>6, <2>1
    <3>2. OnTop(mem', mem, L, words)
      BY <1>5, <3>1, PushedAt
    <3> QED
      BY <2>1, <3>2 DEF OnTop
  <2> QED
    BY <1>6, <2>1, <2>2
<1>8. SameAbove(mem, mem', L, H)
  BY <1>6, <1>7, AboveAddresses DEF SameAbove
<1>9. /\ Nested(acts)' /\ Linked(acts, mem)' /\ Top' = Top /\ L' = L /\ H' = H
      /\ (Top.kind)' \in {"native", "lifted"}
  BY <1>5, <1>8, ActsKept
<1>10. DOMAIN regs' = Registers /\ DOMAIN state' = Registers \cup {"rip"}
  BY <1>5 DEF IInv, Shapes, Loaded, Marshalled
<1>11. \A r \in IsSaved : regs'[r] = regs[r] /\ state'[r] = regs[r]
  BY <1>5, RegisterFacts DEF IInv, Shapes, Loaded, Marshalled
<1>12. Called'
  <2>1. mem'[H - 1] = Original(Top)
    BY <1>2, <1>6, <1>7
  <2>2. /\ KeptIn(regs', Top.kind, Top.id, IsSaved)
        /\ KeptIn(state', StateKind(Top), Top.id, IsSaved)
    BY <1>2, <1>11, RegisterFacts DEF KeptIn, StateKind
  <2>3. ReturnTo(Top) = Code("detach_ret")
    BY <1>2 DEF ReturnTo
  <2> QED
    BY <1>5, <1>7, <1>9, <2>1, <2>2, <2>3 DEF Called, KeptIn, Original, ReturnTo, StateKind
<1>13. Where'
  BY <1>5, <1>9, <1>12, Arrives DEF AtFunction
<1>14. Shapes'
  BY <1>1, <1>5, <1>7, <1>10 DEF IInv, Shapes
<1> QED
  BY <1>9, <1>13, <1>14 DEF IInv

LEMMA DetachRetKeeps ==
  ASSUME IInv, DetachRet
  PROVE  IInv'
<1>1. rip = Code("detach_ret") /\ AtDetachRet
  BY DEF DetachRet, IInv, Where
<1>2. /\ Top.kind = "native" /\ rsp = L /\ stateRSP = H /\ mem[H - 1] = Original(Top)
      /\ KeptIn(state, "native", Top.id, IsSaved)
  BY <1>1 DEF AtDetachRet
<1>3. /\ regs' = Unmarshalled /\ state' = ControlWordStored
      /\ rip' = <<Top.kind, Top.id>> /\ rsp' = H /\ stateRSP' = L
      /\ mem' = mem /\ acts' = acts /\ calls' = calls
  BY <1>2 DEF DetachRet, observed, Original, StateKind
<1>4. /\ Nested(acts)' /\ Linked(acts, mem)' /\ Top' = Top /\ L' = L /\ H' = H
      /\ (Top.kind)' \in {"native", "lifted"}
  <2>1. SameAbove(mem, mem', L, H)
    BY <1>3 DEF SameAbove
  <2> QED
    BY <1>3, <2>1, ActsKept
<1>5. /\ DOMAIN regs' = Registers /\ DOMAIN state' = Registers \cup {"rip"}
      /\ \A r \in IsSaved : regs'[r] = state[r]
  BY <1>3, RegisterFacts DEF IInv, Shapes, Unmarshalled, ControlWordStored
<1>6. AtNative' /\ AtLifted'
  <2>1. KeptIn(regs', "native", Top.id, IsSaved)
    BY <1>2, <1>5 DEF KeptIn
  <2> QED
    BY <1>2, <1>3, <1>4, <2>1 DEF AtNative, AtLifted, Fits, KeptIn
<1>7. Where'
  BY <1>3, <1>4, <1>6, Arrives
<1>8. Shapes'
  <2>1. rip' \notin Calling
    BY <1>2, <1>3, CodesApart
  <2> QED
    BY <1>3, <1>5, <2>1 DEF IInv, Shapes
<1> QED
  BY <1>4, <1>7, <1>8 DEF IInv

LEMMA FunctionCallKeeps ==
  ASSUME IInv, FunctionCall
  PROVE  IInv'
<1>1. rip = Code("function_call") /\ rip \in Calling /\ AtFunctionCall
  BY DEF FunctionCall, Calling, IInv, Where
<1>2. /\ Top.kind = "lifted" /\ rsp = L - 1 /\ stateRSP = H - 1
      /\ mem[L - 1] = <<"lifted", Top.id>> /\ mem[H - 1] = Original(Top)
      /\ KeptIn(regs, "lifted", Top.id, IsSaved)
      /\ KeptIn(state, "original", Top.id, IsSaved)
      /\ regs["rsi"] = Code("target")
  BY <1>1 DEF AtFunctionCall, Called, ReturnTo, StateKind
<1>3. /\ \A k \in 1 .. 10 : L - k \in Addresses
      /\ H - 1 \in Addresses /\ H - 2 \in Addresses
      /\ H - 1 > StackTop /\ H - 2 > StackTop
      /\ DOMAIN mem = Addresses
      /\ L \in Int /\ H \in Int /\ L <= StackTop /\ StackTop < H - 1 /\ StackTop \in Int
  BY <1>1, CallRoom, InvariantFacts
<1> DEFINE words == Stash(mem[H - 1])
           m == Pushed(mem, L - 1, words)
<1>4. /\ mem' = [m EXCEPT ![H - 1] = Code("attach_ret"), ![H - 2] = regs["rsi"]]
      /\ regs' = Unmarshalled /\ state' = ControlWordStored
      /\ rip' = Code("target") /\ rsp' = H - 1 /\ stateRSP' = L - 10
      /\ acts' = acts /\ calls' = calls
  <2>1. StashSize = 9 /\ (L - 1) - 9 = L - 10 /\ (H - 1) - 1 = H - 2
    BY <1>3, StashFacts
  <2> QED
    BY <1>2, <2>1 DEF FunctionCall, observed
<1>5. /\ Len(words) = 9 /\ words[9] = Original(Top)
      /\ \A k \in 1 .. 6 : words[k + 2] = regs[Saved[k]]
  BY <1>2, StashFacts
<1> HIDE DEF words
<1>6. OnTop(m, mem, L - 1, words)
  <2>1. Len(words) \in Nat /\ L - 1 \in Int
    BY <1>3, <1>5
  <2> QED
    BY <2>1, PushedAt
<1> HIDE DEF m
<1>7. /\ DOMAIN mem' = Addresses /\ DOMAIN m = Addresses
      /\ mem'[H - 1] = Code("attach_ret")
      /\ \A a \in Addresses : a # H - 1 /\ a # H - 2 => mem'[a] = m[a]
  <2>1. DOMAIN m = Addresses
    BY <1>3, <1>6 DEF OnTop
  <2>2. H - 1 # H - 2
    BY <1>3
  <2> QED
    BY <1>3, <1>4, <2>1, <2>2
<1>8. \A a \in Addresses : a \in Int /\ a >= L - 1 => m[a] = mem[a]
  BY <1>3, <1>6 DEF OnTop
<1>9. SameAbove(mem, mem', L, H)
  <2> SUFFICES ASSUME NEW a \in (L .. StackTop - 1) \cup (H .. NativeTop - 1)
               PROVE  mem'[a] = mem[a]
    BY DEF SameAbove
  <2>1. a \in Addresses /\ a \in Int /\ a >= L /\ (a >= H \/ a < StackTop)
    BY AboveAddresses
  <2>2. a # H - 1 /\ a # H - 2
    BY <1>3, <2>1
  <2> QED
    BY <1>3, <1>7, <1>8, <2>1, <2>2
<1>10. /\ Nested(acts)' /\ Linked(acts, mem)' /\ Top' = Top /\ L' = L /\ H' = H
       /\ (Top.kind)' \in {"native", "lifted"}
  BY <1>4, <1>9, ActsKept
<1>11. /\ DOMAIN regs' = Registers /\ DOMAIN state' = Registers \cup {"rip"}
       /\ \A r \in IsSaved : regs'[r] = state[r]
  BY <1>4, RegisterFacts DEF IInv, Shapes, Unmarshalled, ControlWordStored
<1>12. Stashed'
  <2>1. \A k \in 1 .. 10 : mem'[L - k] = m[L - k]
    BY <1>3, <1>7
  <2>2. mem'[L - 1] = <<"lifted", Top.id>>
    BY <1>2, <1>3, <1>8, <2>1
  <2>3. \A k \in 1 .. 9 : m[(L - 1) - k] = words[k]
    <3>1. \A k \in 1 .. 9 : (L - 1) - k = L - (k + 1) /\ k + 1 \in 1 .. 10
      BY <1>3
    <3>2. \A k \in 1 .. 9 : (L - 1) - k \in Addresses
      BY <1>3, <3>1
    <3> QED
      BY <1>3, <1>5, <1>6, <3>2 DEF OnTop
  <2>4. mem'[L - 10] = Original(Top)
    <3>1. (L - 1) - 9 = L - 10
      BY <1>3
    <3> QED
      BY <1>5, <2>1, <2>3, <3>1
  <2>5. ASSUME NEW r \in IsSaved
        PROVE  mem'[L - 10 + 7 - Index(r)] = Own("lifted", Top.id, r)
    <3>1. Index(r) \in 1 .. 6 /\ Saved[Index(r)] = r
      BY IndexFacts
    <3>2. PICK k \in 1 .. 6 : k = Index(r)
      BY <3>1
    <3>3. /\ L - 10 + 7 - k = (L - 1) - (k + 2) /\ k + 2 \in 1 .. 9
          /\ L - 10 + 7 - k = L - (k + 3) /\ k + 3 \in 1 .. 10
      BY <1>3
    <3>4. mem'[L - 10 + 7 - k] = words[k + 2]
      BY <2>1, <2>3, <3>3
    <3> QED
      BY <1>2, <1>5, <3>1, <3>2, <3>4 DEF KeptIn
  <2> QED
    BY <1>10, <2>2, <2>4, <2>5 DEF Stashed, SavedIn, Original, StateKind
<1>13. AtTarget'
  <2>1. KeptIn(regs', "original", Top.id, IsSaved)
    BY <1>2, <1>11, RegisterFacts DEF KeptIn
  <2> QED
    BY <1>2, <1>4, <1>7, <1>10, <1>12, <2>1 DEF AtTarget, KeptIn
<1>14. Where'
  BY <1>4, <1>10, <1>13, Arrives
<1>15. Shapes'
  BY <1>1, <1>4, <1>7, <1>11 DEF IInv, Shapes
<1> QED
  BY <1>10, <1>14, <1>15 DEF IInv

LEMMA AttachRetKeeps ==
  ASSUME IInv, AttachRet
  PROVE  IInv'
<1>1. rip = Code("attach_ret") /\ AtAttachRet
  BY DEF AttachRet, IInv, Where
<1>2. /\ Top.kind = "lifted" /\ rsp = H /\ stateRSP = L - 10
      /\ SavedIn(mem, L - 10, "lifted", Top.id, IsSaved) /\ mem[L - 1] = <<"lifted", Top.id>>
      /\ KeptIn(regs, "original", Top.id, IsSaved)
  BY <1>1 DEF AtAttachRet, Stashed
<1>3. L \in Int /\ L - 10 + 9 = L - 1 /\ L - 10 + 9 + 1 = L
  BY InvariantFacts
<1>4. /\ state' = Marshalled(mem[L - 10]) /\ rip' = <<Top.kind, Top.id>>
      /\ rsp' = L /\ stateRSP' = H
      /\ mem' = mem /\ acts' = acts /\ calls' = calls
  BY <1>2, <1>3, StashFacts DEF AttachRet, observed
<1>5. /\ Nested(acts)' /\ Linked(acts, mem)' /\ Top' = Top /\ L' = L /\ H' = H
      /\ (Top.kind)' \in {"native", "lifted"}
  <2>1. SameAbove(mem, mem', L, H)
    BY <1>4 DEF SameAbove
  <2> QED
    BY <1>4, <2>1, ActsKept
<1>6. /\ DOMAIN regs' = Registers /\ DOMAIN state' = Registers \cup {"rip"}
      /\ \A r \in IsSaved : state'[r] = regs[r]
  BY <1>4, RegisterFacts DEF IInv, Shapes, Marshalled, AttachRet
<1>7. ASSUME NEW r \in IsSaved
      PROVE  regs'[r] = Own("lifted", Top.id, r)
  <2>1. regs'[r] = mem[stateRSP + StashSize - SelectInSeq(Pushes, LAMBDA x : x = r)]
    BY RegisterFacts DEF AttachRet
  <2>2. regs'[r] = mem[L - 10 + 9 - (Index(r) + 2)]
    BY <1>2, <2>1, UnstashIndex, StashFacts
  <2>3. L - 10 + 9 - (Index(r) + 2) = L - 10 + 7 - Index(r)
    BY <1>3, IndexFacts
  <2> QED
    BY <1>2, <2>2, <2>3 DEF SavedIn
<1>8. AtNative' /\ AtLifted'
  <2>1. KeptIn(state', "original", Top.id, IsSaved)
    BY <1>2, <1>6, RegisterFacts DEF KeptIn
  <2> QED
    BY <1>2, <1>4, <1>5, <1>7, <2>1 DEF AtNative, AtLifted, KeptIn
<1>9. Where'
  BY <1>4, <1>5, <1>8, Arrives
<1>10. Shapes'
  <2>1. rip' \notin Calling
    BY <1>2, <1>4, CodesApart
  <2> QED
    BY <1>4, <1>6, <2>1 DEF IInv, Shapes
<1> QED
  BY <1>5, <1>9, <1>10 DEF IInv

-----------------------------------------------------------------------------
(* The code on both sides keeps it.                                        *)

LEMMA Parametrised ==
  /\ Nested(acts') => Nested(acts)'
  /\ Linked(acts', mem') => Linked(acts, mem)'
  BY DEF Nested, Linked, IsSeq, Act, Step, Low, High, Link, Joins, SavedIn,
         StateKind, ReturnTo, Original

(* The innermost function is entered.                                      *)
LEMMA Grown ==
  ASSUME IInv, NEW a, acts' = Append(acts, a), SameAbove(mem, mem', L, H),
         a.kind \in {"native", "lifted"},
         a.kind = "lifted" => a.rsp = L - 8 /\ a.emulated = H - 8,
         a.kind = "native" => Top.kind = "lifted" /\ a.rsp = H - 8,
         NEW low, low = L - (IF a.kind = "lifted" THEN 8 ELSE 10),
         Joins(Top, a, mem', low, H - 8)
  PROVE  /\ Nested(acts)' /\ Linked(acts, mem)' /\ Len(acts') = Len(acts) + 1
         /\ Top' = a /\ L' = low /\ H' = H - 8
<1>1. PICK n : n = Len(acts)
  OBVIOUS
<1>2. /\ Nested(acts) /\ n \in Nat /\ n \in 1 .. Len(acts) /\ Linked(acts, mem)
      /\ Top = acts[n] /\ L = Low(acts, n) /\ H = High(acts, n)
  BY <1>1, InvariantFacts DEF Top, L, H
<1>3. PICK t : t = Append(acts, a)
  OBVIOUS
<1>4. Grows(t, acts, a, n)
  <2>1. Enters(acts, a)
    BY <1>1, <1>2 DEF Enters
  <2> QED
    BY <1>1, <1>2, <1>3, <2>1, GrownLevels
<1>5. ASSUME NEW i \in 2 .. n + 1
      PROVE  Link(t, mem', i)
  <2>1. CASE i \in 2 .. n
    <3>1. Link(acts, mem, i)
      BY <1>1, <1>2, <2>1 DEF Linked
    <3>2. Link(acts, mem', i)
      BY <1>2, <2>1, <3>1, LinksKept
    <3> QED
      BY <1>4, <2>1, <3>2 DEF Grows
  <2>2. CASE i = n + 1
    <3>1. i - 1 = n /\ t[n + 1] = a /\ t[n] = Top
      BY <1>2, <1>4, <2>2 DEF Grows
    <3>2. Low(t, n + 1) = low /\ High(t, n + 1) = H - 8
      BY <1>2, <1>4 DEF Grows
    <3> QED
      BY <2>2, <3>1, <3>2 DEF Link
  <2> QED
    BY <1>2, <2>1, <2>2
<1>6. Linked(t, mem')
  BY <1>4, <1>5 DEF Linked, Grows
<1>7. Top' = t[n + 1] /\ L' = Low(t, n + 1) /\ H' = High(t, n + 1)
  BY <1>3, <1>4 DEF Top, L, H, Low, High, Grows
<1>8. Nested(t) /\ Len(t) = n + 1 /\ t[n + 1] = a
      /\ Low(t, n + 1) = low /\ High(t, n + 1) = H - 8
  BY <1>2, <1>4 DEF Grows
<1> QED
  BY <1>1, <1>3, <1>6, <1>7, <1>8, Parametrised

(* The innermost functions are left.                                       *)
LEMMA Cut ==
  ASSUME IInv, NEW n \in 1 .. Len(acts), IsSeq(acts'), Len(acts') = n,
         \A i \in 1 .. n : acts'[i] = acts[i],
         SameAbove(mem, mem', Low(acts, n), High(acts, n))
  PROVE  /\ Nested(acts)' /\ Linked(acts, mem)'
         /\ Top' = acts'[n] /\ L' = Low(acts, n) /\ H' = High(acts, n)
<1>1. PICK t : t = acts'
  OBVIOUS
<1>2. Nested(acts) /\ Len(acts) \in Nat /\ n \in 1 .. n /\ n \in Nat /\ 2 .. n \subseteq 2 .. Len(acts)
  BY InvariantFacts
<1>3. /\ Nested(t)
      /\ \A i \in 1 .. n : Low(t, i) = Low(acts, i) /\ High(t, i) = High(acts, i)
  BY <1>1, <1>2, CutLevels
<1>4. ASSUME NEW i \in 2 .. n
      PROVE  Link(t, mem', i)
  <2>1. Link(acts, mem, i)
    BY <1>2, InvariantFacts DEF Linked
  <2>2. Link(acts, mem', i)
    BY <1>2, <2>1, LinksKept
  <2>3. i - 1 \in 1 .. n /\ i \in 1 .. n
    BY <1>2
  <2>4. t[i - 1] = acts[i - 1] /\ t[i].kind = acts[i].kind
    BY <1>1, <2>3
  <2>5. Low(t, i) = Low(acts, i) /\ High(t, i) = High(acts, i)
    BY <1>3, <2>3
  <2> QED
    BY <2>2, <2>4, <2>5 DEF Link, Joins
<1>5. Linked(t, mem')
  BY <1>1, <1>4 DEF Linked
<1>6. Top' = t[n] /\ L' = Low(t, n) /\ H' = High(t, n)
  BY <1>1 DEF Top, L, H, Low, High
<1> QED
  BY <1>1, <1>2, <1>3, <1>5, <1>6, Parametrised

(* The innermost function returns to the one that called it.               *)
LEMMA Left ==
  ASSUME IInv, Len(acts) > 1, acts' = Front(acts), mem' = mem
  PROVE  /\ Nested(acts)' /\ Linked(acts, mem)'
         /\ Len(acts') = Len(acts) - 1
         /\ Top' = acts[Len(acts) - 1] /\ (Top.kind)' \in {"native", "lifted"}
         /\ L' = L + (IF Top.kind = "lifted" THEN 8 ELSE 10) /\ H' = H + 8
         /\ L \in Int /\ H \in Int
         /\ Top.kind = "native" => (Top.kind)' = "lifted"
         /\ Joins(Top', Top, mem, L, H)
<1>1. PICK n : n = Len(acts)
  OBVIOUS
<1>2. /\ Nested(acts) /\ n \in Nat /\ n > 1 /\ n - 1 \in 1 .. n /\ n \in 2 .. n
      /\ Top = acts[n] /\ L = Low(acts, n) /\ H = High(acts, n) /\ DOMAIN acts = 1 .. n
      /\ L \in Int /\ H \in Int
  BY <1>1, InvariantFacts DEF Top, L, H
<1>3. /\ IsSeq(acts') /\ Len(acts') = n - 1
      /\ \A i \in 1 .. n - 1 : acts'[i] = acts[i]
  <2>1. PICK S : acts \in Seq(S)
    BY <1>2 DEF Nested, IsSeq
  <2>2. acts' = [i \in 1 .. n - 1 |-> acts[i]]
    BY <1>1, <1>2, <2>1 DEF Front
  <2>3. acts' \in Seq(S)
    BY <1>1, <1>2, <2>1, <2>2
  <2>4. n - 1 \in Nat
    BY <1>2
  <2>5. \A i \in 1 .. n - 1 : acts'[i] = acts[i]
    BY <2>2
  <2>6. DOMAIN acts' = 1 .. n - 1 /\ Len(acts') \in Nat /\ DOMAIN acts' = 1 .. Len(acts')
    <3>1. IsSeq(acts')
      BY <2>3 DEF IsSeq
    <3>2. Len(acts') \in Nat /\ DOMAIN acts' = 1 .. Len(acts')
      BY <3>1, SeqFacts
    <3>3. DOMAIN acts' = 1 .. n - 1
      BY <2>2
    <3> QED
      BY <3>2, <3>3
  <2>7. Len(acts') = n - 1
    BY <2>4, <2>6
  <2> QED
    BY <2>3, <2>5, <2>7 DEF IsSeq
<1>4. Act(acts, n - 1) /\ Act(acts, n) /\ Step(acts, n)
  BY <1>1, <1>2 DEF Nested
<1>5. /\ Nested(acts)' /\ Linked(acts, mem)'
      /\ Top' = acts'[n - 1] /\ L' = Low(acts, n - 1) /\ H' = High(acts, n - 1)
  <2>1. SameAbove(mem, mem', Low(acts, n - 1), High(acts, n - 1))
    BY DEF SameAbove
  <2>2. PICK k \in 1 .. Len(acts) : k = n - 1
    BY <1>1, <1>2
  <2> QED
    BY <1>3, <2>1, <2>2, Cut
<1>6. Top' = acts[n - 1]
  BY <1>2, <1>3, <1>5
<1>7. acts[n - 1].kind \in {"native", "lifted"}
  BY <1>4 DEF Act
<1>8. /\ L = L' - (IF Top.kind = "lifted" THEN 8 ELSE 10) /\ H = H' - 8
      /\ L' \in Int /\ H' \in Int
      /\ Top.kind = "native" => acts[n - 1].kind = "lifted"
  BY <1>2, <1>4, <1>5 DEF Act, Step
<1>9. L' = L + (IF Top.kind = "lifted" THEN 8 ELSE 10) /\ H' = H + 8
  <2>1. PICK l : l = L'
    OBVIOUS
  <2>2. PICK h : h = H'
    OBVIOUS
  <2>3. L = l - (IF Top.kind = "lifted" THEN 8 ELSE 10) /\ H = h - 8 /\ l \in Int /\ h \in Int
    BY <1>8, <2>1, <2>2
  <2>4. l = L + (IF Top.kind = "lifted" THEN 8 ELSE 10) /\ h = H + 8
    BY <2>3
  <2> QED
    BY <2>1, <2>2, <2>4
<1>10. Link(acts, mem, n)
  BY <1>1, <1>2, InvariantFacts DEF Linked
<1>11. Joins(acts[n - 1], Top, mem, L, H)
  BY <1>2, <1>10 DEF Link
<1>12. Joins(Top', Top, mem, L, H)
  BY <1>6, <1>11
<1>13. /\ (Top.kind)' \in {"native", "lifted"}
       /\ Top.kind = "native" => (Top.kind)' = "lifted"
  <2>1. (Top.kind)' = acts[n - 1].kind
    BY <1>6
  <2> QED
    BY <1>6, <1>7, <1>8, <2>1
<1> QED
  BY <1>1, <1>2, <1>3, <1>5, <1>6, <1>9, <1>12, <1>13

(* A frame: what is in it, and what is not touched.                        *)
HasFrame(m2, m, top, from) ==
  /\ DOMAIN m2 = Addresses
  /\ \A r \in IsSaved : m2[(top - 7) + 7 - Index(r)] = from[r]
  /\ \A a \in Addresses : a \in Int /\ (a < top - 7 \/ a >= top) => m2[a] = m[a]

LEMMA FrameAt ==
  ASSUME NEW m, DOMAIN m = Addresses, NEW top \in Int, NEW from,
         \A k \in 1 .. 6 : top - k \in Addresses
  PROVE  HasFrame(Pushed(m, top, Frame(from)), m, top, from)
<1> DEFINE words == Frame(from)
<1>1. Len(words) = 7 /\ Len(words) \in Nat /\ \A k \in 1 .. 6 : words[k] = from[Saved[k]]
  BY FrameFacts
<1> HIDE DEF words
<1>2. OnTop(Pushed(m, top, words), m, top, words)
  BY <1>1, PushedAt
<1>3. ASSUME NEW r \in IsSaved
      PROVE  Pushed(m, top, words)[(top - 7) + 7 - Index(r)] = from[r]
  <2>1. PICK k \in 1 .. 6 : k = Index(r) /\ Saved[k] = r
    BY IndexFacts
  <2>2. (top - 7) + 7 - k = top - k /\ top - k \in Addresses /\ k \in 1 .. 7
    OBVIOUS
  <2>3. Pushed(m, top, words)[top - k] = words[k]
    BY <1>1, <1>2, <2>2 DEF OnTop
  <2> QED
    BY <1>1, <2>1, <2>2, <2>3
<1>4. HasFrame(Pushed(m, top, words), m, top, from)
  BY <1>1, <1>2, <1>3 DEF HasFrame, OnTop
<1> QED
  BY <1>4 DEF words

LEMMA RunningFacts ==
  ASSUME IInv, NEW kind, Runs(kind), kind \in {"native", "lifted"}
  PROVE  /\ Top.kind = kind /\ RunningFunction = Top /\ rip = <<Top.kind, Top.id>>
         /\ AtNative /\ AtLifted
         /\ kind = "lifted" => Len(acts) > 1
<1>1. RunningFunction = Top
  BY DEF RunningFunction, Last, Top
<1>2. Len(acts) \in Nat /\ (Top.kind = "lifted" => Len(acts) > 1)
  BY InvariantFacts DEF Top, Nested
<1> QED
  BY <1>1, <1>2 DEF Runs, IInv, Where

LEMMA NativeEntryKeeps ==
  ASSUME IInv, NativeEntry
  PROVE  IInv'
<1>1. rip = Code("target") /\ rip \in Calling /\ AtTarget /\ Len(acts) <= calls
  BY DEF NativeEntry, Calling, IInv, Where, Shapes
<1>2. /\ Top.kind = "lifted" /\ rsp = H - 1 /\ stateRSP = L - 10
      /\ SavedIn(mem, L - 10, "lifted", Top.id, IsSaved)
      /\ mem[L - 10] = Original(Top) /\ mem[L - 1] = <<"lifted", Top.id>>
      /\ mem[H - 1] = Code("attach_ret")
      /\ KeptIn(regs, "original", Top.id, IsSaved)
  BY <1>1 DEF AtTarget, Stashed
<1>3. /\ \A k \in 1 .. 10 : L - k \in Addresses
      /\ \A k \in 1 .. 8 : H - k \in Addresses /\ H - k > StackTop
      /\ L \in Int /\ H \in Int /\ L <= StackTop /\ StackTop \in Int
      /\ DOMAIN mem = Addresses
      /\ (H - 1) - 7 = H - 8 /\ H - 1 \in Int
  <2>1. L \in Int /\ H \in Int /\ L <= StackTop /\ StackTop \in Int /\ DOMAIN mem = Addresses
    BY InvariantFacts
  <2> QED
    BY <1>1, <2>1, CallRoom
<1> DEFINE a == [id |-> calls, kind |-> "native", rsp |-> H - 8, emulated |-> 0]
<1>4. /\ acts' = Append(acts, a)
      /\ regs' = Keeps("native", calls, regs) /\ rsp' = H - 8 /\ rip' = <<"native", calls>>
      /\ calls' = calls /\ mem' = Pushed(mem, H - 1, Frame(regs))
      /\ state' = state /\ stateRSP' = L - 10
  <2>1. FrameSize = 7
    BY SavedFacts DEF FrameSize
  <2> QED
    BY <1>2, <1>3, <2>1 DEF NativeEntry, EnterFunction, State
<1>5. a.id = calls /\ a.kind = "native" /\ a.rsp = H - 8
  OBVIOUS
<1> HIDE DEF a
<1>6. HasFrame(mem', mem, H - 1, regs)
  <2>1. \A k \in 1 .. 6 : (H - 1) - k \in Addresses
    <3>1. \A k \in 1 .. 6 : (H - 1) - k = H - (k + 1) /\ k + 1 \in 1 .. 8
      BY <1>3
    <3> QED
      BY <1>3, <3>1
  <2> QED
    BY <1>3, <1>4, <2>1, FrameAt
<1>7. SameAbove(mem, mem', L, H)
  <2> SUFFICES ASSUME NEW x \in (L .. StackTop - 1) \cup (H .. NativeTop - 1)
               PROVE  mem'[x] = mem[x]
    BY DEF SameAbove
  <2>1. x \in Addresses /\ x \in Int /\ x >= L /\ (x >= H \/ x < StackTop)
    BY AboveAddresses
  <2>2. x >= H - 1 \/ x < (H - 1) - 7
    <3>1. H - 8 > StackTop
      BY <1>3
    <3> QED
      BY <1>3, <2>1, <3>1
  <2> QED
    BY <1>6, <2>1, <2>2 DEF HasFrame
<1>8. \A k \in 1 .. 10 : mem'[L - k] = mem[L - k]
  <2>1. H - 8 > StackTop
    BY <1>3
  <2>2. \A k \in 1 .. 10 : L - k \in Int /\ L - k < (H - 1) - 7
    BY <1>3, <2>1
  <2> QED
    BY <1>3, <1>6, <2>2 DEF HasFrame
<1>9. Joins(Top, a, mem', L - 10, H - 8)
  <2>1. SavedIn(mem', H - 8, StateKind(Top), Top.id, IsSaved)
    <3>1. \A r \in IsSaved : mem'[H - 8 + 7 - Index(r)] = regs[r]
      BY <1>3, <1>6 DEF HasFrame
    <3> QED
      BY <1>2, <3>1, RegisterFacts DEF SavedIn, KeptIn, StateKind
  <2>2. SavedIn(mem', L - 10, Top.kind, Top.id, IsSaved)
    <3> SUFFICES ASSUME NEW r \in IsSaved
                 PROVE  mem'[L - 10 + 7 - Index(r)] = Own(Top.kind, Top.id, r)
      BY DEF SavedIn
    <3>1. PICK k \in 1 .. 6 : k = Index(r)
      BY IndexFacts
    <3>2. L - 10 + 7 - k = L - (3 + k) /\ 3 + k \in 1 .. 10
      BY <1>3
    <3>3. mem'[L - 10 + 7 - k] = mem[L - 10 + 7 - k]
      BY <1>8, <3>2
    <3> QED
      BY <1>2, <3>1, <3>3 DEF SavedIn
  <2>3. mem'[H - 8 + 7] = Code("attach_ret")
    <3>1. H - 8 + 7 = H - 1 /\ H - 1 \in Addresses
      BY <1>3
    <3> QED
      BY <1>2, <1>3, <1>6, <3>1 DEF HasFrame
  <2>4. mem'[L - 10] = Original(Top) /\ mem'[L - 10 + 9] = <<"lifted", Top.id>>
    <3>1. L - 10 + 9 = L - 1 /\ 1 \in 1 .. 10 /\ 10 \in 1 .. 10
      BY <1>3
    <3> QED
      BY <1>2, <1>8, <3>1
  <2> QED
    BY <1>5, <2>1, <2>2, <2>3, <2>4 DEF Joins
<1>10. /\ Nested(acts)' /\ Linked(acts, mem)' /\ Len(acts') = Len(acts) + 1
       /\ Top' = a /\ L' = L - 10 /\ H' = H - 8
  <2>1. L - 10 = L - (IF a.kind = "lifted" THEN 8 ELSE 10)
    BY <1>5
  <2> QED
    BY <1>2, <1>4, <1>5, <1>7, <1>9, <2>1, Grown
<1>11. /\ DOMAIN regs' = Registers /\ DOMAIN state' = Registers \cup {"rip"}
       /\ \A r \in IsSaved : regs'[r] = Own("native", calls, r)
  BY <1>4, RegisterFacts DEF IInv, Shapes, Keeps
<1>12. AtNative' /\ AtLifted'
  BY <1>4, <1>5, <1>10, <1>11 DEF AtNative, AtLifted, Fits, KeptIn
<1>13. Where'
  <2>1. (Top.kind)' = "native" /\ rip' = <<Top.kind, Top.id>>'
    BY <1>4, <1>5, <1>10
  <2> QED
    BY <1>12, <2>1, Arrives
<1>14. Shapes'
  <2>1. rip' \notin Calling
    BY <1>4, CodesApart
  <2>2. Len(acts') <= calls' + 1
    BY <1>1, <1>4, <1>10, InvariantFacts
  <2>3. DOMAIN mem' = Addresses
    BY <1>6 DEF HasFrame
  <2> QED
    BY <1>4, <1>11, <2>1, <2>2, <2>3 DEF IInv, Shapes
<1> QED
  BY <1>10, <1>13, <1>14 DEF IInv

LEMMA LiftedEntryKeeps ==
  ASSUME IInv, LiftedEntry
  PROVE  IInv'
<1>1. rip = Code("function") /\ rip \in Calling /\ AtFunction /\ Len(acts) <= calls
  BY DEF LiftedEntry, Calling, IInv, Where, Shapes
<1>2. /\ rsp = L - 1 /\ stateRSP = H - 1
      /\ mem[L - 1] = ReturnTo(Top) /\ mem[H - 1] = Original(Top)
      /\ KeptIn(regs, Top.kind, Top.id, IsSaved)
      /\ KeptIn(state, StateKind(Top), Top.id, IsSaved)
  BY <1>1 DEF AtFunction, Called
<1>3. /\ \A k \in 1 .. 10 : L - k \in Addresses
      /\ \A k \in 1 .. 8 : H - k \in Addresses /\ H - k > StackTop
      /\ L \in Int /\ H \in Int /\ L <= StackTop /\ StackTop \in Int
      /\ DOMAIN mem = Addresses
      /\ (H - 1) - 7 = H - 8 /\ H - 1 \in Int /\ (L - 1) - 7 = L - 8 /\ L - 1 \in Int
  <2>1. L \in Int /\ H \in Int /\ L <= StackTop /\ StackTop \in Int /\ DOMAIN mem = Addresses
    BY InvariantFacts
  <2> QED
    BY <1>1, <2>1, CallRoom
<1> DEFINE a == [id |-> calls, kind |-> "lifted", rsp |-> L - 8, emulated |-> H - 8]
           m == Pushed(mem, L - 1, Frame(regs))
<1>4. /\ acts' = Append(acts, a)
      /\ regs' = Keeps("lifted", calls, regs) /\ rsp' = L - 8 /\ rip' = <<"lifted", calls>>
      /\ calls' = calls /\ mem' = Pushed(m, H - 1, Frame(state))
      /\ state' = Keeps("original", calls, state) /\ stateRSP' = H - 8
  <2>1. FrameSize = 7
    BY SavedFacts DEF FrameSize
  <2> QED
    BY <1>2, <1>3, <2>1 DEF LiftedEntry, EnterFunction
<1>5. a.id = calls /\ a.kind = "lifted" /\ a.rsp = L - 8 /\ a.emulated = H - 8
  OBVIOUS
<1> HIDE DEF a
<1>6. HasFrame(m, mem, L - 1, regs)
  <2>1. \A k \in 1 .. 6 : (L - 1) - k \in Addresses
    <3>1. \A k \in 1 .. 6 : (L - 1) - k = L - (k + 1) /\ k + 1 \in 1 .. 10
      BY <1>3
    <3> QED
      BY <1>3, <3>1
  <2> QED
    BY <1>3, <2>1, FrameAt
<1> HIDE DEF m
<1>7. HasFrame(mem', m, H - 1, state)
  <2>1. \A k \in 1 .. 6 : (H - 1) - k \in Addresses
    <3>1. \A k \in 1 .. 6 : (H - 1) - k = H - (k + 1) /\ k + 1 \in 1 .. 8
      BY <1>3
    <3> QED
      BY <1>3, <3>1
  <2>2. DOMAIN m = Addresses
    BY <1>6 DEF HasFrame
  <2> QED
    BY <1>3, <1>4, <2>1, <2>2, FrameAt
<1>8. /\ \A x \in Addresses : x \in Int /\ (x < H - 8 \/ x >= H - 1) => mem'[x] = m[x]
      /\ \A x \in Addresses : x \in Int /\ (x < L - 8 \/ x >= L - 1) => m[x] = mem[x]
      /\ H - 8 > StackTop
  BY <1>3, <1>6, <1>7 DEF HasFrame
<1>9. SameAbove(mem, mem', L, H)
  <2> SUFFICES ASSUME NEW x \in (L .. StackTop - 1) \cup (H .. NativeTop - 1)
               PROVE  mem'[x] = mem[x]
    BY DEF SameAbove
  <2>1. x \in Addresses /\ x \in Int /\ x >= L /\ (x >= H \/ x < StackTop)
    BY AboveAddresses
  <2>2. (x >= H - 1 \/ x < H - 8) /\ x >= L - 1
    BY <1>3, <1>8, <2>1
  <2> QED
    BY <1>8, <2>1, <2>2
<1>10. Joins(Top, a, mem', L - 8, H - 8)
  <2>1. SavedIn(mem', H - 8, StateKind(Top), Top.id, IsSaved)
    <3>1. \A r \in IsSaved : mem'[H - 8 + 7 - Index(r)] = state[r]
      BY <1>3, <1>7 DEF HasFrame
    <3> QED
      BY <1>2, <3>1, RegisterFacts DEF SavedIn, KeptIn
  <2>2. SavedIn(mem', L - 8, Top.kind, Top.id, IsSaved)
    <3> SUFFICES ASSUME NEW r \in IsSaved
                 PROVE  mem'[L - 8 + 7 - Index(r)] = Own(Top.kind, Top.id, r)
      BY DEF SavedIn
    <3>1. m[L - 8 + 7 - Index(r)] = regs[r]
      BY <1>3, <1>6 DEF HasFrame
    <3>2. PICK k \in 1 .. 6 : k = Index(r)
      BY IndexFacts
    <3>3. /\ L - 8 + 7 - k = L - (1 + k) /\ 1 + k \in 1 .. 10
          /\ L - (1 + k) \in Int /\ L - (1 + k) < H - 8
      BY <1>3, <1>8
    <3>4. mem'[L - 8 + 7 - k] = m[L - 8 + 7 - k]
      BY <1>3, <1>8, <3>3
    <3> QED
      BY <1>2, <3>1, <3>2, <3>4 DEF KeptIn
  <2>3. mem'[H - 8 + 7] = Original(Top)
    <3>1. H - 8 + 7 = H - 1 /\ H - 1 \in Addresses /\ H - 1 >= L - 1
      BY <1>3, <1>8
    <3> QED
      BY <1>2, <1>3, <1>8, <3>1
  <2>4. mem'[L - 8 + 7] = ReturnTo(Top)
    <3>1. L - 8 + 7 = L - 1 /\ L - 1 \in Addresses /\ L - 1 < H - 8
      BY <1>3, <1>8
    <3> QED
      BY <1>2, <1>3, <1>8, <3>1
  <2> QED
    BY <1>5, <2>1, <2>2, <2>3, <2>4 DEF Joins
<1>11. /\ Nested(acts)' /\ Linked(acts, mem)' /\ Len(acts') = Len(acts) + 1
       /\ Top' = a /\ L' = L - 8 /\ H' = H - 8
  <2>1. L - 8 = L - (IF a.kind = "lifted" THEN 8 ELSE 10)
    BY <1>5
  <2> QED
    BY <1>2, <1>4, <1>5, <1>9, <1>10, <2>1, Grown
<1>12. /\ DOMAIN regs' = Registers /\ DOMAIN state' = Registers \cup {"rip"}
       /\ \A r \in IsSaved : /\ regs'[r] = Own("lifted", calls, r)
                             /\ state'[r] = Own("original", calls, r)
  BY <1>4, RegisterFacts DEF IInv, Shapes, Keeps
<1>13. AtNative' /\ AtLifted'
  BY <1>4, <1>5, <1>11, <1>12 DEF AtNative, AtLifted, KeptIn
<1>14. Where'
  <2>1. (Top.kind)' = "lifted" /\ rip' = <<Top.kind, Top.id>>'
    BY <1>4, <1>5, <1>11
  <2> QED
    BY <1>13, <2>1, Arrives
<1>15. Shapes'
  <2>1. rip' \notin Calling
    BY <1>4, CodesApart
  <2>2. Len(acts') <= calls' + 1
    BY <1>1, <1>4, <1>11, InvariantFacts
  <2>3. DOMAIN mem' = Addresses
    BY <1>7 DEF HasFrame
  <2> QED
    BY <1>4, <1>12, <2>1, <2>2, <2>3 DEF IInv, Shapes
<1> QED
  BY <1>11, <1>14, <1>15 DEF IInv

LEMMA FramedFacts ==
  ASSUME NEW at, NEW from, IsSaved \subseteq DOMAIN from
  PROVE  /\ DOMAIN Framed(at, from) = DOMAIN from
         /\ \A r \in IsSaved : Framed(at, from)[r] = mem[at + 7 - Index(r)]
<1>1. FrameSize = 7
  BY SavedFacts DEF FrameSize
<1> QED
  BY <1>1 DEF Framed, Index

LEMMA NativeReturnsKeeps ==
  ASSUME IInv, NativeReturns
  PROVE  IInv'
<1>1. /\ Top.kind = "native" /\ RunningFunction = Top /\ rip = <<Top.kind, Top.id>>
      /\ rsp = H /\ Fits /\ Len(acts) > 1 /\ FrameSize = 7
  BY RunningFacts, SavedFacts DEF NativeReturns, AtNative, FrameSize
<1>2. stateRSP = L
  <2>1. Len(acts) \in Nat
    BY InvariantFacts
  <2>2. Len(acts) # 1
    BY <1>1, <2>1
  <2>3. Fits
    BY <1>1
  <2> QED
    BY <2>2, <2>3 DEF Fits
<1>3. /\ acts' = Front(acts) /\ mem' = mem /\ state' = state /\ stateRSP' = L
      /\ regs' = [Framed(H, regs) EXCEPT !["rax"] = Result]
      /\ rip' = mem[H + 7] /\ rsp' = H + 7 + 1 /\ calls' = calls
  BY <1>1, <1>2 DEF NativeReturns, State
<1>4. /\ Nested(acts)' /\ Linked(acts, mem)'
      /\ Len(acts') = Len(acts) - 1
      /\ (Top.kind)' = "lifted"
      /\ L' = L + 10 /\ H' = H + 8
      /\ L \in Int /\ H \in Int
      /\ Joins(Top', Top, mem, L, H)
  <2>1. L' = L + (IF Top.kind = "lifted" THEN 8 ELSE 10)
    BY <1>1, <1>3, Left
  <2>2. L' = L + 10
    BY <1>1, <2>1
  <2> QED
    BY <1>1, <1>3, <2>2, Left
<1>5. /\ SavedIn(mem, H, "original", Top'.id, IsSaved)
      /\ SavedIn(mem, L, "lifted", Top'.id, IsSaved)
      /\ mem[H + 7] = Code("attach_ret")
      /\ mem[L] = Original(Top') /\ mem[L + 9] = <<"lifted", Top'.id>>
  BY <1>1, <1>4 DEF Joins, StateKind
<1>6. /\ DOMAIN regs' = Registers /\ DOMAIN state' = Registers \cup {"rip"}
      /\ \A r \in IsSaved : regs'[r] = mem[H + 7 - Index(r)]
  <2>1. IsSaved \subseteq DOMAIN regs /\ \A r \in IsSaved : r # "rax"
    BY RegisterFacts DEF IInv, Shapes
  <2>2. /\ DOMAIN Framed(H, regs) = DOMAIN regs
        /\ \A r \in IsSaved : Framed(H, regs)[r] = mem[H + 7 - Index(r)]
    BY <2>1, FramedFacts
  <2> QED
    BY <1>3, <2>1, <2>2 DEF IInv, Shapes
<1>7. AtAttachRet'
  <2>1. KeptIn(regs', "original", Top'.id, IsSaved)
    BY <1>5, <1>6, RegisterFacts DEF KeptIn, SavedIn
  <2>2. PICK l : l = L'
    OBVIOUS
  <2>3. l - 10 = L /\ l - 1 = L + 9
    BY <1>4, <2>2
  <2>4. L' - 10 = L /\ L' - 1 = L + 9
    BY <2>2, <2>3
  <2>5. rsp' = H'
    BY <1>3, <1>4
  <2>6. Stashed'
    BY <1>3, <1>5, <2>4 DEF Stashed, SavedIn, Original, StateKind
  <2> QED
    BY <1>3, <1>4, <2>1, <2>4, <2>5, <2>6 DEF AtAttachRet, KeptIn
<1>8. rip' = Code("attach_ret")
  BY <1>3, <1>5
<1>9. Where'
  BY <1>4, <1>7, <1>8, Arrives
<1>10. Shapes'
  <2>1. rip' \notin Calling
    BY <1>8 DEF Calling, Code
  <2>2. Len(acts') <= calls' + 1
    BY <1>3, <1>4, InvariantFacts DEF IInv, Shapes
  <2> QED
    BY <1>3, <1>6, <2>1, <2>2 DEF IInv, Shapes
<1> QED
  BY <1>4, <1>9, <1>10 DEF IInv

(* What a lifted function's return and its tail call have in common.       *)
LEMMA LiftedLeaves ==
  ASSUME IInv, Runs("lifted"), acts' = Front(acts), mem' = mem
  PROVE  /\ RunningFunction = Top /\ rsp = L /\ stateRSP = H
         /\ Nested(acts)' /\ Linked(acts, mem)' /\ Len(acts') = Len(acts) - 1
         /\ (Top.kind)' \in {"native", "lifted"}
         /\ Top' = acts[Len(acts) - 1]
         /\ L + 7 = L' - 1 /\ H + 7 = H' - 1 /\ L + 7 + 1 = L' /\ H + 7 + 1 = H'
         /\ mem[L + 7] = ReturnTo(Top') /\ mem[H + 7] = Original(Top')
         /\ DOMAIN Framed(L, regs) = Registers
         /\ DOMAIN Framed(H, state) = Registers \cup {"rip"}
         /\ KeptIn(Framed(L, regs), Top'.kind, Top'.id, IsSaved)
         /\ KeptIn(Framed(H, state), StateKind(Top'), Top'.id, IsSaved)
<1>1. /\ Top.kind = "lifted" /\ RunningFunction = Top /\ rip = <<Top.kind, Top.id>>
      /\ rsp = L /\ stateRSP = H /\ Len(acts) > 1
  BY RunningFacts DEF AtLifted
<1>2. /\ Nested(acts)' /\ Linked(acts, mem)'
      /\ Len(acts') = Len(acts) - 1 /\ Top' = acts[Len(acts) - 1]
      /\ (Top.kind)' \in {"native", "lifted"}
      /\ H' = H + 8
      /\ L \in Int /\ H \in Int
      /\ Joins(Top', Top, mem, L, H)
  BY <1>1, Left
<1>3. L' = L + 8
  <2>1. L' = L + (IF Top.kind = "lifted" THEN 8 ELSE 10)
    BY <1>1, Left
  <2> QED
    BY <1>1, <2>1
<1>4. L + 7 = L' - 1 /\ H + 7 = H' - 1 /\ L + 7 + 1 = L' /\ H + 7 + 1 = H'
  BY <1>2, <1>3
<1>5. /\ SavedIn(mem, H, StateKind(Top'), Top'.id, IsSaved)
      /\ SavedIn(mem, L, Top'.kind, Top'.id, IsSaved)
      /\ mem[L + 7] = ReturnTo(Top') /\ mem[H + 7] = Original(Top')
  BY <1>1, <1>2 DEF Joins
<1>6. /\ DOMAIN Framed(L, regs) = Registers
      /\ DOMAIN Framed(H, state) = Registers \cup {"rip"}
      /\ \A r \in IsSaved : Framed(L, regs)[r] = mem[L + 7 - Index(r)]
      /\ \A r \in IsSaved : Framed(H, state)[r] = mem[H + 7 - Index(r)]
  <2>1. IsSaved \subseteq DOMAIN regs /\ IsSaved \subseteq DOMAIN state
    BY RegisterFacts DEF IInv, Shapes
  <2> QED
    BY <2>1, FramedFacts DEF IInv, Shapes
<1>7. KeptIn(Framed(L, regs), Top'.kind, Top'.id, IsSaved)
  BY <1>5, <1>6 DEF KeptIn, SavedIn
<1>8. KeptIn(Framed(H, state), StateKind(Top'), Top'.id, IsSaved)
  BY <1>5, <1>6, RegisterFacts DEF KeptIn, SavedIn
<1> QED
  BY <1>1, <1>2, <1>4, <1>5, <1>6, <1>7, <1>8

LEMMA LiftedReturnsKeeps ==
  ASSUME IInv, LiftedReturns
  PROVE  IInv'
<1>1. Runs("lifted") /\ acts' = Front(acts) /\ mem' = mem /\ FrameSize = 7
  BY SavedFacts DEF LiftedReturns, LeavesFrames, FrameSize
<1>2. /\ rsp = L /\ stateRSP = H
      /\ Nested(acts)' /\ Linked(acts, mem)' /\ Len(acts') = Len(acts) - 1
      /\ (Top.kind)' \in {"native", "lifted"}
      /\ L + 7 = L' - 1 /\ H + 7 = H' - 1 /\ L + 7 + 1 = L' /\ H + 7 + 1 = H'
      /\ mem[L + 7] = ReturnTo(Top') /\ mem[H + 7] = Original(Top')
      /\ DOMAIN Framed(L, regs) = Registers
      /\ DOMAIN Framed(H, state) = Registers \cup {"rip"}
      /\ KeptIn(Framed(L, regs), Top'.kind, Top'.id, IsSaved)
      /\ KeptIn(Framed(H, state), StateKind(Top'), Top'.id, IsSaved)
  BY <1>1, LiftedLeaves
<1>3. /\ state' = [Framed(H, state) EXCEPT !["rip"] = mem[H + 7], !["rax"] = Result]
      /\ stateRSP' = H' /\ rsp' = L' /\ rip' = ReturnTo(Top')
      /\ regs' = [Framed(L, regs) EXCEPT !["rax"] = Code("memory")]
      /\ calls' = calls
  BY <1>1, <1>2 DEF LiftedReturns
<1>4. /\ DOMAIN regs' = Registers /\ DOMAIN state' = Registers \cup {"rip"}
      /\ KeptIn(regs', Top'.kind, Top'.id, IsSaved)
      /\ KeptIn(state', StateKind(Top'), Top'.id, IsSaved)
  BY <1>2, <1>3, RegisterFacts DEF KeptIn
<1>5. rip' \notin Calling
  BY <1>2, <1>3 DEF Calling, Code, ReturnTo
<1>6. CASE (Top.kind)' = "native"
  <2>1. rip' = Code("detach_ret")
    BY <1>3, <1>6 DEF ReturnTo
  <2>2. AtDetachRet'
    BY <1>1, <1>2, <1>3, <1>4, <1>6 DEF AtDetachRet, KeptIn, StateKind, Original
  <2>3. Where'
    BY <1>2, <2>1, <2>2, Arrives
  <2>4. Shapes'
    BY <1>1, <1>2, <1>3, <1>4, <1>5, InvariantFacts DEF IInv, Shapes
  <2> QED
    BY <1>2, <2>3, <2>4 DEF IInv
<1>7. CASE (Top.kind)' = "lifted"
  <2>1. rip' = <<Top.kind, Top.id>>'
    BY <1>3, <1>7 DEF ReturnTo
  <2>2. AtNative' /\ AtLifted'
    BY <1>2, <1>3, <1>4, <1>7 DEF AtNative, AtLifted, KeptIn, StateKind
  <2>3. Where'
    BY <1>2, <2>1, <2>2, Arrives
  <2>4. Shapes'
    BY <1>1, <1>2, <1>3, <1>4, <1>5, InvariantFacts DEF IInv, Shapes
  <2> QED
    BY <1>2, <2>3, <2>4 DEF IInv
<1> QED
  BY <1>2, <1>6, <1>7

LEMMA LiftedJumpsKeeps ==
  ASSUME IInv, LiftedJumps
  PROVE  IInv'
<1>1. /\ Runs("lifted") /\ acts' = Front(acts) /\ mem' = mem /\ FrameSize = 7
      /\ calls < MaxCalls /\ acts[Len(acts) - 1].kind = "lifted"
  BY SavedFacts DEF LiftedJumps, LeavesFrames, FrameSize, CanCall, CalledByLifted
<1>2. /\ rsp = L /\ stateRSP = H
      /\ Nested(acts)' /\ Linked(acts, mem)' /\ Len(acts') = Len(acts) - 1
      /\ (Top.kind)' = "lifted"
      /\ L + 7 = L' - 1 /\ H + 7 = H' - 1
      /\ mem[L + 7] = ReturnTo(Top') /\ mem[H + 7] = Original(Top')
      /\ DOMAIN Framed(L, regs) = Registers
      /\ DOMAIN Framed(H, state) = Registers \cup {"rip"}
      /\ KeptIn(Framed(L, regs), Top'.kind, Top'.id, IsSaved)
      /\ KeptIn(Framed(H, state), StateKind(Top'), Top'.id, IsSaved)
  BY <1>1, LiftedLeaves
<1>3. /\ state' = Passes(Argument, Framed(H, state))
      /\ stateRSP' = H' - 1 /\ rsp' = L' - 1 /\ rip' = Code("function_call")
      /\ regs' = [Framed(L, regs) EXCEPT !["rdi"] = Code("State"), !["rsi"] = Code("target"),
                                         !["rdx"] = Code("memory")]
      /\ calls' = calls + 1
  BY <1>1, <1>2 DEF LiftedJumps
<1>4. /\ DOMAIN regs' = Registers /\ DOMAIN state' = Registers \cup {"rip"}
      /\ KeptIn(regs', Top'.kind, Top'.id, IsSaved)
      /\ KeptIn(state', StateKind(Top'), Top'.id, IsSaved)
      /\ regs'["rsi"] = Code("target")
  <2>1. "rsi" \in Registers
    BY DEF Registers, Args
  <2>2. \A r \in IsSaved : r \notin Args /\ r \notin {"rdi", "rsi", "rdx"} /\ r \in Registers
    BY RegisterFacts
  <2>4. /\ DOMAIN regs' = Registers /\ regs'["rsi"] = Code("target")
        /\ \A r \in IsSaved : regs'[r] = Framed(L, regs)[r]
    BY <1>2, <1>3, <2>1, <2>2
  <2>5. /\ DOMAIN state' = Registers \cup {"rip"}
        /\ \A r \in IsSaved : state'[r] = Framed(H, state)[r]
    BY <1>2, <1>3, <2>2 DEF Passes
  <2> QED
    BY <1>2, <2>4, <2>5 DEF KeptIn
<1>5. AtFunctionCall'
  BY <1>1, <1>2, <1>3, <1>4 DEF AtFunctionCall, Called, KeptIn, StateKind, Original, ReturnTo
<1>6. Where'
  BY <1>2, <1>3, <1>5, Arrives
<1>7. Shapes'
  <2>1. calls' \in 0 .. MaxCalls /\ Len(acts') <= calls' + 1 /\ Len(acts') <= calls'
    <3>1. calls \in 0 .. MaxCalls /\ MaxCalls \in Nat /\ Len(acts) <= calls + 1
      BY RuntimeAssumption DEF IInv, Shapes
    <3>2. Len(acts) \in Nat
      BY InvariantFacts
    <3>3. calls' = calls + 1 /\ Len(acts') = Len(acts) - 1 /\ calls < MaxCalls
      BY <1>1, <1>2, <1>3
    <3> QED
      BY <3>1, <3>2, <3>3
  <2> QED
    BY <1>1, <1>4, <2>1 DEF IInv, Shapes
<1> QED
  BY <1>2, <1>6, <1>7 DEF IInv

LEMMA NativeCallsKeeps ==
  ASSUME IInv, NativeCalls
  PROVE  IInv'
<1>1. /\ Top.kind = "native" /\ RunningFunction = Top /\ rip = <<Top.kind, Top.id>>
      /\ rsp = H /\ Fits /\ KeptIn(regs, "native", Top.id, IsSaved) /\ calls < MaxCalls
  BY RunningFacts DEF NativeCalls, CanCall, AtNative
<1>2. /\ L \in Int /\ H \in Int /\ L <= StackTop /\ StackTop < H - 1 /\ StackTop \in Int
      /\ DOMAIN mem = Addresses
  BY InvariantFacts
<1>3. \A k \in 1 .. 8 : H - k \in Addresses /\ H - k > StackTop
  BY <1>1, CallRoom
<1> DEFINE words == <<rip, Code("function"), Code("ea")>>
<1>4. /\ mem' = Pushed(mem, H, words) /\ rsp' = H - 3 /\ rip' = Code("attach_call")
      /\ regs' = Passes(Argument, regs) /\ calls' = calls + 1
      /\ state' = state /\ stateRSP' = stateRSP /\ acts' = acts
  BY <1>1 DEF NativeCalls, State
<1>5. Len(words) = 3 /\ Len(words) \in Nat /\ words[1] = rip /\ words[2] = Code("function")
  OBVIOUS
<1> HIDE DEF words
<1>6. OnTop(mem', mem, H, words)
  BY <1>2, <1>4, <1>5, PushedAt
<1>7. /\ DOMAIN mem' = Addresses /\ mem'[H - 1] = rip /\ mem'[H - 2] = Code("function")
      /\ \A x \in Addresses : x \in Int /\ (x < H - 3 \/ x >= H) => mem'[x] = mem[x]
  <2>1. \A k \in 1 .. 3 : mem'[H - k] = words[k]
    BY <1>2, <1>3, <1>5, <1>6 DEF OnTop
  <2> QED
    BY <1>2, <1>5, <1>6, <2>1 DEF OnTop
<1>8. SameAbove(mem, mem', L, H)
  <2> SUFFICES ASSUME NEW x \in (L .. StackTop - 1) \cup (H .. NativeTop - 1)
               PROVE  mem'[x] = mem[x]
    BY DEF SameAbove
  <2>1. x \in Addresses /\ x \in Int /\ x >= L /\ (x >= H \/ x < StackTop)
    BY AboveAddresses
  <2>2. H - 3 > StackTop
    BY <1>3
  <2> QED
    BY <1>2, <1>7, <2>1, <2>2
<1>9. /\ Nested(acts)' /\ Linked(acts, mem)' /\ Top' = Top /\ L' = L /\ H' = H
      /\ (Top.kind)' \in {"native", "lifted"}
  BY <1>4, <1>8, ActsKept
<1>10. /\ DOMAIN regs' = Registers /\ DOMAIN state' = Registers \cup {"rip"}
       /\ \A r \in IsSaved : regs'[r] = regs[r]
  BY <1>4, RegisterFacts DEF IInv, Shapes, Passes
<1>11. AtAttachCall'
  <2>1. mem'[H - 1] = Original(Top)
    BY <1>1, <1>7 DEF Original, StateKind
  <2>2. KeptIn(regs', "native", Top.id, IsSaved)
    BY <1>1, <1>10 DEF KeptIn
  <2>3. Fits'
    BY <1>1, <1>4, <1>9 DEF Fits
  <2> QED
    BY <1>1, <1>4, <1>7, <1>9, <2>1, <2>2, <2>3 DEF AtAttachCall, KeptIn, Original, StateKind
<1>12. Where'
  BY <1>4, <1>9, <1>11, Arrives
<1>13. Shapes'
  <2>1. calls' \in 0 .. MaxCalls /\ Len(acts') <= calls' + 1 /\ Len(acts') <= calls'
    BY <1>1, <1>4, InvariantFacts, RuntimeAssumption DEF IInv, Shapes
  <2> QED
    BY <1>7, <1>10, <2>1 DEF IInv, Shapes
<1> QED
  BY <1>9, <1>12, <1>13 DEF IInv

LEMMA LiftedCallsKeeps ==
  ASSUME IInv, NEW to \in {"function_call", "function"}, LiftedCalls(to)
  PROVE  IInv'
<1>1. /\ Top.kind = "lifted" /\ RunningFunction = Top /\ rip = <<Top.kind, Top.id>>
      /\ rsp = L /\ stateRSP = H /\ calls < MaxCalls
      /\ KeptIn(regs, "lifted", Top.id, IsSaved)
      /\ KeptIn(state, "original", Top.id, IsSaved)
  BY RunningFacts DEF LiftedCalls, CanCall, AtLifted
<1>2. /\ L \in Int /\ H \in Int /\ L <= StackTop /\ StackTop < H - 1 /\ StackTop \in Int
      /\ DOMAIN mem = Addresses
  BY InvariantFacts
<1>3. L - 1 \in Addresses /\ H - 1 \in Addresses
  BY <1>1, CallRoom
<1> DEFINE low == <<rip>>
           high == <<<<"original", Top.id>>>>
           m == Pushed(mem, L, low)
<1>4. /\ mem' = Pushed(m, H, high) /\ rsp' = L - 1 /\ stateRSP' = H - 1
      /\ state' = Passes(Argument, state)
      /\ regs' = [regs EXCEPT !["rdi"] = Code("State"), !["rsi"] = Code("target"),
                              !["rdx"] = Code("memory")]
      /\ rip' = Code(to) /\ calls' = calls + 1 /\ acts' = acts
  BY <1>1 DEF LiftedCalls
<1>6. /\ Len(low) = 1 /\ Len(low) \in Nat /\ low[1] = rip
      /\ Len(high) = 1 /\ Len(high) \in Nat /\ high[1] = <<"original", Top.id>>
  OBVIOUS
<1> HIDE DEF low, high
<1>7. OnTop(m, mem, L, low)
  BY <1>2, <1>6, PushedAt
<1> HIDE DEF m
<1>8. OnTop(mem', m, H, high)
  BY <1>2, <1>4, <1>6, PushedAt
<1>9. /\ DOMAIN m = Addresses /\ m[L - 1] = rip
      /\ \A x \in Addresses : x \in Int /\ x >= L => m[x] = mem[x]
  BY <1>2, <1>3, <1>6, <1>7 DEF OnTop
<1>10. /\ DOMAIN mem' = Addresses /\ mem'[H - 1] = <<"original", Top.id>>
       /\ \A x \in Addresses : x \in Int /\ (x < H - 1 \/ x >= H) => mem'[x] = m[x]
  BY <1>2, <1>3, <1>6, <1>8, <1>9 DEF OnTop
<1>11. mem'[L - 1] = rip
  <2>1. L - 1 < H - 1 /\ L - 1 \in Int
    BY <1>2
  <2> QED
    BY <1>3, <1>9, <1>10, <2>1
<1>12. SameAbove(mem, mem', L, H)
  <2> SUFFICES ASSUME NEW x \in (L .. StackTop - 1) \cup (H .. NativeTop - 1)
               PROVE  mem'[x] = mem[x]
    BY DEF SameAbove
  <2>1. x \in Addresses /\ x \in Int /\ x >= L /\ (x >= H \/ x < StackTop)
    BY AboveAddresses
  <2> QED
    BY <1>2, <1>9, <1>10, <2>1
<1>18. /\ Nested(acts)' /\ Linked(acts, mem)' /\ Top' = Top /\ L' = L /\ H' = H
       /\ (Top.kind)' \in {"native", "lifted"}
  BY <1>4, <1>12, ActsKept
<1>19. /\ DOMAIN regs' = Registers /\ DOMAIN state' = Registers \cup {"rip"}
       /\ \A r \in IsSaved : regs'[r] = regs[r] /\ state'[r] = state[r]
       /\ regs'["rsi"] = Code("target")
  <2>1. "rsi" \in Registers
    BY DEF Registers, Args
  <2> QED
    BY <1>4, <2>1, RegisterFacts DEF IInv, Shapes, Passes
<1>20. Called' /\ Top'.kind = "lifted"
  <2>1. Top'.kind = "lifted" /\ Top'.id = Top.id
    BY <1>1, <1>18
  <2>2. /\ KeptIn(regs', "lifted", Top.id, IsSaved)
        /\ KeptIn(state', "original", Top.id, IsSaved)
    BY <1>1, <1>19, RegisterFacts DEF KeptIn
  <2>3. mem'[L - 1] = ReturnTo(Top') /\ mem'[H - 1] = Original(Top')
    BY <1>1, <1>10, <1>11, <2>1 DEF ReturnTo, Original, StateKind
  <2>4. StateKind(Top') = "original"
    BY <2>1 DEF StateKind
  <2> QED
    BY <1>4, <1>18, <2>1, <2>2, <2>3, <2>4 DEF Called, KeptIn, ReturnTo, Original, StateKind
<1>21. Where'
  <2>1. to = "function" => AtFunction'
    BY <1>20 DEF AtFunction
  <2>2. to = "function_call" => AtFunctionCall'
    BY <1>19, <1>20 DEF AtFunctionCall
  <2> QED
    BY <1>4, <1>20, <2>1, <2>2, Arrives
<1>22. Shapes'
  <2>1. calls' \in 0 .. MaxCalls /\ Len(acts') <= calls' + 1 /\ Len(acts') <= calls'
    BY <1>1, <1>4, InvariantFacts, RuntimeAssumption DEF IInv, Shapes
  <2> QED
    BY <1>10, <1>19, <2>1 DEF IInv, Shapes
<1> QED
  BY <1>18, <1>21, <1>22 DEF IInv

-----------------------------------------------------------------------------
(* The theorems.                                                           *)

LEMMA IInvInit == RuntimeInit => IInv
<1> SUFFICES ASSUME RuntimeInit PROVE IInv
  OBVIOUS
<1> DEFINE a == [id |-> 0, kind |-> "native", rsp |-> NativeTop, emulated |-> 0]
<1>1. /\ regs = Keeps("native", 0, [r \in Registers |-> Nothing])
      /\ rsp = NativeTop /\ rip = <<"native", 0>>
      /\ state = [r \in Registers \cup {"rip"} |-> Nothing]
      /\ stateRSP = 0 /\ mem = [x \in Addresses |-> Nothing]
      /\ acts = <<a>> /\ calls = 0
  BY DEF RuntimeInit, NativeTop
<1>2. a.id = 0 /\ a.kind = "native" /\ a.rsp = NativeTop
  OBVIOUS
<1> HIDE DEF a
<1>3. IsSeq(acts) /\ Len(acts) = 1 /\ acts[1] = a
  <2>1. acts \in Seq({a})
    BY <1>1
  <2> QED
    BY <1>1, <2>1 DEF IsSeq
<1>4. Top = a /\ L = StackTop /\ H = NativeTop
  BY <1>2, <1>3 DEF Top, L, H, Low, High
<1>5. Nested(acts)
  <2>1. Low(acts, 1) = StackTop /\ High(acts, 1) = NativeTop
    BY <1>2, <1>3 DEF Low, High
  <2>2. StackTop \in Int /\ StackTop % 2 = 0 /\ NativeTop \in Int
    BY RuntimeAssumption DEF StackTop, NativeTop, NativeBase
  <2>3. Act(acts, 1)
    <3>1. StackTop - 10 * (1 - 1) = StackTop /\ NativeTop - 8 * (1 - 1) = NativeTop
      BY <2>2
    <3>2. /\ Low(acts, 1) \in Int /\ High(acts, 1) \in Int /\ Low(acts, 1) % 2 = 0
          /\ Low(acts, 1) >= StackTop - 10 * (1 - 1) /\ Low(acts, 1) <= StackTop
          /\ High(acts, 1) = NativeTop - 8 * (1 - 1)
      BY <2>1, <2>2, <3>1
    <3> QED
      BY <1>2, <1>3, <3>2 DEF Act
  <2>4. \A i \in 1 .. 1 : i = 1
    OBVIOUS
  <2> QED
    BY <1>2, <1>3, <2>1, <2>2, <2>3, <2>4 DEF Nested
<1>6. Linked(acts, mem)
  BY <1>3 DEF Linked
<1>7. /\ DOMAIN regs = Registers /\ DOMAIN state = Registers \cup {"rip"}
      /\ DOMAIN mem = Addresses
      /\ \A r \in IsSaved : regs[r] = Own("native", 0, r)
  BY <1>1, RegisterFacts DEF Keeps
<1>8. AtNative /\ AtLifted
  BY <1>1, <1>2, <1>3, <1>4, <1>7 DEF AtNative, AtLifted, Fits, KeptIn
<1>9. Where
  BY <1>1, <1>2, <1>4, <1>8 DEF Where, Code, AtAttachCall, AtFunction, AtFunctionCall, AtTarget,
     AtDetachRet, AtAttachRet
<1>10. Shapes
  BY <1>1, <1>3, <1>7, RuntimeAssumption DEF Shapes, Calling, Code
<1> QED
  BY <1>5, <1>6, <1>9, <1>10 DEF IInv

LEMMA IInvStutters == ASSUME IInv, UNCHANGED runtimeVars PROVE IInv'
<1>1. /\ regs' = regs /\ rsp' = rsp /\ rip' = rip /\ mem' = mem /\ state' = state
      /\ stateRSP' = stateRSP /\ acts' = acts /\ calls' = calls
  BY DEF runtimeVars, machine, State, observed
<1>2. /\ Nested(acts)' /\ Linked(acts, mem)' /\ Top' = Top /\ L' = L /\ H' = H
  BY <1>1, ActsKept DEF SameAbove
<1>3. Shapes'
  BY <1>1 DEF IInv, Shapes
<1>4. Where'
  BY <1>1, <1>2 DEF IInv, Where, AtNative, AtLifted, AtAttachCall, AtFunction, AtFunctionCall,
     AtTarget, AtDetachRet, AtAttachRet, Fits, Called, Stashed, KeptIn, SavedIn,
     Original, ReturnTo, StateKind
<1> QED
  BY <1>2, <1>3, <1>4 DEF IInv

LEMMA IInvNext == ASSUME IInv, [RuntimeNext]_runtimeVars PROVE IInv'
<1>1. CASE AttachCall
  BY <1>1, AttachCallKeeps
<1>2. CASE DetachRet
  BY <1>2, DetachRetKeeps
<1>3. CASE FunctionCall
  BY <1>3, FunctionCallKeeps
<1>4. CASE AttachRet
  BY <1>4, AttachRetKeeps
<1>6. CASE NativeEntry
  BY <1>6, NativeEntryKeeps
<1>7. CASE NativeCalls
  BY <1>7, NativeCallsKeeps
<1>8. CASE NativeReturns
  BY <1>8, NativeReturnsKeeps
<1>9. CASE LiftedEntry
  BY <1>9, LiftedEntryKeeps
<1>10. CASE LiftedReturns
  BY <1>10, LiftedReturnsKeeps
<1>11. CASE LiftedJumps
  BY <1>11, LiftedJumpsKeeps
<1>13. ASSUME NEW to \in {"function_call", "function"}, LiftedCalls(to)
       PROVE  IInv'
  BY <1>13, LiftedCallsKeeps
<1>14. CASE Finished \/ UNCHANGED runtimeVars
  BY <1>14, IInvStutters DEF Finished
<1> QED
  BY <1>1, <1>2, <1>3, <1>4, <1>6, <1>7, <1>8, <1>9, <1>10, <1>11, <1>13, <1>14 DEF RuntimeNext

LEMMA IInvRunning == IInv => RunningIntact
<1> SUFFICES ASSUME IInv PROVE RunningIntact
  OBVIOUS
<1>1. /\ RunningFunction = Top /\ Top.kind \in {"native", "lifted"}
      /\ Where /\ L % 2 = 0 /\ H % 2 = 0 /\ L \in Int /\ H \in Int
      /\ Len(acts) <= MaxCalls + 1 /\ Nested(acts)
  BY InvariantFacts DEF RunningFunction, Last, Top
<1>2. rip[1] \notin {"original", "ea", "State", "memory", "nothing", "result", "argument"}
  BY <1>1, CodesApart DEF Where
<1>3. rip[1] \in {"native", "lifted"} =>
        rip = <<Top.kind, Top.id>> /\ rip[1] = Top.kind /\ AtNative /\ AtLifted
  BY <1>1, CodesApart DEF Where
<1>4. /\ Top.kind = "lifted" => L = Top.rsp /\ H = Top.emulated
      /\ Top.kind = "native" => H = Top.rsp
  BY <1>1, TopFacts
<1>5. StackContinues
  <2> SUFFICES ASSUME rip[1] = "native", \A i \in DOMAIN acts : acts[i].kind = "native"
               PROVE  stateRSP \in {0, StackTop}
    BY DEF StackContinues
  <2>1. Len(acts) = 1
    <3>1. Len(acts) \in Nat /\ Len(acts) >= 1 /\ DOMAIN acts = 1 .. Len(acts)
      BY InvariantFacts
    <3>2. SUFFICES ASSUME Len(acts) # 1 PROVE FALSE
      OBVIOUS
    <3>3. Len(acts) \in 2 .. Len(acts) /\ Len(acts) \in DOMAIN acts /\ Len(acts) - 1 \in DOMAIN acts
      BY <3>1, <3>2
    <3>4. Step(acts, Len(acts))
      BY <1>1, <3>3 DEF Nested
    <3> QED
      BY <3>3, <3>4 DEF Step
  <2>2. L = StackTop
    BY <2>1 DEF L, Low
  <2>3. Fits
    BY <1>3 DEF AtNative
  <2> QED
    BY <2>2, <2>3 DEF Fits
<1>6. Aligned
  <2>1. rip = Code("function") => rsp % 2 = 1 /\ stateRSP % 2 = 1
    BY <1>1 DEF Where, AtFunction, Called
  <2>2. rip = Code("target") => rsp % 2 = 1
    BY <1>1 DEF Where, AtTarget
  <2> QED
    BY <2>1, <2>2 DEF Aligned
<1>7. rip[1] \in {"native", "lifted"} =>
        rsp = Top.rsp /\ \A r \in IsSaved : regs[r] = Own(Top.kind, Top.id, r)
  BY <1>1, <1>3, <1>4 DEF AtNative, AtLifted, KeptIn
<1>8. rip[1] = "lifted" =>
        stateRSP = Top.emulated /\ \A r \in IsSaved : state[r] = Own("original", Top.id, r)
  BY <1>3, <1>4 DEF AtLifted, KeptIn
<1> QED
  BY <1>1, <1>2, <1>3, <1>5, <1>6, <1>7, <1>8 DEF RunningIntact

(* Whatever the calls, returns and tail jumps before, however deep, the    *)
(* code that runs is the innermost function's, on its own stack pointer    *)
(* and with its own values in the registers it keeps, in the machine and   *)
(* in State; nothing is left on the lifted stack and both stacks are       *)
(* aligned. The tail jumps are those of functions that lifted code called  *)
(* (LiftedJumps), and there are no exceptions.                             *)
THEOREM RunsIntact == RuntimeSpec => []RunningIntact
<1>1. IInv /\ [RuntimeNext]_runtimeVars => IInv'
  BY IInvNext
<1> QED
  BY IInvInit, <1>1, IInvRunning, PTL DEF RuntimeSpec

(* What is passed stays where the next one looks for it.                   *)
LEMMA CarriedKept ==
  ASSUME IInv, Carried, [RuntimeNext]_runtimeVars
  PROVE  Carried'
<1>1. \A x : Code(x)[1] = x
  BY DEF Code
<1>2. "rax" \in Registers /\ \A r \in Args : r \in Registers /\ r \notin {"rip", "cw", "rax", "flags"}
  BY RegisterFacts
<1>3. DOMAIN regs = Registers /\ DOMAIN state = Registers \cup {"rip"} /\ Where
  BY DEF IInv, Shapes
<1>4. L \in Int /\ H \in Int /\ Top.kind \in {"native", "lifted"}
  BY InvariantFacts
<1>5. CASE AttachCall
  <2>1. rip = Code("attach_call") /\ rsp = H - 3 /\ mem[H - 2] = Code("function")
    BY <1>3, <1>5 DEF AttachCall, Where, AtAttachCall
  <2>2. rip' = Code("function") /\ passed' = passed /\ state' = Marshalled(mem[rsp])
    <3>1. rsp + 1 = H - 2
      BY <1>4, <2>1
    <3> QED
      BY <1>5, <2>1, <3>1 DEF AttachCall, observed
  <2>3. \A r \in Args : state'[r] = regs[r]
    BY <1>2, <1>3, <2>2 DEF Marshalled
  <2>4. \A r \in Args : regs[r] = passed
    BY <1>1, <2>1 DEF Carried
  <2> QED
    BY <1>1, <2>2, <2>3, <2>4 DEF Carried
<1>6. CASE DetachRet
  <2>1. rip = Code("detach_ret") /\ stateRSP = H /\ mem[H - 1] = Original(Top) /\ Top.kind = "native"
    BY <1>3, <1>6 DEF DetachRet, Where, AtDetachRet
  <2>2. rip'[1] = "native" /\ passed' = passed /\ regs' = Unmarshalled
    BY <1>6, <2>1 DEF DetachRet, observed, Original, StateKind
  <2>3. regs'["rax"] = passed
    BY <1>1, <1>2, <2>1, <2>2 DEF Carried, Unmarshalled
  <2> QED
    BY <2>2, <2>3 DEF Carried
<1>7. CASE FunctionCall
  <2>1. rip = Code("function_call") /\ regs["rsi"] = Code("target")
    BY <1>3, <1>7 DEF FunctionCall, Where, AtFunctionCall
  <2>2. rip' = Code("target") /\ passed' = passed /\ regs' = Unmarshalled
    BY <1>7, <2>1 DEF FunctionCall, observed
  <2>3. \A r \in Args : regs'[r] = passed
    BY <1>1, <1>2, <2>1, <2>2 DEF Carried, Unmarshalled
  <2> QED
    BY <1>1, <2>2, <2>3 DEF Carried
<1>8. CASE AttachRet
  <2>1. rip = Code("attach_ret") /\ stateRSP = L - 10 /\ mem[L - 1] = <<"lifted", Top.id>>
    BY <1>3, <1>8 DEF AttachRet, Where, AtAttachRet, Stashed
  <2>2. rip'[1] = "lifted" /\ passed' = passed /\ state' = Marshalled(mem[stateRSP])
    <3>1. stateRSP + StashSize = L - 1
      BY <1>4, <2>1, StashFacts
    <3> QED
      BY <1>8, <2>1, <3>1 DEF AttachRet, observed
  <2>3. state'["rax"] = passed
    BY <1>1, <1>2, <1>3, <2>1, <2>2 DEF Carried, Marshalled
  <2> QED
    BY <2>2, <2>3 DEF Carried
<1>10. CASE NativeEntry \/ LiftedEntry
  <2>1. rip'[1] \in {"native", "lifted"} /\ passed' = Nothing
    BY <1>10 DEF NativeEntry, LiftedEntry, EnterFunction
  <2> QED
    BY <2>1 DEF Carried, Nothing
<1>11. CASE NativeCalls
  <2>1. rip' = Code("attach_call") /\ passed' = Argument /\ regs' = Passes(Argument, regs)
    BY <1>11 DEF NativeCalls
  <2>2. \A r \in Args : regs'[r] = passed'
    BY <1>2, <1>3, <2>1 DEF Passes
  <2> QED
    BY <1>1, <2>1, <2>2 DEF Carried
<1>12. CASE NativeReturns
  <2>1. Top.kind = "native" /\ RunningFunction = Top /\ rsp = H /\ Len(acts) > 1
    BY <1>12, RunningFacts DEF NativeReturns, AtNative
  <2>2. /\ acts' = Front(acts) /\ mem' = mem /\ FrameSize = 7
        /\ regs' = [Framed(rsp, regs) EXCEPT !["rax"] = Result]
        /\ rip' = mem[H + 7] /\ passed' = Result
    BY <1>12, <2>1, SavedFacts DEF NativeReturns, FrameSize
  <2>3. mem[H + 7] = Code("attach_ret")
    <3>1. Joins(Top', Top, mem, L, H)
      BY <2>1, <2>2, Left
    <3> QED
      BY <2>1, <3>1 DEF Joins
  <2>4. regs'["rax"] = Result
    <3>1. DOMAIN Framed(rsp, regs) = Registers
      BY <1>3 DEF Framed
    <3> QED
      BY <1>2, <2>2, <3>1
  <2> QED
    BY <1>1, <2>2, <2>3, <2>4 DEF Carried
<1>13. CASE LiftedReturns
  <2>1. /\ Runs("lifted") /\ acts' = Front(acts) /\ mem' = mem /\ FrameSize = 7
        /\ passed' = Result /\ rip' = mem[rsp + FrameSize]
        /\ state' = [Framed(stateRSP, state) EXCEPT !["rip"] = mem[stateRSP + FrameSize],
                                                    !["rax"] = Result]
    BY <1>13, SavedFacts DEF LiftedReturns, LeavesFrames, FrameSize
  <2>2. rip' = ReturnTo(Top')
    BY <2>1, LiftedLeaves
  <2>3. rip'[1] \in {"detach_ret", "lifted"}
    BY <1>1, <2>2 DEF ReturnTo
  <2>4. state'["rax"] = Result
    <3>1. DOMAIN Framed(stateRSP, state) = Registers \cup {"rip"}
      BY <1>3 DEF Framed
    <3> QED
      BY <1>2, <2>1, <3>1
  <2> QED
    BY <2>1, <2>3, <2>4 DEF Carried
<1>14. CASE LiftedJumps
  <2>1. /\ rip' = Code("function_call") /\ passed' = Argument
        /\ state' = Passes(Argument, Framed(stateRSP, state))
    BY <1>14 DEF LiftedJumps
  <2>2. \A r \in Args : state'[r] = passed'
    <3>1. DOMAIN Framed(stateRSP, state) = Registers \cup {"rip"}
      BY <1>3 DEF Framed
    <3> QED
      BY <1>2, <2>1, <3>1 DEF Passes
  <2> QED
    BY <1>1, <2>1, <2>2 DEF Carried
<1>16. ASSUME NEW to \in {"function_call", "function"}, LiftedCalls(to)
       PROVE  Carried'
  <2>1. rip' = Code(to) /\ passed' = Argument /\ state' = Passes(Argument, state)
    BY <1>16 DEF LiftedCalls
  <2>2. \A r \in Args : state'[r] = passed'
    BY <1>2, <1>3, <2>1 DEF Passes
  <2> QED
    BY <1>1, <2>1, <2>2 DEF Carried
<1>17. CASE Finished \/ UNCHANGED runtimeVars
  <2>1. rip' = rip /\ passed' = passed /\ regs' = regs /\ state' = state
    BY <1>17 DEF Finished, runtimeVars, machine, State, observed
  <2> QED
    BY <2>1 DEF Carried
<1> QED
  BY <1>5, <1>6, <1>7, <1>8, <1>10, <1>11, <1>12, <1>13, <1>14, <1>16, <1>17 DEF RuntimeNext

(* What a caller passes in registers is what the function it called finds, *)
(* and what that returns is what the caller finds, across every crossing.  *)
THEOREM CarriesValues == RuntimeSpec => []ValuesCarried
<1>1. RuntimeInit => IInv /\ Carried
  <2> SUFFICES ASSUME RuntimeInit PROVE IInv /\ Carried
    OBVIOUS
  <2>1. rip[1] = "native" /\ passed = Nothing
    BY DEF RuntimeInit
  <2> QED
    BY <2>1, IInvInit DEF Carried, Nothing
<1>2. (IInv /\ Carried) /\ [RuntimeNext]_runtimeVars => (IInv /\ Carried)'
  BY IInvNext, CarriedKept
<1>3. IInv /\ Carried => ValuesCarried
  BY DEF Carried, ValuesCarried, Code
<1> QED
  BY <1>1, <1>2, <1>3, PTL DEF RuntimeSpec
=============================================================================
