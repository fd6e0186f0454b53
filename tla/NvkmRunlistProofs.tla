-------------------------- MODULE NvkmRunlistProofs --------------------------
(***************************************************************************)
(* Proofs about NvkmRunlist: for any channels, runlists, engines and any   *)
(* number of faults and hangs, a killed channel leaves the hardware, and   *)
(* no engine keeps a channel whose instance is gone.                       *)
(***************************************************************************)
EXTENDS NvkmRunlist, FiniteSetTheorems, SequenceTheorems, WellFoundedInduction, NaturalsInduction,
        TLAPS

-----------------------------------------------------------------------------
(* The inductive invariant.                                                *)

\* Where the thread of a channel is: its channel is on its list, or has been
\* killed since; or it is off the list.
Member == {"enable", "insertUpdate", "inserted", "enableAgain", "on", "detach", "detaching",
           "fini", "remove"}
Outside == {"disable", "kick", "kicking", "removeUpdate", "removed", "unbind", "off", "insert"}
Disabled == {"kick", "kicking", "removeUpdate", "removed", "unbind", "off"}

Calls ==
  [k : {"chan"}, of : Chans] \cup [k : {"engn"}, of : Engines, chan : Chans \cup {Nobody}]
    \cup [k : {"status"}, of : Engines] \cup [k : {"mask"}, of : Runlists]

WorkerPcs == {"idle", "take", "block", "blocking", "engines", "unblocking"}

HostTypes ==
  /\ bound \subseteq Chans /\ usable \subseteq Chans /\ blocked \subseteq Runlists
  /\ hwlist \in [Runlists -> SUBSET Chans] /\ \A r \in Runlists : \A c \in hwlist[r] : RunlOf[c] = r
  /\ on \in [Engines -> Chans \cup {Nobody}] /\ stuck \subseteq Engines
  /\ \A e \in Engines : on[e] # Nobody => RunlOf[on[e]] = EngRunl[e]

SoftTypes ==
  /\ recover \in [engm : SUBSET Engines, runm : SUBSET Runlists, queued : BOOLEAN]
  /\ sect \in [by : Chans \cup {Nobody, Intr}, calls : Seq(Calls), seen : SUBSET Runlists]
  /\ worker \in [pc : WorkerPcs, engm : SUBSET Engines, runm : SUBSET Runlists,
                 todo : SUBSET Runlists, seen : SUBSET Runlists]
  /\ owner \in [Chans -> Member \cup Outside]

\* The lists, each channel on its own and once, and the walk of one of them.
ListTypes ==
  /\ runlist \in [Runlists -> Seq(Chans)] /\ dead \subseteq Chans
  /\ \A r \in Runlists : IsInjective(runlist[r]) /\ \A c \in Range(runlist[r]) : RunlOf[c] = r
WalkTypes ==
  /\ walk \in [runl : Runlists \cup {Nobody}, at : Chans \cup {Over}, buf : Seq(Chans)]
  /\ \A c \in Range(walk.buf) : RunlOf[c] = walk.runl
  /\ walk.runl = Nobody => walk.at = Over

MutexInv ==
  /\ holder = Nobody => walk.runl = Nobody
  /\ \A c \in Chans : owner[c] \in {"detaching", "kicking"} => holder = c /\ walk.runl = Nobody

\* What has to be recovered is about to be: by the work, or when the section
\* comes to queue it.
RecoveryInv ==
  /\ worker.pc \in {"idle", "take", "unblocking"} => worker.engm = {} /\ worker.todo = {}
  /\ recover.runm # {} => recover.queued \/ Working("take") \/ Calling("mask")
  /\ sect.by = Nobody => sect.calls = <<>>

MemberInv ==
  /\ \A c \in dead : ~Listed(c) /\ owner[c] # "insert"
  /\ \A c \in Chans :
       /\ owner[c] \in Outside => ~Listed(c)
       /\ owner[c] \in Member => Listed(c) \/ c \in dead
       /\ owner[c] \in Disabled => c \notin usable \/ c \in dead
       /\ c \notin bound => owner[c] = "off"

Owed(r) == r \in recover.runm \cup worker.todo
HwInv ==
  \A c \in dead : LET r == RunlOf[c] IN
    /\ c \in hwlist[r] => Owed(r) \/ (holder = Recovery /\ walk.runl = r)
    /\ walk.runl = r /\ c \in Range(walk.buf) => Owed(r)

\* An engine on a channel that may not run any more is about to be reset, or
\* the channel to be kicked, or the section to find it.
Found(e, c) == {Engn(e), EngnIf(e, c)} \cap Range(sect.calls) # {}
EngineInv ==
  \A e \in Engines : on[e] # Nobody =>
    \/ on[e] \in usable \/ e \in recover.engm \cup worker.engm \cup stuck
    \/ owner[on[e]] = "kick" \/ Found(e, on[e])

RunlInv ==
  /\ HostTypes /\ SoftTypes /\ ListTypes /\ WalkTypes
  /\ MutexInv /\ RecoveryInv /\ MemberInv /\ HwInv /\ EngineInv

-----------------------------------------------------------------------------
(* Numbers, sets and lists.                                                *)

LEMMA LeastElement ==
  ASSUME NEW S \in SUBSET Nat, S # {}
  PROVE  Min(S) \in S
<1>. DEFINE R == OpToRel(<, Nat)
<1>1. IsWellFoundedOn(R, Nat)
  BY NatLessThanWellFounded
<1>2. \A a, b \in Nat : a < b => <<a, b>> \in R
  BY DEF OpToRel
<1>. HIDE DEF R
<1>3. PICK x \in S : \A y \in S : ~(<<y, x>> \in R)
  BY <1>1, WFMin
<1>4. \A y \in S : ~(y < x)
  BY <1>2, <1>3
<1>5. \A y \in S : x <= y
  BY <1>4
<1>. QED  BY <1>5 DEF Min

\* InOrder(S) lists the elements of S, by the number of those up to each.
LEMMA InOrderIs ==
  ASSUME NEW S \in SUBSET Nat, IsFiniteSet(S)
  PROVE  InOrder(S) \in Seq(S) /\ Range(InOrder(S)) = S
<1>. DEFINE n == Cardinality(S)
            Upto(e) == {f \in S : f <= e}
            rank == [e \in S |-> Cardinality(Upto(e))]
<1>1. n \in Nat
  BY FS_CardinalityType
<1>2. ASSUME NEW e \in S PROVE rank[e] \in 1 .. n
  <2>1. IsFiniteSet(Upto(e)) /\ Cardinality(Upto(e)) <= n
    BY FS_Subset
  <2>2. Cardinality(Upto(e)) # 0
    BY <2>1, FS_EmptySet
  <2>. QED  BY <2>1, <2>2, <1>1, FS_CardinalityType
<1>3. ASSUME NEW d \in S, NEW e \in S, d < e PROVE rank[d] # rank[e]
  <2>1. IsFiniteSet(Upto(e))
    BY FS_Subset
  <2>2. d \in Nat /\ e \in Nat /\ \A f \in S : f \in Nat /\ (f <= d => f <= e)
    BY <1>3
  <2>3. Upto(d) \subseteq Upto(e)
    BY <2>2
  <2>4. e \in Upto(e) /\ e \notin Upto(d)
    BY <1>3, <2>2
  <2>. QED  BY <2>1, <2>3, <2>4, FS_Subset
<1>4. rank \in Injection(S, 1 .. n)
  <2>1. rank \in [S -> 1 .. n]
    BY <1>2
  <2>2. \A d, e \in S : d < e \/ e < d \/ d = e
    OBVIOUS
  <2>. HIDE DEF rank
  <2>3. \A d, e \in S : rank[d] = rank[e] => d = e
    BY <1>3, <2>2
  <2>. QED  BY <2>1, <2>3 DEF Injection, IsInjective
<1>5. IsFiniteSet(1 .. n) /\ Cardinality(1 .. n) = n
  BY <1>1, FS_Interval
<1>6. rank \in Surjection(S, 1 .. n)
  BY <1>4, <1>5, FS_Injection
<1>7. \A i \in 1 .. n : \E e \in S : rank[e] = i
  BY <1>6 DEF Surjection
<1>8. \A d, e \in S : rank[d] = rank[e] => d = e
  BY <1>4 DEF Injection, IsInjective
<1>9. \A i \in 1 .. n : InOrder(S)[i] \in S /\ rank[InOrder(S)[i]] = i
  BY <1>7 DEF InOrder
<1>10. InOrder(S) \in [1 .. n -> S]
  BY <1>9 DEF InOrder
<1>11. InOrder(S) \in Seq(S)
  BY <1>1, <1>10, SeqDef
<1>12. \A e \in S : InOrder(S)[rank[e]] = e
  BY <1>2, <1>8, <1>9
<1>. HIDE DEF rank, n
<1>. QED  BY <1>2, <1>9, <1>10, <1>11, <1>12 DEF Range

LEMMA SetToSeqIs ==
  ASSUME NEW S, IsFiniteSet(S)
  PROVE  SetToSeq(S) \in Seq(S) /\ Range(SetToSeq(S)) = S /\ IsInjective(SetToSeq(S))
<1>. DEFINE n == Cardinality(S)
            s == SetToSeq(S)
<1>1. n \in Nat /\ ExistsBijection(1 .. n, S)
  BY FS_CardinalityType
<1>2. \E f \in [1 .. n -> S] : IsInjective(f)
  BY <1>1 DEF ExistsBijection, Bijection, Injection
<1>3. s \in [1 .. n -> S] /\ IsInjective(s)
  BY <1>2 DEF SetToSeq
<1>4. IsFiniteSet(1 .. n) /\ Cardinality(1 .. n) = n
  BY <1>1, FS_Interval
<1>5. s \in Surjection(1 .. n, S)
  BY <1>3, <1>4, FS_Injection DEF Injection
<1>6. s \in Seq(S)
  BY <1>1, <1>3, SeqDef
<1>. HIDE DEF s, n
<1>7. Range(s) = S
  BY <1>3, <1>5 DEF Surjection, Range
<1>. QED  BY <1>3, <1>6, <1>7 DEF s

LEMMA RemoveAtEntries ==
  ASSUME NEW S, NEW q \in Seq(S), NEW k \in DOMAIN q
  PROVE  /\ RemoveAt(q, k) \in Seq(S)
         /\ Len(RemoveAt(q, k)) = Len(q) - 1
         /\ \A j \in 1 .. Len(q) - 1 :
              RemoveAt(q, k)[j] = IF j < k THEN q[j] ELSE q[j + 1]
<1>1. k \in 1 .. Len(q) /\ Len(q) \in Nat
  OBVIOUS
<1>2. SubSeq(q, 1, k - 1) \in Seq(S) /\ SubSeq(q, k + 1, Len(q)) \in Seq(S)
  BY <1>1, SubSeqProperties
<1>3. Len(SubSeq(q, 1, k - 1)) = k - 1 /\ Len(SubSeq(q, k + 1, Len(q))) = Len(q) - k
  BY <1>1, SubSeqProperties
<1>4. \A j \in 1 .. k - 1 : SubSeq(q, 1, k - 1)[j] = q[j]
  BY <1>1, SubSeqProperties
<1>5. \A j \in 1 .. Len(q) - k : SubSeq(q, k + 1, Len(q))[j] = q[k + j]
  BY <1>1, SubSeqProperties
<1>. DEFINE a == SubSeq(q, 1, k - 1)
            b == SubSeq(q, k + 1, Len(q))
<1>6. a \in Seq(S) /\ b \in Seq(S) /\ Len(a) = k - 1 /\ Len(b) = Len(q) - k
  BY <1>2, <1>3
<1>7. RemoveAt(q, k) = a \o b
  BY DEF RemoveAt
<1>8. /\ \A j \in 1 .. k - 1 : a[j] = q[j]
      /\ \A j \in 1 .. Len(q) - k : b[j] = q[k + j]
  BY <1>4, <1>5
<1>. HIDE DEF a, b
<1>9. /\ a \o b \in Seq(S)
      /\ Len(a \o b) = Len(q) - 1
      /\ \A j \in 1 .. Len(q) - 1 :
           (a \o b)[j] = IF j <= k - 1 THEN a[j] ELSE b[j - (k - 1)]
  <2>1. /\ a \o b \in Seq(S)
        /\ Len(a \o b) = Len(a) + Len(b)
        /\ \A j \in 1 .. Len(a) + Len(b) :
             (a \o b)[j] = IF j <= Len(a) THEN a[j] ELSE b[j - Len(a)]
    BY <1>6, ConcatProperties
  <2>2. Len(a) + Len(b) = Len(q) - 1
    BY <1>1, <1>6
  <2>. QED  BY <2>1, <2>2, <1>6
<1>10. ASSUME NEW j \in 1 .. Len(q) - 1
       PROVE  (a \o b)[j] = IF j < k THEN q[j] ELSE q[j + 1]
  <2>1. CASE j < k
    <3>1. j <= k - 1 /\ j \in 1 .. k - 1
      BY <2>1, <1>1
    <3>. QED  BY <3>1, <2>1, <1>8, <1>9
  <2>2. CASE ~(j < k)
    <3>1. /\ ~(j <= k - 1) /\ j - (k - 1) \in 1 .. Len(q) - k
          /\ k + (j - (k - 1)) = j + 1
      BY <2>2, <1>1
    <3>2. b[j - (k - 1)] = q[j + 1]
      BY <3>1, <1>8
    <3>. QED  BY <3>1, <3>2, <2>2, <1>9
  <2>. QED  BY <2>1, <2>2
<1>. QED  BY <1>7, <1>9, <1>10

\* Deleting an element of a list without repetitions.
LEMMA RemoveFirstIs ==
  ASSUME NEW T, NEW s \in Seq(T), IsInjective(s), NEW e
  PROVE  /\ RemoveFirst(s, e) \in Seq(T) /\ IsInjective(RemoveFirst(s, e))
         /\ Range(RemoveFirst(s, e)) = Range(s) \ {e}
<1>1. Len(s) \in Nat /\ DOMAIN s = 1 .. Len(s)
  BY LenProperties
<1>2. CASE ~\E i \in 1 .. Len(s) : s[i] = e
  BY <1>1, <1>2 DEF RemoveFirst, Range
<1>3. CASE \E i \in 1 .. Len(s) : s[i] = e
  <2>. DEFINE I == {i \in 1 .. Len(s) : s[i] = e}
              k == Min(I)
              q == RemoveAt(s, k)
  <2>1. I \in SUBSET Nat /\ I # {}
    BY <1>1, <1>3
  <2>2. k \in 1 .. Len(s) /\ s[k] = e
    BY <2>1, LeastElement
  <2>3. RemoveFirst(s, e) = q
    BY <1>3 DEF RemoveFirst, SelectInSeq
  <2>. HIDE DEF k, I
  <2>4. /\ q \in Seq(T) /\ Len(q) = Len(s) - 1
        /\ \A j \in 1 .. Len(s) - 1 : q[j] = IF j < k THEN s[j] ELSE s[j + 1]
    BY <1>1, <2>2, RemoveAtEntries
  <2>. HIDE DEF q
  <2>5. DOMAIN q = 1 .. Len(s) - 1
    BY <2>4, LenProperties
  <2>6. IsInjective(q)
    <3>. SUFFICES ASSUME NEW i \in 1 .. Len(s) - 1, NEW j \in 1 .. Len(s) - 1, q[i] = q[j]
                  PROVE  i = j
      BY <2>5 DEF IsInjective
    <3>. DEFINE old(h) == IF h < k THEN h ELSE h + 1
    <3>1. \A h \in 1 .. Len(s) - 1 : old(h) \in 1 .. Len(s) /\ q[h] = s[old(h)]
      BY <1>1, <2>2, <2>4
    <3>2. old(i) = old(j) => i = j
      BY <1>1, <2>2
    <3>. HIDE DEF old
    <3>3. \A g, h \in 1 .. Len(s) : s[g] = s[h] => g = h
      BY <1>1 DEF IsInjective
    <3>. QED  BY <3>1, <3>2, <3>3
  <2>7. \A i \in 1 .. Len(s) : i # k => s[i] # e
    BY <1>1, <2>2 DEF IsInjective
  <2>8. \A j \in 1 .. Len(s) - 1 : q[j] # e /\ q[j] \in Range(s)
    <3>. TAKE j \in 1 .. Len(s) - 1
    <3>. QED  BY <1>1, <2>2, <2>4, <2>7 DEF Range
  <2>9. \A i \in 1 .. Len(s) : s[i] # e => s[i] \in Range(q)
    <3>. SUFFICES ASSUME NEW i \in 1 .. Len(s), s[i] # e PROVE s[i] \in Range(q)
      OBVIOUS
    <3>1. CASE i < k
      <4>1. i \in 1 .. Len(s) - 1 /\ q[i] = s[i]
        BY <1>1, <2>2, <2>4, <3>1
      <4>. QED  BY <4>1, <2>5 DEF Range
    <3>2. CASE i > k
      <4>1. i - 1 \in 1 .. Len(s) - 1 /\ q[i - 1] = s[i]
        BY <1>1, <2>2, <2>4, <3>2
      <4>. QED  BY <4>1, <2>5 DEF Range
    <3>. QED  BY <3>1, <3>2, <2>2, <1>1
  <2>10. Range(q) = Range(s) \ {e}
    BY <1>1, <2>5, <2>8, <2>9 DEF Range
  <2>. QED  BY <2>3, <2>4, <2>6, <2>10
<1>. QED  BY <1>2, <1>3

LEMMA AppendIs ==
  ASSUME NEW T, NEW s \in Seq(T), NEW e \in T
  PROVE  /\ Append(s, e) \in Seq(T) /\ Range(Append(s, e)) = Range(s) \cup {e}
         /\ IsInjective(s) /\ e \notin Range(s) => IsInjective(Append(s, e))
<1>. DEFINE q == Append(s, e)
<1>1. /\ q \in Seq(T) /\ Len(q) = Len(s) + 1 /\ q[Len(s) + 1] = e
      /\ \A i \in 1 .. Len(s) : q[i] = s[i]
  BY AppendProperties
<1>2. Len(s) \in Nat /\ DOMAIN s = 1 .. Len(s) /\ DOMAIN q = 1 .. Len(s) + 1
  BY <1>1, LenProperties
<1>. HIDE DEF q
<1>3. Range(q) = Range(s) \cup {e}
  <2>1. \A i \in 1 .. Len(s) + 1 : i \in 1 .. Len(s) \/ i = Len(s) + 1
    BY <1>2
  <2>2. 1 .. Len(s) \subseteq 1 .. Len(s) + 1 /\ Len(s) + 1 \in 1 .. Len(s) + 1
    BY <1>2
  <2>. QED  BY <1>1, <1>2, <2>1, <2>2 DEF Range
<1>4. IsInjective(s) /\ e \notin Range(s) => IsInjective(q)
  <2>. SUFFICES ASSUME IsInjective(s), e \notin Range(s),
                       NEW i \in 1 .. Len(s) + 1, NEW j \in 1 .. Len(s) + 1, q[i] = q[j]
                PROVE  i = j
    BY <1>2 DEF IsInjective
  <2>1. \A k \in 1 .. Len(s) : s[k] # e
    BY <1>2 DEF Range
  <2>. QED  BY <1>1, <1>2, <2>1 DEF IsInjective
<1>. QED  BY <1>1, <1>3, <1>4 DEF q

\* The first element, and the rest.
LEMMA HeadIs ==
  ASSUME NEW T, NEW s \in Seq(T), s # <<>>
  PROVE  /\ Head(s) \in T /\ Head(s) \in Range(s) /\ Tail(s) \in Seq(T)
         /\ Range(s) = {Head(s)} \cup Range(Tail(s))
<1>1. Len(s) \in Nat \ {0} /\ DOMAIN s = 1 .. Len(s)
  BY LenProperties, EmptySeq
<1>2. /\ Head(s) \in T /\ Tail(s) \in Seq(T) /\ Len(Tail(s)) = Len(s) - 1
      /\ \A i \in 1 .. Len(Tail(s)) : Tail(s)[i] = s[i + 1]
  BY HeadTailProperties
<1>3. DOMAIN Tail(s) = 1 .. Len(s) - 1
  BY <1>2, LenProperties
<1>4. Head(s) = s[1]
  OBVIOUS
<1>5. \A i \in 1 .. Len(s) - 1 : Tail(s)[i] = s[i + 1] /\ i + 1 \in 1 .. Len(s)
  BY <1>1, <1>2
<1>6. \A i \in 1 .. Len(s) : i = 1 \/ (i - 1 \in 1 .. Len(s) - 1 /\ Tail(s)[i - 1] = s[i])
  BY <1>1, <1>5
<1>7. 1 \in 1 .. Len(s)
  BY <1>1
<1>8. Range(s) \subseteq {Head(s)} \cup Range(Tail(s))
  BY <1>1, <1>3, <1>4, <1>6 DEF Range
<1>9. {Head(s)} \cup Range(Tail(s)) \subseteq Range(s)
  BY <1>1, <1>3, <1>4, <1>5, <1>7 DEF Range
<1>. QED  BY <1>2, <1>8, <1>9

LEMMA ConcatIs ==
  ASSUME NEW T, NEW s \in Seq(T), NEW t \in Seq(T)
  PROVE  /\ s \o t \in Seq(T) /\ Range(s \o t) = Range(s) \cup Range(t)
         /\ s # <<>> => s \o t # <<>> /\ Head(s \o t) = Head(s)
<1>1. s \o t \in Seq(T) /\ Range(s \o t) = Range(s) \cup Range(t)
  BY ConcatProperties, RangeConcatenation
<1>2. ASSUME s # <<>> PROVE s \o t # <<>> /\ Head(s \o t) = Head(s)
  <2>. DEFINE m == Len(s)
              n == Len(t)
              q == s \o t
  <2>1. m \in Nat \ {0} /\ n \in Nat
    BY <1>2, EmptySeq, LenProperties
  <2>2. q \in Seq(T) /\ Len(q) = m + n /\ \A i \in 1 .. m + n : q[i] = IF i <= m THEN s[i] ELSE t[i - m]
    BY ConcatProperties
  <2>. HIDE DEF m, n, q
  <2>3. 1 \in 1 .. m + n /\ 1 <= m /\ m + n # 0
    BY <2>1
  <2>4. q[1] = s[1] /\ q # <<>>
    BY <2>2, <2>3, EmptySeq
  <2>. QED  BY <2>2, <2>4 DEF q
<1>. QED  BY <1>1, <1>2

LEMMA AfterIs ==
  ASSUME NEW T, NEW s \in Seq(T), NEW c \in Range(s)
  PROVE  After(c, s) \in T \cup {Over}
<1>1. Len(s) \in Nat /\ DOMAIN s = 1 .. Len(s)
  BY LenProperties
<1>2. \E j \in DOMAIN s : s[j] = c
  BY DEF Range
<1>3. PICK i \in 1 .. Len(s) : After(c, s) = IF i = Len(s) THEN Over ELSE s[i + 1]
  BY <1>1, <1>2 DEF After
<1>. DEFINE n == Len(s)
<1>4. n \in Nat /\ i \in 1 .. n
  BY <1>1
<1>. HIDE DEF n
<1>5. i # n => i + 1 \in 1 .. n
  BY <1>4
<1>6. i # Len(s) => s[i + 1] \in T
  BY <1>5, ElementOfSeq DEF n
<1>. QED  BY <1>3, <1>6

-----------------------------------------------------------------------------
(* Constants and sections.                                                 *)

LEMMA Names ==
  /\ Nobody \notin Chans /\ Recovery \notin Chans /\ Intr \notin Chans /\ Over \notin Chans
  /\ Nobody \notin Runlists /\ Nobody # Recovery /\ Nobody # Intr /\ Recovery # Intr
  /\ Runlists \in SUBSET Nat /\ Engines \in SUBSET Nat /\ Residents \subseteq Chans
  /\ IsFiniteSet(Chans) /\ IsFiniteSet(Engines)
  /\ \A c \in Chans : RunlOf[c] \in Runlists
  /\ \A e \in Engines : EngRunl[e] \in Runlists
BY RunlistAssumption DEF Recovery, Intr

LEMMA CallTypes ==
  /\ \A c \in Chans : Chan(c) \in Calls
  /\ \A e \in Engines : Engn(e) \in Calls /\ Status(e) \in Calls
  /\ \A e \in Engines, c \in Chans : EngnIf(e, c) \in Calls
  /\ \A r \in Runlists : Mask(r) \in Calls
BY DEF Calls, Chan, Engn, EngnIf, Status, Mask

\* What the head of the calls is of.
LEMMA HeadTypes ==
  ASSUME NEW x \in Calls
  PROVE  /\ x.k = "chan" => x.of \in Chans
         /\ x.k = "engn" => x.of \in Engines /\ x.chan \in Chans \cup {Nobody}
         /\ x.k = "status" => x.of \in Engines
         /\ x.k = "mask" => x.of \in Runlists
BY DEF Calls

\* The engines of a runlist, in order.
LEMMA EnginesOfIs ==
  ASSUME NEW r \in Runlists
  PROVE  EnginesOf(r) \in Seq(Engines) /\ Range(EnginesOf(r)) = {e \in Engines : EngRunl[e] = r}
<1>. DEFINE S == {e \in Engines : EngRunl[e] = r}
<1>1. S \in SUBSET Nat /\ S \subseteq Engines /\ IsFiniteSet(S)
  BY Names, FS_Subset
<1>. HIDE DEF S
<1>2. InOrder(S) \in Seq(S) /\ Range(InOrder(S)) = S
  BY <1>1, InOrderIs
<1>3. InOrder(S) \in Seq(Engines)
  BY <1>1, <1>2, SeqMonotonic
<1>. QED  BY <1>2, <1>3 DEF EnginesOf, S

\* A list of calls for each engine of a list.
LEMMA MapIs ==
  ASSUME NEW s \in Seq(Engines), NEW f \in [Engines -> Calls]
  PROVE  LET t == [i \in DOMAIN s |-> f[s[i]]]
         IN  t \in Seq(Calls) /\ \A e \in Range(s) : f[e] \in Range(t)
<1>. DEFINE t == [i \in DOMAIN s |-> f[s[i]]]
<1>1. Len(s) \in Nat /\ DOMAIN s = 1 .. Len(s) /\ \A i \in 1 .. Len(s) : s[i] \in Engines
  BY LenProperties, ElementOfSeq
<1>2. t \in [1 .. Len(s) -> Calls]
  BY <1>1
<1>3. t \in Seq(Calls)
  BY <1>1, <1>2, SeqDef
<1>4. \A e \in Range(s) : f[e] \in Range(t)
  BY DEF Range
<1>. QED  BY <1>3, <1>4

SectTypes == [by : Chans \cup {Nobody, Intr}, calls : Seq(Calls), seen : SUBSET Runlists]

\* A call that makes others, or none.
LEMMA ThenIs ==
  ASSUME SoftTypes, RecoveryInv, sect.calls # <<>>, NEW calls \in Seq(Calls), Then(calls)
  PROVE  /\ sect' \in SectTypes
         /\ sect'.by = Nobody => sect'.calls = <<>>
         /\ Range(sect'.calls) = Range(calls) \cup Range(Tail(sect.calls))
<1>. DEFINE all == calls \o Tail(sect.calls)
<1>1. sect \in SectTypes /\ sect.by # Nobody
  BY DEF SoftTypes, SectTypes, RecoveryInv
<1>2. Tail(sect.calls) \in Seq(Calls)
  BY <1>1, HeadIs DEF SectTypes
<1>3. all \in Seq(Calls) /\ Range(all) = Range(calls) \cup Range(Tail(sect.calls))
  BY <1>2, ConcatProperties, RangeConcatenation
<1>4. sect' = IF all = <<>> /\ sect.by = Intr THEN NoSect
              ELSE [sect EXCEPT !.calls = all, !.seen = {}]
  BY DEF Then
<1>. HIDE DEF all
<1>5. CASE all = <<>> /\ sect.by = Intr
  <2>1. sect' = NoSect
    BY <1>4, <1>5
  <2>2. <<>> \in Seq(Calls)
    BY EmptySeq
  <2>. QED  BY <1>3, <1>5, <2>1, <2>2 DEF NoSect, SectTypes
<1>6. CASE ~(all = <<>> /\ sect.by = Intr)
  <2>1. sect' = [sect EXCEPT !.calls = all, !.seen = {}]
    BY <1>4, <1>6
  <2>. QED  BY <1>1, <1>3, <2>1 DEF SectTypes
<1>. QED  BY <1>5, <1>6

\* gk104_fifo_recover_runl, in a call of something else.
LEMMA RecoverRunlIs ==
  ASSUME SoftTypes, RecoveryInv, HostTypes, sect.calls # <<>>, ~Calling("mask"),
         NEW r \in Runlists, NEW engm \in SUBSET Engines, NEW calls \in Seq(Calls),
         RecoverRunl(r, engm, calls), UNCHANGED worker
  PROVE  /\ recover' = [recover EXCEPT !.engm = engm, !.runm = @ \cup {r}]
         /\ sect' \in SectTypes /\ RecoveryInv'
         /\ Range(calls) \cup Range(Tail(sect.calls)) \subseteq Range(sect'.calls)
<1>1. recover' = [recover EXCEPT !.engm = engm, !.runm = @ \cup {r}]
  BY DEF RecoverRunl
<1>2. sect \in SectTypes /\ sect.by # Nobody
  BY DEF SoftTypes, SectTypes, RecoveryInv
<1>3. recover'.queued = recover.queued /\ recover'.runm = recover.runm \cup {r}
  BY <1>1 DEF SoftTypes
<1>4. CASE r \in recover.runm
  <2>1. Then(calls)
    BY <1>4 DEF RecoverRunl
  <2>2. recover.queued \/ Working("take")
    BY <1>4 DEF RecoveryInv
  <2>3. RecoveryInv'
    BY <1>3, <2>1, <2>2, ThenIs DEF RecoveryInv, Working
  <2>. QED  BY <1>1, <2>1, <2>3, ThenIs
<1>5. CASE r \notin recover.runm
  <2>1. Tail(sect.calls) \in Seq(Calls) /\ <<Mask(r)>> \in Seq(Calls)
    BY <1>2, HeadIs, CallTypes DEF SectTypes
  <2>. DEFINE one == <<Mask(r)>>
  <2>2. one # <<>> /\ Head(one) = Mask(r) /\ one \in Seq(Calls)
    BY <2>1
  <2>. HIDE DEF one
  <2>3. /\ one \o calls \in Seq(Calls)
        /\ Range(one \o calls) = Range(one) \cup Range(calls)
        /\ one \o calls # <<>> /\ Head(one \o calls) = Mask(r)
    BY <2>2, ConcatIs
  <2>. DEFINE two == one \o calls
  <2>. HIDE DEF two
  <2>4. /\ two \o Tail(sect.calls) \in Seq(Calls)
        /\ Range(two \o Tail(sect.calls)) = Range(two) \cup Range(Tail(sect.calls))
        /\ two \o Tail(sect.calls) # <<>> /\ Head(two \o Tail(sect.calls)) = Mask(r)
    <3>1. two \in Seq(Calls) /\ two # <<>> /\ Head(two) = Mask(r)
      BY <2>3 DEF two
    <3>. QED  BY <2>1, <3>1, ConcatIs
  <2>5. sect' = [sect EXCEPT !.calls = two \o Tail(sect.calls), !.seen = blocked]
    BY <1>5 DEF RecoverRunl, one, two
  <2>6. sect' \in SectTypes /\ sect'.calls = two \o Tail(sect.calls) /\ sect'.by = sect.by
    BY <1>2, <2>4, <2>5 DEF SectTypes, HostTypes
  <2>7. Calling("mask")'
    BY <2>4, <2>6 DEF Calling, Mask
  <2>8. RecoveryInv'
    BY <1>2, <2>6, <2>7 DEF RecoveryInv, Working
  <2>. QED  BY <1>1, <2>3, <2>4, <2>6, <2>8 DEF two
<1>. QED  BY <1>4, <1>5

\* What is to be found stays so while other calls are made.
LEMMA FoundKept ==
  ASSUME SoftTypes, sect.calls # <<>>, NEW e, NEW c, Found(e, c),
         Head(sect.calls) \notin {Engn(e), EngnIf(e, c)},
         Range(Tail(sect.calls)) \subseteq Range(sect'.calls)
  PROVE  {Engn(e), EngnIf(e, c)} \cap Range(sect'.calls) # {}
<1>1. Range(sect.calls) = {Head(sect.calls)} \cup Range(Tail(sect.calls))
  BY HeadIs DEF SoftTypes
<1>. QED  BY <1>1 DEF Found

\* What a step leaves alone stays as it was.
LEMMA Kept ==
  ASSUME RunlInv
  PROVE  /\ UNCHANGED hostVars => HostTypes'
         /\ UNCHANGED <<lockVars, worker, owner>> => SoftTypes'
         /\ UNCHANGED listVars => ListTypes'
         /\ UNCHANGED walk => WalkTypes'
         /\ UNCHANGED <<mutexVars, owner>> => MutexInv'
         /\ UNCHANGED <<lockVars, worker>> => RecoveryInv'
         /\ UNCHANGED <<listVars, bound, usable, owner>> => MemberInv'
         /\ UNCHANGED <<dead, hwlist, mutexVars, recover, worker>> => HwInv'
         /\ UNCHANGED <<on, usable, stuck, lockVars, worker, owner>> => EngineInv'
<1>1. UNCHANGED hostVars => HostTypes'
  BY DEF RunlInv, HostTypes, hostVars
<1>2. UNCHANGED <<lockVars, worker, owner>> => SoftTypes'
  BY DEF RunlInv, SoftTypes, lockVars
<1>3. UNCHANGED listVars => ListTypes'
  BY DEF RunlInv, ListTypes, listVars
<1>4. UNCHANGED walk => WalkTypes'
  BY DEF RunlInv, WalkTypes
<1>5. UNCHANGED <<mutexVars, owner>> => MutexInv'
  BY DEF RunlInv, MutexInv, mutexVars
<1>6. UNCHANGED <<lockVars, worker>> => RecoveryInv'
  BY DEF RunlInv, RecoveryInv, lockVars, Working, Calling
<1>7. UNCHANGED <<listVars, bound, usable, owner>> => MemberInv'
  BY DEF RunlInv, MemberInv, listVars, Listed
<1>8. UNCHANGED <<dead, hwlist, mutexVars, recover, worker>> => HwInv'
  BY DEF RunlInv, HwInv, mutexVars, Owed
<1>9. UNCHANGED <<on, usable, stuck, lockVars, worker, owner>> => EngineInv'
  BY DEF RunlInv, EngineInv, lockVars, Found
<1>. QED  BY <1>1, <1>2, <1>3, <1>4, <1>5, <1>6, <1>7, <1>8, <1>9

-----------------------------------------------------------------------------
(* The walk of a runlist.                                                  *)

LEMMA FirstIs ==
  ASSUME ListTypes, NEW r \in Runlists
  PROVE  FirstOf(r) \in Chans \cup {Over}
BY EmptySeq, HeadIs DEF ListTypes, FirstOf

\* A walk begins.
LEMMA UpdateBeginIs ==
  ASSUME RunlInv, NEW x, NEW r \in Runlists, UpdateBegin(x, r)
  PROVE  /\ WalkTypes' /\ walk'.runl = r /\ Range(walk'.buf) = {}
         /\ holder = Nobody /\ holder' = x
<1>1. walk' = [runl |-> r, at |-> FirstOf(r), buf |-> <<>>]
  BY DEF UpdateBegin
<1>2. <<>> \in Seq(Chans) /\ Range(<<>>) = {}
  BY EmptySeq DEF Range
<1>3. FirstOf(r) \in Chans \cup {Over}
  BY FirstIs DEF RunlInv
<1>4. r # Nobody
  BY Names
<1>5. WalkTypes'
  BY <1>1, <1>2, <1>3, <1>4 DEF WalkTypes
<1>. QED  BY <1>1, <1>2, <1>5 DEF UpdateBegin

\* It ends, and the hardware has the list.
LEMMA CommitIs ==
  ASSUME RunlInv, NEW x, Commit(x)
  PROVE  /\ WalkTypes' /\ walk'.runl = Nobody /\ holder' = Nobody /\ holder = x
         /\ walk.runl \in Runlists /\ hwlist' = [hwlist EXCEPT ![walk.runl] = Range(walk.buf)]
         /\ hwlist' \in [Runlists -> SUBSET Chans]
         /\ \A r \in Runlists : \A c \in hwlist'[r] : RunlOf[c] = r
<1>1. walk' = NoWalk /\ holder' = Nobody /\ holder = x
  BY DEF Commit
<1>2. <<>> \in Seq(Chans) /\ Range(<<>>) = {}
  BY EmptySeq DEF Range
<1>3. WalkTypes' /\ walk'.runl = Nobody
  BY <1>1, <1>2 DEF WalkTypes, NoWalk
<1>4. walk.runl \in Runlists /\ walk.buf \in Seq(Chans) /\ \A c \in Range(walk.buf) : RunlOf[c] = walk.runl
  BY DEF RunlInv, WalkTypes, Commit
<1>5. Range(walk.buf) \subseteq Chans
  BY <1>4, RangeOfSeq
<1>6. hwlist' = [hwlist EXCEPT ![walk.runl] = Range(walk.buf)]
  BY DEF Commit
<1>7. hwlist \in [Runlists -> SUBSET Chans] /\ \A r \in Runlists : \A c \in hwlist[r] : RunlOf[c] = r
  BY DEF RunlInv, HostTypes
<1>. QED  BY <1>1, <1>3, <1>4, <1>5, <1>6, <1>7

\* A channel that has been killed leaves with the list that does not have it.
LEMMA CommitHw ==
  ASSUME RunlInv, NEW x, Commit(x), UNCHANGED <<dead, recover, worker>>
  PROVE  HwInv'
<1>. SUFFICES ASSUME NEW c \in dead, c \in hwlist'[RunlOf[c]] PROVE Owed(RunlOf[c])
  BY CommitIs, Names DEF HwInv, Owed, RunlInv, ListTypes
<1>1. c \in Chans /\ RunlOf[c] \in Runlists
  BY Names DEF RunlInv, ListTypes
<1>2. CASE walk.runl = RunlOf[c]
  <2>1. c \in Range(walk.buf)
    BY <1>1, <1>2, CommitIs DEF RunlInv, HostTypes
  <2>. QED  BY <1>2, <2>1 DEF RunlInv, HwInv
<1>3. CASE walk.runl # RunlOf[c]
  <2>1. c \in hwlist[RunlOf[c]]
    BY <1>1, <1>3, CommitIs DEF RunlInv, HostTypes
  <2>. QED  BY <1>3, <2>1 DEF RunlInv, HwInv
<1>. QED  BY <1>2, <1>3

LEMMA WalkStepInv ==
  ASSUME RunlInv, WalkStep
  PROVE  RunlInv'
<1>1. HostTypes' /\ SoftTypes' /\ ListTypes' /\ RecoveryInv' /\ MemberInv' /\ EngineInv'
  BY Kept DEF WalkStep, hostVars, listVars, lockVars
<1>. DEFINE r == walk.runl
            c == walk.at
<1>2. /\ r \in Runlists /\ c \in Chans /\ c \in Range(runlist[r]) /\ runlist[r] \in Seq(Chans)
      /\ walk.buf \in Seq(Chans) /\ RunlOf[c] = r
  BY DEF RunlInv, WalkTypes, ListTypes, WalkStep, Lost
<1>3. After(c, runlist[r]) \in Chans \cup {Over}
  BY <1>2, AfterIs
<1>4. Append(walk.buf, c) \in Seq(Chans) /\ Range(Append(walk.buf, c)) = Range(walk.buf) \cup {c}
  BY <1>2, AppendIs
<1>5. walk' = [walk EXCEPT !.at = After(c, runlist[r]), !.buf = Append(walk.buf, c)]
  BY DEF WalkStep
<1>. HIDE DEF c
<1>6. /\ walk'.runl = walk.runl /\ walk'.at = After(c, runlist[r])
      /\ walk'.buf = Append(walk.buf, c)
      /\ walk' \in [runl : Runlists \cup {Nobody}, at : Chans \cup {Over}, buf : Seq(Chans)]
  BY <1>3, <1>4, <1>5 DEF RunlInv, WalkTypes
<1>7. WalkTypes'
  BY <1>2, <1>4, <1>6, Names DEF RunlInv, WalkTypes
<1>8. MutexInv'
  BY <1>6 DEF RunlInv, MutexInv, WalkStep
<1>9. c \notin dead
  BY <1>2 DEF RunlInv, MemberInv, Listed
<1>10. HwInv'
  BY <1>4, <1>6, <1>9 DEF RunlInv, HwInv, WalkStep, Owed, listVars, lockVars, hostVars
<1>. QED  BY <1>1, <1>7, <1>8, <1>10 DEF RunlInv

-----------------------------------------------------------------------------
(* gk104_fifo_recover_work.                                                *)

LEMMA WorkDequeueInv ==
  ASSUME RunlInv, WorkDequeue
  PROVE  RunlInv'
<1>1. HostTypes' /\ ListTypes' /\ WalkTypes' /\ MutexInv' /\ MemberInv'
  BY Kept DEF WorkDequeue, OfWork, hostVars, listVars, mutexVars
<1>2. /\ recover'.engm = recover.engm /\ recover'.runm = recover.runm /\ worker'.pc = "take"
      /\ worker'.engm = worker.engm /\ worker'.todo = worker.todo
      /\ SoftTypes'
  BY DEF RunlInv, SoftTypes, WorkDequeue, OfWork, WorkerPcs
<1>3. RecoveryInv'
  BY <1>2 DEF RunlInv, RecoveryInv, WorkDequeue, OfWork, Working, Calling
<1>4. HwInv'
  BY <1>2 DEF RunlInv, HwInv, Owed, WorkDequeue, OfWork, mutexVars, listVars
<1>5. EngineInv'
  BY <1>2 DEF RunlInv, EngineInv, Found, WorkDequeue, OfWork
<1>. QED  BY <1>1, <1>2, <1>3, <1>4, <1>5 DEF RunlInv

LEMMA WorkTakeInv ==
  ASSUME RunlInv, WorkTake
  PROVE  RunlInv'
<1>1. HostTypes' /\ ListTypes' /\ WalkTypes' /\ MutexInv' /\ MemberInv'
  BY Kept DEF WorkTake, OfWork, hostVars, listVars, mutexVars
<1>2. /\ recover'.engm = {} /\ recover'.runm = {} /\ worker'.pc = "block"
      /\ worker'.engm = recover.engm /\ worker'.todo = recover.runm
      /\ SoftTypes'
  BY DEF RunlInv, SoftTypes, WorkTake, OfWork, WorkerPcs
<1>3. worker.engm = {} /\ worker.todo = {}
  BY DEF RunlInv, RecoveryInv, WorkTake, Working
<1>4. RecoveryInv'
  BY <1>2 DEF RunlInv, RecoveryInv, WorkTake, OfWork, Working
<1>5. HwInv'
  BY <1>2, <1>3 DEF RunlInv, HwInv, Owed, WorkTake, OfWork, mutexVars, listVars
<1>6. EngineInv'
  BY <1>2, <1>3 DEF RunlInv, EngineInv, Found, WorkTake, OfWork
<1>. QED  BY <1>1, <1>2, <1>4, <1>5, <1>6 DEF RunlInv

LEMMA WorkReadInv ==
  ASSUME RunlInv, WorkRead
  PROVE  RunlInv'
<1>1. HostTypes' /\ ListTypes' /\ WalkTypes' /\ MutexInv' /\ MemberInv'
  BY Kept DEF WorkRead, OfWork, hostVars, listVars, mutexVars
<1>2. /\ worker'.engm = worker.engm /\ worker'.todo = worker.todo
      /\ worker'.pc \in {"blocking", "unblocking"}
      /\ worker'.pc = "unblocking" => worker.engm = {} /\ worker.todo = {}
      /\ worker.pc # "take" /\ SoftTypes'
  <2>1. blocked \in SUBSET Runlists
    BY DEF RunlInv, HostTypes
  <2>2. CASE Working("block") /\ worker' = [worker EXCEPT !.pc = "blocking", !.seen = blocked]
    BY <2>1, <2>2 DEF RunlInv, SoftTypes, WorkRead, OfWork, WorkerPcs, Working
  <2>3. CASE /\ Working("engines") /\ worker.engm = {} /\ worker.todo = {}
             /\ worker' = [worker EXCEPT !.pc = "unblocking", !.seen = blocked]
    BY <2>1, <2>3 DEF RunlInv, SoftTypes, WorkRead, OfWork, WorkerPcs, Working
  <2>. QED  BY <2>2, <2>3 DEF WorkRead
<1>3. RecoveryInv'
  BY <1>2 DEF RunlInv, RecoveryInv, WorkRead, OfWork, Working, Calling
<1>4. HwInv'
  BY <1>2 DEF RunlInv, HwInv, Owed, WorkRead, OfWork, mutexVars, listVars
<1>5. EngineInv'
  BY <1>2 DEF RunlInv, EngineInv, Found, WorkRead, OfWork
<1>. QED  BY <1>1, <1>2, <1>3, <1>4, <1>5 DEF RunlInv

LEMMA WorkWriteInv ==
  ASSUME RunlInv, WorkWrite
  PROVE  RunlInv'
<1>1. ListTypes' /\ WalkTypes' /\ MutexInv' /\ MemberInv'
  BY Kept DEF WorkWrite, OfWork, listVars, mutexVars
<1>2. HostTypes'
  BY DEF RunlInv, HostTypes, SoftTypes, WorkWrite, OfWork
<1>3. /\ worker'.engm = worker.engm /\ worker'.todo = worker.todo
      /\ worker'.pc \in {"idle", "engines"}
      /\ worker'.pc = "idle" => worker.engm = {} /\ worker.todo = {}
      /\ worker.pc # "take" /\ SoftTypes'
  <2>1. CASE Working("blocking") /\ worker' = [worker EXCEPT !.pc = "engines", !.seen = {}]
    BY <2>1 DEF RunlInv, SoftTypes, WorkWrite, OfWork, WorkerPcs, Working
  <2>2. CASE Working("unblocking") /\ worker' = NoWork
    BY <2>2 DEF RunlInv, SoftTypes, RecoveryInv, WorkWrite, OfWork, WorkerPcs, Working, NoWork
  <2>. QED  BY <2>1, <2>2 DEF WorkWrite
<1>4. RecoveryInv'
  BY <1>3 DEF RunlInv, RecoveryInv, WorkWrite, OfWork, Working, Calling
<1>5. HwInv'
  BY <1>3 DEF RunlInv, HwInv, Owed, WorkWrite, OfWork, mutexVars, listVars
<1>6. EngineInv'
  BY <1>3 DEF RunlInv, EngineInv, Found, WorkWrite, OfWork
<1>. QED  BY <1>1, <1>2, <1>3, <1>4, <1>5, <1>6 DEF RunlInv

LEMMA WorkResetInv ==
  ASSUME RunlInv, WorkReset
  PROVE  RunlInv'
<1>. DEFINE e == Min(worker.engm)
<1>1. ListTypes' /\ WalkTypes' /\ MutexInv' /\ MemberInv'
  BY Kept DEF WorkReset, OfWork, listVars, mutexVars
<1>2. /\ on' = [on EXCEPT ![e] = Nobody] /\ stuck' = stuck \ {e}
      /\ worker' = [worker EXCEPT !.engm = worker.engm \ {e}] /\ worker.engm # {}
  BY DEF WorkReset
<1>3. worker.engm \subseteq Engines
  BY DEF RunlInv, SoftTypes
<1>4. e \in worker.engm /\ e \in Engines
  BY <1>2, <1>3, LeastElement, Names
<1>. HIDE DEF e
<1>5. HostTypes'
  BY <1>2, <1>4 DEF RunlInv, HostTypes, WorkReset, OfWork
<1>6. /\ worker'.engm = worker.engm \ {e} /\ worker'.todo = worker.todo /\ worker'.pc = worker.pc
      /\ SoftTypes'
  BY <1>2 DEF RunlInv, SoftTypes, WorkReset, OfWork
<1>7. RecoveryInv'
  BY <1>6 DEF RunlInv, RecoveryInv, WorkReset, OfWork, Working, Calling
<1>8. HwInv'
  BY <1>6 DEF RunlInv, HwInv, Owed, WorkReset, OfWork, mutexVars, listVars
<1>9. EngineInv'
  <2>. SUFFICES ASSUME NEW f \in Engines, on'[f] # Nobody
                PROVE  \/ on'[f] \in usable' \/ f \in recover'.engm \cup worker'.engm \cup stuck'
                       \/ owner'[on'[f]] = "kick" \/ Found(f, on[f])'
    BY DEF EngineInv
  <2>1. f # e /\ on'[f] = on[f]
    BY <1>2, <1>4 DEF RunlInv, HostTypes
  <2>. QED  BY <1>2, <1>6, <2>1 DEF RunlInv, EngineInv, Found, WorkReset, OfWork
<1>. QED  BY <1>1, <1>5, <1>6, <1>7, <1>8, <1>9 DEF RunlInv

LEMMA WorkUpdateInv ==
  ASSUME RunlInv, WorkUpdate
  PROVE  RunlInv'
<1>. DEFINE r == Min(worker.todo)
<1>1. HostTypes' /\ ListTypes' /\ MemberInv'
  BY Kept DEF WorkUpdate, OfWork, hostVars, listVars
<1>2. /\ worker.todo # {} /\ UpdateBegin(Recovery, r)
      /\ worker' = [worker EXCEPT !.todo = worker.todo \ {r}]
  BY DEF WorkUpdate
<1>3. worker.todo \subseteq Runlists
  BY DEF RunlInv, SoftTypes
<1>4. r \in worker.todo /\ r \in Runlists
  BY <1>2, <1>3, LeastElement, Names
<1>. HIDE DEF r
<1>5. /\ WalkTypes' /\ walk'.runl = r /\ Range(walk'.buf) = {}
      /\ holder = Nobody /\ holder' = Recovery
  BY <1>2, <1>4, UpdateBeginIs
<1>6. /\ worker'.engm = worker.engm /\ worker'.todo = worker.todo \ {r} /\ worker'.pc = worker.pc
      /\ SoftTypes'
  BY <1>2 DEF RunlInv, SoftTypes, WorkUpdate, OfWork
<1>7. MutexInv'
  BY <1>5, Names DEF RunlInv, MutexInv, WorkUpdate, OfWork
<1>8. RecoveryInv'
  BY <1>6 DEF RunlInv, RecoveryInv, WorkUpdate, OfWork, Working, Calling
<1>9. HwInv'
  BY <1>5, <1>6, Names DEF RunlInv, HwInv, Owed, WorkUpdate, OfWork, listVars
<1>10. EngineInv'
  BY <1>6 DEF RunlInv, EngineInv, Found, WorkUpdate, OfWork
<1>. QED  BY <1>1, <1>5, <1>6, <1>7, <1>8, <1>9, <1>10 DEF RunlInv

LEMMA WorkCommitInv ==
  ASSUME RunlInv, WorkCommit
  PROVE  RunlInv'
<1>1. SoftTypes' /\ ListTypes' /\ RecoveryInv' /\ MemberInv' /\ EngineInv'
  BY Kept DEF WorkCommit, OfWork, listVars, lockVars
<1>2. Commit(Recovery)
  BY DEF WorkCommit
<1>3. HostTypes' /\ WalkTypes'
  BY <1>2, CommitIs DEF RunlInv, HostTypes, WorkCommit, OfWork
<1>4. MutexInv'
  BY <1>2, CommitIs, Names DEF RunlInv, MutexInv, WorkCommit, OfWork
<1>5. HwInv'
  BY <1>2, CommitHw DEF WorkCommit, OfWork, listVars
<1>. QED  BY <1>1, <1>3, <1>4, <1>5 DEF RunlInv

-----------------------------------------------------------------------------
(* The sections of recovery.                                               *)

\* The head of the calls, and what it is not.
LEMMA CallingIs ==
  ASSUME RunlInv, NEW k, Calling(k)
  PROVE  /\ sect.calls # <<>> /\ Head(sect.calls) \in Calls /\ Head(sect.calls).k = k
         /\ Range(sect.calls) = {Head(sect.calls)} \cup Range(Tail(sect.calls))
         /\ k # "mask" => ~Calling("mask")
         /\ k # "engn" => \A e, c : Head(sect.calls) \notin {Engn(e), EngnIf(e, c)}
<1>1. sect.calls # <<>> /\ sect.calls \in Seq(Calls) /\ Head(sect.calls).k = k
  BY DEF RunlInv, SoftTypes, Calling
<1>2. /\ Head(sect.calls) \in Calls
      /\ Range(sect.calls) = {Head(sect.calls)} \cup Range(Tail(sect.calls))
  BY <1>1, HeadIs
<1>3. k # "mask" => ~Calling("mask")
  BY <1>1 DEF Calling
<1>4. k # "engn" => \A e, c : Head(sect.calls) \notin {Engn(e), EngnIf(e, c)}
  BY <1>1 DEF Engn, EngnIf
<1>. QED  BY <1>1, <1>2, <1>3, <1>4

\* A call that recovers nothing, or has the work queued.
LEMMA ThenRecovery ==
  ASSUME RunlInv, sect.calls # <<>>, NEW calls \in Seq(Calls), Then(calls), UNCHANGED worker,
         recover'.runm = recover.runm,
         recover'.queued \/ (recover'.queued = recover.queued /\ ~Calling("mask"))
  PROVE  RecoveryInv' /\ sect' \in SectTypes
BY ThenIs DEF RunlInv, RecoveryInv, Working

\* An engine that is not the head's is found as before.
LEMMA EngineKept ==
  ASSUME RunlInv, sect.calls # <<>>, UNCHANGED <<on, usable, stuck, worker, owner>>,
         recover.engm \subseteq recover'.engm,
         Range(Tail(sect.calls)) \subseteq Range(sect'.calls),
         \A e \in Engines : on[e] # Nobody /\ Head(sect.calls) \in {Engn(e), EngnIf(e, on[e])} =>
            e \in recover'.engm
  PROVE  EngineInv'
<1>. SUFFICES ASSUME NEW e \in Engines, on[e] # Nobody, Found(e, on[e]), e \notin recover'.engm
              PROVE  {Engn(e), EngnIf(e, on[e])} \cap Range(sect'.calls) # {}
  BY DEF RunlInv, EngineInv, Found
<1>. QED  BY FoundKept DEF RunlInv

LEMMA RecoverMaskInv ==
  ASSUME RunlInv, RecoverMask
  PROVE  RunlInv'
<1>1. ListTypes' /\ WalkTypes' /\ MutexInv' /\ MemberInv'
  BY Kept DEF RecoverMask, listVars, mutexVars
<1>2. /\ sect.calls # <<>> /\ Head(sect.calls) \in Calls /\ Head(sect.calls).k = "mask"
      /\ \A e, c : Head(sect.calls) \notin {Engn(e), EngnIf(e, c)}
  BY CallingIs DEF RecoverMask
<1>3. <<>> \in Seq(Calls) /\ Then(<<>>)
  BY EmptySeq DEF RecoverMask, Returns
<1>4. recover' = [recover EXCEPT !.queued = TRUE]
  BY DEF RecoverMask
<1>5. /\ recover'.runm = recover.runm /\ recover'.engm = recover.engm /\ recover'.queued
      /\ recover' \in [engm : SUBSET Engines, runm : SUBSET Runlists, queued : BOOLEAN]
  BY <1>4 DEF RunlInv, SoftTypes
<1>6. RecoveryInv' /\ sect' \in SectTypes
  BY <1>2, <1>3, <1>5, ThenRecovery DEF RecoverMask
<1>7. SoftTypes'
  BY <1>5, <1>6 DEF RunlInv, SoftTypes, SectTypes, RecoverMask
<1>8. HostTypes'
  <2>1. Of \in Runlists
    BY <1>2, HeadTypes DEF Of
  <2>2. blocked' \subseteq Runlists
    BY <2>1 DEF RecoverMask, RunlInv, SoftTypes
  <2>. QED  BY <2>2 DEF RunlInv, HostTypes, RecoverMask
<1>9. HwInv'
  BY <1>5 DEF RunlInv, HwInv, Owed, RecoverMask, listVars, mutexVars
<1>10. Range(Tail(sect.calls)) \subseteq Range(sect'.calls)
  BY <1>2, <1>3, ThenIs DEF RunlInv
<1>11. EngineInv'
  BY <1>2, <1>5, <1>10, EngineKept DEF RecoverMask
<1>. QED  BY <1>1, <1>6, <1>7, <1>8, <1>9, <1>11 DEF RunlInv

LEMMA RecoverStatusInv ==
  ASSUME RunlInv, RecoverStatus
  PROVE  RunlInv'
<1>. DEFINE calls == IF on[Of] # Nobody THEN <<Chan(on[Of])>> ELSE <<>>
<1>1. HostTypes' /\ ListTypes' /\ WalkTypes' /\ MutexInv' /\ MemberInv'
  BY Kept DEF RecoverStatus, hostVars, listVars, mutexVars
<1>2. /\ sect.calls # <<>> /\ Head(sect.calls) \in Calls /\ Head(sect.calls).k = "status"
      /\ \A e, c : Head(sect.calls) \notin {Engn(e), EngnIf(e, c)}
  BY CallingIs DEF RecoverStatus
<1>3. Of \in Engines /\ on \in [Engines -> Chans \cup {Nobody}]
  BY <1>2, HeadTypes DEF Of, RunlInv, HostTypes
<1>4. calls \in Seq(Calls)
  BY <1>3, CallTypes, EmptySeq
<1>5. Then(calls)
  BY DEF RecoverStatus
<1>. HIDE DEF calls
<1>6. recover' = [recover EXCEPT !.queued = TRUE]
  BY DEF RecoverStatus
<1>7. /\ recover'.runm = recover.runm /\ recover'.engm = recover.engm /\ recover'.queued
      /\ recover' \in [engm : SUBSET Engines, runm : SUBSET Runlists, queued : BOOLEAN]
  BY <1>6 DEF RunlInv, SoftTypes
<1>8. RecoveryInv' /\ sect' \in SectTypes
  BY <1>2, <1>4, <1>5, <1>7, ThenRecovery DEF RecoverStatus
<1>9. SoftTypes'
  BY <1>7, <1>8 DEF RunlInv, SoftTypes, SectTypes, RecoverStatus
<1>10. HwInv'
  BY <1>7 DEF RunlInv, HwInv, Owed, RecoverStatus, listVars, mutexVars, hostVars
<1>11. Range(Tail(sect.calls)) \subseteq Range(sect'.calls)
  BY <1>2, <1>4, <1>5, ThenIs DEF RunlInv
<1>12. EngineInv'
  BY <1>2, <1>7, <1>11, EngineKept DEF RecoverStatus, hostVars
<1>. QED  BY <1>1, <1>8, <1>9, <1>10, <1>12 DEF RunlInv

LEMMA RecoverEngnInv ==
  ASSUME RunlInv, RecoverEngn
  PROVE  RunlInv'
<1>. DEFINE h == Head(sect.calls)
<1>1. HostTypes' /\ ListTypes' /\ WalkTypes' /\ MutexInv' /\ MemberInv'
  BY Kept DEF RecoverEngn, hostVars, listVars, mutexVars
<1>2. sect.calls # <<>> /\ h \in Calls /\ h.k = "engn" /\ ~Calling("mask")
  BY CallingIs DEF RecoverEngn
<1>3. h.of \in Engines /\ h.of = Of
  BY <1>2, HeadTypes DEF Of
<1>4. CASE Of \in recover.engm \/ Head(sect.calls).chan \notin {Nobody, on[Of]}
  <2>1. Then(<<>>) /\ UNCHANGED recover /\ <<>> \in Seq(Calls)
    BY <1>4, EmptySeq DEF RecoverEngn, Returns
  <2>2. RecoveryInv' /\ sect' \in SectTypes
    BY <1>2, <2>1, ThenRecovery DEF RecoverEngn
  <2>3. SoftTypes'
    BY <2>1, <2>2 DEF RunlInv, SoftTypes, SectTypes, RecoverEngn
  <2>4. HwInv'
    BY <2>1, Kept DEF RecoverEngn, listVars, hostVars, mutexVars
  <2>5. Range(Tail(sect.calls)) \subseteq Range(sect'.calls)
    BY <1>2, <2>1, ThenIs DEF RunlInv
  <2>6. \A e \in Engines :
          on[e] # Nobody /\ Head(sect.calls) \in {Engn(e), EngnIf(e, on[e])} => e \in recover'.engm
    <3>. SUFFICES ASSUME NEW e \in Engines, on[e] # Nobody, h \in {Engn(e), EngnIf(e, on[e])}
                  PROVE  e \in recover'.engm
      OBVIOUS
    <3>1. h.of = e /\ h.chan \in {Nobody, on[e]}
      BY DEF Engn, EngnIf
    <3>2. Of = e
      BY <1>3, <3>1
    <3>. QED  BY <3>1, <3>2, <1>4, <2>1
  <2>7. UNCHANGED <<on, usable, stuck, worker, owner>>
    BY DEF RecoverEngn, hostVars
  <2>8. EngineInv'
    BY <1>2, <2>1, <2>5, <2>6, <2>7, EngineKept
  <2>. QED  BY <1>1, <2>2, <2>3, <2>4, <2>8 DEF RunlInv
<1>5. CASE ~(Of \in recover.engm \/ Head(sect.calls).chan \notin {Nobody, on[Of]})
  <2>. DEFINE r == EngRunl[Of]
              engm == recover.engm \cup {Of}
              calls == <<Status(Of)>>
  <2>1. RecoverRunl(r, engm, calls)
    BY <1>5 DEF RecoverEngn
  <2>2. r \in Runlists /\ engm \in SUBSET Engines /\ calls \in Seq(Calls)
    <3>1. recover.engm \in SUBSET Engines
      BY DEF RunlInv, SoftTypes
    <3>2. Of \in Engines
      BY <1>3
    <3>3. r \in Runlists
      BY <3>2, Names
    <3>4. Status(Of) \in Calls
      BY <3>2, CallTypes
    <3>. QED  BY <3>1, <3>2, <3>3, <3>4
  <2>. HIDE DEF calls, r
  <2>3. /\ recover' = [recover EXCEPT !.engm = engm, !.runm = @ \cup {r}]
        /\ sect' \in SectTypes /\ RecoveryInv'
        /\ Range(calls) \cup Range(Tail(sect.calls)) \subseteq Range(sect'.calls)
    BY <1>2, <2>1, <2>2, RecoverRunlIs DEF RunlInv, RecoverEngn
  <2>4. /\ recover'.engm = engm /\ recover'.runm = recover.runm \cup {r}
        /\ recover' \in [engm : SUBSET Engines, runm : SUBSET Runlists, queued : BOOLEAN]
    BY <2>2, <2>3 DEF RunlInv, SoftTypes
  <2>5. SoftTypes'
    BY <2>3, <2>4 DEF RunlInv, SoftTypes, SectTypes, RecoverEngn
  <2>6. HwInv'
    BY <2>4 DEF RunlInv, HwInv, Owed, RecoverEngn, listVars, mutexVars, hostVars
  <2>7. \A e \in Engines :
          on[e] # Nobody /\ Head(sect.calls) \in {Engn(e), EngnIf(e, on[e])} => e \in recover'.engm
    <3>. SUFFICES ASSUME NEW e \in Engines, on[e] # Nobody, h \in {Engn(e), EngnIf(e, on[e])}
                  PROVE  e \in recover'.engm
      OBVIOUS
    <3>1. h.of = e /\ h.chan \in {Nobody, on[e]}
      BY DEF Engn, EngnIf
    <3>2. Of = e
      BY <1>3, <3>1
    <3>. QED  BY <3>1, <3>2, <2>4
  <2>8. UNCHANGED <<on, usable, stuck, worker, owner>>
    BY DEF RecoverEngn, hostVars
  <2>9. EngineInv'
    BY <1>2, <2>3, <2>4, <2>7, <2>8, EngineKept
  <2>. QED  BY <1>1, <2>3, <2>5, <2>6, <2>9 DEF RunlInv
<1>. QED  BY <1>4, <1>5

\* A channel leaves its list.
LEMMA Unlisted ==
  ASSUME ListTypes, NEW c \in Chans,
         runlist' = [runlist EXCEPT ![RunlOf[c]] = RemoveFirst(@, c)]
  PROVE  /\ runlist' \in [Runlists -> Seq(Chans)]
         /\ \A r \in Runlists :
              IsInjective(runlist'[r]) /\ \A x \in Range(runlist'[r]) : RunlOf[x] = r
         /\ \A x \in Chans : x \in Range(runlist'[RunlOf[x]]) <=> Listed(x) /\ x # c
<1>. DEFINE q == RemoveFirst(runlist[RunlOf[c]], c)
<1>1. RunlOf[c] \in Runlists
  BY Names
<1>2. q \in Seq(Chans) /\ IsInjective(q) /\ Range(q) = Range(runlist[RunlOf[c]]) \ {c}
  BY <1>1, RemoveFirstIs DEF ListTypes
<1>3. runlist' = [runlist EXCEPT ![RunlOf[c]] = q]
  OBVIOUS
<1>. HIDE DEF q
<1>4. \A r \in Runlists : runlist'[r] = IF r = RunlOf[c] THEN q ELSE runlist[r]
  BY <1>1, <1>3 DEF ListTypes
<1>5. runlist' \in [Runlists -> Seq(Chans)]
  BY <1>2, <1>3 DEF ListTypes
<1>6. \A r \in Runlists :
        IsInjective(runlist'[r]) /\ \A x \in Range(runlist'[r]) : RunlOf[x] = r
  BY <1>2, <1>4 DEF ListTypes
<1>7. \A x \in Chans : x \in Range(runlist'[RunlOf[x]]) <=> Listed(x) /\ x # c
  <2>. SUFFICES ASSUME NEW x \in Chans
                PROVE  x \in Range(runlist'[RunlOf[x]]) <=> Listed(x) /\ x # c
    OBVIOUS
  <2>1. CASE RunlOf[x] = RunlOf[c]
    BY <1>1, <1>2, <1>4, <2>1 DEF Listed
  <2>2. CASE RunlOf[x] # RunlOf[c]
    <3>1. RunlOf[x] \in Runlists /\ x # c
      BY <2>2, Names
    <3>. QED  BY <1>4, <2>2, <3>1 DEF Listed
  <2>. QED  BY <2>1, <2>2
<1>. QED  BY <1>5, <1>6, <1>7

LEMMA RecoverChanInv ==
  ASSUME RunlInv, RecoverChan
  PROVE  RunlInv'
<1>1. WalkTypes' /\ MutexInv'
  BY Kept DEF RecoverChan, mutexVars
<1>2. /\ sect.calls # <<>> /\ Head(sect.calls) \in Calls /\ Head(sect.calls).k = "chan"
      /\ ~Calling("mask") /\ \A e, c : Head(sect.calls) \notin {Engn(e), EngnIf(e, c)}
  BY CallingIs DEF RecoverChan
<1>3. Of \in Chans
  BY <1>2, HeadTypes DEF Of
<1>4. CASE Of \notin usable
  <2>1. /\ Then(<<>>) /\ UNCHANGED recover /\ <<>> \in Seq(Calls)
        /\ UNCHANGED <<hostVars, listVars, mutexVars, worker, owner>>
    BY <1>4, EmptySeq DEF RecoverChan, Returns, hostVars
  <2>2. HostTypes' /\ ListTypes' /\ MemberInv' /\ HwInv'
    BY <2>1, Kept DEF hostVars, listVars, mutexVars
  <2>3. RecoveryInv' /\ sect' \in SectTypes
    BY <1>2, <2>1, ThenRecovery
  <2>4. SoftTypes'
    BY <2>1, <2>3 DEF RunlInv, SoftTypes, SectTypes
  <2>5. Range(Tail(sect.calls)) \subseteq Range(sect'.calls)
    BY <1>2, <2>1, ThenIs DEF RunlInv
  <2>6. EngineInv'
    BY <1>2, <2>1, <2>5, EngineKept DEF hostVars
  <2>. QED  BY <1>1, <2>2, <2>3, <2>4, <2>6 DEF RunlInv
<1>5. CASE Of \in usable
  <2>1. PICK c \in Chans : c = Of
    BY <1>3
  <2>. DEFINE r == RunlOf[c]
              f == [e \in Engines |-> EngnIf(e, c)]
              s == EnginesOf(r)
              calls == [i \in DOMAIN s |-> f[s[i]]]
  <2>2. r \in Runlists /\ f \in [Engines -> Calls]
    BY Names, CallTypes
  <2>3. s \in Seq(Engines) /\ Range(s) = {e \in Engines : EngRunl[e] = r}
    BY <2>2, EnginesOfIs
  <2>4. [i \in DOMAIN s |-> EngnIf(s[i], c)] = calls
    <3>1. \A i \in DOMAIN s : s[i] \in Engines
      BY <2>3 DEF Range
    <3>. QED  BY <3>1
  <2>5. RecoverRunl(r, recover.engm, calls)
    <3>1. RecoverRunl(r, recover.engm, [i \in DOMAIN s |-> EngnIf(s[i], c)])
      BY <1>5, <2>1 DEF RecoverChan
    <3>. QED  BY <2>4, <3>1
  <2>6. calls \in Seq(Calls) /\ \A e \in Range(s) : f[e] \in Range(calls)
    BY <2>2, <2>3, MapIs
  <2>7. \A e \in Engines : EngRunl[e] = r => EngnIf(e, c) \in Range(calls)
    BY <2>3, <2>6
  <2>8. /\ runlist' = [runlist EXCEPT ![r] = RemoveFirst(@, c)]
        /\ dead' = IF Listed(c) THEN dead \cup {c} ELSE dead
        /\ usable' = usable \ {c}
        /\ UNCHANGED <<bound, blocked, hwlist, on, stuck, mutexVars, worker, owner>>
    BY <1>5, <2>1 DEF RecoverChan
  <2>. HIDE DEF calls, s, f
  <2>9. recover.engm \in SUBSET Engines
    BY DEF RunlInv, SoftTypes
  <2>10. /\ recover' = [recover EXCEPT !.engm = recover.engm, !.runm = @ \cup {r}]
         /\ sect' \in SectTypes /\ RecoveryInv'
         /\ Range(calls) \cup Range(Tail(sect.calls)) \subseteq Range(sect'.calls)
    BY <1>2, <2>2, <2>5, <2>6, <2>8, <2>9, RecoverRunlIs DEF RunlInv
  <2>11. /\ recover'.engm = recover.engm /\ recover'.runm = recover.runm \cup {r}
         /\ recover' \in [engm : SUBSET Engines, runm : SUBSET Runlists, queued : BOOLEAN]
    BY <2>2, <2>10 DEF RunlInv, SoftTypes
  <2>12. SoftTypes'
    BY <2>8, <2>10, <2>11 DEF RunlInv, SoftTypes, SectTypes
  <2>13. HostTypes'
    BY <2>8 DEF RunlInv, HostTypes
  <2>14. /\ ListTypes'
         /\ \A x \in Chans : Listed(x)' <=> Listed(x) /\ x # c
    BY <2>8, Unlisted DEF RunlInv, ListTypes, Listed
  <2>15. MemberInv'
    BY <2>8, <2>14 DEF RunlInv, MemberInv, ListTypes, Member, Outside
  <2>16. HwInv'
    <3>1. \A x \in dead' : x \in dead \/ x = c
      BY <2>8
    <3>2. \A x : Owed(x) => Owed(x)'
      BY <2>8, <2>11 DEF Owed
    <3>3. Owed(r)'
      BY <2>11 DEF Owed
    <3>. QED  BY <2>8, <3>1, <3>2, <3>3 DEF RunlInv, HwInv, mutexVars
  <2>17. EngineInv'
    <3>. SUFFICES ASSUME NEW e \in Engines, on[e] # Nobody,
                           e \notin recover'.engm \cup worker'.engm \cup stuck',
                         on[e] \notin usable', owner'[on[e]] # "kick"
                  PROVE  {Engn(e), EngnIf(e, on[e])} \cap Range(sect'.calls) # {}
      BY <2>8 DEF EngineInv, Found
    <3>1. CASE on[e] = c
      <4>1. EngRunl[e] = r
        BY <3>1 DEF RunlInv, HostTypes
      <4>. QED  BY <2>7, <2>10, <3>1, <4>1
    <3>2. CASE on[e] # c
      <4>1. Found(e, on[e])
        BY <2>8, <2>11, <3>2 DEF RunlInv, EngineInv
      <4>. QED  BY <1>2, <2>10, <4>1, FoundKept DEF RunlInv
    <3>. QED  BY <3>1, <3>2
  <2>. QED  BY <1>1, <2>10, <2>12, <2>13, <2>14, <2>15, <2>16, <2>17 DEF RunlInv
<1>. QED  BY <1>4, <1>5

\* A section begins, with calls of it.
LEMMA EnterIs ==
  ASSUME RunlInv, NEW x \in Chans \cup {Intr}, NEW calls \in Seq(Calls), Enter(x, calls),
         UNCHANGED <<hostVars, listVars, mutexVars, recover, worker, owner>>
  PROVE  RunlInv'
<1>1. HostTypes' /\ ListTypes' /\ WalkTypes' /\ MutexInv' /\ MemberInv' /\ HwInv'
  BY Kept DEF hostVars, listVars, mutexVars
<1>2. /\ sect' = [by |-> x, calls |-> calls, seen |-> {}] /\ sect.calls = <<>>
      /\ x # Nobody
  BY Names DEF Enter, RunlInv, RecoveryInv
<1>3. SoftTypes'
  BY <1>2 DEF RunlInv, SoftTypes
<1>4. ~Calling("mask")
  BY <1>2 DEF Calling
<1>5. RecoveryInv'
  BY <1>2, <1>4 DEF RunlInv, RecoveryInv, Working
<1>6. \A e, c : ~Found(e, c)
  BY <1>2 DEF Found, Range
<1>7. EngineInv'
  BY <1>6 DEF RunlInv, EngineInv, hostVars
<1>. QED  BY <1>1, <1>3, <1>5, <1>7 DEF RunlInv

LEMMA FaultInv ==
  ASSUME RunlInv, NEW e \in Engines, Fault(e)
  PROVE  RunlInv'
<1>1. PICK found \in BOOLEAN :
        Enter(Intr, (IF found /\ on[e] # Nobody THEN <<Chan(on[e])>> ELSE <<>>) \o <<Engn(e)>>)
  BY DEF Fault
<1>. DEFINE first == IF found /\ on[e] # Nobody THEN <<Chan(on[e])>> ELSE <<>>
<1>2. on[e] \in Chans \cup {Nobody}
  BY DEF RunlInv, HostTypes
<1>3. first \in Seq(Calls) /\ <<Engn(e)>> \in Seq(Calls)
  BY <1>2, CallTypes, EmptySeq
<1>. HIDE DEF first
<1>4. first \o <<Engn(e)>> \in Seq(Calls)
  BY <1>3, ConcatProperties
<1>5. Enter(Intr, first \o <<Engn(e)>>)
  BY <1>1 DEF first
<1>6. UNCHANGED <<hostVars, listVars, mutexVars, recover, worker, owner>>
  BY DEF Fault
<1>. QED  BY <1>4, <1>5, <1>6, EnterIs

LEMMA SchedCtxswInv ==
  ASSUME RunlInv, SchedCtxsw
  PROVE  RunlInv'
<1>. DEFINE s == InOrder(stuck)
            f == [e \in Engines |-> Engn(e)]
            calls == [i \in DOMAIN s |-> f[s[i]]]
<1>1. stuck \subseteq Engines /\ stuck \in SUBSET Nat /\ IsFiniteSet(stuck)
  BY Names, FS_Subset DEF RunlInv, HostTypes
<1>2. s \in Seq(stuck)
  BY <1>1, InOrderIs
<1>3. s \in Seq(Engines)
  BY <1>1, <1>2, SeqMonotonic
<1>4. f \in [Engines -> Calls]
  BY CallTypes
<1>5. calls \in Seq(Calls)
  BY <1>3, <1>4, MapIs
<1>6. [i \in DOMAIN s |-> Engn(s[i])] = calls
  <2>1. \A i \in DOMAIN s : s[i] \in Engines
    BY <1>3, LenProperties, ElementOfSeq
  <2>. QED  BY <2>1
<1>7. Enter(Intr, [i \in DOMAIN s |-> Engn(s[i])])
  BY DEF SchedCtxsw
<1>. HIDE DEF calls, s
<1>8. Enter(Intr, calls)
  BY <1>6, <1>7
<1>9. UNCHANGED <<hostVars, listVars, mutexVars, recover, worker, owner>>
  BY DEF SchedCtxsw
<1>. QED  BY <1>5, <1>8, <1>9, EnterIs

-----------------------------------------------------------------------------
(* The threads of the channels.                                            *)

LEMMA MoveIs ==
  ASSUME RunlInv, NEW c \in Chans, NEW pc \in Member \cup Outside, MoveTo(c, pc)
  PROVE  /\ owner' \in [Chans -> Member \cup Outside] /\ owner'[c] = pc
         /\ \A x \in Chans : x # c => owner'[x] = owner[x]
         /\ UNCHANGED <<lockVars, worker>> => SoftTypes'
BY DEF RunlInv, SoftTypes, MoveTo, lockVars

\* Engines, if nobody has kicked a channel.
LEMMA EngineMove ==
  ASSUME RunlInv, UNCHANGED <<on, stuck, lockVars, worker>>, usable \subseteq usable',
         \A x \in Chans : owner[x] = "kick" => owner'[x] = "kick"
  PROVE  EngineInv'
<1>1. \A e \in Engines : on[e] # Nobody => on[e] \in Chans
  BY DEF RunlInv, HostTypes
<1>. QED  BY <1>1 DEF RunlInv, EngineInv, Found, lockVars

LEMMA ChanInitInv ==
  ASSUME RunlInv, NEW c \in Chans, ChanInit(c)
  PROVE  RunlInv'
<1>1. ListTypes' /\ WalkTypes' /\ RecoveryInv' /\ HwInv'
  BY Kept DEF ChanInit, listVars, mutexVars, lockVars
<1>2. PICK pc \in {"insert", "on"} :
        /\ MoveTo(c, pc)
        /\ pc = "insert" => ~Listed(c) /\ c \notin dead
        /\ pc = "on" => Listed(c) \/ c \in dead
  BY DEF ChanInit
<1>3. owner[c] = "off" /\ bound' = bound \cup {c}
  BY DEF ChanInit, OwnerAt
<1>4. /\ SoftTypes' /\ owner'[c] = pc
      /\ \A x \in Chans : x # c => owner'[x] = owner[x]
  BY <1>2, MoveIs DEF Member, Outside, ChanInit
<1>5. HostTypes'
  BY <1>3 DEF RunlInv, HostTypes, ChanInit
<1>6. MutexInv'
  BY <1>4 DEF RunlInv, MutexInv, ChanInit, mutexVars
<1>7. MemberInv'
  BY <1>2, <1>3, <1>4 DEF RunlInv, ListTypes, MemberInv, ChanInit, Listed, listVars, Member, Outside, Disabled
<1>8. EngineInv'
  BY <1>3, <1>4, EngineMove DEF ChanInit
<1>. QED  BY <1>1, <1>4, <1>5, <1>6, <1>7, <1>8 DEF RunlInv

\* A channel joins its list.
LEMMA NowListed ==
  ASSUME ListTypes, NEW c \in Chans, ~Listed(c),
         runlist' = [runlist EXCEPT ![RunlOf[c]] = Append(@, c)]
  PROVE  /\ runlist' \in [Runlists -> Seq(Chans)]
         /\ \A r \in Runlists :
              IsInjective(runlist'[r]) /\ \A x \in Range(runlist'[r]) : RunlOf[x] = r
         /\ \A x \in Chans : x \in Range(runlist'[RunlOf[x]]) <=> Listed(x) \/ x = c
<1>. DEFINE q == Append(runlist[RunlOf[c]], c)
<1>1. RunlOf[c] \in Runlists
  BY Names
<1>2. q \in Seq(Chans) /\ IsInjective(q) /\ Range(q) = Range(runlist[RunlOf[c]]) \cup {c}
  BY <1>1, AppendIs DEF ListTypes, Listed
<1>3. runlist' = [runlist EXCEPT ![RunlOf[c]] = q]
  OBVIOUS
<1>. HIDE DEF q
<1>4. \A r \in Runlists : runlist'[r] = IF r = RunlOf[c] THEN q ELSE runlist[r]
  BY <1>1, <1>3 DEF ListTypes
<1>5. runlist' \in [Runlists -> Seq(Chans)]
  BY <1>2, <1>3 DEF ListTypes
<1>6. \A r \in Runlists :
        IsInjective(runlist'[r]) /\ \A x \in Range(runlist'[r]) : RunlOf[x] = r
  BY <1>2, <1>4 DEF ListTypes
<1>7. \A x \in Chans : x \in Range(runlist'[RunlOf[x]]) <=> Listed(x) \/ x = c
  <2>. SUFFICES ASSUME NEW x \in Chans
                PROVE  x \in Range(runlist'[RunlOf[x]]) <=> Listed(x) \/ x = c
    OBVIOUS
  <2>1. CASE RunlOf[x] = RunlOf[c]
    BY <1>1, <1>2, <1>4, <2>1 DEF Listed
  <2>2. CASE RunlOf[x] # RunlOf[c]
    <3>1. RunlOf[x] \in Runlists /\ x # c
      BY <2>2, Names
    <3>. QED  BY <1>4, <2>2, <3>1 DEF Listed
  <2>. QED  BY <2>1, <2>2
<1>. QED  BY <1>5, <1>6, <1>7

LEMMA RunlistInsertInv ==
  ASSUME RunlInv, NEW c \in Chans, RunlistInsert(c)
  PROVE  RunlInv'
<1>1. HostTypes' /\ WalkTypes' /\ RecoveryInv' /\ HwInv'
  BY Kept DEF RunlistInsert, hostVars, mutexVars, lockVars
<1>2. /\ owner[c] = "insert" /\ MoveTo(c, "enable")
      /\ runlist' = [runlist EXCEPT ![RunlOf[c]] = Append(@, c)]
  BY DEF RunlistInsert, OwnerAt
<1>3. /\ SoftTypes' /\ owner'[c] = "enable"
      /\ \A x \in Chans : x # c => owner'[x] = owner[x]
  BY <1>2, MoveIs DEF Member, RunlistInsert
<1>4. ~Listed(c) /\ c \notin dead
  BY <1>2 DEF RunlInv, MemberInv, Outside
<1>5. /\ ListTypes' /\ \A x \in Chans : Listed(x)' <=> Listed(x) \/ x = c
  BY <1>2, <1>4, NowListed DEF RunlInv, ListTypes, Listed, RunlistInsert
<1>6. MutexInv'
  BY <1>3 DEF RunlInv, MutexInv, RunlistInsert, mutexVars
<1>7. MemberInv'
  BY <1>2, <1>3, <1>4, <1>5
  DEF RunlInv, ListTypes, MemberInv, RunlistInsert, hostVars, Member, Outside, Disabled
<1>8. EngineInv'
  BY <1>2, <1>3, EngineMove DEF RunlistInsert, hostVars
<1>. QED  BY <1>1, <1>3, <1>5, <1>6, <1>7, <1>8 DEF RunlInv

LEMMA EnableInv ==
  ASSUME RunlInv, NEW c \in Chans, Enable(c)
  PROVE  RunlInv'
<1>1. ListTypes' /\ WalkTypes' /\ RecoveryInv' /\ HwInv'
  BY Kept DEF Enable, listVars, mutexVars, lockVars
<1>2. PICK pc \in {"insertUpdate", "on"} : MoveTo(c, pc)
  BY DEF Enable
<1>3. owner[c] \in {"enable", "enableAgain"} /\ usable' = usable \cup {c}
  BY DEF Enable, OwnerAt
<1>4. /\ SoftTypes' /\ owner'[c] = pc
      /\ \A x \in Chans : x # c => owner'[x] = owner[x]
  BY <1>2, MoveIs DEF Member, Enable
<1>5. HostTypes'
  BY <1>3 DEF RunlInv, HostTypes, Enable
<1>6. MutexInv'
  BY <1>4 DEF RunlInv, MutexInv, Enable, mutexVars
<1>7. MemberInv'
  BY <1>3, <1>4 DEF RunlInv, ListTypes, MemberInv, Enable, Listed, listVars, Member, Outside, Disabled
<1>8. EngineInv'
  BY <1>3, <1>4, EngineMove DEF Enable
<1>. QED  BY <1>1, <1>4, <1>5, <1>6, <1>7, <1>8 DEF RunlInv

LEMMA ChanUpdateInv ==
  ASSUME RunlInv, NEW c \in Chans, ChanUpdate(c)
  PROVE  RunlInv'
<1>1. HostTypes' /\ ListTypes' /\ RecoveryInv'
  BY Kept DEF ChanUpdate, hostVars, listVars, lockVars
<1>2. PICK pc \in {"inserted", "removed"} :
        MoveTo(c, pc) /\ owner[c] = (IF pc = "inserted" THEN "insertUpdate" ELSE "removeUpdate")
  BY DEF ChanUpdate, OwnerAt
<1>3. /\ SoftTypes' /\ owner'[c] = pc
      /\ \A x \in Chans : x # c => owner'[x] = owner[x]
  BY <1>2, MoveIs DEF Member, Outside, ChanUpdate
<1>4. /\ WalkTypes' /\ walk'.runl = RunlOf[c] /\ Range(walk'.buf) = {}
      /\ holder = Nobody /\ holder' = c
  BY Names, UpdateBeginIs DEF ChanUpdate
<1>5. MutexInv'
  BY <1>3, <1>4, Names DEF RunlInv, MutexInv
<1>6. MemberInv'
  BY <1>2, <1>3
  DEF RunlInv, ListTypes, MemberInv, ChanUpdate, Listed, listVars, hostVars, Member, Outside, Disabled
<1>7. HwInv'
  BY <1>4, Names DEF RunlInv, HwInv, Owed, ChanUpdate, listVars, lockVars, hostVars
<1>8. EngineInv'
  BY <1>2, <1>3, EngineMove DEF ChanUpdate, hostVars
<1>. QED  BY <1>1, <1>3, <1>4, <1>5, <1>6, <1>7, <1>8 DEF RunlInv

LEMMA ChanCommitInv ==
  ASSUME RunlInv, NEW c \in Chans, ChanCommit(c)
  PROVE  RunlInv'
<1>1. ListTypes' /\ RecoveryInv'
  BY Kept DEF ChanCommit, listVars, lockVars
<1>2. PICK pc \in {"enableAgain", "unbind"} :
        MoveTo(c, pc) /\ owner[c] = (IF pc = "enableAgain" THEN "inserted" ELSE "removed")
  BY DEF ChanCommit, OwnerAt
<1>3. /\ SoftTypes' /\ owner'[c] = pc
      /\ \A x \in Chans : x # c => owner'[x] = owner[x]
  BY <1>2, MoveIs DEF Member, Outside, ChanCommit
<1>4. Commit(c)
  BY DEF ChanCommit
<1>5. HostTypes' /\ WalkTypes'
  BY <1>4, CommitIs DEF RunlInv, HostTypes, ChanCommit
<1>6. MutexInv'
  BY <1>3, <1>4, CommitIs DEF RunlInv, MutexInv
<1>7. MemberInv'
  BY <1>2, <1>3
  DEF RunlInv, ListTypes, MemberInv, ChanCommit, Listed, listVars, Member, Outside, Disabled
<1>8. HwInv'
  BY <1>4, CommitHw DEF ChanCommit, listVars, lockVars
<1>9. EngineInv'
  BY <1>2, <1>3, EngineMove DEF ChanCommit
<1>. QED  BY <1>1, <1>3, <1>5, <1>6, <1>7, <1>8, <1>9 DEF RunlInv

LEMMA ChanFiniInv ==
  ASSUME RunlInv, NEW c \in Chans, ChanFini(c)
  PROVE  RunlInv'
<1>1. HostTypes' /\ ListTypes' /\ WalkTypes' /\ RecoveryInv' /\ HwInv'
  BY Kept DEF ChanFini, hostVars, listVars, mutexVars, lockVars
<1>2. owner[c] = "on" /\ MoveTo(c, "detach")
  BY DEF ChanFini, OwnerAt
<1>3. /\ SoftTypes' /\ owner'[c] = "detach"
      /\ \A x \in Chans : x # c => owner'[x] = owner[x]
  BY <1>2, MoveIs DEF Member, ChanFini
<1>4. MutexInv'
  BY <1>3 DEF RunlInv, MutexInv, ChanFini, mutexVars
<1>5. MemberInv'
  BY <1>2, <1>3
  DEF RunlInv, ListTypes, MemberInv, ChanFini, Listed, listVars, hostVars, Member, Outside, Disabled
<1>6. EngineInv'
  BY <1>2, <1>3, EngineMove DEF ChanFini, hostVars
<1>. QED  BY <1>1, <1>3, <1>4, <1>5, <1>6 DEF RunlInv

LEMMA GpfifoKickInv ==
  ASSUME RunlInv, NEW c \in Chans, GpfifoKick(c)
  PROVE  RunlInv'
<1>1. ListTypes' /\ WalkTypes' /\ RecoveryInv'
  BY Kept DEF GpfifoKick, listVars, lockVars
<1>2. PICK pc \in {"detaching", "kicking", "fini", "removeUpdate"} :
        /\ MoveTo(c, pc)
        /\ owner[c] = (IF pc \in {"detaching", "fini"} THEN "detach" ELSE "kick")
        /\ holder' = (IF pc \in {"detaching", "kicking"} THEN c ELSE holder)
  BY DEF GpfifoKick, OwnerAt
<1>3. /\ SoftTypes' /\ owner'[c] = pc
      /\ \A x \in Chans : x # c => owner'[x] = owner[x]
  BY <1>2, MoveIs DEF Member, Outside, GpfifoKick
<1>4. /\ holder = Nobody /\ walk.runl = Nobody /\ walk' = walk
  BY DEF RunlInv, MutexInv, GpfifoKick
<1>5. /\ on' = [e \in Engines |-> IF on[e] = c /\ e \notin stuck THEN Nobody ELSE on[e]]
      /\ UNCHANGED <<bound, usable, blocked, hwlist, stuck>>
  BY DEF GpfifoKick
<1>6. HostTypes'
  BY <1>5 DEF RunlInv, HostTypes
<1>7. MutexInv'
  BY <1>2, <1>3, <1>4, Names DEF RunlInv, MutexInv
<1>8. MemberInv'
  BY <1>2, <1>3
  DEF RunlInv, ListTypes, MemberInv, GpfifoKick, Listed, listVars, Member, Outside, Disabled
<1>9. HwInv'
  BY <1>4, Names DEF RunlInv, HwInv, Owed, GpfifoKick, listVars, lockVars
<1>10. EngineInv'
  <2>. SUFFICES ASSUME NEW e \in Engines, on'[e] # Nobody
                PROVE  \/ on[e] \in usable' \/ e \in recover'.engm \cup worker'.engm \cup stuck'
                       \/ owner'[on[e]] = "kick" \/ Found(e, on[e])'
    BY <1>5 DEF EngineInv
  <2>1. on[e] # Nobody /\ on[e] \in Chans /\ (on[e] = c => e \in stuck)
    BY <1>5 DEF RunlInv, HostTypes
  <2>. QED  BY <1>3, <1>5, <2>1 DEF RunlInv, EngineInv, Found, GpfifoKick, lockVars
<1>. QED  BY <1>1, <1>3, <1>6, <1>7, <1>8, <1>9, <1>10 DEF RunlInv

\* The thread lets go of the mutex after a kick.
LEMMA Released ==
  ASSUME RunlInv, NEW c \in Chans, owner[c] \in {"detaching", "kicking"},
         NEW pc \in {"fini", "on", "removeUpdate"}, MoveTo(c, pc),
         pc = "removeUpdate" <=> owner[c] = "kicking",
         holder' = Nobody, UNCHANGED <<hostVars, listVars, walk, recover, worker>>
  PROVE  MutexInv' /\ MemberInv' /\ HwInv' /\ (UNCHANGED lockVars => EngineInv')
<1>1. /\ owner'[c] = pc /\ \A x \in Chans : x # c => owner'[x] = owner[x]
  BY MoveIs DEF Member, Outside
<1>2. holder = c /\ walk.runl = Nobody
  BY DEF RunlInv, MutexInv
<1>3. MutexInv'
  BY <1>1, <1>2 DEF RunlInv, MutexInv
<1>4. MemberInv'
  BY <1>1
  DEF RunlInv, ListTypes, MemberInv, Listed, listVars, hostVars, Member, Outside, Disabled
<1>5. HwInv'
  BY <1>2, Names DEF RunlInv, HwInv, Owed, listVars, hostVars
<1>6. UNCHANGED lockVars => EngineInv'
  BY <1>1, EngineMove DEF hostVars
<1>. QED  BY <1>3, <1>4, <1>5, <1>6

LEMMA KickedInv ==
  ASSUME RunlInv, NEW c \in Chans, Kicked(c)
  PROVE  RunlInv'
<1>1. HostTypes' /\ ListTypes' /\ WalkTypes' /\ RecoveryInv'
  BY Kept DEF Kicked, hostVars, listVars, lockVars
<1>2. PICK pc \in {"fini", "removeUpdate"} :
        /\ MoveTo(c, pc) /\ owner[c] \in {"detaching", "kicking"}
        /\ pc = "removeUpdate" <=> owner[c] = "kicking"
  BY DEF Kicked, OwnerAt
<1>3. SoftTypes'
  BY <1>2, MoveIs DEF Member, Outside, Kicked
<1>4. MutexInv' /\ MemberInv' /\ HwInv' /\ EngineInv'
  BY <1>2, Released DEF Kicked, lockVars
<1>. QED  BY <1>1, <1>3, <1>4 DEF RunlInv

LEMMA KickTimesOutInv ==
  ASSUME RunlInv, NEW c \in Chans, KickTimesOut(c)
  PROVE  RunlInv'
<1>1. Enter(c, <<Chan(c)>>) /\ <<Chan(c)>> \in Seq(Calls)
  BY CallTypes DEF KickTimesOut
<1>2. UNCHANGED <<hostVars, listVars, mutexVars, recover, worker, owner>>
  BY DEF KickTimesOut
<1>. QED  BY <1>1, <1>2, EnterIs

LEMMA KickFailsInv ==
  ASSUME RunlInv, NEW c \in Chans, KickFails(c)
  PROVE  RunlInv'
<1>1. HostTypes' /\ ListTypes' /\ WalkTypes'
  BY Kept DEF KickFails, hostVars, listVars
<1>2. PICK pc \in {"fini", "on", "removeUpdate"} :
        /\ MoveTo(c, pc) /\ owner[c] \in {"detaching", "kicking"}
        /\ pc = "removeUpdate" <=> owner[c] = "kicking"
  BY DEF KickFails, OwnerAt
<1>3. sect.calls = <<>> /\ sect' = NoSect /\ UNCHANGED <<recover, worker>>
  BY DEF KickFails
<1>4. /\ owner' \in [Chans -> Member \cup Outside] /\ owner'[c] = pc
      /\ \A x \in Chans : x # c => owner'[x] = owner[x]
  BY <1>2, MoveIs DEF Member, Outside
<1>5. SoftTypes'
  BY <1>3, <1>4, EmptySeq DEF RunlInv, SoftTypes, NoSect
<1>6. RecoveryInv'
  BY <1>3 DEF RunlInv, RecoveryInv, Working, Calling, NoSect
<1>7. MutexInv' /\ MemberInv' /\ HwInv'
  BY <1>2, Released DEF KickFails
<1>8. \A e, x : ~Found(e, x)
  BY <1>3 DEF Found, Range
<1>9. EngineInv'
  <2>1. \A e \in Engines : on[e] # Nobody => on[e] \in Chans
    BY DEF RunlInv, HostTypes
  <2>. QED  BY <1>2, <1>3, <1>4, <1>8, <2>1 DEF RunlInv, EngineInv, KickFails, hostVars
<1>. QED  BY <1>1, <1>5, <1>6, <1>7, <1>9 DEF RunlInv

LEMMA GpfifoFiniInv ==
  ASSUME RunlInv, NEW c \in Chans, GpfifoFini(c)
  PROVE  RunlInv'
<1>1. HostTypes' /\ ListTypes' /\ WalkTypes' /\ RecoveryInv' /\ HwInv'
  BY Kept DEF GpfifoFini, hostVars, listVars, mutexVars, lockVars
<1>2. PICK pc \in {"remove", "unbind"} : MoveTo(c, pc) /\ (pc = "remove" <=> Listed(c))
  BY DEF GpfifoFini
<1>3. owner[c] = "fini"
  BY DEF GpfifoFini, OwnerAt
<1>4. /\ SoftTypes' /\ owner'[c] = pc
      /\ \A x \in Chans : x # c => owner'[x] = owner[x]
  BY <1>2, MoveIs DEF Member, Outside, GpfifoFini
<1>5. MutexInv'
  BY <1>4 DEF RunlInv, MutexInv, GpfifoFini, mutexVars
<1>6. MemberInv'
  BY <1>2, <1>3, <1>4
  DEF RunlInv, ListTypes, MemberInv, GpfifoFini, Listed, listVars, hostVars, Member, Outside, Disabled
<1>7. EngineInv'
  BY <1>3, <1>4, EngineMove DEF GpfifoFini, hostVars
<1>. QED  BY <1>1, <1>4, <1>5, <1>6, <1>7 DEF RunlInv

LEMMA RunlistRemoveInv ==
  ASSUME RunlInv, NEW c \in Chans, RunlistRemove(c)
  PROVE  RunlInv'
<1>1. HostTypes' /\ WalkTypes' /\ RecoveryInv' /\ HwInv'
  BY Kept DEF RunlistRemove, hostVars, mutexVars, lockVars
<1>2. /\ owner[c] = "remove" /\ MoveTo(c, "disable")
      /\ runlist' = [runlist EXCEPT ![RunlOf[c]] = RemoveFirst(@, c)]
  BY DEF RunlistRemove, OwnerAt
<1>3. /\ SoftTypes' /\ owner'[c] = "disable"
      /\ \A x \in Chans : x # c => owner'[x] = owner[x]
  BY <1>2, MoveIs DEF Outside, RunlistRemove
<1>4. /\ ListTypes' /\ \A x \in Chans : Listed(x)' <=> Listed(x) /\ x # c
  BY <1>2, Unlisted DEF RunlInv, ListTypes, Listed, RunlistRemove
<1>5. MutexInv'
  BY <1>3 DEF RunlInv, MutexInv, RunlistRemove, mutexVars
<1>6. MemberInv'
  BY <1>2, <1>3, <1>4
  DEF RunlInv, ListTypes, MemberInv, RunlistRemove, hostVars, Member, Outside, Disabled
<1>7. EngineInv'
  BY <1>2, <1>3, EngineMove DEF RunlistRemove, hostVars
<1>. QED  BY <1>1, <1>3, <1>4, <1>5, <1>6, <1>7 DEF RunlInv

LEMMA DisableInv ==
  ASSUME RunlInv, NEW c \in Chans, Disable(c)
  PROVE  RunlInv'
<1>1. ListTypes' /\ WalkTypes' /\ RecoveryInv' /\ HwInv'
  BY Kept DEF Disable, listVars, mutexVars, lockVars
<1>2. /\ owner[c] = "disable" /\ MoveTo(c, "kick") /\ usable' = usable \ {c}
  BY DEF Disable, OwnerAt
<1>3. /\ SoftTypes' /\ owner'[c] = "kick"
      /\ \A x \in Chans : x # c => owner'[x] = owner[x]
  BY <1>2, MoveIs DEF Outside, Disable
<1>4. HostTypes'
  BY <1>2 DEF RunlInv, HostTypes, Disable
<1>5. MutexInv'
  BY <1>3 DEF RunlInv, MutexInv, Disable, mutexVars
<1>6. MemberInv'
  BY <1>2, <1>3
  DEF RunlInv, ListTypes, MemberInv, Disable, Listed, listVars, Member, Outside, Disabled
<1>7. EngineInv'
  <2>1. \A e \in Engines : on[e] # Nobody => on[e] \in Chans
    BY DEF RunlInv, HostTypes
  <2>. QED  BY <1>2, <1>3, <2>1 DEF RunlInv, EngineInv, Found, Disable, lockVars
<1>. QED  BY <1>1, <1>3, <1>4, <1>5, <1>6, <1>7 DEF RunlInv

LEMMA UnbindInv ==
  ASSUME RunlInv, NEW c \in Chans, Unbind(c)
  PROVE  RunlInv'
<1>1. ListTypes' /\ WalkTypes' /\ RecoveryInv' /\ HwInv'
  BY Kept DEF Unbind, listVars, mutexVars, lockVars
<1>2. /\ owner[c] = "unbind" /\ MoveTo(c, "off") /\ bound' = bound \ {c}
  BY DEF Unbind, OwnerAt
<1>3. /\ SoftTypes' /\ owner'[c] = "off"
      /\ \A x \in Chans : x # c => owner'[x] = owner[x]
  BY <1>2, MoveIs DEF Outside, Unbind
<1>4. HostTypes'
  BY <1>2 DEF RunlInv, HostTypes, Unbind
<1>5. MutexInv'
  BY <1>3 DEF RunlInv, MutexInv, Unbind, mutexVars
<1>6. MemberInv'
  BY <1>2, <1>3
  DEF RunlInv, ListTypes, MemberInv, Unbind, Listed, listVars, Member, Outside, Disabled
<1>7. EngineInv'
  BY <1>2, <1>3, EngineMove DEF Unbind
<1>. QED  BY <1>1, <1>3, <1>4, <1>5, <1>6, <1>7 DEF RunlInv

LEMMA OwnerInv ==
  ASSUME RunlInv, NEW c \in Chans, OwnerStep(c)
  PROVE  RunlInv'
BY ChanInitInv, RunlistInsertInv, ChanUpdateInv, ChanCommitInv, EnableInv, ChanFiniInv,
   GpfifoKickInv, KickedInv, KickTimesOutInv, KickFailsInv, GpfifoFiniInv, RunlistRemoveInv,
   DisableInv, UnbindInv DEF OwnerStep

-----------------------------------------------------------------------------
(* The GPU, the initial state, and the theorems.                           *)

LEMMA LoadInv ==
  ASSUME RunlInv, NEW e \in Engines, NEW c \in Chans, Load(e, c)
  PROVE  RunlInv'
<1>1. SoftTypes' /\ ListTypes' /\ WalkTypes' /\ MutexInv' /\ RecoveryInv' /\ MemberInv' /\ HwInv'
  BY Kept DEF Load, swVars, listVars, mutexVars, lockVars
<1>2. on' = [on EXCEPT ![e] = c] /\ c \in usable /\ c \in hwlist[EngRunl[e]]
  BY DEF Load
<1>3. RunlOf[c] = EngRunl[e]
  BY <1>2, Names DEF RunlInv, HostTypes
<1>4. HostTypes'
  BY <1>2, <1>3 DEF RunlInv, HostTypes, Load
<1>5. EngineInv'
  BY <1>2 DEF RunlInv, HostTypes, EngineInv, Found, Load, swVars, lockVars
<1>. QED  BY <1>1, <1>4, <1>5 DEF RunlInv

LEMMA YieldInv ==
  ASSUME RunlInv, NEW e \in Engines, Yield(e)
  PROVE  RunlInv'
<1>1. SoftTypes' /\ ListTypes' /\ WalkTypes' /\ MutexInv' /\ RecoveryInv' /\ MemberInv' /\ HwInv'
  BY Kept DEF Yield, swVars, listVars, mutexVars, lockVars
<1>2. on' = [on EXCEPT ![e] = Nobody]
  BY DEF Yield
<1>3. HostTypes'
  BY <1>2 DEF RunlInv, HostTypes, Yield
<1>4. EngineInv'
  BY <1>2 DEF RunlInv, HostTypes, EngineInv, Found, Yield, swVars, lockVars
<1>. QED  BY <1>1, <1>3, <1>4 DEF RunlInv

LEMMA EngineHangsInv ==
  ASSUME RunlInv, NEW e \in Engines, EngineHangs(e)
  PROVE  RunlInv'
<1>1. SoftTypes' /\ ListTypes' /\ WalkTypes' /\ MutexInv' /\ RecoveryInv' /\ MemberInv' /\ HwInv'
  BY Kept DEF EngineHangs, listVars, mutexVars, lockVars
<1>2. HostTypes'
  BY DEF RunlInv, HostTypes, EngineHangs
<1>3. EngineInv'
  BY DEF RunlInv, EngineInv, Found, EngineHangs, lockVars
<1>. QED  BY <1>1, <1>2, <1>3 DEF RunlInv

LEMMA InitInv ==
  ASSUME RunlInit
  PROVE  RunlInv
<1>1. ASSUME NEW r \in Runlists
      PROVE  /\ hwlist[r] = {c \in Residents : RunlOf[c] = r}
             /\ runlist[r] \in Seq(Chans) /\ Range(runlist[r]) = hwlist[r]
             /\ IsInjective(runlist[r])
  <2>. DEFINE S == {c \in Residents : RunlOf[c] = r}
  <2>1. hwlist[r] = S /\ runlist[r] = SetToSeq(S)
    BY DEF RunlInit
  <2>2. S \subseteq Chans /\ IsFiniteSet(S)
    BY Names, FS_Subset
  <2>. HIDE DEF S
  <2>3. SetToSeq(S) \in Seq(S) /\ Range(SetToSeq(S)) = S /\ IsInjective(SetToSeq(S))
    BY <2>2, SetToSeqIs
  <2>4. SetToSeq(S) \in Seq(Chans)
    BY <2>2, <2>3, SeqMonotonic
  <2>. QED  BY <2>1, <2>3, <2>4 DEF S
<1>2. <<>> \in Seq(Chans) /\ <<>> \in Seq(Calls) /\ Range(<<>>) = {}
  BY EmptySeq DEF Range
<1>3. HostTypes
  BY Names DEF RunlInit, HostTypes
<1>4. SoftTypes
  BY <1>2 DEF RunlInit, SoftTypes, NoSect, NoWork, WorkerPcs, Member, Outside
<1>5. ListTypes
  <2>1. runlist \in [Runlists -> Seq(Chans)]
    BY <1>1 DEF RunlInit
  <2>. QED  BY <1>1, <2>1 DEF RunlInit, ListTypes
<1>6. WalkTypes /\ walk.runl = Nobody
  BY <1>2 DEF RunlInit, WalkTypes, NoWalk
<1>7. MutexInv
  BY <1>6 DEF RunlInit, MutexInv
<1>8. RecoveryInv
  BY DEF RunlInit, RecoveryInv, NoSect, NoWork
<1>9. MemberInv
  <2>1. \A c \in Chans : Listed(c) <=> c \in Residents
    <3>. SUFFICES ASSUME NEW c \in Chans PROVE Listed(c) <=> c \in Residents
      OBVIOUS
    <3>1. RunlOf[c] \in Runlists
      BY Names
    <3>. QED  BY <1>1, <3>1 DEF Listed
  <2>. QED  BY <2>1 DEF RunlInit, MemberInv, Member, Outside, Disabled
<1>10. HwInv /\ EngineInv
  BY DEF RunlInit, HwInv, EngineInv
<1>. QED  BY <1>3, <1>4, <1>5, <1>6, <1>7, <1>8, <1>9, <1>10 DEF RunlInv

LEMMA RunlStep == RunlInv /\ [RunlNext]_runlVars => RunlInv'
<1>. SUFFICES ASSUME RunlInv, [RunlNext]_runlVars PROVE RunlInv'
  OBVIOUS
<1>1. CASE UNCHANGED runlVars
  BY <1>1, Kept DEF runlVars, swVars, hostVars, listVars, mutexVars, lockVars, RunlInv
<1>2. CASE RecoverWorkStep
  BY <1>2, WorkDequeueInv, WorkTakeInv, WorkReadInv, WorkWriteInv, WorkResetInv, WorkUpdateInv,
     WorkCommitInv DEF RecoverWorkStep
<1>3. CASE SectStep
  BY <1>3, RecoverChanInv, RecoverEngnInv, RecoverStatusInv, RecoverMaskInv DEF SectStep
<1>. QED  BY <1>1, <1>2, <1>3, OwnerInv, WalkStepInv, FaultInv, YieldInv, EngineHangsInv, LoadInv,
             SchedCtxswInv DEF RunlNext

\* Lists, masks, walks and engines agree in every state, with any number of
\* recoveries under way.
THEOREM RunlistCorrect == RunlSpec => []RunlInv
<1>1. RunlInit => RunlInv
  BY InitInv
<1>. QED  BY <1>1, RunlStep, PTL DEF RunlSpec

\* A killed channel is off its list and, when the worker is through, off that
\* of the hardware; no engine stays on a channel whose instance is gone
\* (gk104_fifo_recover_chan, gk104_fifo_recover_work, gk104_fifo_gpfifo_fini).
THEOREM Retired == RunlSpec => []ChannelRetired
<1>1. RunlInv => DeadLeaving
  <2>. SUFFICES ASSUME RunlInv, NEW c \in dead
                PROVE  LET r == RunlOf[c] IN
                         /\ ~Listed(c)
                         /\ c \in hwlist[r] => Pending(r)
                         /\ walk.runl = r /\ c \in Range(walk.buf) => r \in recover.runm \cup worker.todo
    BY DEF DeadLeaving
  <2>1. ~Listed(c)
    BY DEF RunlInv, MemberInv
  <2>2. c \in hwlist[RunlOf[c]] => Pending(RunlOf[c])
    BY DEF RunlInv, HwInv, RecoveryInv, Owed, Pending
  <2>3. walk.runl = RunlOf[c] /\ c \in Range(walk.buf) => RunlOf[c] \in recover.runm \cup worker.todo
    BY DEF RunlInv, HwInv, Owed
  <2>. QED  BY <2>1, <2>2, <2>3
<1>2. RunlInv => UnboundReset
  <2>. SUFFICES ASSUME RunlInv, sect.by = Nobody, NEW e \in Engines, on[e] # Nobody, on[e] \notin bound
                PROVE  e \in recover.engm \cup worker.engm \cup stuck \/ on[e] \in dead \cap usable
    BY DEF UnboundReset
  <2>1. on[e] \in Chans
    BY DEF RunlInv, HostTypes
  <2>2. owner[on[e]] = "off" /\ (on[e] \in usable => on[e] \in dead)
    BY <2>1 DEF RunlInv, MemberInv, Disabled
  <2>3. sect.calls = <<>>
    BY DEF RunlInv, RecoveryInv
  <2>4. ~Found(e, on[e])
    BY <2>3 DEF Found, Range
  <2>. QED  BY <2>2, <2>4 DEF RunlInv, EngineInv
<1>. QED  BY <1>1, <1>2, RunlistCorrect, PTL DEF ChannelRetired
=============================================================================
