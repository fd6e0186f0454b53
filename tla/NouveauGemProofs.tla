-------------------------- MODULE NouveauGemProofs --------------------------
(***************************************************************************)
(* Proofs about NouveauGem: for any clients, buffers and requests, on both *)
(* families of GPUs, the commands that a channel is given find the buffers *)
(* where they were validated, and are in order with those of the others.   *)
(***************************************************************************)
EXTENDS NouveauGem, FiniteSetTheorems, SequenceTheorems, WellFoundedInduction, NaturalsInduction, TLAPS

-----------------------------------------------------------------------------
(* Sequences.                                                              *)

LEMMA LeastNat ==
  ASSUME NEW S \in SUBSET Nat, S # {}
  PROVE  \E x \in S : \A y \in S : x <= y
<1>. DEFINE R == OpToRel(<, Nat)
<1>1. IsWellFoundedOn(R, Nat)
  BY NatLessThanWellFounded
<1>2. \A a, b \in Nat : a < b => <<a, b>> \in R
  BY DEF OpToRel
<1>. HIDE DEF R
<1>3. PICK x \in S : \A y \in S : ~(<<y, x>> \in R)
  BY <1>1, WFMin
<1>4. \A y \in S : ~(y < x)
  BY <1>2, <1>3
<1>. QED  BY <1>4

LEMMA SetInduction ==
  ASSUME NEW S, 0 \in S, \A n \in Nat : n \in S => n + 1 \in S
  PROVE  Nat \subseteq S
<1>. SUFFICES ASSUME ~(Nat \subseteq S) PROVE FALSE
  OBVIOUS
<1>. DEFINE T == Nat \ S
<1>1. PICK x \in T : \A y \in T : x <= y
  BY LeastNat
<1>2. x # 0 /\ x - 1 \in Nat /\ x - 1 \notin T
  BY <1>1
<1>3. x - 1 + 1 = x
  BY <1>1
<1>. QED  BY <1>1, <1>2, <1>3

LEMMA AppendIs ==
  ASSUME NEW T, NEW s \in Seq(T), NEW x \in T
  PROVE  /\ Append(s, x) \in Seq(T) /\ Len(Append(s, x)) = Len(s) + 1
         /\ \A i \in 1 .. Len(s) : Append(s, x)[i] = s[i]
         /\ Append(s, x)[Len(s) + 1] = x
         /\ Range(Append(s, x)) = Range(s) \cup {x}
<1>1. Len(s) \in Nat
  BY LenProperties
<1>2. /\ Append(s, x) \in Seq(T) /\ Len(Append(s, x)) = Len(s) + 1
      /\ \A i \in 1 .. Len(s) : Append(s, x)[i] = s[i]
      /\ Append(s, x)[Len(s) + 1] = x
  BY AppendProperties
<1>3. DOMAIN s = 1 .. Len(s) /\ DOMAIN Append(s, x) = 1 .. Len(s) + 1
  BY <1>2, LenProperties
<1>4. \A i \in 1 .. Len(s) + 1 : i \in 1 .. Len(s) \/ i = Len(s) + 1
  BY <1>1
<1>5. \A i \in 1 .. Len(s) : i \in 1 .. Len(s) + 1
  BY <1>1
<1>6. Len(s) + 1 \in 1 .. Len(s) + 1
  BY <1>1
<1>. DEFINE a == Append(s, x)
<1>7. DOMAIN a = 1 .. Len(s) + 1 /\ (\A i \in 1 .. Len(s) : a[i] = s[i]) /\ a[Len(s) + 1] = x
  BY <1>2, <1>3
<1>. HIDE DEF a
<1>8. Range(a) = Range(s) \cup {x}
  BY <1>3, <1>4, <1>5, <1>6, <1>7 DEF Range
<1>. QED  BY <1>2, <1>8 DEF a

\* The elements of s up to each place that are in S.
Choosing(s, S, n, f) ==
  f = [j \in 0 .. n |-> IF j = 0 THEN <<>> ELSE IF s[j] \in S THEN Append(f[j - 1], s[j]) ELSE f[j - 1]]

LEMMA ChoosingExists ==
  ASSUME NEW s, NEW S, NEW m \in Nat
  PROVE  \E f : Choosing(s, S, m, f)
<1>. DEFINE N == {n \in Nat : \E f : Choosing(s, S, n, f)}
<1>1. 0 \in N
  <2>. DEFINE f == [j \in 0 .. 0 |-> <<>>]
  <2>1. Choosing(s, S, 0, f)
    BY DEF Choosing
  <2>. QED  BY <2>1
<1>2. ASSUME NEW n \in Nat, n \in N PROVE n + 1 \in N
  <2>1. PICK f : Choosing(s, S, n, f)
    BY <1>2
  <2>. DEFINE last == IF s[n + 1] \in S THEN Append(f[n], s[n + 1]) ELSE f[n]
              g == [j \in 0 .. n + 1 |-> IF j = n + 1 THEN last ELSE f[j]]
  <2>2. \A j \in 0 .. n : f[j] = IF j = 0 THEN <<>> ELSE IF s[j] \in S THEN Append(f[j - 1], s[j]) ELSE f[j - 1]
    BY <2>1 DEF Choosing
  <2>3. ASSUME NEW j \in 0 .. n + 1
        PROVE  g[j] = IF j = 0 THEN <<>> ELSE IF s[j] \in S THEN Append(g[j - 1], s[j]) ELSE g[j - 1]
    <3>1. CASE j = n + 1
      <4>1. n \in 0 .. n + 1 /\ n # n + 1 /\ j - 1 = n /\ j # 0
        BY <3>1
      <4>. HIDE DEF last
      <4>2. g[j] = last /\ g[j - 1] = f[n]
        BY <3>1, <4>1
      <4>. QED  BY <3>1, <4>1, <4>2 DEF last
    <3>2. CASE j = 0
      <4>1. 0 \in 0 .. n + 1 /\ 0 # n + 1 /\ 0 \in 0 .. n
        OBVIOUS
      <4>. HIDE DEF last
      <4>. QED  BY <2>2, <3>2, <4>1
    <3>3. CASE j # n + 1 /\ j # 0
      <4>1. j \in 0 .. n /\ j - 1 \in 0 .. n /\ j - 1 \in 0 .. n + 1 /\ j - 1 # n + 1
        BY <3>3
      <4>. HIDE DEF last
      <4>2. g[j] = f[j] /\ g[j - 1] = f[j - 1]
        BY <3>3, <4>1
      <4>. QED  BY <2>2, <3>3, <4>1, <4>2
    <3>. QED  BY <3>1, <3>2, <3>3
  <2>4. DOMAIN g = 0 .. n + 1 /\ g = [j \in 0 .. n + 1 |-> g[j]]
    BY Zenon
  <2>. HIDE DEF g
  <2>5. Choosing(s, S, n + 1, g)
    BY <2>3, <2>4 DEF Choosing
  <2>. QED  BY <2>5
<1>. HIDE DEF N
<1>3. m \in N
  BY <1>1, <1>2, SetInduction
<1>. QED  BY <1>3 DEF N

LEMMA ThoseIs ==
  ASSUME NEW T, NEW s \in Seq(T), NEW S
  PROVE  Those(s, S) \in Seq(T) /\ Range(Those(s, S)) = Range(s) \cap S
<1>. DEFINE m == Len(s)
            f == CHOOSE g : Choosing(s, S, m, g)
            Upto(n) == {s[j] : j \in 1 .. n}
            N == {n \in Nat : n <= m => f[n] \in Seq(T) /\ Range(f[n]) = Upto(n) \cap S}
<1>1. m \in Nat /\ \A j \in 1 .. m : s[j] \in T
  BY LenProperties, ElementOfSeq
<1>2. Choosing(s, S, m, f)
  BY <1>1, ChoosingExists
<1>3. Those(s, S) = f[m]
  BY DEF Those, Choosing
<1>. HIDE DEF f, m
<1>4. \A j \in 0 .. m : f[j] = IF j = 0 THEN <<>> ELSE IF s[j] \in S THEN Append(f[j - 1], s[j]) ELSE f[j - 1]
  BY <1>2 DEF Choosing
<1>5. 0 \in N
  <2>1. f[0] = <<>>
    BY <1>1, <1>4
  <2>2. <<>> \in Seq(T) /\ Range(<<>>) = {} /\ Upto(0) = {}
    BY EmptySeq DEF Range
  <2>. QED  BY <2>1, <2>2
<1>6. ASSUME NEW n \in Nat, n \in N PROVE n + 1 \in N
  <2>. SUFFICES ASSUME n + 1 <= m PROVE f[n + 1] \in Seq(T) /\ Range(f[n + 1]) = Upto(n + 1) \cap S
    OBVIOUS
  <2>1. n + 1 \in 1 .. m /\ n + 1 \in 0 .. m /\ n + 1 # 0 /\ n + 1 - 1 = n /\ n <= m
    BY <1>1
  <2>2. f[n] \in Seq(T) /\ Range(f[n]) = Upto(n) \cap S
    BY <1>6, <2>1
  <2>3. f[n + 1] = IF s[n + 1] \in S THEN Append(f[n], s[n + 1]) ELSE f[n]
    BY <1>4, <2>1
  <2>4. Upto(n + 1) = Upto(n) \cup {s[n + 1]}
    OBVIOUS
  <2>5. s[n + 1] \in T
    BY <1>1, <2>1
  <2>. HIDE DEF Upto
  <2>6. CASE s[n + 1] \in S
    <3>1. f[n + 1] = Append(f[n], s[n + 1])
      BY <2>3, <2>6
    <3>2. Append(f[n], s[n + 1]) \in Seq(T) /\ Range(Append(f[n], s[n + 1])) = Range(f[n]) \cup {s[n + 1]}
      BY <2>2, <2>5, AppendIs
    <3>. QED  BY <2>2, <2>4, <2>6, <3>1, <3>2
  <2>7. CASE s[n + 1] \notin S
    BY <2>2, <2>3, <2>4, <2>7
  <2>. QED  BY <2>6, <2>7
<1>7. m \in N
  <2>. HIDE DEF N
  <2>. QED  BY <1>1, <1>5, <1>6, SetInduction
<1>8. f[m] \in Seq(T) /\ Range(f[m]) = Upto(m) \cap S
  BY <1>7
<1>9. Range(s) = Upto(m)
  BY DEF Range, m
<1>. QED  BY <1>3, <1>8, <1>9

-----------------------------------------------------------------------------
(* Fences in a ring, and how far the rings may have been executed.         *)

Numbers == Channels \X Nat

Maps == UNION {[B -> Places] : B \in SUBSET Bos}

Jobs ==
  UNION {[k : {"job"}, uses : [B -> BOOLEAN], place : [B -> Places], at : Maps, loose : BOOLEAN]
           : B \in SUBSET Bos}

Items == Jobs \cup [k : {"acquire"}, fence : Numbers] \cup {FenceItem}

Rings == [Channels -> Seq(Items)]

\* How many fences are among the first n items.
Count(s, n) == Cardinality({j \in 1 .. n : s[j] = FenceItem})

\* The fence is one of a ring, or has signalled.
Known(rg, f) == f # Nil => f \in Numbers /\ f[2] <= Count(rg[f[1]], Len(rg[f[1]]))
AcquiresKnown(rg) ==
  \A c \in Channels : \A i \in 1 .. Len(rg[c]) : rg[c][i].k = "acquire" => Known(rg, rg[c][i].fence)

\* What the GPU may have executed of each ring, before more is added: of an acquire
\* it has executed the fence before.
Done(rg, K, f) == f # Nil => f[2] <= Count(rg[f[1]], K[f[1]])
Cuts(rg) ==
  {K \in [Channels -> Nat] :
     /\ \A c \in Channels : K[c] <= Len(rg[c])
     /\ \A c \in Channels : \A i \in 1 .. K[c] :
          rg[c][i].k = "acquire" => Done(rg, K, rg[c][i].fence)}

LEMMA NumberIs ==
  ASSUME NEW f \in Numbers
  PROVE  f # Nil /\ f[1] \in Channels /\ f[2] \in Nat /\ f = <<f[1], f[2]>>
  BY GemAssumption DEF Numbers

LEMMA ItemIs ==
  /\ FenceItem \in Items /\ FenceItem.k = "fence"
  /\ \A x \in Items : /\ x.k \in {"job", "acquire", "fence"}
                      /\ x.k = "fence" <=> x = FenceItem
                      /\ x.k = "acquire" => x.fence \in Numbers /\ x = Acquire(x.fence)
                      /\ x.k = "job" => x \in Jobs
  /\ \A f \in Numbers : Acquire(f) \in Items /\ Acquire(f).k = "acquire" /\ Acquire(f).fence = f
<1>1. \A x \in Jobs : x.k = "job"
  BY DEF Jobs
<1>2. \A x \in [k : {"acquire"}, fence : Numbers] : x.k = "acquire" /\ x.fence \in Numbers /\ x = Acquire(x.fence)
  BY DEF Acquire
<1>3. FenceItem.k = "fence"
  BY DEF FenceItem
<1>4. \A f \in Numbers : /\ Acquire(f) \in [k : {"acquire"}, fence : Numbers]
                         /\ Acquire(f).k = "acquire" /\ Acquire(f).fence = f
  BY DEF Acquire
<1>. QED  BY <1>1, <1>2, <1>3, <1>4 DEF Items

LEMMA RingIs ==
  ASSUME NEW rg \in Rings, NEW c \in Channels
  PROVE  /\ rg[c] \in Seq(Items) /\ Len(rg[c]) \in Nat /\ DOMAIN rg[c] = 1 .. Len(rg[c])
         /\ \A i \in 1 .. Len(rg[c]) : rg[c][i] \in Items
<1>1. rg[c] \in Seq(Items)
  BY DEF Rings
<1>. QED  BY <1>1, LenProperties, ElementOfSeq

LEMMA CountType ==
  ASSUME NEW s, NEW n \in Nat
  PROVE  /\ Count(s, n) \in Nat /\ IsFiniteSet({j \in 1 .. n : s[j] = FenceItem})
<1>1. IsFiniteSet(1 .. n)
  BY FS_Interval
<1>2. IsFiniteSet({j \in 1 .. n : s[j] = FenceItem})
  BY <1>1, FS_Subset
<1>. QED  BY <1>2, FS_CardinalityType DEF Count

LEMMA CountNext ==
  ASSUME NEW s, NEW n \in Nat
  PROVE  Count(s, n + 1) = Count(s, n) + (IF s[n + 1] = FenceItem THEN 1 ELSE 0)
<1>. DEFINE C(m) == {j \in 1 .. m : s[j] = FenceItem}
<1>1. IsFiniteSet(C(n)) /\ n + 1 \notin C(n) /\ Cardinality(C(n)) \in Nat
  BY CountType DEF Count
<1>2. C(n + 1) = IF s[n + 1] = FenceItem THEN C(n) \cup {n + 1} ELSE C(n)
  OBVIOUS
<1>. HIDE DEF C
<1>3. Cardinality(C(n) \cup {n + 1}) = Cardinality(C(n)) + 1
  BY <1>1, FS_AddElement
<1>4. Count(s, n) = Cardinality(C(n)) /\ Count(s, n + 1) = Cardinality(C(n + 1))
  BY DEF Count, C
<1>. QED  BY <1>1, <1>2, <1>3, <1>4

LEMMA CountZero == \A s : Count(s, 0) = 0
<1>. SUFFICES ASSUME NEW s PROVE Count(s, 0) = 0
  OBVIOUS
<1>1. {j \in 1 .. 0 : s[j] = FenceItem} = {}
  OBVIOUS
<1>. QED  BY <1>1, FS_EmptySet DEF Count

LEMMA CountMore ==
  ASSUME NEW s, NEW m \in Nat, NEW n \in Nat, m <= n
  PROVE  Count(s, m) <= Count(s, n)
<1>1. {j \in 1 .. m : s[j] = FenceItem} \subseteq {j \in 1 .. n : s[j] = FenceItem}
  OBVIOUS
<1>. QED  BY <1>1, CountType, FS_Subset DEF Count

LEMMA CountSame ==
  ASSUME NEW s, NEW r, NEW n \in Nat, \A j \in 1 .. n : s[j] = FenceItem <=> r[j] = FenceItem
  PROVE  Count(s, n) = Count(r, n)
<1>1. {j \in 1 .. n : s[j] = FenceItem} = {j \in 1 .. n : r[j] = FenceItem}
  OBVIOUS
<1>. QED  BY <1>1 DEF Count

LEMMA CountTail ==
  ASSUME NEW s, NEW r, NEW n \in Nat, \A j \in 1 .. n : r[j] = FenceItem <=> s[j + 1] = FenceItem
  PROVE  Count(s, n + 1) = Count(r, n) + (IF s[1] = FenceItem THEN 1 ELSE 0)
<1>. DEFINE h == IF s[1] = FenceItem THEN 1 ELSE 0
            N == {m \in Nat : m <= n => Count(s, m + 1) = Count(r, m) + h}
<1>1. 0 \in N
  <2>1. Count(s, 0 + 1) = Count(s, 0) + h
    BY CountNext
  <2>. QED  BY <2>1, CountZero
<1>2. ASSUME NEW m \in Nat, m \in N PROVE m + 1 \in N
  <2>. SUFFICES ASSUME m + 1 <= n PROVE Count(s, m + 1 + 1) = Count(r, m + 1) + h
    OBVIOUS
  <2>1. m + 1 \in 1 .. n /\ m + 1 \in Nat
    OBVIOUS
  <2>2. Count(s, m + 1) = Count(r, m) + h
    BY <1>2
  <2>3. Count(s, m + 1 + 1) = Count(s, m + 1) + (IF s[m + 1 + 1] = FenceItem THEN 1 ELSE 0)
    BY <2>1, CountNext
  <2>4. Count(r, m + 1) = Count(r, m) + (IF r[m + 1] = FenceItem THEN 1 ELSE 0)
    BY CountNext
  <2>5. Count(r, m) \in Nat /\ h \in Nat
    BY CountType
  <2>. HIDE DEF h
  <2>. QED  BY <2>1, <2>2, <2>3, <2>4, <2>5
<1>. HIDE DEF N
<1>3. n \in N
  BY <1>1, <1>2, SetInduction
<1>. QED  BY <1>3 DEF N

LEMMA CutIs ==
  ASSUME NEW rg \in Rings, NEW K \in Cuts(rg)
  PROVE  /\ K \in [Channels -> Nat]
         /\ \A c \in Channels : K[c] \in 0 .. Len(rg[c])
         /\ \A c \in Channels : \A i \in 1 .. K[c] :
              rg[c][i].k = "acquire" => Done(rg, K, rg[c][i].fence)
<1>1. /\ K \in [Channels -> Nat]
      /\ \A c \in Channels : K[c] <= Len(rg[c])
      /\ \A c \in Channels : \A i \in 1 .. K[c] :
           rg[c][i].k = "acquire" => Done(rg, K, rg[c][i].fence)
  BY DEF Cuts
<1>2. \A c \in Channels : Len(rg[c]) \in Nat /\ K[c] \in Nat
  BY <1>1, RingIs
<1>. QED  BY <1>1, <1>2

LEMMA NothingDone ==
  ASSUME NEW rg \in Rings
  PROVE  [c \in Channels |-> 0] \in Cuts(rg)
<1>. DEFINE K == [c \in Channels |-> 0]
<1>1. K \in [Channels -> Nat] /\ \A c \in Channels : K[c] = 0
  OBVIOUS
<1>2. \A c \in Channels : Len(rg[c]) \in Nat
  BY RingIs
<1>. HIDE DEF K
<1>3. K \in Cuts(rg)
  BY <1>1, <1>2 DEF Cuts
<1>. QED  BY <1>3 DEF K

\* What has signalled is done, and so are the fences of a ring that is executed.
LEMMA SignalledDone ==
  ASSUME NEW rg \in Rings, NEW K \in Cuts(rg), NEW f, Known(rg, f)
  PROVE  /\ Signalled(f) => Done(rg, K, f)
         /\ \A c \in Channels : f # Nil /\ f[1] = c /\ K[c] = Len(rg[c]) => Done(rg, K, f)
<1>1. f # Nil => Count(rg[f[1]], K[f[1]]) \in Nat
  BY NumberIs, CutIs, CountType DEF Known
<1>. QED  BY <1>1, NumberIs, CutIs DEF Known, Done, Signalled

\* Items are added to the ring of c.
Extends(rg, new, c, items) == items \in Seq(Items) /\ new = [rg EXCEPT ![c] = @ \o items]
Upon(rg, c, K) == [K EXCEPT ![c] = IF @ <= Len(rg[c]) THEN @ ELSE Len(rg[c])]

LEMMA ExtendedRing ==
  ASSUME NEW rg \in Rings, NEW c \in Channels, NEW items, NEW new, Extends(rg, new, c, items)
  PROVE  /\ new \in Rings /\ Len(items) \in Nat
         /\ Len(new[c]) = Len(rg[c]) + Len(items)
         /\ \A i \in 1 .. Len(rg[c]) : new[c][i] = rg[c][i]
         /\ \A i \in 1 .. Len(items) : new[c][Len(rg[c]) + i] = items[i]
         /\ \A i \in Len(rg[c]) + 1 .. Len(new[c]) : i - Len(rg[c]) \in 1 .. Len(items) /\ new[c][i] = items[i - Len(rg[c])]
         /\ \A d \in Channels \ {c} : new[d] = rg[d]
<1>1. rg[c] \in Seq(Items) /\ items \in Seq(Items) /\ rg \in [Channels -> Seq(Items)]
  BY RingIs DEF Extends, Rings
<1>2. new = [rg EXCEPT ![c] = rg[c] \o items]
  BY DEF Extends
<1>. DEFINE s == rg[c] \o items
<1>3. /\ s \in Seq(Items) /\ Len(s) = Len(rg[c]) + Len(items)
      /\ \A i \in 1 .. Len(s) : s[i] = IF i <= Len(rg[c]) THEN rg[c][i] ELSE items[i - Len(rg[c])]
  BY <1>1, ConcatProperties
<1>4. Len(rg[c]) \in Nat /\ Len(items) \in Nat
  BY <1>1, LenProperties
<1>. HIDE DEF s
<1>5. new \in Rings /\ new[c] = s /\ \A d \in Channels \ {c} : new[d] = rg[d]
  BY <1>1, <1>2, <1>3 DEF Rings, s
<1>6. \A i \in 1 .. Len(rg[c]) : s[i] = rg[c][i]
  BY <1>3, <1>4
<1>7. ASSUME NEW i \in 1 .. Len(items) PROVE s[Len(rg[c]) + i] = items[i]
  <2>1. PICK j \in 1 .. Len(s) : j = Len(rg[c]) + i
    BY <1>3, <1>4
  <2>2. ~(j <= Len(rg[c])) /\ j - Len(rg[c]) = i
    BY <1>4, <2>1
  <2>. QED  BY <1>3, <2>1, <2>2
<1>8. ASSUME NEW i \in Len(rg[c]) + 1 .. Len(s)
      PROVE  i - Len(rg[c]) \in 1 .. Len(items) /\ s[i] = items[i - Len(rg[c])]
  <2>1. i \in 1 .. Len(s) /\ ~(i <= Len(rg[c])) /\ i - Len(rg[c]) \in 1 .. Len(items)
    BY <1>3, <1>4
  <2>. QED  BY <1>3, <2>1
<1>. QED  BY <1>3, <1>4, <1>5, <1>6, <1>7, <1>8

LEMMA ExtendedCount ==
  ASSUME NEW rg \in Rings, NEW c \in Channels, NEW items, NEW new, Extends(rg, new, c, items),
         NEW d \in Channels, NEW n \in 0 .. Len(rg[d])
  PROVE  Count(new[d], n) = Count(rg[d], n)
<1>1. Len(rg[d]) \in Nat
  BY RingIs
<1>2. n \in Nat /\ \A j \in 1 .. n : j \in 1 .. Len(rg[d])
  BY <1>1
<1>3. \A j \in 1 .. n : new[d][j] = rg[d][j]
  BY <1>2, ExtendedRing
<1>. QED  BY <1>2, <1>3, CountSame

LEMMA ExtendedKnown ==
  ASSUME NEW rg \in Rings, NEW c \in Channels, NEW items, NEW new, Extends(rg, new, c, items),
         NEW f, Known(rg, f)
  PROVE  Known(new, f)
<1>. SUFFICES ASSUME f # Nil PROVE f \in Numbers /\ f[2] <= Count(new[f[1]], Len(new[f[1]]))
  BY DEF Known
<1>1. f \in Numbers /\ f[2] <= Count(rg[f[1]], Len(rg[f[1]])) /\ f[1] \in Channels /\ f[2] \in Nat
  BY NumberIs DEF Known
<1>. DEFINE d == f[1]
<1>2. Len(rg[d]) \in Nat /\ Len(new[d]) \in Nat /\ Len(rg[d]) <= Len(new[d])
  <2>1. new \in Rings
    BY ExtendedRing
  <2>2. Len(rg[d]) \in Nat /\ Len(new[d]) \in Nat
    BY <1>1, <2>1, RingIs
  <2>3. Len(items) \in Nat /\ Len(new[c]) = Len(rg[c]) + Len(items) /\ (d # c => new[d] = rg[d])
    BY <1>1, ExtendedRing
  <2>. QED  BY <2>2, <2>3
<1>3. Count(new[d], Len(rg[d])) = Count(rg[d], Len(rg[d]))
  <2>1. Len(rg[d]) \in 0 .. Len(rg[d]) /\ d \in Channels
    BY <1>1, <1>2
  <2>. QED  BY <2>1, ExtendedCount
<1>4. Count(new[d], Len(rg[d])) <= Count(new[d], Len(new[d]))
  BY <1>2, CountMore
<1>5. Count(new[d], Len(rg[d])) \in Nat /\ Count(new[d], Len(new[d])) \in Nat
  BY <1>2, CountType
<1>. QED  BY <1>1, <1>3, <1>4, <1>5

\* What may be executed of the new rings comes after what may be of the old ones.
LEMMA ExtendedCut ==
  ASSUME NEW rg \in Rings, NEW c \in Channels, NEW items, NEW new, Extends(rg, new, c, items),
         AcquiresKnown(rg), NEW K \in Cuts(new)
  PROVE  /\ Upon(rg, c, K) \in Cuts(rg)
         /\ Upon(rg, c, K)[c] = IF K[c] <= Len(rg[c]) THEN K[c] ELSE Len(rg[c])
         /\ \A d \in Channels \ {c} : Upon(rg, c, K)[d] = K[d]
         /\ \A f : Known(rg, f) => (Done(new, K, f) <=> Done(rg, Upon(rg, c, K), f))
<1>. DEFINE J == Upon(rg, c, K)
<1>0. new \in Rings
  BY ExtendedRing
<1>1. K \in [Channels -> Nat] /\ \A d \in Channels : K[d] \in 0 .. Len(new[d])
  BY <1>0, CutIs
<1>2. \A d \in Channels : Len(rg[d]) \in Nat
  BY RingIs
<1>3. /\ J \in [Channels -> Nat] /\ J[c] = IF K[c] <= Len(rg[c]) THEN K[c] ELSE Len(rg[c])
      /\ \A d \in Channels \ {c} : J[d] = K[d]
  BY <1>1, <1>2 DEF Upon
<1>. HIDE DEF J
<1>4. \A d \in Channels : J[d] \in 0 .. Len(rg[d]) /\ J[d] <= K[d] /\ (J[d] # K[d] => J[d] = Len(rg[d]))
  <2>. TAKE d \in Channels
  <2>1. d # c => new[d] = rg[d]
    BY ExtendedRing
  <2>. QED  BY <1>1, <1>2, <1>3, <2>1
<1>5. ASSUME NEW f, Known(rg, f) PROVE Done(new, K, f) <=> Done(rg, J, f)
  <2>. SUFFICES ASSUME f # Nil PROVE f[2] <= Count(new[f[1]], K[f[1]]) <=> f[2] <= Count(rg[f[1]], J[f[1]])
    BY DEF Done
  <2>1. f[2] <= Count(rg[f[1]], Len(rg[f[1]])) /\ f[1] \in Channels /\ f[2] \in Nat
    BY <1>5, NumberIs DEF Known
  <2>2. PICK d \in Channels : d = f[1]
    BY <2>1
  <2>3. J[d] \in 0 .. Len(rg[d]) /\ J[d] <= K[d] /\ (J[d] # K[d] => J[d] = Len(rg[d]))
         /\ K[d] \in Nat /\ J[d] \in Nat
    BY <1>1, <1>3, <1>4
  <2>4. Count(new[d], J[d]) = Count(rg[d], J[d])
    BY <2>3, ExtendedCount
  <2>5. Count(new[d], J[d]) <= Count(new[d], K[d])
    BY <2>3, CountMore
  <2>6. Count(new[d], J[d]) \in Nat /\ Count(new[d], K[d]) \in Nat
    BY <2>3, CountType
  <2>. QED  BY <2>1, <2>2, <2>3, <2>4, <2>5, <2>6
<1>6. J \in Cuts(rg)
  <2>1. ASSUME NEW d \in Channels, NEW i \in 1 .. J[d], rg[d][i].k = "acquire"
        PROVE  Done(rg, J, rg[d][i].fence)
    <3>1. i \in 1 .. Len(rg[d]) /\ i \in 1 .. K[d]
      BY <1>1, <1>2, <1>4
    <3>2. new[d][i] = rg[d][i]
      BY <3>1, ExtendedRing
    <3>3. Done(new, K, rg[d][i].fence)
      BY <1>0, <2>1, <3>1, <3>2, CutIs
    <3>4. Known(rg, rg[d][i].fence)
      BY <2>1, <3>1 DEF AcquiresKnown
    <3>. QED  BY <1>5, <3>3, <3>4
  <2>2. \A d \in Channels : J[d] <= Len(rg[d])
    BY <1>2, <1>4
  <2>. QED  BY <1>3, <2>1, <2>2 DEF Cuts
<1>. QED  BY <1>3, <1>5, <1>6 DEF J

\* An item leaves the ring of c, and the fences of c are nearer if it is one.
After(rg, c, f) == IF rg[c][1] = FenceItem THEN Nearer(c, f) ELSE f
ItemAfter(rg, c, x) == IF x.k = "acquire" THEN Acquire(After(rg, c, x.fence)) ELSE x
Place(c, d, i) == IF d = c THEN i + 1 ELSE i
Pops(rg, new, c) ==
  /\ new \in Rings /\ Len(rg[c]) > 0
  /\ rg[c][1].k = "acquire" => Signalled(rg[c][1].fence)
  /\ \A d \in Channels : Len(rg[d]) = Place(c, d, Len(new[d]))
  /\ \A d \in Channels : \A i \in 1 .. Len(new[d]) : new[d][i] = ItemAfter(rg, c, rg[d][Place(c, d, i)])
Before(c, K) == [K EXCEPT ![c] = @ + 1]

LEMMA NearerIs ==
  ASSUME NEW c \in Channels, NEW f \in Numbers
  PROVE  /\ Nearer(c, f) \in Numbers /\ Nearer(c, f)[1] = f[1]
         /\ Nearer(c, f)[2] = IF f[1] = c /\ f[2] > 0 THEN f[2] - 1 ELSE f[2]
<1>1. f # Nil /\ f[1] \in Channels /\ f[2] \in Nat
  BY NumberIs
<1>2. CASE f[1] = c /\ f[2] > 0
  <2>1. Nearer(c, f) = <<c, f[2] - 1>>
    BY <1>1, <1>2 DEF Nearer
  <2>2. f[2] - 1 \in Nat
    BY <1>1, <1>2
  <2>. QED  BY <1>1, <1>2, <2>1, <2>2 DEF Numbers
<1>3. CASE ~(f[1] = c /\ f[2] > 0)
  BY <1>1, <1>3 DEF Nearer
<1>. QED  BY <1>2, <1>3

LEMMA AfterIs ==
  ASSUME NEW rg, NEW c \in Channels
  PROVE  /\ After(rg, c, Nil) = Nil
         /\ \A f \in Numbers :
              /\ After(rg, c, f) \in Numbers /\ After(rg, c, f) # Nil /\ After(rg, c, f)[1] = f[1]
              /\ After(rg, c, f)[2] = IF rg[c][1] = FenceItem /\ f[1] = c /\ f[2] > 0 THEN f[2] - 1 ELSE f[2]
              /\ Signalled(f) => Signalled(After(rg, c, f))
<1>1. After(rg, c, Nil) = Nil
  BY DEF After, Nearer
<1>2. ASSUME NEW f \in Numbers
      PROVE  /\ After(rg, c, f) \in Numbers /\ After(rg, c, f)[1] = f[1]
             /\ After(rg, c, f)[2] = IF rg[c][1] = FenceItem /\ f[1] = c /\ f[2] > 0 THEN f[2] - 1 ELSE f[2]
  BY NearerIs DEF After
<1>3. \A f \in Numbers : f # Nil /\ f[2] \in Nat
  BY NumberIs
<1>. QED  BY <1>1, <1>2, <1>3 DEF Signalled

LEMMA ItemAfterIs ==
  ASSUME NEW rg, NEW c \in Channels, NEW x \in Items
  PROVE  /\ ItemAfter(rg, c, x) \in Items /\ ItemAfter(rg, c, x).k = x.k
         /\ ItemAfter(rg, c, x) = FenceItem <=> x = FenceItem
         /\ x.k = "acquire" => ItemAfter(rg, c, x).fence = After(rg, c, x.fence)
         /\ x.k # "acquire" => ItemAfter(rg, c, x) = x
<1>1. CASE x.k = "acquire"
  <2>1. x.fence \in Numbers /\ x # FenceItem
    BY <1>1, ItemIs
  <2>2. After(rg, c, x.fence) \in Numbers
    BY <2>1, AfterIs
  <2>3. ItemAfter(rg, c, x) = Acquire(After(rg, c, x.fence))
    BY <1>1 DEF ItemAfter
  <2>. QED  BY <1>1, <2>1, <2>2, <2>3, ItemIs
<1>2. CASE x.k # "acquire"
  BY <1>2 DEF ItemAfter
<1>. QED  BY <1>1, <1>2

LEMMA PoppedRing ==
  ASSUME NEW rg \in Rings, NEW c \in Channels, NEW new, Pops(rg, new, c), NEW d \in Channels
  PROVE  /\ Len(rg[d]) \in Nat /\ Len(new[d]) \in Nat
         /\ Len(rg[d]) = Place(c, d, Len(new[d]))
         /\ \A i \in 0 .. Len(new[d]) :
              Place(c, d, i) \in 0 .. Len(rg[d]) /\ (i # 0 => Place(c, d, i) \in 1 .. Len(rg[d]))
         /\ \A i \in 1 .. Len(new[d]) :
              LET x == rg[d][Place(c, d, i)]
              IN  /\ x \in Items /\ new[d][i] \in Items /\ new[d][i].k = x.k
                  /\ new[d][i] = FenceItem <=> x = FenceItem
                  /\ x.k = "acquire" => new[d][i].fence = After(rg, c, x.fence)
                  /\ x.k # "acquire" => new[d][i] = x
<1>1. Len(rg[d]) \in Nat /\ Len(new[d]) \in Nat /\ Len(rg[d]) = Place(c, d, Len(new[d]))
  BY RingIs DEF Pops
<1>2. \A i \in 0 .. Len(new[d]) :
        Place(c, d, i) \in 0 .. Len(rg[d]) /\ (i # 0 => Place(c, d, i) \in 1 .. Len(rg[d]))
  BY <1>1 DEF Place
<1>3. ASSUME NEW i \in 1 .. Len(new[d])
      PROVE  LET x == rg[d][Place(c, d, i)]
              IN  /\ x \in Items /\ new[d][i] \in Items /\ new[d][i].k = x.k
                  /\ new[d][i] = FenceItem <=> x = FenceItem
                  /\ x.k = "acquire" => new[d][i].fence = After(rg, c, x.fence)
                  /\ x.k # "acquire" => new[d][i] = x
  <2>. DEFINE x == rg[d][Place(c, d, i)]
  <2>1. i \in 0 .. Len(new[d]) /\ i # 0
    BY <1>1
  <2>2. x \in Items
    BY <1>2, <2>1, RingIs
  <2>3. new[d][i] = ItemAfter(rg, c, x)
    BY DEF Pops
  <2>. HIDE DEF x
  <2>4. /\ x \in Items /\ new[d][i] \in Items /\ new[d][i].k = x.k
        /\ new[d][i] = FenceItem <=> x = FenceItem
        /\ x.k = "acquire" => new[d][i].fence = After(rg, c, x.fence)
        /\ x.k # "acquire" => new[d][i] = x
    BY <2>2, <2>3, ItemAfterIs
  <2>. QED  BY <2>4 DEF x
<1>. QED  BY <1>1, <1>2, <1>3

LEMMA PoppedCount ==
  ASSUME NEW rg \in Rings, NEW c \in Channels, NEW new, Pops(rg, new, c), NEW d \in Channels,
         NEW n \in 0 .. Len(new[d])
  PROVE  Count(rg[d], Place(c, d, n)) = Count(new[d], n) + (IF rg[c][1] = FenceItem /\ d = c THEN 1 ELSE 0)
<1>1. n \in Nat /\ \A j \in 1 .. n : j \in 1 .. Len(new[d])
  BY PoppedRing
<1>2. \A j \in 1 .. n : new[d][j] = FenceItem <=> rg[d][Place(c, d, j)] = FenceItem
  BY <1>1, PoppedRing
<1>3. CASE d = c
  <2>1. \A j \in 1 .. n : new[d][j] = FenceItem <=> rg[d][j + 1] = FenceItem
    BY <1>2, <1>3 DEF Place
  <2>2. Count(rg[d], n + 1) = Count(new[d], n) + (IF rg[d][1] = FenceItem THEN 1 ELSE 0)
    <3>. DEFINE s == rg[d]
                r == new[d]
    <3>. HIDE DEF s, r
    <3>1. \A j \in 1 .. n : r[j] = FenceItem <=> s[j + 1] = FenceItem
      BY <2>1 DEF s, r
    <3>2. Count(s, n + 1) = Count(r, n) + (IF s[1] = FenceItem THEN 1 ELSE 0)
      <4>1. n \in Nat
        BY <1>1
      <4>. QED  BY <4>1, <3>1, CountTail
    <3>. QED  BY <3>2 DEF s, r
  <2>3. Place(c, d, n) = n + 1
    BY <1>3 DEF Place
  <2>4. (IF rg[c][1] = FenceItem /\ d = c THEN 1 ELSE 0) = IF rg[d][1] = FenceItem THEN 1 ELSE 0
    BY <1>3
  <2>. QED  BY <2>2, <2>3, <2>4, Zenon
<1>4. CASE d # c
  <2>1. \A j \in 1 .. n : rg[d][j] = FenceItem <=> new[d][j] = FenceItem
    BY <1>2, <1>4 DEF Place
  <2>2. Count(rg[d], n) = Count(new[d], n)
    BY <1>1, <2>1, CountSame
  <2>3. Count(new[d], n) \in Nat
    BY <1>1, CountType
  <2>. QED  BY <1>4, <2>2, <2>3 DEF Place
<1>. QED  BY <1>3, <1>4

LEMMA PoppedKnown ==
  ASSUME NEW rg \in Rings, NEW c \in Channels, NEW new, Pops(rg, new, c), NEW f, Known(rg, f)
  PROVE  Known(new, After(rg, c, f))
<1>1. CASE f = Nil
  BY <1>1, AfterIs DEF Known
<1>2. CASE f # Nil
  <2>. DEFINE d == f[1]
              g == After(rg, c, f)
  <2>1. f \in Numbers /\ f[2] <= Count(rg[d], Len(rg[d])) /\ d \in Channels /\ f[2] \in Nat
    BY <1>2, NumberIs DEF Known
  <2>2. g \in Numbers /\ g[1] = d /\ g[2] = IF rg[c][1] = FenceItem /\ d = c /\ f[2] > 0 THEN f[2] - 1 ELSE f[2]
    BY <2>1, AfterIs
  <2>. HIDE DEF d, g
  <2>3. Len(new[d]) \in 0 .. Len(new[d]) /\ Len(new[d]) \in Nat /\ Len(rg[d]) = Place(c, d, Len(new[d]))
    BY <2>1, PoppedRing
  <2>4. Count(rg[d], Len(rg[d])) = Count(new[d], Len(new[d])) + (IF rg[c][1] = FenceItem /\ d = c THEN 1 ELSE 0)
    BY <2>1, <2>3, PoppedCount
  <2>5. Count(new[d], Len(new[d])) \in Nat
    BY <2>3, CountType
  <2>6. g[2] <= Count(new[d], Len(new[d]))
    BY <2>1, <2>2, <2>4, <2>5
  <2>. QED  BY <2>2, <2>6 DEF Known, g
<1>. QED  BY <1>1, <1>2

\* What may be executed when an item has left could be executed before, with it.
LEMMA PoppedCut ==
  ASSUME NEW rg \in Rings, NEW c \in Channels, NEW new, Pops(rg, new, c), AcquiresKnown(rg),
         NEW K \in Cuts(new)
  PROVE  /\ Before(c, K) \in Cuts(rg)
         /\ \A d \in Channels : Before(c, K)[d] = Place(c, d, K[d])
         /\ \A f : Known(rg, f) => (Done(new, K, After(rg, c, f)) <=> Done(rg, Before(c, K), f))
<1>. DEFINE J == Before(c, K)
<1>0. new \in Rings
  BY DEF Pops
<1>1. K \in [Channels -> Nat] /\ \A d \in Channels : K[d] \in 0 .. Len(new[d])
  BY <1>0, CutIs
<1>2. J \in [Channels -> Nat] /\ \A d \in Channels : J[d] = Place(c, d, K[d])
  BY <1>1 DEF Before, Place
<1>. HIDE DEF J
<1>3. \A d \in Channels : J[d] \in 0 .. Len(rg[d]) /\ Len(rg[d]) \in Nat
  BY <1>1, <1>2, PoppedRing
<1>4. ASSUME NEW f, Known(rg, f) PROVE Done(new, K, After(rg, c, f)) <=> Done(rg, J, f)
  <2>1. CASE f = Nil
    BY <2>1, AfterIs DEF Done
  <2>2. CASE f # Nil
    <3>. DEFINE d == f[1]
                g == After(rg, c, f)
    <3>1. d \in Channels /\ f[2] \in Nat /\ f \in Numbers
      BY <1>4, <2>2, NumberIs DEF Known
    <3>2. g # Nil /\ g[1] = d /\ g[2] = IF rg[c][1] = FenceItem /\ d = c /\ f[2] > 0 THEN f[2] - 1 ELSE f[2]
      BY <3>1, AfterIs
    <3>. HIDE DEF d, g
    <3>3. Count(rg[d], J[d]) = Count(new[d], K[d]) + (IF rg[c][1] = FenceItem /\ d = c THEN 1 ELSE 0)
      BY <1>1, <1>2, <3>1, PoppedCount
    <3>4. Count(new[d], K[d]) \in Nat
      BY <1>1, <3>1, CountType
    <3>5. g[2] <= Count(new[d], K[d]) <=> f[2] <= Count(rg[d], J[d])
      BY <3>1, <3>2, <3>3, <3>4
    <3>6. Done(new, K, g) <=> g[2] <= Count(new[d], K[d])
      BY <3>2 DEF Done
    <3>7. Done(rg, J, f) <=> f[2] <= Count(rg[d], J[d])
      BY <2>2 DEF Done, d
    <3>. QED  BY <3>5, <3>6, <3>7 DEF g
  <2>. QED  BY <2>1, <2>2
<1>5. J \in Cuts(rg)
  <2>1. ASSUME NEW d \in Channels, NEW i \in 1 .. J[d], rg[d][i].k = "acquire"
        PROVE  Done(rg, J, rg[d][i].fence)
    <3>1. i \in 1 .. Len(rg[d]) /\ J[d] = Place(c, d, K[d]) /\ K[d] \in 0 .. Len(new[d]) /\ Len(new[d]) \in Nat
      BY <1>1, <1>2, <1>3, PoppedRing
    <3>2. Known(rg, rg[d][i].fence)
      BY <2>1, <3>1 DEF AcquiresKnown
    <3>3. CASE d = c /\ i = 1
      <4>1. Signalled(rg[d][i].fence)
        BY <2>1, <3>3 DEF Pops
      <4>2. rg[d][i].fence[2] = 0 \/ rg[d][i].fence = Nil
        BY <4>1 DEF Signalled
      <4>3. Count(rg[rg[d][i].fence[1]], J[rg[d][i].fence[1]]) \in Nat \/ rg[d][i].fence = Nil
        BY <1>2, <3>2, NumberIs, CountType DEF Known
      <4>. QED  BY <4>2, <4>3 DEF Done
    <3>4. CASE ~(d = c /\ i = 1)
      <4>1. PICK j \in 1 .. K[d] : i = Place(c, d, j)
        <5>1. CASE d = c
          <6>1. i - 1 \in 1 .. K[d] /\ i = i - 1 + 1
            BY <3>1, <3>4, <5>1 DEF Place
          <6>. QED  BY <5>1, <6>1 DEF Place
        <5>2. CASE d # c
          BY <3>1, <5>2 DEF Place
        <5>. QED  BY <5>1, <5>2
      <4>2. j \in 1 .. Len(new[d])
        BY <3>1
      <4>3. new[d][j].k = "acquire" /\ new[d][j].fence = After(rg, c, rg[d][i].fence)
        BY <2>1, <4>1, <4>2, PoppedRing
      <4>4. Done(new, K, new[d][j].fence)
        BY <1>0, <4>3, CutIs
      <4>. QED  BY <1>4, <3>2, <4>3, <4>4
    <3>. QED  BY <3>3, <3>4
  <2>2. \A d \in Channels : J[d] <= Len(rg[d])
    BY <1>3
  <2>. QED  BY <1>2, <2>1, <2>2 DEF Cuts
<1>. QED  BY <1>2, <1>4, <1>5 DEF J

-----------------------------------------------------------------------------
(* The invariant.                                                          *)

Buffers ==
  [holder : Clients \cup {Nil, Lost}, place : Places, excl : Numbers \cup {Nil}, shared : SUBSET Numbers]

Pcs == {"idle", "reserve", "slow", "list", "copy", "submit", "fence", "wait", "fini"}

Calls(fam) ==
  [pc : Pcs, req : {Nil} \cup Requests[fam], i : Nat, res : Bos \cup {Nil}, got : Seq(Nat),
   k : Nat, tries : Nat, fence : Numbers \cup {Nil}, then : {"idle", "slow", "copy"},
   reloc : BOOLEAN, relocs : BOOLEAN, invalid : SUBSET Bos, presumed : Maps, cmds : Maps]

\* The buffers that a call has reserved, and those it has a fence for.
HeldBy(p) == {p.req.bos[i].bo : i \in ToSet(p.got)}
Tracking(p) == p.pc \in {"wait", "fini"} /\ p.fence # Nil

OpListOf(p) ==
  LET of(valid) == Those(p.got, {i \in ToSet(p.got) : p.req.bos[i].valid = valid})
  IN  of({"vram"}) \o of({"gart"}) \o of(Places)

CallType(p, fam) ==
  /\ p \in Calls(fam)
  /\ p.pc # "idle" => p.req # Nil
  /\ DOMAIN p.cmds = DOMAIN p.presumed

GotOK(p) ==
  /\ p.pc \in {"idle", "slow", "copy"} => p.got = <<>>
  /\ ToSet(p.got) # {} => ToSet(p.got) \subseteq 1 .. Len(p.req.bos)
  /\ \A i, j \in ToSet(p.got) : p.req.bos[i].bo = p.req.bos[j].bo => i = j

\* Where a call can be, and with what.
FlowOK(p) ==
  /\ p.fence # Nil => p.pc \in {"wait", "fini"} /\ p.then = "idle"
  /\ p.pc = "wait" => p.fence # Nil
  /\ p.pc = "slow" \/ p.then = "slow" => p.i \in 1 .. Len(p.req.bos)
  /\ p.then # "idle" => p.pc \in {"fini", "slow", "copy"}
  /\ p.pc = "list" => p.k \in 1 .. Len(OpListOf(p)) + 1

\* No buffer is twice among those that validate_init has come to.
ReserveOK(p) ==
  p.pc = "reserve" =>
    /\ p.i \in 1 .. Len(p.req.bos) + 1
    /\ p.res # Nil => p.res \in HeldBy(p)
    /\ \A j \in 1 .. p.i - 1 : p.req.bos[j].bo \in HeldBy(p) /\ p.req.bos[j].bo # p.res
    /\ \A j, k \in 1 .. p.i - 1 : p.req.bos[j].bo = p.req.bos[k].bo => j = k

\* All are reserved from validation to submission, and no buffer is named twice.
NamedOK(p) ==
  /\ p.pc \in {"list", "submit", "fence"} =>
       \A j \in 1 .. Len(p.req.bos) : p.req.bos[j].bo \in HeldBy(p)
  /\ p.pc \in {"list", "submit", "fence"} \/ Tracking(p) =>
       \A j, k \in 1 .. Len(p.req.bos) : p.req.bos[j].bo = p.req.bos[k].bo => j = k

\* The commands and their fence are the last in the ring of the client.
UsesOf(p) ==
  LET r == p.req.bos
  IN  [b \in {r[i].bo : i \in DOMAIN r} |-> \E i \in DOMAIN r : r[i].bo = b /\ r[i].write]

JobOf(x, p) == x.k = "job" /\ x.uses = UsesOf(p)

RingOK(t, p, s, fam) ==
  /\ p.fence # Nil => /\ p.fence = <<t, Count(s, Len(s))>>
                      /\ Len(s) > 0 => s[Len(s)] = FenceItem
                      /\ Len(s) > 1 => JobOf(s[Len(s) - 1], p)
  /\ p.pc = "fence" /\ fam = "tesla" /\ Len(s) > 0 => JobOf(s[Len(s)], p)

CallOK(t, p, mine, s, fam) ==
  /\ CallType(p, fam) /\ GotOK(p) /\ FlowOK(p) /\ ReserveOK(p) /\ NamedOK(p)
  /\ RingOK(t, p, s, fam)
  /\ mine = HeldBy(p)

\* The entries for which nouveau_fence_sync has been called.
SyncedBy(p) ==
  IF p.pc = "list" THEN {OpListOf(p)[j] : j \in 1 .. p.k - 1}
  ELSE IF p.pc \in {"submit", "fence"} \/ Tracking(p) THEN ToSet(p.got) ELSE {}

\* What has been executed leaves nothing to wait for: for a writer, for anybody.
AllDone(rg, K, v) == Done(rg, K, v.excl) /\ \A f \in v.shared : Done(rg, K, f)
Settled(rg, K, v, write) == Done(rg, K, v.excl) /\ (write => AllDone(rg, K, v))

\* Commands that use a buffer, and whose fence has been emitted or may still be.
IsUse(x, b) == x.k = "job" /\ ~x.loose /\ b \in DOMAIN x.uses

\* Commands i of n in the ring of call p whose fence the buffer has not got yet.
Unattached(p, n, i, b, fam) ==
  /\ b \in HeldBy(p)
  /\ (p.pc = "fence" /\ fam = "tesla" /\ i = n) \/ (Tracking(p) /\ i = n - 1)

Exempt(c, i, b) == c \in Clients /\ Unattached(push[c], Len(ring[c]), i, b, family)

Mine(t) == {b \in Bos : bos[b].holder = t}

TypesInv ==
  /\ family \in Families /\ ring \in Rings
  /\ bos \in [Bos -> Buffers] /\ \A b \in Bos : IsFiniteSet(bos[b].shared)
  /\ push \in [Clients -> Calls(family)]
  /\ executing \subseteq Channels /\ \A c \in executing : Len(ring[c]) > 0 /\ ring[c][1].k = "job"

KnownInv ==
  /\ AcquiresKnown(ring)
  /\ \A b \in Bos : Known(ring, bos[b].excl) /\ \A f \in bos[b].shared : Known(ring, f)

CallsInv == \A t \in Clients : CallOK(t, push[t], Mine(t), ring[t], family)

SyncInv ==
  \A t \in Clients : \A i \in SyncedBy(push[t]) :
    /\ bos[push[t].req.bos[i].bo].place \in push[t].req.bos[i].valid
    /\ \A K \in Cuts(ring) :
         K[t] = Len(ring[t]) =>
           Settled(ring, K, bos[push[t].req.bos[i].bo], push[t].req.bos[i].write)

TrackInv ==
  \A b \in Bos, c \in Channels : \A i \in 1 .. Len(ring[c]) :
    IsUse(ring[c][i], b) /\ ~Exempt(c, i, b) =>
      \A K \in Cuts(ring) :
        AllDone(ring, K, bos[b]) \/ (ring[c][i].uses[b] /\ Done(ring, K, bos[b].excl)) => i <= K[c]

SharedInv ==
  \A b \in Bos : \A K \in Cuts(ring) : \A f \in bos[b].shared :
    Done(ring, K, f) => Done(ring, K, bos[b].excl)

OrderInv ==
  \A b \in Bos, c, d \in Channels : \A i \in 1 .. Len(ring[c]), j \in 1 .. Len(ring[d]) :
    c # d /\ IsUse(ring[c][i], b) /\ IsUse(ring[d][j], b) /\ (ring[c][i].uses[b] \/ ring[d][j].uses[b]) =>
      \A K \in Cuts(ring) : ~(K[c] = i - 1 /\ K[d] = j - 1)

PlaceInv ==
  \A b \in Bos, c \in Channels : \A i \in 1 .. Len(ring[c]) :
    IsUse(ring[c][i], b) => ring[c][i].place[b] = bos[b].place

GemInv ==
  /\ TypesInv /\ KnownInv /\ CallsInv /\ SyncInv /\ TrackInv /\ SharedInv /\ OrderInv /\ PlaceInv

LEMMA SetOf == \A s : ToSet(s) = Range(s)
  BY DEF ToSet, Range

LEMMA RequestIs ==
  ASSUME NEW fam \in Families, NEW p \in Calls(fam), p.req # Nil
  PROVE  /\ p.req.bos \in Seq([bo : Bos, write : BOOLEAN, valid : (SUBSET Places) \ {{}}])
         /\ Len(p.req.bos) \in Nat /\ DOMAIN p.req.bos = 1 .. Len(p.req.bos)
         /\ \A i \in 1 .. Len(p.req.bos) :
              /\ p.req.bos[i].bo \in Bos /\ p.req.bos[i].write \in BOOLEAN
              /\ p.req.bos[i].valid \in {{"vram"}, {"gart"}, Places}
<1>1. p.req \in Requests[fam]
  BY DEF Calls
<1>2. p.req.bos \in Seq([bo : Bos, write : BOOLEAN, valid : (SUBSET Places) \ {{}}])
  BY <1>1, GemAssumption
<1>3. \A v \in (SUBSET Places) \ {{}} : v \in {{"vram"}, {"gart"}, Places}
  BY DEF Places
<1>. DEFINE E == [bo : Bos, write : BOOLEAN, valid : (SUBSET Places) \ {{}}]
            s == p.req.bos
<1>4. s \in Seq(E)
  BY <1>2
<1>5. \A x \in E : x.bo \in Bos /\ x.write \in BOOLEAN /\ x.valid \in (SUBSET Places) \ {{}}
  OBVIOUS
<1>. HIDE DEF E, s
<1>6. Len(s) \in Nat /\ DOMAIN s = 1 .. Len(s) /\ \A i \in 1 .. Len(s) : s[i] \in E
  BY <1>4, LenProperties, ElementOfSeq
<1>7. \A i \in 1 .. Len(s) : s[i].bo \in Bos /\ s[i].write \in BOOLEAN /\ s[i].valid \in {{"vram"}, {"gart"}, Places}
  BY <1>3, <1>5, <1>6
<1>. QED  BY <1>2, <1>6, <1>7 DEF s

LEMMA OpListIs ==
  ASSUME NEW fam \in Families, NEW p \in Calls(fam), GotOK(p), p.req # Nil
  PROVE  /\ OpListOf(p) \in Seq(Nat) /\ Range(OpListOf(p)) = ToSet(p.got)
         /\ Len(OpListOf(p)) \in Nat /\ \A j \in 1 .. Len(OpListOf(p)) : OpListOf(p)[j] \in ToSet(p.got)
<1>. DEFINE of(valid) == Those(p.got, {i \in ToSet(p.got) : p.req.bos[i].valid = valid})
            a == of({"vram"})
            b == of({"gart"})
            c == of(Places)
<1>1. p.got \in Seq(Nat)
  BY DEF Calls
<1>2. \A valid : of(valid) \in Seq(Nat) /\ Range(of(valid)) = {i \in ToSet(p.got) : p.req.bos[i].valid = valid}
  BY <1>1, ThoseIs, SetOf
<1>3. \A i \in ToSet(p.got) : p.req.bos[i].valid \in {{"vram"}, {"gart"}, Places}
  BY RequestIs DEF GotOK
<1>4. Range(a) \cup Range(b) \cup Range(c) = ToSet(p.got)
  BY <1>2, <1>3
<1>5. a \in Seq(Nat) /\ b \in Seq(Nat) /\ c \in Seq(Nat)
  BY <1>2
<1>. HIDE DEF a, b, c
<1>6. a \o b \in Seq(Nat) /\ (a \o b) \o c \in Seq(Nat)
  BY <1>5, ConcatProperties
<1>7. Range(a \o b) = Range(a) \cup Range(b) /\ Range((a \o b) \o c) = Range(a \o b) \cup Range(c)
  <2>. DEFINE d == a \o b
  <2>1. Range(a \o b) = Range(a) \cup Range(b)
    BY <1>5, RangeConcatenation
  <2>. HIDE DEF d
  <2>2. d \in Seq(Nat)
    BY <1>6 DEF d
  <2>3. Range(d \o c) = Range(d) \cup Range(c)
    BY <1>5, <2>2, RangeConcatenation
  <2>. QED  BY <2>1, <2>3 DEF d
<1>8. OpListOf(p) = (a \o b) \o c
  BY DEF OpListOf, a, b, c
<1>9. OpListOf(p) \in Seq(Nat) /\ Range(OpListOf(p)) = ToSet(p.got)
  BY <1>4, <1>6, <1>7, <1>8
<1>10. Len(OpListOf(p)) \in Nat /\ \A j \in 1 .. Len(OpListOf(p)) : OpListOf(p)[j] \in Range(OpListOf(p))
  BY <1>9, LenProperties DEF Range
<1>. QED  BY <1>9, <1>10

LEMMA ListIs ==
  ASSUME NEW t
  PROVE  OpList(t) = OpListOf(push[t]) /\ Uses(t) = UsesOf(push[t])
  BY Zenon DEF OpList, OpListOf, Allowed, Entry, Uses, UsesOf

-----------------------------------------------------------------------------
(* Steps of a call that leave the rings, the fences and the places alone.  *)

LEMMA CallIs ==
  ASSUME TypesInv, CallsInv, NEW t \in Clients
  PROVE  /\ push[t] \in Calls(family) /\ family \in Families /\ t \in Channels
         /\ CallOK(t, push[t], Mine(t), ring[t], family)
         /\ SyncedBy(push[t]) \subseteq ToSet(push[t].got)
         /\ \A i \in ToSet(push[t].got) :
              /\ push[t].req # Nil /\ i \in 1 .. Len(push[t].req.bos)
              /\ push[t].req.bos[i].bo \in Bos /\ push[t].req.bos[i].bo \in HeldBy(push[t])
              /\ bos[push[t].req.bos[i].bo].holder = t
              /\ push[t].req.bos[i].write \in BOOLEAN
              /\ push[t].req.bos[i].valid \in {{"vram"}, {"gart"}, Places}
         /\ \A b \in HeldBy(push[t]) : b \in Bos /\ bos[b].holder = t
<1>. DEFINE p == push[t]
<1>1. p \in Calls(family) /\ family \in Families /\ t \in Channels
  BY DEF TypesInv, Channels
<1>2. CallOK(t, p, Mine(t), ring[t], family)
  BY DEF CallsInv
<1>. HIDE DEF p
<1>3. CallType(p, family) /\ GotOK(p) /\ FlowOK(p) /\ HeldBy(p) = Mine(t)
  BY <1>2 DEF CallOK
<1>4. ASSUME NEW i \in ToSet(p.got)
      PROVE  /\ p.req # Nil /\ i \in 1 .. Len(p.req.bos)
             /\ p.req.bos[i].bo \in Bos /\ p.req.bos[i].bo \in HeldBy(p)
             /\ p.req.bos[i].write \in BOOLEAN
             /\ p.req.bos[i].valid \in {{"vram"}, {"gart"}, Places}
  <2>1. i \in 1 .. Len(p.req.bos)
    BY <1>3 DEF GotOK
  <2>2. p.got # <<>>
    BY DEF ToSet
  <2>3. p.req # Nil
    BY <1>3, <2>2 DEF GotOK, CallType
  <2>. QED  BY <1>1, <2>1, <2>3, RequestIs DEF HeldBy
<1>5. \A b \in HeldBy(p) : b \in Bos /\ bos[b].holder = t
  BY <1>3 DEF Mine
<1>6. SyncedBy(p) \subseteq ToSet(p.got)
  <2>1. CASE p.pc = "list"
    <3>1. p.req # Nil
      BY <1>3, <2>1 DEF CallType
    <3>2. p.k \in 1 .. Len(OpListOf(p)) + 1
      BY <1>3, <2>1 DEF FlowOK
    <3>3. Len(OpListOf(p)) \in Nat /\ \A j \in 1 .. Len(OpListOf(p)) : OpListOf(p)[j] \in ToSet(p.got)
      BY <1>1, <1>3, <3>1, OpListIs
    <3>4. \A j \in 1 .. p.k - 1 : j \in 1 .. Len(OpListOf(p))
      BY <3>2, <3>3
    <3>. QED  BY <2>1, <3>3, <3>4 DEF SyncedBy
  <2>2. CASE p.pc # "list"
    BY <2>2 DEF SyncedBy
  <2>. QED  BY <2>1, <2>2
<1>. QED  BY <1>1, <1>2, <1>4, <1>5, <1>6 DEF p

LEMMA QuietStep ==
  ASSUME GemInv, NEW t \in Clients, NEW q, push' = [push EXCEPT ![t] = q],
         ring' = ring, family' = family, executing' = executing, bos' \in [Bos -> Buffers],
         \A b \in Bos : /\ bos'[b].excl = bos[b].excl /\ bos'[b].shared = bos[b].shared
                        /\ bos'[b].place = bos[b].place,
         \A s \in Clients \ {t} : Mine(s)' = Mine(s),
         CallOK(t, q, Mine(t)', ring[t], family),
         SyncedBy(q) # {} => q.req = push[t].req /\ SyncedBy(q) \subseteq SyncedBy(push[t]),
         \A b \in Bos : \A i \in 1 .. Len(ring[t]) :
           Unattached(push[t], Len(ring[t]), i, b, family) => Unattached(q, Len(ring[t]), i, b, family)
  PROVE  GemInv'
<1>. USE DEF GemInv
<1>1. /\ push'[t] = q /\ \A s \in Clients \ {t} : push'[s] = push[s]
      /\ push' \in [Clients -> Calls(family)]
  <2>1. q \in Calls(family)
    BY DEF CallOK, CallType
  <2>. QED  BY <2>1 DEF TypesInv
<1>2. \A rg, K, w : \A b \in Bos : /\ AllDone(rg, K, bos'[b]) <=> AllDone(rg, K, bos[b])
                                   /\ Done(rg, K, bos'[b].excl) <=> Done(rg, K, bos[b].excl)
                                   /\ Settled(rg, K, bos'[b], w) <=> Settled(rg, K, bos[b], w)
  BY DEF AllDone, Settled
<1>3. TypesInv'
  BY <1>1 DEF TypesInv
<1>4. KnownInv'
  BY DEF KnownInv
<1>5. CallsInv'
  BY <1>1 DEF CallsInv
<1>6. SyncInv'
  <2>1. ASSUME NEW s \in Clients, NEW i \in SyncedBy(push'[s])
        PROVE  /\ i \in SyncedBy(push[s]) /\ push'[s].req = push[s].req
               /\ push[s].req.bos[i].bo \in Bos
    <3>1. i \in SyncedBy(push[s]) /\ push'[s].req = push[s].req
      BY <1>1, <2>1
    <3>. QED  BY <3>1, CallIs
  <2>. QED  BY <1>2, <2>1 DEF SyncInv
<1>7. \A c, i : \A b \in Bos : i \in 1 .. Len(ring[c]) /\ Exempt(c, i, b) => Exempt(c, i, b)'
  BY <1>1 DEF Exempt
<1>8. TrackInv'
  BY <1>2, <1>7 DEF TrackInv
<1>9. SharedInv'
  BY DEF SharedInv
<1>10. OrderInv'
  BY DEF OrderInv
<1>11. PlaceInv'
  BY DEF PlaceInv
<1>. QED  BY <1>3, <1>4, <1>5, <1>6, <1>8, <1>9, <1>10, <1>11

\* The calls that Finish and Fail leave.
Ended(p, pc, f) == [Idle EXCEPT !.pc = pc, !.req = p.req, !.got = p.got, !.fence = f]

LEMMA EmptyMap == <<>> \in Maps
<1>1. <<>> \in [{} -> Places]
  OBVIOUS
<1>2. {} \in SUBSET Bos
  OBVIOUS
<1>. QED  BY <1>1, <1>2 DEF Maps

LEMMA IdleIs == \A fam : Idle \in Calls(fam)
  BY EmptyMap, EmptySeq DEF Idle, Calls, Pcs

LEMMA EndedIs ==
  ASSUME NEW fam, NEW p \in Calls(fam), NEW pc \in Pcs, NEW f \in Numbers \cup {Nil}
  PROVE  /\ Ended(p, pc, f) \in Calls(fam)
         /\ Ended(p, pc, f).pc = pc /\ Ended(p, pc, f).req = p.req /\ Ended(p, pc, f).got = p.got
         /\ Ended(p, pc, f).fence = f /\ Ended(p, pc, f).then = "idle"
         /\ Ended(p, pc, f).cmds = <<>> /\ Ended(p, pc, f).presumed = <<>>
<1>. DEFINE q == Ended(p, pc, f)
<1>1. p.req \in {Nil} \cup Requests[fam] /\ p.got \in Seq(Nat)
  BY DEF Calls
<1>2. \A x \in Calls(fam) : [x EXCEPT !.pc = pc, !.req = p.req, !.got = p.got, !.fence = f] \in Calls(fam)
  BY <1>1 DEF Calls
<1>3. q \in Calls(fam)
  BY <1>2, IdleIs DEF Ended
<1>4. /\ Idle.then = "idle" /\ Idle.cmds = <<>> /\ Idle.presumed = <<>>
      /\ \A x \in {"pc", "req", "got", "fence", "then", "cmds", "presumed"} : x \in DOMAIN Idle
  BY DEF Idle
<1>5. /\ q.pc = pc /\ q.req = p.req /\ q.got = p.got /\ q.fence = f
      /\ q.then = Idle.then /\ q.cmds = Idle.cmds /\ q.presumed = Idle.presumed
  BY <1>4 DEF Ended
<1>. QED  BY <1>3, <1>4, <1>5

\* What a call has reserved is in the entries that it has reserved.
LEMMA HeldSame ==
  ASSUME NEW p, NEW q, q.req = p.req, q.got = p.got
  PROVE  HeldBy(q) = HeldBy(p) /\ (GotOK(p) /\ q.pc \notin {"idle", "slow", "copy"} => GotOK(q))
         /\ OpListOf(q) = OpListOf(p)
  BY DEF HeldBy, GotOK, OpListOf

LEMMA NoneHeld ==
  ASSUME NEW q, q.got = <<>>
  PROVE  HeldBy(q) = {} /\ GotOK(q) /\ ToSet(q.got) = {}
<1>1. ToSet(q.got) = {}
  BY DEF ToSet
<1>. QED  BY <1>1 DEF HeldBy, GotOK

LEMMA FailedCall ==
  ASSUME NEW t, NEW fam, NEW p, NEW mine, NEW s, NEW s2, CallOK(t, p, mine, s, fam), p.pc # "idle"
  PROVE  LET q == Ended(p, "fini", Nil)
         IN  CallOK(t, q, mine, s2, fam) /\ SyncedBy(q) = {} /\ HeldBy(q) = HeldBy(p)
<1>. DEFINE q == Ended(p, "fini", Nil)
<1>1. p \in Calls(fam) /\ p.req # Nil /\ GotOK(p) /\ mine = HeldBy(p)
  BY DEF CallOK, CallType
<1>2. "fini" \in Pcs
  BY DEF Pcs
<1>3. /\ q \in Calls(fam) /\ q.pc = "fini" /\ q.req = p.req /\ q.got = p.got /\ q.fence = Nil
      /\ q.then = "idle" /\ q.cmds = <<>> /\ q.presumed = <<>>
  BY <1>1, <1>2, EndedIs
<1>. HIDE DEF q
<1>4. HeldBy(q) = HeldBy(p) /\ GotOK(q)
  BY <1>1, <1>3, HeldSame
<1>5. CallType(q, fam)
  BY <1>1, <1>3 DEF CallType
<1>6. FlowOK(q) /\ ReserveOK(q) /\ NamedOK(q) /\ RingOK(t, q, s2, fam) /\ SyncedBy(q) = {}
  BY <1>3 DEF FlowOK, ReserveOK, NamedOK, RingOK, SyncedBy, Tracking
<1>. QED  BY <1>1, <1>4, <1>5, <1>6 DEF CallOK, q

LEMMA FailStep ==
  ASSUME GemInv, NEW t \in Clients, Fail(t), push[t].pc # "idle", ring' = ring, family' = family,
         executing' = executing, bos' = bos,
         \A b \in Bos : \A i \in 1 .. Len(ring[t]) : ~Unattached(push[t], Len(ring[t]), i, b, family)
  PROVE  GemInv'
<1>. DEFINE q == Ended(push[t], "fini", Nil)
<1>1. CallOK(t, push[t], Mine(t), ring[t], family)
  BY DEF GemInv, CallsInv
<1>2. CallOK(t, q, Mine(t), ring[t], family) /\ SyncedBy(q) = {}
  BY <1>1, FailedCall
<1>3. push' = [push EXCEPT ![t] = q]
  BY DEF Fail, Finish, Ended
<1>4. \A s \in Clients : Mine(s)' = Mine(s)
  BY DEF Mine
<1>5. bos' \in [Bos -> Buffers]
  BY DEF GemInv, TypesInv
<1>. HIDE DEF q
<1>. QED  BY <1>2, <1>3, <1>4, <1>5, QuietStep

\* Only commands that are about to be fenced, or to be attached, are not.
LEMMA AllAttached ==
  ASSUME NEW t \in Clients, TypesInv, CallsInv,
         push[t].pc \notin {"fence", "wait", "fini"} \/ (push[t].fence = Nil /\ push[t].pc # "fence")
  PROVE  \A b, n, i : ~Unattached(push[t], n, i, b, family)
<1>1. FlowOK(push[t])
  BY DEF CallsInv, CallOK
<1>. QED  BY <1>1 DEF Unattached, Tracking, FlowOK

LEMMA FailSteps ==
  ASSUME GemInv, NEW t \in Clients,
         \/ Duplicate(t) \/ NoSpace(t) \/ Interrupted(t) \/ RelocFails(t) \/ SubmitFails(t)
         \/ FenceNewFails(t) /\ (family # "tesla" \/ ring[t] = <<>>)
  PROVE  GemInv'
<1>1. Fail(t) /\ ring' = ring /\ family' = family /\ executing' = executing /\ bos' = bos
  BY DEF Duplicate, NoSpace, Interrupted, RelocFails, SubmitFails, FenceNewFails, OfReserve, OfCall
<1>2. push[t].pc # "idle"
  BY DEF Duplicate, NoSpace, Interrupted, RelocFails, SubmitFails, FenceNewFails, More, At,
         Listing, AllValidated, Ready
<1>3. \A b \in Bos : \A i \in 1 .. Len(ring[t]) : ~Unattached(push[t], Len(ring[t]), i, b, family)
  <2>1. CASE push[t].pc \in {"reserve", "slow", "list", "submit"}
    BY <2>1, AllAttached DEF GemInv
  <2>2. CASE push[t].pc = "fence" /\ (family # "tesla" \/ ring[t] = <<>>)
    <3>1. ring[t] = <<>> => Len(ring[t]) = 0
      OBVIOUS
    <3>. QED  BY <2>2, <3>1 DEF Unattached, Tracking
  <2>. QED
    BY <2>1, <2>2 DEF Duplicate, NoSpace, Interrupted, RelocFails, SubmitFails, FenceNewFails, More,
         At, Listing, AllValidated, Ready
<1>. QED  BY <1>1, <1>2, <1>3, FailStep

\* A call goes on with the buffers that it has reserved.
LEMMA GoesOn ==
  ASSUME GemInv, NEW t \in Clients, NEW q \in Calls(family), push' = [push EXCEPT ![t] = q],
         ring' = ring, family' = family, executing' = executing, bos' = bos,
         push[t].pc # "idle", q.req = push[t].req, q.got = push[t].got, q.fence = push[t].fence,
         q.pc \notin {"idle", "slow", "copy"} \/ push[t].got = <<>>,
         DOMAIN q.cmds = DOMAIN q.presumed, FlowOK(q), ReserveOK(q), NamedOK(q),
         q.pc = "fence" => family # "tesla",
         SyncedBy(q) \subseteq SyncedBy(push[t]),
         push[t].pc = "fence" => q.pc = "fence"
  PROVE  GemInv'
<1>. DEFINE p == push[t]
<1>1. p \in Calls(family) /\ CallOK(t, p, Mine(t), ring[t], family)
  BY CallIs DEF GemInv
<1>2. CallType(p, family) /\ GotOK(p) /\ FlowOK(p) /\ RingOK(t, p, ring[t], family) /\ Mine(t) = HeldBy(p)
  BY <1>1 DEF CallOK
<1>. HIDE DEF p
<1>3. q.req = p.req /\ q.got = p.got /\ q.fence = p.fence /\ p.req # Nil
  BY <1>2 DEF CallType, p
<1>4. HeldBy(q) = HeldBy(p) /\ GotOK(q)
  BY <1>2, <1>3, HeldSame, NoneHeld DEF p
<1>5. CallType(q, family) /\ RingOK(t, q, ring[t], family)
  <2>1. JobOf(ring[t][Len(ring[t]) - 1], p) => JobOf(ring[t][Len(ring[t]) - 1], q)
    BY <1>3 DEF JobOf, UsesOf
  <2>. QED  BY <1>2, <1>3, <2>1 DEF CallType, RingOK
<1>6. CallOK(t, q, Mine(t), ring[t], family)
  BY <1>2, <1>4, <1>5 DEF CallOK
<1>7. \A s \in Clients : Mine(s)' = Mine(s)
  BY DEF Mine
<1>8. bos' \in [Bos -> Buffers]
  BY DEF GemInv, TypesInv
<1>9. ASSUME NEW b \in Bos, NEW i \in 1 .. Len(ring[t]), Unattached(push[t], Len(ring[t]), i, b, family)
      PROVE  Unattached(q, Len(ring[t]), i, b, family)
  <2>1. CASE p.fence # Nil
    BY <1>3, <1>4, <1>9, <2>1, <1>2 DEF Unattached, Tracking, FlowOK, p
  <2>2. CASE p.fence = Nil
    BY <1>3, <1>4, <1>9, <2>2 DEF Unattached, Tracking, p
  <2>. QED  BY <2>1, <2>2
<1>. QED  BY <1>3, <1>6, <1>7, <1>8, <1>9, QuietStep DEF p

LEMMA SkipStep ==
  ASSUME GemInv, NEW t \in Clients, SkipReserved(t)
  PROVE  GemInv'
<1>. DEFINE p == push[t]
            q == [p EXCEPT !.res = Nil, !.i = @ + 1]
<1>1. p \in Calls(family) /\ CallOK(t, p, Mine(t), ring[t], family)
  BY CallIs DEF GemInv
<1>2. /\ p.pc = "reserve" /\ p.i <= Len(p.req.bos) /\ p.req.bos[p.i].bo = p.res
      /\ push' = [push EXCEPT ![t] = q] /\ ring' = ring /\ family' = family
      /\ executing' = executing /\ bos' = bos
  <2>1. push' = [push EXCEPT ![t].res = Nil, ![t].i = @ + 1]
    BY DEF SkipReserved
  <2>. QED  BY <2>1 DEF SkipReserved, More, At, BoAt, Entry, OfReserve
<1>. HIDE DEF p
<1>3. CallType(p, family) /\ GotOK(p) /\ FlowOK(p) /\ ReserveOK(p) /\ p.req # Nil
  BY <1>1, <1>2 DEF CallOK, CallType
<1>4. /\ q \in Calls(family) /\ q.res = Nil /\ q.i = p.i + 1 /\ p.i \in Nat
      /\ q.pc = p.pc /\ q.req = p.req /\ q.got = p.got /\ q.fence = p.fence /\ q.then = p.then
      /\ q.cmds = p.cmds /\ q.presumed = p.presumed
  <2>1. p.i \in Nat
    BY <1>1 DEF Calls
  <2>2. \A n \in Nat :
          LET r == [p EXCEPT !.res = Nil, !.i = n]
          IN  /\ r \in Calls(family) /\ r.res = Nil /\ r.i = n
              /\ r.pc = p.pc /\ r.req = p.req /\ r.got = p.got /\ r.fence = p.fence /\ r.then = p.then
              /\ r.cmds = p.cmds /\ r.presumed = p.presumed
    BY <1>1 DEF Calls
  <2>3. q = [p EXCEPT !.res = Nil, !.i = p.i + 1] /\ p.i + 1 \in Nat
    BY <2>1
  <2>. HIDE DEF q
  <2>. QED  BY <2>1, <2>2, <2>3
<1>. HIDE DEF q
<1>5. /\ p.i \in 1 .. Len(p.req.bos) + 1 /\ Len(p.req.bos) \in Nat
      /\ \A j \in 1 .. Len(p.req.bos) : p.req.bos[j].bo \in Bos
  BY <1>1, <1>2, <1>3, RequestIs, CallIs DEF ReserveOK, GemInv
<1>6. p.res # Nil /\ p.i \in 1 .. Len(p.req.bos)
  BY <1>2, <1>5, GemAssumption
<1>7. ReserveOK(q)
  <2>1. HeldBy(q) = HeldBy(p)
    BY <1>4, HeldSame
  <2>2. /\ p.res \in HeldBy(p)
        /\ \A j \in 1 .. p.i - 1 : p.req.bos[j].bo \in HeldBy(p) /\ p.req.bos[j].bo # p.res
        /\ \A j, k \in 1 .. p.i - 1 : p.req.bos[j].bo = p.req.bos[k].bo => j = k
    BY <1>2, <1>3, <1>6 DEF ReserveOK
  <2>3. \A j \in 1 .. p.i : j \in 1 .. p.i - 1 \/ j = p.i
    BY <1>4
  <2>4. \A j \in 1 .. p.i : p.req.bos[j].bo \in HeldBy(p) /\ p.req.bos[j].bo # Nil
    BY <1>2, <1>5, <1>6, <2>2, <2>3, GemAssumption
  <2>5. \A j, k \in 1 .. p.i : p.req.bos[j].bo = p.req.bos[k].bo => j = k
    BY <1>2, <2>2, <2>3
  <2>6. q.i \in 1 .. Len(q.req.bos) + 1 /\ q.i - 1 = p.i
    BY <1>4, <1>5, <1>6
  <2>. QED  BY <1>4, <2>1, <2>4, <2>5, <2>6 DEF ReserveOK
<1>8. FlowOK(q) /\ NamedOK(q) /\ DOMAIN q.cmds = DOMAIN q.presumed /\ SyncedBy(q) = {}
  BY <1>2, <1>3, <1>4 DEF FlowOK, NamedOK, SyncedBy, Tracking, CallType
<1>. QED  BY <1>2, <1>4, <1>7, <1>8, GoesOn DEF p

LEMMA BackOffStep ==
  ASSUME GemInv, NEW t \in Clients, BackOff(t)
  PROVE  GemInv'
<1>. DEFINE p == push[t]
            q == [p EXCEPT !.pc = "fini", !.then = "slow"]
<1>1. p \in Calls(family) /\ CallOK(t, p, Mine(t), ring[t], family)
  BY CallIs DEF GemInv
<1>2. /\ p.pc = "reserve" /\ p.i <= Len(p.req.bos)
      /\ push' = [push EXCEPT ![t] = q] /\ ring' = ring /\ family' = family
      /\ executing' = executing /\ bos' = bos
  <2>1. push' = [push EXCEPT ![t].pc = "fini", ![t].then = "slow"]
    BY DEF BackOff
  <2>. QED  BY <2>1 DEF BackOff, MustBackOff, More, At, OfReserve
<1>. HIDE DEF p
<1>3. CallType(p, family) /\ FlowOK(p) /\ ReserveOK(p) /\ p.req # Nil
  BY <1>1, <1>2 DEF CallOK, CallType
<1>4. /\ q \in Calls(family) /\ q.i = p.i /\ p.i \in Nat
      /\ q.pc = "fini" /\ q.req = p.req /\ q.got = p.got /\ q.fence = p.fence /\ q.then = "slow"
      /\ q.cmds = p.cmds /\ q.presumed = p.presumed
  BY <1>1 DEF Calls, Pcs
<1>. HIDE DEF q
<1>5. p.i \in 1 .. Len(p.req.bos) + 1 /\ Len(p.req.bos) \in Nat /\ p.fence = Nil
  BY <1>1, <1>2, <1>3, RequestIs, CallIs DEF ReserveOK, FlowOK, GemInv
<1>6. p.i \in 1 .. Len(p.req.bos)
  BY <1>2, <1>5
<1>7. /\ FlowOK(q) /\ ReserveOK(q) /\ NamedOK(q) /\ DOMAIN q.cmds = DOMAIN q.presumed
      /\ SyncedBy(q) = {}
  BY <1>2, <1>3, <1>4, <1>5, <1>6 DEF FlowOK, ReserveOK, NamedOK, SyncedBy, Tracking, CallType
<1>. QED  BY <1>2, <1>4, <1>7, GoesOn DEF p

LEMMA AllReservedStep ==
  ASSUME GemInv, NEW t \in Clients, AllReserved(t)
  PROVE  GemInv'
<1>. DEFINE p == push[t]
            q == [p EXCEPT !.pc = "list", !.i = 1, !.k = 1, !.tries = 1]
<1>1. p \in Calls(family) /\ CallOK(t, p, Mine(t), ring[t], family)
  BY CallIs DEF GemInv
<1>2. /\ p.pc = "reserve" /\ ~(p.i <= Len(p.req.bos))
      /\ push' = [push EXCEPT ![t] = q] /\ ring' = ring /\ family' = family
      /\ executing' = executing /\ bos' = bos
  <2>1. push' = [push EXCEPT ![t].pc = "list", ![t].i = 1, ![t].k = 1, ![t].tries = 1]
    BY DEF AllReserved
  <2>. QED  BY <2>1 DEF AllReserved, More, At, OfReserve
<1>. HIDE DEF p
<1>3. CallType(p, family) /\ FlowOK(p) /\ ReserveOK(p) /\ GotOK(p) /\ p.req # Nil
  BY <1>1, <1>2 DEF CallOK, CallType
<1>4. /\ q \in Calls(family) /\ q.k = 1 /\ p.i \in Nat
      /\ q.pc = "list" /\ q.req = p.req /\ q.got = p.got /\ q.fence = p.fence /\ q.then = p.then
      /\ q.cmds = p.cmds /\ q.presumed = p.presumed
  BY <1>1 DEF Calls, Pcs
<1>. HIDE DEF q
<1>5. p.i = Len(p.req.bos) + 1 /\ Len(p.req.bos) \in Nat
  BY <1>1, <1>2, <1>3, <1>4, RequestIs, CallIs DEF ReserveOK, GemInv
<1>6. HeldBy(q) = HeldBy(p) /\ GotOK(q)
  BY <1>3, <1>4, HeldSame
<1>7. NamedOK(q)
  <2>1. p.i - 1 = Len(p.req.bos)
    BY <1>5
  <2>2. /\ \A j \in 1 .. Len(p.req.bos) : p.req.bos[j].bo \in HeldBy(p)
        /\ \A j, k \in 1 .. Len(p.req.bos) : p.req.bos[j].bo = p.req.bos[k].bo => j = k
    BY <1>2, <1>3, <2>1 DEF ReserveOK
  <2>. QED  BY <1>4, <1>6, <2>2 DEF NamedOK
<1>8. Len(OpListOf(q)) \in Nat
  <2>1. family \in Families
    BY DEF GemInv, TypesInv
  <2>. QED  BY <1>3, <1>4, <1>6, <2>1, OpListIs
<1>9. FlowOK(q) /\ ReserveOK(q) /\ DOMAIN q.cmds = DOMAIN q.presumed
  BY <1>2, <1>3, <1>4, <1>8 DEF FlowOK, ReserveOK, CallType
<1>10. SyncedBy(q) = {}
  BY <1>4 DEF SyncedBy
<1>. QED  BY <1>2, <1>4, <1>7, <1>9, <1>10, GoesOn DEF p

LEMMA SyncDoneStep ==
  ASSUME GemInv, NEW t \in Clients, SyncDone(t)
  PROVE  GemInv'
<1>. DEFINE p == push[t]
            q == [p EXCEPT !.pc = "fini"]
<1>1. p \in Calls(family) /\ CallOK(t, p, Mine(t), ring[t], family)
  BY CallIs DEF GemInv
<1>2. /\ p.pc = "wait" /\ push' = [push EXCEPT ![t] = q] /\ ring' = ring /\ family' = family
      /\ executing' = executing /\ bos' = bos
  BY DEF SyncDone, At, PushTo, OfCall
<1>. HIDE DEF p
<1>3. CallType(p, family) /\ FlowOK(p) /\ NamedOK(p)
  BY <1>1 DEF CallOK
<1>4. /\ q \in Calls(family) /\ q.i = p.i
      /\ q.pc = "fini" /\ q.req = p.req /\ q.got = p.got /\ q.fence = p.fence /\ q.then = p.then
      /\ q.cmds = p.cmds /\ q.presumed = p.presumed
  BY <1>1 DEF Calls, Pcs
<1>. HIDE DEF q
<1>5. FlowOK(q) /\ ReserveOK(q) /\ NamedOK(q) /\ DOMAIN q.cmds = DOMAIN q.presumed
  BY <1>2, <1>3, <1>4 DEF FlowOK, ReserveOK, NamedOK, Tracking, CallType
<1>6. SyncedBy(q) \subseteq SyncedBy(p)
  BY <1>2, <1>3, <1>4 DEF SyncedBy, Tracking, FlowOK
<1>. QED  BY <1>2, <1>4, <1>5, <1>6, GoesOn DEF p

\* When the list is at its end, nouveau_fence_sync was called for all.
LEMMA AllSynced ==
  ASSUME GemInv, NEW t \in Clients, Ready(t) \/ AllValidated(t)
  PROVE  /\ SyncedBy(push[t]) = ToSet(push[t].got) /\ push[t].pc \in {"list", "submit"}
         /\ push[t].req # Nil /\ push[t].fence = Nil /\ push[t].then = "idle"
<1>. DEFINE p == push[t]
<1>1. p \in Calls(family) /\ CallOK(t, p, Mine(t), ring[t], family) /\ family \in Families
  BY CallIs DEF GemInv
<1>2. p.pc = "submit" \/ (p.pc = "list" /\ ~(p.k <= Len(OpListOf(p))))
  BY ListIs DEF Ready, AllValidated, At, Listing
<1>. HIDE DEF p
<1>3. GotOK(p) /\ FlowOK(p) /\ p.req # Nil
  BY <1>1, <1>2 DEF CallOK, CallType
<1>4. p.fence = Nil /\ p.then = "idle"
  BY <1>2, <1>3 DEF FlowOK
<1>5. SyncedBy(p) = ToSet(p.got)
  <2>1. CASE p.pc = "submit"
    BY <2>1 DEF SyncedBy
  <2>2. CASE p.pc = "list" /\ ~(p.k <= Len(OpListOf(p)))
    <3>1. /\ Len(OpListOf(p)) \in Nat /\ OpListOf(p) \in Seq(Nat)
          /\ Range(OpListOf(p)) = ToSet(p.got)
      BY <1>1, <1>3, OpListIs
    <3>2. p.k - 1 = Len(OpListOf(p))
      BY <1>3, <2>2, <3>1 DEF FlowOK
    <3>3. Range(OpListOf(p)) = {OpListOf(p)[j] : j \in 1 .. Len(OpListOf(p))}
      BY <3>1, RangeEquality
    <3>. QED  BY <2>2, <3>1, <3>2, <3>3 DEF SyncedBy
  <2>. QED  BY <1>2, <2>1, <2>2
<1>. QED  BY <1>2, <1>3, <1>4, <1>5 DEF p

LEMMA DropStep ==
  ASSUME GemInv, NEW t \in Clients, DropForRelocs(t)
  PROVE  GemInv'
<1>. DEFINE p == push[t]
            q == [p EXCEPT !.pc = "fini", !.then = "copy"]
<1>1. p \in Calls(family) /\ CallOK(t, p, Mine(t), ring[t], family)
  BY CallIs DEF GemInv
<1>2. /\ push' = [push EXCEPT ![t] = q] /\ ring' = ring /\ family' = family
      /\ executing' = executing /\ bos' = bos
  <2>1. push' = [push EXCEPT ![t].pc = "fini", ![t].then = "copy"]
    BY DEF DropForRelocs
  <2>. QED  BY <2>1 DEF DropForRelocs, OfCall
<1>3. p.pc \in {"list", "submit"} /\ p.fence = Nil
  BY AllSynced DEF DropForRelocs
<1>. HIDE DEF p
<1>4. /\ q \in Calls(family) /\ q.i = p.i
      /\ q.pc = "fini" /\ q.req = p.req /\ q.got = p.got /\ q.fence = p.fence /\ q.then = "copy"
      /\ q.cmds = p.cmds /\ q.presumed = p.presumed
  BY <1>1 DEF Calls, Pcs
<1>. HIDE DEF q
<1>5. FlowOK(q) /\ ReserveOK(q) /\ NamedOK(q) /\ DOMAIN q.cmds = DOMAIN q.presumed /\ SyncedBy(q) = {}
  BY <1>1, <1>3, <1>4 DEF FlowOK, ReserveOK, NamedOK, Tracking, CallType, CallOK, SyncedBy
<1>. QED  BY <1>2, <1>3, <1>4, <1>5, GoesOn DEF p

LEMMA RelocStep ==
  ASSUME GemInv, NEW t \in Clients, RelocApply(t)
  PROVE  GemInv'
<1>. DEFINE p == push[t]
            at == [b \in DOMAIN p.cmds |-> IF b \in p.invalid THEN p.presumed[b] ELSE p.cmds[b]]
            q == [p EXCEPT !.pc = "submit", !.cmds = at]
<1>1. p \in Calls(family) /\ CallOK(t, p, Mine(t), ring[t], family)
  BY CallIs DEF GemInv
<1>2. /\ push' = [push EXCEPT ![t] = q] /\ ring' = ring /\ family' = family
      /\ executing' = executing /\ bos' = bos
  <2>1. push' = [push EXCEPT ![t].pc = "submit",
                             ![t].cmds = [b \in DOMAIN @ |-> IF b \in push[t].invalid
                                                             THEN push[t].presumed[b] ELSE @[b]]]
    BY DEF RelocApply
  <2>2. push' = [push EXCEPT ![t] = q]
    BY <2>1
  <2>. QED  BY <2>2 DEF RelocApply, OfCall
<1>3. p.pc = "list" /\ p.fence = Nil /\ SyncedBy(p) = ToSet(p.got) /\ p.then = "idle"
  BY AllSynced DEF RelocApply, AllValidated, At
<1>. HIDE DEF p
<1>4. DOMAIN p.cmds = DOMAIN p.presumed /\ NamedOK(p) /\ FlowOK(p)
  BY <1>1 DEF CallOK, CallType
<1>5. at \in Maps /\ DOMAIN at = DOMAIN p.presumed
  <2>1. p.cmds \in Maps /\ p.presumed \in Maps
    BY <1>1 DEF Calls
  <2>2. PICK B \in SUBSET Bos : p.cmds \in [B -> Places]
    BY <2>1 DEF Maps
  <2>3. PICK C \in SUBSET Bos : p.presumed \in [C -> Places]
    BY <2>1 DEF Maps
  <2>4. at \in [B -> Places]
    BY <1>4, <2>2, <2>3
  <2>. QED  BY <1>4, <2>4 DEF Maps
<1>. HIDE DEF at
<1>6. /\ q \in Calls(family) /\ q.i = p.i
      /\ q.pc = "submit" /\ q.req = p.req /\ q.got = p.got /\ q.fence = p.fence /\ q.then = p.then
      /\ q.cmds = at /\ q.presumed = p.presumed
  BY <1>1, <1>5 DEF Calls, Pcs
<1>. HIDE DEF q
<1>7. HeldBy(q) = HeldBy(p)
  BY <1>6, HeldSame
<1>8. FlowOK(q) /\ ReserveOK(q) /\ NamedOK(q) /\ DOMAIN q.cmds = DOMAIN q.presumed
  BY <1>3, <1>4, <1>5, <1>6, <1>7 DEF FlowOK, ReserveOK, NamedOK, Tracking
<1>9. SyncedBy(q) \subseteq SyncedBy(p)
  BY <1>3, <1>6 DEF SyncedBy
<1>. QED  BY <1>2, <1>3, <1>6, <1>8, <1>9, GoesOn DEF p

LEMMA SubmitOlderStep ==
  ASSUME GemInv, NEW t \in Clients, Submit(t), family # "tesla"
  PROVE  GemInv'
<1>. DEFINE p == push[t]
            q == [p EXCEPT !.pc = "fence"]
<1>1. p \in Calls(family) /\ CallOK(t, p, Mine(t), ring[t], family)
  BY CallIs DEF GemInv
<1>2. /\ push' = [push EXCEPT ![t] = q] /\ ring' = ring /\ family' = family
      /\ executing' = executing /\ bos' = bos
  BY DEF Submit, PushTo, OfCall
<1>3. p.pc \in {"list", "submit"} /\ p.fence = Nil /\ SyncedBy(p) = ToSet(p.got) /\ p.then = "idle"
  BY AllSynced DEF Submit
<1>. HIDE DEF p
<1>4. DOMAIN p.cmds = DOMAIN p.presumed /\ NamedOK(p) /\ FlowOK(p)
  BY <1>1 DEF CallOK, CallType
<1>6. /\ q \in Calls(family) /\ q.i = p.i
      /\ q.pc = "fence" /\ q.req = p.req /\ q.got = p.got /\ q.fence = p.fence /\ q.then = p.then
      /\ q.cmds = p.cmds /\ q.presumed = p.presumed
  BY <1>1 DEF Calls, Pcs
<1>. HIDE DEF q
<1>7. HeldBy(q) = HeldBy(p)
  BY <1>6, HeldSame
<1>8. FlowOK(q) /\ ReserveOK(q) /\ NamedOK(q) /\ DOMAIN q.cmds = DOMAIN q.presumed
  BY <1>3, <1>4, <1>6, <1>7 DEF FlowOK, ReserveOK, NamedOK, Tracking
<1>9. SyncedBy(q) \subseteq SyncedBy(p)
  BY <1>3, <1>6 DEF SyncedBy
<1>. QED  BY <1>2, <1>3, <1>6, <1>8, <1>9, GoesOn DEF p

LEMMA RevalidateStep ==
  ASSUME GemInv, NEW t \in Clients, Revalidate(t)
  PROVE  GemInv'
<1>. DEFINE p == push[t]
            q == [p EXCEPT !.pc = "reserve", !.i = 1, !.res = Nil, !.tries = 1,
                           !.relocs = TRUE, !.reloc = FALSE, !.k = 1, !.then = "idle"]
<1>1. p \in Calls(family) /\ CallOK(t, p, Mine(t), ring[t], family)
  BY CallIs DEF GemInv
<1>2. /\ p.pc = "copy" /\ push' = [push EXCEPT ![t] = q] /\ ring' = ring /\ family' = family
      /\ executing' = executing /\ bos' = bos
  <2>1. push' = [push EXCEPT ![t].pc = "reserve", ![t].i = 1, ![t].res = Nil, ![t].tries = 1,
                             ![t].relocs = TRUE, ![t].reloc = FALSE, ![t].k = 1, ![t].then = "idle"]
    BY DEF Revalidate
  <2>2. push' = [push EXCEPT ![t] = q]
    BY <2>1
  <2>. QED  BY <2>2 DEF Revalidate, At
<1>. HIDE DEF p
<1>3. DOMAIN p.cmds = DOMAIN p.presumed /\ FlowOK(p) /\ p.got = <<>> /\ p.req # Nil
  BY <1>1, <1>2 DEF CallOK, CallType, GotOK
<1>4. p.fence = Nil
  BY <1>2, <1>3 DEF FlowOK
<1>5. /\ q \in Calls(family) /\ q.i = 1 /\ q.res = Nil
      /\ q.pc = "reserve" /\ q.req = p.req /\ q.got = p.got /\ q.fence = p.fence /\ q.then = "idle"
      /\ q.cmds = p.cmds /\ q.presumed = p.presumed
  BY <1>1 DEF Calls, Pcs
<1>. HIDE DEF q
<1>6. Len(p.req.bos) \in Nat
  BY <1>1, <1>3, RequestIs, CallIs DEF GemInv
<1>7. FlowOK(q) /\ NamedOK(q) /\ DOMAIN q.cmds = DOMAIN q.presumed /\ SyncedBy(q) = {}
  BY <1>3, <1>4, <1>5 DEF FlowOK, NamedOK, SyncedBy, Tracking
<1>8. ReserveOK(q)
  <2>1. q.i \in 1 .. Len(q.req.bos) + 1 /\ 1 .. q.i - 1 = {}
    BY <1>5, <1>6
  <2>. QED  BY <1>5, <2>1 DEF ReserveOK
<1>. QED  BY <1>2, <1>3, <1>5, <1>7, <1>8, GoesOn DEF p

\* A call that holds nothing ends, or begins.
LEMMA EmptyHanded ==
  ASSUME GemInv, NEW t \in Clients, NEW q \in Calls(family), push' = [push EXCEPT ![t] = q],
         ring' = ring, family' = family, executing' = executing, bos' = bos,
         push[t].got = <<>>, q.got = <<>>, q.pc \in {"idle", "reserve"}, q.fence = Nil,
         q.pc = "reserve" => q.req # Nil /\ q.i = 1 /\ q.res = Nil,
         q.then = "idle", DOMAIN q.cmds = DOMAIN q.presumed
  PROVE  GemInv'
<1>1. family \in Families /\ Mine(t) = HeldBy(push[t])
  BY CallIs DEF GemInv, CallOK
<1>2. HeldBy(q) = {} /\ HeldBy(push[t]) = {} /\ GotOK(q)
  BY NoneHeld
<1>3. ReserveOK(q)
  <2>1. CASE q.pc = "reserve"
    <3>1. Len(q.req.bos) \in Nat
      BY <1>1, <2>1, RequestIs
    <3>2. q.i \in 1 .. Len(q.req.bos) + 1 /\ 1 .. q.i - 1 = {}
      BY <2>1, <3>1
    <3>. QED  BY <2>1, <3>2 DEF ReserveOK
  <2>2. CASE q.pc # "reserve"
    BY <2>2 DEF ReserveOK
  <2>. QED  BY <2>1, <2>2
<1>4. CallType(q, family) /\ FlowOK(q) /\ NamedOK(q) /\ RingOK(t, q, ring[t], family) /\ SyncedBy(q) = {}
  BY DEF CallType, FlowOK, NamedOK, RingOK, SyncedBy, Tracking
<1>5. CallOK(t, q, Mine(t), ring[t], family)
  BY <1>1, <1>2, <1>3, <1>4 DEF CallOK
<1>6. \A s \in Clients : Mine(s)' = Mine(s)
  BY DEF Mine
<1>7. bos' \in [Bos -> Buffers]
  BY DEF GemInv, TypesInv
<1>8. \A b, i : ~Unattached(push[t], Len(ring[t]), i, b, family)
  BY <1>2 DEF Unattached
<1>. QED  BY <1>4, <1>5, <1>6, <1>7, <1>8, QuietStep

LEMMA EndStep ==
  ASSUME GemInv, NEW t \in Clients, push' = [push EXCEPT ![t] = Idle],
         ring' = ring, family' = family, executing' = executing, bos' = bos, push[t].got = <<>>
  PROVE  GemInv'
<1>1. Idle \in Calls(family)
  BY IdleIs
<1>2. /\ Idle.got = <<>> /\ Idle.pc = "idle" /\ Idle.fence = Nil /\ Idle.then = "idle"
      /\ DOMAIN Idle.cmds = DOMAIN Idle.presumed
  BY DEF Idle
<1>. QED  BY <1>1, <1>2, EmptyHanded

LEMMA PushStartStep ==
  ASSUME GemInv, NEW t \in Clients, PushStart(t)
  PROVE  GemInv'
<1>1. push[t].pc = "idle" /\ ring' = ring /\ family' = family /\ executing' = executing /\ bos' = bos
  BY DEF PushStart, At
<1>2. PICK r \in Requests[family] : \E m \in [{r.bos[i].bo : i \in DOMAIN r.bos} -> Presumable] :
        push' = [push EXCEPT ![t] = [Idle EXCEPT !.pc = "reserve", !.req = r, !.tries = 1,
                                                 !.presumed = m, !.cmds = m]]
  BY DEF PushStart
<1>. DEFINE named == {r.bos[i].bo : i \in DOMAIN r.bos}
<1>3. PICK m \in [named -> Presumable] :
        push' = [push EXCEPT ![t] = [Idle EXCEPT !.pc = "reserve", !.req = r, !.tries = 1,
                                                 !.presumed = m, !.cmds = m]]
  BY <1>2
<1>. DEFINE q == [Idle EXCEPT !.pc = "reserve", !.req = r, !.tries = 1, !.presumed = m, !.cmds = m]
<1>4. push' = [push EXCEPT ![t] = q]
  BY <1>3
<1>5. family \in Families
  BY DEF GemInv, TypesInv
<1>6. m \in Maps
  <2>1. r.bos \in Seq([bo : Bos, write : BOOLEAN, valid : (SUBSET Places) \ {{}}])
    BY <1>5, GemAssumption
  <2>2. \A i \in DOMAIN r.bos : r.bos[i].bo \in Bos
    <3>. DEFINE E == [bo : Bos, write : BOOLEAN, valid : (SUBSET Places) \ {{}}]
                s == r.bos
    <3>1. \A x \in E : x.bo \in Bos
      OBVIOUS
    <3>2. s \in Seq(E)
      BY <2>1
    <3>. HIDE DEF E, s
    <3>3. \A i \in DOMAIN s : s[i] \in E
      BY <3>2, LenProperties, ElementOfSeq
    <3>. QED  BY <3>1, <3>3 DEF s
  <2>3. named \in SUBSET Bos
    BY <2>2
  <2>4. m \in [named -> Places]
    BY GemAssumption
  <2>. QED  BY <2>3, <2>4 DEF Maps
<1>7. r # Nil
  BY <1>5, GemAssumption
<1>8. q \in Calls(family)
  BY <1>6, IdleIs DEF Calls, Pcs
<1>9. /\ q.got = <<>> /\ q.pc = "reserve" /\ q.fence = Nil /\ q.then = "idle" /\ q.req = r
      /\ q.i = 1 /\ q.res = Nil /\ q.cmds = m /\ q.presumed = m
  BY DEF Idle
<1>10. push[t].got = <<>>
  BY <1>1 DEF GemInv, CallsInv, CallOK, GotOK
<1>. HIDE DEF q
<1>. QED  BY <1>1, <1>4, <1>7, <1>8, <1>9, <1>10, EmptyHanded

LEMMA FiniEndStep ==
  ASSUME GemInv, NEW t \in Clients, FiniEnd(t)
  PROVE  GemInv'
<1>. DEFINE p == push[t]
<1>1. p \in Calls(family) /\ CallOK(t, p, Mine(t), ring[t], family)
  BY CallIs DEF GemInv
<1>2. /\ p.pc = "fini" /\ p.got = <<>> /\ ring' = ring /\ family' = family
      /\ executing' = executing /\ bos' = bos
      /\ push' = IF p.then = "idle" THEN [push EXCEPT ![t] = Idle]
                 ELSE [push EXCEPT ![t] = [p EXCEPT !.pc = p.then]]
  BY DEF FiniEnd, At
<1>3. CASE p.then = "idle"
  BY <1>2, <1>3, EndStep
<1>4. CASE p.then # "idle"
  <2>. DEFINE q == [p EXCEPT !.pc = p.then]
  <2>1. push' = [push EXCEPT ![t] = q]
    BY <1>2, <1>4
  <2>. HIDE DEF p
  <2>2. /\ p.then \in {"slow", "copy"} /\ DOMAIN p.cmds = DOMAIN p.presumed /\ FlowOK(p)
    BY <1>1, <1>4 DEF CallOK, CallType, Calls
  <2>3. p.fence = Nil
    BY <1>4, <2>2 DEF FlowOK
  <2>4. /\ q \in Calls(family) /\ q.i = p.i
        /\ q.pc = p.then /\ q.req = p.req /\ q.got = p.got /\ q.fence = p.fence /\ q.then = p.then
        /\ q.cmds = p.cmds /\ q.presumed = p.presumed
    BY <1>1, <2>2 DEF Calls, Pcs
  <2>. HIDE DEF q
  <2>5. FlowOK(q) /\ ReserveOK(q) /\ NamedOK(q) /\ DOMAIN q.cmds = DOMAIN q.presumed /\ SyncedBy(q) = {}
    BY <1>4, <2>2, <2>3, <2>4 DEF FlowOK, ReserveOK, NamedOK, SyncedBy, Tracking
  <2>. QED  BY <1>2, <2>1, <2>2, <2>4, <2>5, GoesOn DEF p
<1>. QED  BY <1>3, <1>4

LEMMA CopyFailsStep ==
  ASSUME GemInv, NEW t \in Clients, CopyFails(t)
  PROVE  GemInv'
<1>1. push[t].got = <<>>
  BY DEF GemInv, CallsInv, CallOK, GotOK, CopyFails, At
<1>. QED  BY <1>1, EndStep DEF CopyFails, OfCall

LEMMA HolderIs ==
  ASSUME NEW v \in Buffers, NEW h \in Clients \cup {Nil, Lost}
  PROVE  LET w == [v EXCEPT !.holder = h]
         IN  /\ w \in Buffers /\ w.holder = h /\ w.excl = v.excl /\ w.shared = v.shared
             /\ w.place = v.place
  BY DEF Buffers

\* The reservation that is lost was nobody's, and is no client's.
LEMMA NoVmaStep ==
  ASSUME GemInv, NEW t \in Clients, NoVma(t)
  PROVE  GemInv'
<1>. DEFINE q == Ended(push[t], "fini", Nil)
            a == BoAt(t)
            w == [bos[a] EXCEPT !.holder = Lost]
<1>1. /\ CallOK(t, push[t], Mine(t), ring[t], family)
      /\ bos \in [Bos -> Buffers] /\ TypesInv /\ CallsInv
  BY DEF GemInv, CallsInv, TypesInv
<1>2. /\ a \in Bos /\ bos[a].holder = Nil /\ bos' = [bos EXCEPT ![a] = w]
      /\ push' = [push EXCEPT ![t] = q] /\ ring' = ring /\ family' = family
      /\ executing' = executing /\ push[t].pc \in {"reserve", "slow"}
  <2>1. /\ <<t, a>> \in VmaLess /\ bos' = [bos EXCEPT ![a].holder = Lost]
        /\ push[t].pc \in {"reserve", "slow"} /\ bos[a].holder = Nil
    BY DEF NoVma, More, At
  <2>2. push' = [push EXCEPT ![t] = q] /\ ring' = ring /\ family' = family /\ executing' = executing
    BY DEF NoVma, Fail, Finish, Ended, OfReserve
  <2>. HIDE DEF a, q
  <2>. QED  BY <2>1, <2>2, GemAssumption
<1>3. /\ w \in Buffers /\ w.holder = Lost /\ w.excl = bos[a].excl /\ w.shared = bos[a].shared
      /\ w.place = bos[a].place
  BY <1>1, <1>2, HolderIs
<1>. HIDE DEF w, a
<1>4. /\ bos' \in [Bos -> Buffers]
      /\ \A b \in Bos : /\ bos'[b].excl = bos[b].excl /\ bos'[b].shared = bos[b].shared
                        /\ bos'[b].place = bos[b].place
                        /\ bos'[b].holder = IF b = a THEN Lost ELSE bos[b].holder
  BY <1>1, <1>2, <1>3
<1>5. \A s \in Clients : Mine(s)' = Mine(s)
  BY <1>2, <1>4, GemAssumption DEF Mine
<1>6. CallOK(t, q, Mine(t), ring[t], family) /\ SyncedBy(q) = {}
  BY <1>1, <1>2, FailedCall
<1>7. \A b, n, i : ~Unattached(push[t], n, i, b, family)
  BY <1>1, <1>2, AllAttached
<1>. HIDE DEF q
<1>. QED  BY <1>2, <1>4, <1>5, <1>6, <1>7, QuietStep

\* A buffer that nobody has reserved is reserved by a call, as entry n.
LEMMA HeldMore ==
  ASSUME GemInv, NEW t \in Clients, NEW n \in Nat, NEW q, q.req = push[t].req,
         q.got \in Seq(Nat), ToSet(q.got) = ToSet(push[t].got) \cup {n},
         push[t].req # Nil, n \in 1 .. Len(push[t].req.bos), bos[push[t].req.bos[n].bo].holder = Nil,
         bos' = [bos EXCEPT ![push[t].req.bos[n].bo].holder = t]
  PROVE  /\ HeldBy(q) = HeldBy(push[t]) \cup {push[t].req.bos[n].bo}
         /\ push[t].req.bos[n].bo \in Bos \ HeldBy(push[t])
         /\ q.pc \notin {"idle", "slow", "copy"} => GotOK(q)
         /\ Mine(t)' = HeldBy(q) /\ \A s \in Clients \ {t} : Mine(s)' = Mine(s)
         /\ bos' \in [Bos -> Buffers]
         /\ \A b \in Bos : /\ bos'[b].excl = bos[b].excl /\ bos'[b].shared = bos[b].shared
                           /\ bos'[b].place = bos[b].place
<1>. DEFINE p == push[t]
            a == p.req.bos[n].bo
<1>1. CallOK(t, p, Mine(t), ring[t], family) /\ p \in Calls(family) /\ family \in Families
  BY CallIs DEF GemInv
<1>2. a \in Bos
  BY <1>1, RequestIs
<1>3. GotOK(p) /\ Mine(t) = HeldBy(p) /\ t # Nil /\ (\A s \in Clients : s # Nil)
  BY <1>1, GemAssumption DEF CallOK
<1>4. a \notin HeldBy(p)
  BY <1>3 DEF Mine
<1>5. HeldBy(q) = HeldBy(p) \cup {a}
  BY DEF HeldBy
<1>6. \A i \in ToSet(p.got) : i \in 1 .. Len(p.req.bos) /\ p.req.bos[i].bo # a
  BY <1>3, <1>4 DEF GotOK, HeldBy
<1>7. q.pc \notin {"idle", "slow", "copy"} => GotOK(q)
  BY <1>3, <1>6 DEF GotOK
<1>8. bos \in [Bos -> Buffers]
  BY DEF GemInv, TypesInv
<1>. HIDE DEF a
<1>9. bos' = [bos EXCEPT ![a] = [bos[a] EXCEPT !.holder = t]] /\ bos[a].holder = Nil
  BY DEF a
<1>. DEFINE w == [bos[a] EXCEPT !.holder = t]
<1>10. /\ bos' \in [Bos -> Buffers]
       /\ \A b \in Bos : /\ bos'[b].excl = bos[b].excl /\ bos'[b].shared = bos[b].shared
                         /\ bos'[b].place = bos[b].place
                         /\ bos'[b].holder = IF b = a THEN t ELSE bos[b].holder
  <2>1. /\ w \in Buffers /\ w.holder = t /\ w.excl = bos[a].excl /\ w.shared = bos[a].shared
        /\ w.place = bos[a].place
    BY <1>2, <1>8, HolderIs
  <2>2. bos' = [bos EXCEPT ![a] = w]
    BY <1>9
  <2>. HIDE DEF w
  <2>. QED  BY <1>2, <1>8, <2>1, <2>2
<1>11. Mine(t)' = Mine(t) \cup {a} /\ \A s \in Clients \ {t} : Mine(s)' = Mine(s)
  <2>1. bos[a].holder = Nil /\ \A b \in Bos : bos'[b].holder = IF b = a THEN t ELSE bos[b].holder
    BY <1>9, <1>10
  <2>. QED  BY <1>2, <1>3, <2>1 DEF Mine
<1>. QED  BY <1>2, <1>3, <1>4, <1>5, <1>7, <1>10, <1>11 DEF a

LEMMA ReserveStep ==
  ASSUME GemInv, NEW t \in Clients, Reserve(t)
  PROVE  GemInv'
<1>. DEFINE p == push[t]
            n == p.i
            a == p.req.bos[n].bo
            got == Append(p.got, n)
            q == [p EXCEPT !.got = got, !.i = n + 1]
<1>1. p \in Calls(family) /\ CallOK(t, p, Mine(t), ring[t], family) /\ family \in Families
  BY CallIs DEF GemInv
<1>2. /\ p.pc = "reserve" /\ n <= Len(p.req.bos) /\ bos[a].holder = Nil
      /\ bos' = [bos EXCEPT ![a].holder = t]
      /\ push' = [push EXCEPT ![t] = q] /\ ring' = ring /\ family' = family /\ executing' = executing
  <2>1. push' = [push EXCEPT ![t].got = Append(@, push[t].i), ![t].i = @ + 1]
    BY DEF Reserve
  <2>. QED  BY <2>1 DEF Reserve, More, At, BoAt, Entry, OfReserve
<1>3. CallType(p, family) /\ GotOK(p) /\ FlowOK(p) /\ ReserveOK(p) /\ p.req # Nil /\ HeldBy(p) = Mine(t)
  BY <1>1, <1>2 DEF CallOK, CallType
<1>4. Len(p.req.bos) \in Nat /\ n \in Nat /\ n \in 1 .. Len(p.req.bos)
  <2>1. Len(p.req.bos) \in Nat
    BY <1>1, <1>3, RequestIs
  <2>2. n \in 1 .. Len(p.req.bos) + 1
    BY <1>2, <1>3 DEF ReserveOK
  <2>. HIDE DEF n
  <2>. QED  BY <1>2, <2>1, <2>2
<1>5. got \in Seq(Nat) /\ ToSet(got) = ToSet(p.got) \cup {n}
  <2>1. p.got \in Seq(Nat)
    BY <1>1 DEF Calls
  <2>. QED  BY <1>4, <2>1, AppendIs, SetOf
<1>. HIDE DEF got
<1>6. /\ q \in Calls(family) /\ q.i = n + 1 /\ q.res = p.res
      /\ q.pc = p.pc /\ q.req = p.req /\ q.got = got /\ q.fence = p.fence /\ q.then = p.then
      /\ q.cmds = p.cmds /\ q.presumed = p.presumed
  <2>1. \A m \in Nat :
          LET r == [p EXCEPT !.got = got, !.i = m]
          IN  /\ r \in Calls(family) /\ r.res = p.res /\ r.i = m
              /\ r.pc = p.pc /\ r.req = p.req /\ r.got = got /\ r.fence = p.fence /\ r.then = p.then
              /\ r.cmds = p.cmds /\ r.presumed = p.presumed
    <3>. HIDE DEF p
    <3>. QED  BY <1>1, <1>5 DEF Calls
  <2>2. n + 1 \in Nat
    BY <1>4
  <2>. QED  BY <2>1, <2>2
<1>. HIDE DEF q
<1>7. /\ HeldBy(q) = HeldBy(p) \cup {a} /\ a \in Bos \ HeldBy(p)
      /\ GotOK(q)
      /\ Mine(t)' = HeldBy(q) /\ \A s \in Clients \ {t} : Mine(s)' = Mine(s)
      /\ bos' \in [Bos -> Buffers]
      /\ \A b \in Bos : /\ bos'[b].excl = bos[b].excl /\ bos'[b].shared = bos[b].shared
                        /\ bos'[b].place = bos[b].place
  <2>1. /\ q.req = push[t].req /\ q.got \in Seq(Nat) /\ ToSet(q.got) = ToSet(push[t].got) \cup {n}
        /\ push[t].req # Nil /\ n \in 1 .. Len(push[t].req.bos) /\ n \in Nat
        /\ bos[push[t].req.bos[n].bo].holder = Nil
        /\ bos' = [bos EXCEPT ![push[t].req.bos[n].bo].holder = t]
    BY <1>2, <1>3, <1>4, <1>5, <1>6
  <2>2. q.pc \notin {"idle", "slow", "copy"}
    BY <1>2, <1>6
  <2>. HIDE DEF n
  <2>. QED  BY <2>1, <2>2, HeldMore
<1>8. ReserveOK(q)
  <2>. HIDE DEF p, n
  <2>1. /\ p.res # Nil => p.res \in HeldBy(p)
        /\ \A j \in 1 .. n - 1 : p.req.bos[j].bo \in HeldBy(p) /\ p.req.bos[j].bo # p.res
        /\ \A j, k \in 1 .. n - 1 : p.req.bos[j].bo = p.req.bos[k].bo => j = k
    BY <1>2, <1>3 DEF ReserveOK, n
  <2>2. \A j \in 1 .. n : j \in 1 .. n - 1 \/ j = n
    BY <1>4
  <2>3. \A j \in 1 .. n - 1 : p.req.bos[j].bo # p.req.bos[n].bo
    BY <1>7, <2>1
  <2>4. p.req.bos[n].bo # p.res /\ p.req.bos[n].bo \in HeldBy(q)
    BY <1>7, <2>1, GemAssumption
  <2>5. \A j \in 1 .. n : p.req.bos[j].bo \in HeldBy(q) /\ p.req.bos[j].bo # p.res
    BY <1>7, <2>1, <2>2, <2>4
  <2>6. \A j, k \in 1 .. n : p.req.bos[j].bo = p.req.bos[k].bo => j = k
    BY <2>1, <2>2, <2>3
  <2>7. q.i \in 1 .. Len(q.req.bos) + 1 /\ q.i - 1 = n
    BY <1>4, <1>6
  <2>8. q.res # Nil => q.res \in HeldBy(q)
    BY <1>6, <1>7, <2>1
  <2>. QED  BY <1>6, <2>5, <2>6, <2>7, <2>8 DEF ReserveOK
<1>9. /\ CallType(q, family) /\ FlowOK(q) /\ NamedOK(q) /\ RingOK(t, q, ring[t], family)
      /\ SyncedBy(q) = {} /\ \A b, i : ~Unattached(p, Len(ring[t]), i, b, family)
  <2>. HIDE DEF p
  <2>. QED
    BY <1>2, <1>3, <1>6 DEF FlowOK, NamedOK, SyncedBy, Tracking, CallType, RingOK, Unattached
<1>10. CallOK(t, q, Mine(t)', ring[t], family)
  BY <1>7, <1>8, <1>9 DEF CallOK
<1>. QED  BY <1>2, <1>7, <1>9, <1>10, QuietStep

LEMMA SlowPathStep ==
  ASSUME GemInv, NEW t \in Clients, SlowPath(t)
  PROVE  GemInv'
<1>. DEFINE p == push[t]
            n == p.i
            a == p.req.bos[n].bo
            q == [p EXCEPT !.pc = "reserve", !.then = "idle", !.res = a,
                           !.got = <<n>>, !.i = 1, !.tries = p.tries + 1]
<1>1. p \in Calls(family) /\ CallOK(t, p, Mine(t), ring[t], family) /\ family \in Families
  BY CallIs DEF GemInv
<1>2. /\ p.pc = "slow" /\ bos[a].holder = Nil
      /\ bos' = [bos EXCEPT ![a].holder = t]
      /\ push' = [push EXCEPT ![t] = q] /\ ring' = ring /\ family' = family /\ executing' = executing
  <2>1. push' = [push EXCEPT ![t].pc = "reserve", ![t].then = "idle", ![t].res = BoAt(t),
                             ![t].got = <<push[t].i>>, ![t].i = 1, ![t].tries = @ + 1]
    BY DEF SlowPath
  <2>2. push' = [push EXCEPT ![t] = q]
    BY <2>1 DEF BoAt, Entry
  <2>. QED  BY <2>2 DEF SlowPath, At, BoAt, Entry, OfReserve
<1>3. CallType(p, family) /\ GotOK(p) /\ FlowOK(p) /\ p.got = <<>> /\ p.req # Nil /\ HeldBy(p) = Mine(t)
  BY <1>1, <1>2 DEF CallOK, CallType, GotOK
<1>4. Len(p.req.bos) \in Nat /\ n \in Nat /\ n \in 1 .. Len(p.req.bos) /\ p.tries \in Nat /\ a \in Bos
  BY <1>1, <1>2, <1>3, RequestIs DEF FlowOK, Calls
<1>5. <<n>> \in Seq(Nat) /\ ToSet(<<n>>) = ToSet(p.got) \cup {n} /\ HeldBy(p) = {}
  BY <1>3, <1>4, NoneHeld DEF ToSet
<1>6. /\ q \in Calls(family) /\ q.i = 1 /\ q.res = a
      /\ q.pc = "reserve" /\ q.req = p.req /\ q.got = <<n>> /\ q.fence = p.fence /\ q.then = "idle"
      /\ q.cmds = p.cmds /\ q.presumed = p.presumed
  <2>. DEFINE g == <<n>>
              m == p.tries + 1
  <2>1. g \in Seq(Nat) /\ m \in Nat /\ a \in Bos
    BY <1>4, <1>5
  <2>2. q = [p EXCEPT !.pc = "reserve", !.then = "idle", !.res = a, !.got = g, !.i = 1, !.tries = m]
    OBVIOUS
  <2>. HIDE DEF g, m, a, p, q
  <2>3. [p EXCEPT !.pc = "reserve", !.then = "idle", !.res = a] \in Calls(family)
    BY <1>1, <2>1 DEF Calls, Pcs
  <2>4. \A r \in Calls(family) : [r EXCEPT !.got = g, !.i = 1, !.tries = m] \in Calls(family)
    BY <2>1 DEF Calls
  <2>5. q \in Calls(family)
    BY <2>2, <2>3, <2>4
  <2>6. /\ q.i = 1 /\ q.res = a /\ q.pc = "reserve" /\ q.req = p.req /\ q.got = g
        /\ q.fence = p.fence /\ q.then = "idle" /\ q.cmds = p.cmds /\ q.presumed = p.presumed
    BY <1>1, <2>2 DEF Calls
  <2>. QED  BY <2>5, <2>6 DEF g
<1>. HIDE DEF q
<1>7. /\ HeldBy(q) = HeldBy(p) \cup {a} /\ a \in Bos \ HeldBy(p)
      /\ GotOK(q)
      /\ Mine(t)' = HeldBy(q) /\ \A s \in Clients \ {t} : Mine(s)' = Mine(s)
      /\ bos' \in [Bos -> Buffers]
      /\ \A b \in Bos : /\ bos'[b].excl = bos[b].excl /\ bos'[b].shared = bos[b].shared
                        /\ bos'[b].place = bos[b].place
  <2>1. /\ q.req = push[t].req /\ q.got \in Seq(Nat) /\ ToSet(q.got) = ToSet(push[t].got) \cup {n}
        /\ push[t].req # Nil /\ n \in 1 .. Len(push[t].req.bos) /\ n \in Nat
        /\ bos[push[t].req.bos[n].bo].holder = Nil
        /\ bos' = [bos EXCEPT ![push[t].req.bos[n].bo].holder = t]
    BY <1>2, <1>3, <1>4, <1>5, <1>6
  <2>2. q.pc \notin {"idle", "slow", "copy"}
    BY <1>2, <1>6
  <2>. HIDE DEF n
  <2>. QED  BY <2>1, <2>2, HeldMore
<1>8. ReserveOK(q)
  <2>1. q.i \in 1 .. Len(q.req.bos) + 1 /\ 1 .. q.i - 1 = {}
    BY <1>4, <1>6
  <2>. QED  BY <1>6, <1>7, <2>1 DEF ReserveOK
<1>9. /\ CallType(q, family) /\ FlowOK(q) /\ NamedOK(q) /\ RingOK(t, q, ring[t], family)
      /\ SyncedBy(q) = {} /\ \A b, i : ~Unattached(p, Len(ring[t]), i, b, family)
  <2>. HIDE DEF p
  <2>. QED
    BY <1>2, <1>3, <1>6 DEF FlowOK, NamedOK, SyncedBy, Tracking, CallType, RingOK, Unattached
<1>10. CallOK(t, q, Mine(t)', ring[t], family)
  BY <1>7, <1>8, <1>9 DEF CallOK
<1>. QED  BY <1>2, <1>7, <1>9, <1>10, QuietStep

-----------------------------------------------------------------------------
(* Steps that add to a ring.                                               *)

LEMMA ExtendedAt ==
  ASSUME NEW rg \in Rings, NEW c \in Channels, NEW items, NEW new, Extends(rg, new, c, items),
         NEW d \in Channels, NEW i \in 1 .. Len(new[d])
  PROVE  /\ Len(rg[d]) \in Nat /\ Len(rg[c]) \in Nat /\ i \in Nat /\ new \in Rings /\ Len(new[d]) \in Nat
         /\ \/ i \in 1 .. Len(rg[d]) /\ new[d][i] = rg[d][i]
            \/ /\ d = c /\ i > Len(rg[c]) /\ i - Len(rg[c]) \in 1 .. Len(items)
               /\ new[d][i] = items[i - Len(rg[c])]
<1>1. /\ new \in Rings /\ Len(new[c]) = Len(rg[c]) + Len(items) /\ Len(items) \in Nat
      /\ \A j \in 1 .. Len(rg[c]) : new[c][j] = rg[c][j]
      /\ \A j \in Len(rg[c]) + 1 .. Len(new[c]) :
           j - Len(rg[c]) \in 1 .. Len(items) /\ new[c][j] = items[j - Len(rg[c])]
      /\ \A e \in Channels \ {c} : new[e] = rg[e]
  BY ExtendedRing
<1>2. Len(rg[d]) \in Nat /\ Len(rg[c]) \in Nat /\ Len(new[d]) \in Nat
  BY <1>1, RingIs
<1>3. CASE d = c
  <2>1. i \in 1 .. Len(rg[c]) \/ (i \in Len(rg[c]) + 1 .. Len(new[c]) /\ i > Len(rg[c]))
    BY <1>2, <1>3
  <2>. QED  BY <1>1, <1>2, <1>3, <2>1
<1>4. CASE d # c
  BY <1>1, <1>2, <1>4
<1>. QED  BY <1>3, <1>4

LEMMA ExtendedDone ==
  ASSUME NEW rg \in Rings, NEW c \in Channels, NEW items, NEW new, Extends(rg, new, c, items),
         AcquiresKnown(rg), NEW K \in Cuts(new), NEW v, Known(rg, v.excl), \A f \in v.shared : Known(rg, f)
  PROVE  /\ AllDone(new, K, v) <=> AllDone(rg, Upon(rg, c, K), v)
         /\ Done(new, K, v.excl) <=> Done(rg, Upon(rg, c, K), v.excl)
         /\ \A w : Settled(new, K, v, w) <=> Settled(rg, Upon(rg, c, K), v, w)
<1>1. \A f : Known(rg, f) => (Done(new, K, f) <=> Done(rg, Upon(rg, c, K), f))
  BY ExtendedCut
<1>. QED  BY <1>1 DEF AllDone, Settled

LEMMA UponIs ==
  ASSUME NEW rg \in Rings, NEW c \in Channels, NEW items, NEW new, Extends(rg, new, c, items),
         AcquiresKnown(rg), NEW K \in Cuts(new), NEW d \in Channels
  PROVE  /\ Upon(rg, c, K) \in Cuts(rg) /\ Upon(rg, c, K)[d] \in Nat /\ K[d] \in Nat
         /\ K[d] <= Len(new[d])
         /\ Upon(rg, c, K)[d] <= K[d]
         /\ K[d] <= Len(rg[d]) => Upon(rg, c, K)[d] = K[d]
         /\ K[d] >= Len(rg[d]) => Upon(rg, c, K)[d] = Len(rg[d])
<1>1. /\ Upon(rg, c, K) \in Cuts(rg)
      /\ Upon(rg, c, K)[c] = IF K[c] <= Len(rg[c]) THEN K[c] ELSE Len(rg[c])
      /\ \A e \in Channels \ {c} : Upon(rg, c, K)[e] = K[e]
  BY ExtendedCut
<1>2. new \in Rings /\ \A e \in Channels \ {c} : new[e] = rg[e]
  BY ExtendedRing
<1>3. Upon(rg, c, K)[d] \in 0 .. Len(rg[d]) /\ Len(rg[d]) \in Nat
  BY <1>1, CutIs, RingIs
<1>4. K[d] \in 0 .. Len(new[d]) /\ Len(new[d]) \in Nat
  BY <1>2, CutIs, RingIs
<1>5. CASE d = c
  BY <1>1, <1>3, <1>4, <1>5
<1>6. CASE d # c
  <2>1. new[d] = rg[d] /\ Upon(rg, c, K)[d] = K[d]
    BY <1>1, <1>2, <1>6
  <2>. QED  BY <1>1, <1>3, <1>4, <2>1
<1>. QED  BY <1>5, <1>6

\* The uses that are tracked stay so.
LEMMA StillTracked ==
  ASSUME GemInv, NEW c \in Channels, NEW items, NEW new, Extends(ring, new, c, items),
         NEW b \in Bos, NEW d \in Channels, NEW i \in 1 .. Len(ring[d]), IsUse(ring[d][i], b),
         ~Exempt(d, i, b), NEW K \in Cuts(new),
         AllDone(new, K, bos[b]) \/ (ring[d][i].uses[b] /\ Done(new, K, bos[b].excl))
  PROVE  i <= K[d]
<1>1. /\ ring \in Rings /\ AcquiresKnown(ring)
      /\ Known(ring, bos[b].excl) /\ \A f \in bos[b].shared : Known(ring, f)
  BY DEF GemInv, TypesInv, KnownInv
<1>. DEFINE J == Upon(ring, c, K)
<1>2. J \in Cuts(ring) /\ J[d] <= K[d] /\ J[d] \in Nat /\ K[d] \in Nat
  BY <1>1, UponIs
<1>3. AllDone(ring, J, bos[b]) \/ (ring[d][i].uses[b] /\ Done(ring, J, bos[b].excl))
  BY <1>1, ExtendedDone
<1>. HIDE DEF J
<1>4. i <= J[d]
  BY <1>2, <1>3 DEF GemInv, TrackInv
<1>. QED  BY <1>2, <1>4

LEMMA StillSettled ==
  ASSUME GemInv, NEW c \in Channels, NEW items, NEW new, Extends(ring, new, c, items),
         NEW t \in Clients, NEW i \in SyncedBy(push[t]), NEW K \in Cuts(new), K[t] = Len(new[t])
  PROVE  Settled(new, K, bos[push[t].req.bos[i].bo], push[t].req.bos[i].write)
<1>. DEFINE b == push[t].req.bos[i].bo
            J == Upon(ring, c, K)
<1>0. b \in Bos /\ t \in Channels
  BY CallIs DEF GemInv
<1>1. /\ ring \in Rings /\ AcquiresKnown(ring)
      /\ Known(ring, bos[b].excl) /\ \A f \in bos[b].shared : Known(ring, f)
  BY <1>0 DEF GemInv, TypesInv, KnownInv
<1>2. J \in Cuts(ring) /\ J[t] = Len(ring[t])
  <2>1. Len(ring[t]) <= Len(new[t])
    <3>0. /\ Len(new[c]) = Len(ring[c]) + Len(items) /\ Len(items) \in Nat
          /\ \A d \in Channels \ {c} : new[d] = ring[d]
      BY <1>1, ExtendedRing
    <3>1. Len(new[c]) = Len(ring[c]) + Len(items) /\ Len(items) \in Nat /\ (t # c => new[t] = ring[t])
      BY <1>0, <3>0
    <3>2. Len(ring[t]) \in Nat
      BY <1>0, <1>1, RingIs
    <3>. QED  BY <3>1, <3>2
  <2>2. Len(ring[t]) \in Nat
    BY <1>0, <1>1, RingIs
  <2>3. /\ J \in Cuts(ring)
        /\ K[t] >= Len(ring[t]) => J[t] = Len(ring[t])
    BY <1>0, <1>1, UponIs
  <2>. HIDE DEF J
  <2>. QED  BY <2>1, <2>2, <2>3
<1>3. \A w : Settled(new, K, bos[b], w) <=> Settled(ring, J, bos[b], w)
  BY <1>1, ExtendedDone
<1>. HIDE DEF J
<1>4. Settled(ring, J, bos[b], push[t].req.bos[i].write)
  BY <1>2 DEF GemInv, SyncInv
<1>. QED  BY <1>3, <1>4

LEMMA StillShared ==
  ASSUME GemInv, NEW c \in Channels, NEW items, NEW new, Extends(ring, new, c, items),
         NEW b \in Bos, NEW K \in Cuts(new), NEW f \in bos[b].shared, Done(new, K, f)
  PROVE  Done(new, K, bos[b].excl)
<1>1. /\ ring \in Rings /\ AcquiresKnown(ring)
      /\ Known(ring, bos[b].excl) /\ \A g \in bos[b].shared : Known(ring, g)
  BY DEF GemInv, TypesInv, KnownInv
<1>2. /\ Upon(ring, c, K) \in Cuts(ring)
      /\ \A g : Known(ring, g) => (Done(new, K, g) <=> Done(ring, Upon(ring, c, K), g))
  BY <1>1, ExtendedCut
<1>. QED  BY <1>1, <1>2 DEF GemInv, SharedInv

LEMMA StillKnown ==
  ASSUME GemInv, NEW c \in Channels, NEW items, NEW new, Extends(ring, new, c, items),
         \A i \in 1 .. Len(items) : items[i].k = "acquire" => Known(ring, items[i].fence)
  PROVE  /\ AcquiresKnown(new) /\ \A f : Known(ring, f) => Known(new, f)
         /\ new \in Rings
         /\ \A d \in executing : Len(new[d]) > 0 /\ new[d][1].k = "job"
<1>1. ring \in Rings /\ AcquiresKnown(ring)
  BY DEF GemInv, TypesInv, KnownInv
<1>2. \A f : Known(ring, f) => Known(new, f)
  BY <1>1, ExtendedKnown
<1>3. ASSUME NEW d \in Channels, NEW i \in 1 .. Len(new[d]), new[d][i].k = "acquire"
      PROVE  Known(ring, new[d][i].fence)
  <2>1. \/ i \in 1 .. Len(ring[d]) /\ new[d][i] = ring[d][i]
        \/ i - Len(ring[c]) \in 1 .. Len(items) /\ new[d][i] = items[i - Len(ring[c])]
    BY <1>1, ExtendedAt
  <2>2. CASE i \in 1 .. Len(ring[d]) /\ new[d][i] = ring[d][i]
    BY <1>1, <1>3, <2>2 DEF AcquiresKnown
  <2>3. CASE i - Len(ring[c]) \in 1 .. Len(items) /\ new[d][i] = items[i - Len(ring[c])]
    BY <1>3, <2>3
  <2>. QED  BY <2>1, <2>2, <2>3
<1>4. ASSUME NEW d \in executing PROVE Len(new[d]) > 0 /\ new[d][1].k = "job"
  <2>1. d \in Channels /\ Len(ring[d]) > 0 /\ ring[d][1].k = "job" /\ Len(ring[d]) \in Nat
    BY <1>1, RingIs DEF GemInv, TypesInv
  <2>2. /\ Len(new[c]) = Len(ring[c]) + Len(items) /\ Len(items) \in Nat
        /\ \A i \in 1 .. Len(ring[c]) : new[c][i] = ring[c][i]
        /\ (d # c => new[d] = ring[d])
    BY <1>1, <2>1, ExtendedRing
  <2>3. 1 \in 1 .. Len(ring[d])
    BY <2>1
  <2>. QED  BY <2>1, <2>2, <2>3
<1>5. new \in Rings
  BY <1>1, ExtendedRing
<1>. QED  BY <1>2, <1>3, <1>4, <1>5 DEF AcquiresKnown

\* A buffer that a call has reserved is not in commands of another call that are
\* not tracked yet.
LEMMA OthersAttached ==
  ASSUME GemInv, NEW t \in Clients, NEW b \in HeldBy(push[t]), NEW d \in Channels, d # t, NEW j
  PROVE  ~Exempt(d, j, b)
<1>1. bos[b].holder = t
  BY CallIs DEF GemInv
<1>2. d \in Clients /\ b \in HeldBy(push[d]) => bos[b].holder = d
  BY CallIs DEF GemInv
<1>. QED  BY <1>1, <1>2 DEF Exempt, Unattached

LEMMA ExtendStep ==
  ASSUME GemInv, NEW t \in Clients, NEW q, NEW items, push' = [push EXCEPT ![t] = q],
         Extends(ring, ring', t, items), family' = family, executing' = executing, bos' = bos,
         CallOK(t, q, Mine(t), ring'[t], family),
         \A i \in 1 .. Len(items) : items[i].k = "acquire" => Known(ring, items[i].fence),
         \A i \in 1 .. Len(items), b \in Bos : IsUse(items[i], b) =>
           /\ items[i].place[b] = bos[b].place
           /\ Unattached(q, Len(ring'[t]), Len(ring[t]) + i, b, family)
           /\ \E n \in SyncedBy(push[t]) : /\ push[t].req.bos[n].bo = b
                                           /\ items[i].uses[b] => push[t].req.bos[n].write,
         q.req = push[t].req,
         \A i \in SyncedBy(q) :
           \/ i \in SyncedBy(push[t])
           \/ /\ q.req.bos[i].bo \in Bos /\ bos[q.req.bos[i].bo].place \in q.req.bos[i].valid
              /\ \A K \in Cuts(ring') : K[t] = Len(ring'[t]) =>
                   Settled(ring', K, bos[q.req.bos[i].bo], q.req.bos[i].write),
         \A b \in Bos : \A i \in 1 .. Len(ring[t]) :
           Unattached(push[t], Len(ring[t]), i, b, family) => Unattached(q, Len(ring'[t]), i, b, family)
  PROVE  GemInv'
<1>0. /\ t \in Channels /\ ring \in Rings /\ AcquiresKnown(ring)
  BY CallIs DEF GemInv, TypesInv, KnownInv
<1>1. /\ push'[t] = q /\ \A s \in Clients \ {t} : push'[s] = push[s]
      /\ push' \in [Clients -> Calls(family)]
  <2>1. q \in Calls(family)
    BY DEF CallOK, CallType
  <2>. QED  BY <2>1 DEF TypesInv, GemInv
<1>2. /\ AcquiresKnown(ring') /\ \A f : Known(ring, f) => Known(ring', f)
      /\ ring' \in Rings
      /\ \A d \in executing : Len(ring'[d]) > 0 /\ ring'[d][1].k = "job"
  BY <1>0, StillKnown
<1>3. \A d \in Channels : d # t => ring'[d] = ring[d]
  BY <1>0, ExtendedRing
<1>4. TypesInv'
  BY <1>1, <1>2 DEF TypesInv, GemInv
<1>5. KnownInv'
  BY <1>2 DEF KnownInv, GemInv
<1>6. CallsInv'
  <2>1. \A s \in Clients : Mine(s)' = Mine(s) /\ s \in Channels
    BY DEF Mine, Channels
  <2>2. \A s \in Clients : CallOK(s, push[s], Mine(s), ring[s], family)
    BY DEF CallsInv, GemInv
  <2>3. \A s \in Clients : CallOK(s, push'[s], Mine(s)', ring'[s], family)
    BY <1>1, <1>3, <2>1, <2>2
  <2>. QED  BY <2>3 DEF CallsInv
<1>7. SyncInv'
  <2>1. ASSUME NEW s \in Clients, NEW i \in SyncedBy(push[s])
        PROVE  /\ bos[push[s].req.bos[i].bo].place \in push[s].req.bos[i].valid
               /\ \A K \in Cuts(ring') : K[s] = Len(ring'[s]) =>
                    Settled(ring', K, bos[push[s].req.bos[i].bo], push[s].req.bos[i].write)
    <3>1. bos[push[s].req.bos[i].bo].place \in push[s].req.bos[i].valid
      BY DEF SyncInv, GemInv
    <3>. QED  BY <1>0, <3>1, StillSettled
  <2>2. ASSUME NEW s \in Clients, NEW i \in SyncedBy(push'[s])
        PROVE  /\ bos[push'[s].req.bos[i].bo].place \in push'[s].req.bos[i].valid
               /\ \A K \in Cuts(ring') : K[s] = Len(ring'[s]) =>
                    Settled(ring', K, bos[push'[s].req.bos[i].bo], push'[s].req.bos[i].write)
    <3>1. CASE s # t
      BY <1>1, <2>1, <2>2, <3>1
    <3>2. CASE s = t /\ i \in SyncedBy(push[t])
      BY <1>1, <2>1, <3>2
    <3>3. CASE s = t /\ i \notin SyncedBy(push[t])
      BY <1>1, <2>2, <3>3
    <3>. QED  BY <3>1, <3>2, <3>3
  <2>. QED  BY <2>2 DEF SyncInv
<1>8. ASSUME NEW d \in Channels, NEW i \in 1 .. Len(ring'[d])
      PROVE  /\ Len(ring[d]) \in Nat /\ Len(ring[t]) \in Nat /\ i \in Nat /\ Len(ring'[d]) \in Nat
             /\ \/ i \in 1 .. Len(ring[d]) /\ ring'[d][i] = ring[d][i]
                \/ /\ d = t /\ i > Len(ring[t]) /\ i - Len(ring[t]) \in 1 .. Len(items)
                   /\ ring'[d][i] = items[i - Len(ring[t])]
  BY <1>0, ExtendedAt
<1>9. TrackInv'
  <2>. SUFFICES ASSUME NEW b \in Bos, NEW c \in Channels, NEW i \in 1 .. Len(ring'[c]),
                       IsUse(ring'[c][i], b), ~Exempt(c, i, b)', NEW K \in Cuts(ring'),
                       AllDone(ring', K, bos[b]) \/ (ring'[c][i].uses[b] /\ Done(ring', K, bos[b].excl))
                PROVE  i <= K[c]
    BY DEF TrackInv
  <2>1. CASE i \in 1 .. Len(ring[c]) /\ ring'[c][i] = ring[c][i]
    <3>1. ~Exempt(c, i, b)
      BY <1>1, <1>3, <2>1 DEF Exempt
    <3>2. /\ IsUse(ring[c][i], b)
          /\ AllDone(ring', K, bos[b]) \/ (ring[c][i].uses[b] /\ Done(ring', K, bos[b].excl))
      BY <2>1
    <3>. QED  BY <1>0, <2>1, <3>1, <3>2, StillTracked
  <2>2. CASE c = t /\ i > Len(ring[t]) /\ i - Len(ring[t]) \in 1 .. Len(items) /\ ring'[c][i] = items[i - Len(ring[t])]
    <3>1. i = Len(ring[t]) + (i - Len(ring[t]))
      BY <1>8
    <3>2. Unattached(q, Len(ring'[t]), i, b, family)
      BY <2>2, <3>1
    <3>. QED  BY <1>1, <2>2, <3>2 DEF Exempt
  <2>. QED  BY <1>8, <2>1, <2>2
<1>10. SharedInv'
  <2>1. \A b \in Bos : \A K \in Cuts(ring') : \A f \in bos[b].shared :
          Done(ring', K, f) => Done(ring', K, bos[b].excl)
    BY <1>0, StillShared
  <2>. QED  BY <2>1 DEF SharedInv
<1>11. OrderInv'
  <2>1. ASSUME NEW b \in Bos, NEW d \in Channels, d # t, NEW i \in 1 .. Len(ring'[t]),
               NEW j \in 1 .. Len(ring'[d]), IsUse(ring'[t][i], b), IsUse(ring'[d][j], b),
               ring'[t][i].uses[b] \/ ring'[d][j].uses[b], NEW K \in Cuts(ring'), ~(i \in 1 .. Len(ring[t]))
        PROVE  ~(K[t] = i - 1 /\ K[d] = j - 1)
    <3>1. /\ i - Len(ring[t]) \in 1 .. Len(items) /\ ring'[t][i] = items[i - Len(ring[t])]
          /\ i - 1 >= Len(ring[t])
      BY <1>0, <1>8, <2>1
    <3>2. j \in 1 .. Len(ring[d]) /\ ring'[d][j] = ring[d][j]
      BY <1>8, <2>1
    <3>. DEFINE m == i - Len(ring[t])
    <3>3. PICK n \in SyncedBy(push[t]) : /\ push[t].req.bos[n].bo = b
                                         /\ ring'[t][i].uses[b] => push[t].req.bos[n].write
      <4>1. m \in 1 .. Len(items) /\ ring'[t][i] = items[m]
        BY <3>1
      <4>. HIDE DEF m
      <4>2. IsUse(items[m], b)
        BY <2>1, <4>1
      <4>3. \E n \in SyncedBy(push[t]) : /\ push[t].req.bos[n].bo = b
                                         /\ items[m].uses[b] => push[t].req.bos[n].write
        BY <4>1, <4>2
      <4>. QED  BY <4>1, <4>3
    <3>. SUFFICES ASSUME K[t] = i - 1, K[d] = j - 1 PROVE FALSE
      OBVIOUS
    <3>4. K[t] >= Len(ring[t])
      BY <3>1
    <3>5. IsUse(ring[d][j], b) /\ (push[t].req.bos[n].write \/ ring[d][j].uses[b])
      BY <2>1, <3>2, <3>3
    <3>. DEFINE J == Upon(ring, t, K)
    <3>6. J \in Cuts(ring) /\ J[t] = Len(ring[t]) /\ J[d] <= K[d] /\ J[d] \in Nat /\ K[d] \in Nat
      BY <1>0, <3>4, UponIs
    <3>. HIDE DEF J
    <3>7. Settled(ring, J, bos[b], push[t].req.bos[n].write)
      BY <3>3, <3>6 DEF GemInv, SyncInv
    <3>8. AllDone(ring, J, bos[b]) \/ (ring[d][j].uses[b] /\ Done(ring, J, bos[b].excl))
      BY <3>5, <3>7 DEF Settled
    <3>9. b \in HeldBy(push[t])
      BY <3>3, CallIs DEF GemInv
    <3>10. ~Exempt(d, j, b)
      BY <2>1, <3>9, OthersAttached
    <3>11. j <= J[d]
      BY <3>2, <3>5, <3>6, <3>8, <3>10 DEF GemInv, TrackInv
    <3>. QED  BY <3>2, <3>6, <3>11
  <2>2. ASSUME NEW b \in Bos, NEW c \in Channels, NEW d \in Channels, c # d,
               NEW i \in 1 .. Len(ring'[c]), NEW j \in 1 .. Len(ring'[d]),
               IsUse(ring'[c][i], b), IsUse(ring'[d][j], b),
               ring'[c][i].uses[b] \/ ring'[d][j].uses[b], NEW K \in Cuts(ring')
        PROVE  ~(K[c] = i - 1 /\ K[d] = j - 1)
    <3>1. CASE i \in 1 .. Len(ring[c]) /\ j \in 1 .. Len(ring[d])
      <4>. SUFFICES ASSUME K[c] = i - 1, K[d] = j - 1 PROVE FALSE
        OBVIOUS
      <4>1. ring'[c][i] = ring[c][i] /\ ring'[d][j] = ring[d][j] /\ i - 1 <= Len(ring[c]) /\ j - 1 <= Len(ring[d])
        BY <1>8, <3>1
      <4>2. /\ Upon(ring, t, K) \in Cuts(ring)
            /\ Upon(ring, t, K)[c] = K[c] /\ Upon(ring, t, K)[d] = K[d]
        BY <1>0, <4>1, UponIs
      <4>. QED  BY <2>2, <3>1, <4>1, <4>2 DEF OrderInv, GemInv
    <3>2. CASE ~(i \in 1 .. Len(ring[c]))
      BY <1>8, <2>1, <2>2, <3>2
    <3>3. CASE ~(j \in 1 .. Len(ring[d]))
      BY <1>8, <2>1, <2>2, <3>3
    <3>. QED  BY <3>1, <3>2, <3>3
  <2>. QED  BY <2>2 DEF OrderInv
<1>12. PlaceInv'
  <2>1. ASSUME NEW b \in Bos, NEW c \in Channels, NEW i \in 1 .. Len(ring'[c]), IsUse(ring'[c][i], b)
        PROVE  ring'[c][i].place[b] = bos[b].place
    <3>1. CASE i \in 1 .. Len(ring[c]) /\ ring'[c][i] = ring[c][i]
      BY <2>1, <3>1 DEF PlaceInv, GemInv
    <3>2. CASE i - Len(ring[t]) \in 1 .. Len(items) /\ ring'[c][i] = items[i - Len(ring[t])]
      BY <2>1, <3>2
    <3>. QED  BY <1>8, <3>1, <3>2
  <2>. QED  BY <2>1 DEF PlaceInv
<1>. QED  BY <1>4, <1>5, <1>6, <1>7, <1>9, <1>10, <1>11, <1>12 DEF GemInv

LEMMA SetToSeqIs ==
  ASSUME NEW S, IsFiniteSet(S)
  PROVE  SetToSeq(S) \in Seq(S) /\ Range(SetToSeq(S)) = S
<1>. DEFINE n == Cardinality(S)
            s == SetToSeq(S)
<1>1. n \in Nat /\ ExistsBijection(1 .. n, S)
  BY FS_CardinalityType
<1>2. \E f \in [1 .. n -> S] : IsInjective(f)
  BY <1>1 DEF ExistsBijection, Bijection, Injection
<1>3. s \in [1 .. n -> S] /\ IsInjective(s)
  BY <1>2 DEF SetToSeq
<1>4. IsFiniteSet(1 .. n) /\ Cardinality(1 .. n) = n
  BY <1>1, FS_Interval
<1>5. s \in Surjection(1 .. n, S)
  BY <1>3, <1>4, FS_Injection DEF Injection
<1>6. s \in Seq(S)
  BY <1>1, <1>3, SeqDef
<1>. HIDE DEF s, n
<1>7. Range(s) = S
  BY <1>3, <1>5 DEF Surjection, Range
<1>. QED  BY <1>6, <1>7 DEF s

\* The acquires are those of the needed fences, and those are fences of the buffer.
LEMMA FenceSyncIs ==
  ASSUME GemInv, NEW b \in Bos, NEW c \in Channels, NEW w
  PROVE  /\ FenceSync(b, c, w) \in Seq(Items) /\ Len(FenceSync(b, c, w)) \in Nat
         /\ \A i \in 1 .. Len(FenceSync(b, c, w)) :
              /\ FenceSync(b, c, w)[i].k = "acquire"
              /\ Known(ring, FenceSync(b, c, w)[i].fence)
         /\ \A f \in Needed(b, c, w) : \E i \in 1 .. Len(FenceSync(b, c, w)) :
              FenceSync(b, c, w)[i] = Acquire(f)
         /\ Needed(b, c, w) \subseteq Numbers
<1>. DEFINE N == Needed(b, c, w)
            S == {Acquire(f) : f \in N}
            s == SetToSeq(S)
<1>1. /\ bos[b].excl \in Numbers \cup {Nil} /\ bos[b].shared \in SUBSET Numbers
      /\ IsFiniteSet(bos[b].shared)
      /\ Known(ring, bos[b].excl) /\ \A f \in bos[b].shared : Known(ring, f)
  BY DEF GemInv, TypesInv, KnownInv, Buffers
<1>2. N \subseteq bos[b].shared \cup {bos[b].excl} /\ (bos[b].excl = Nil => N \subseteq bos[b].shared)
  BY DEF Needed
<1>3. IsFiniteSet(bos[b].shared \cup {bos[b].excl})
  BY <1>1, FS_AddElement
<1>4. IsFiniteSet(N)
  BY <1>2, <1>3, FS_Subset
<1>5. N \subseteq Numbers /\ \A f \in N : Known(ring, f)
  BY <1>1, <1>2
<1>. HIDE DEF N
<1>6. IsFiniteSet(S)
  <2>. DEFINE g == [f \in N |-> Acquire(f)]
  <2>1. g \in Surjection(N, S)
    BY DEF Surjection
  <2>. QED  BY <1>4, <2>1, FS_Surjection
<1>7. \A x \in S : x \in Items /\ x.k = "acquire" /\ Known(ring, x.fence)
  BY <1>5, ItemIs
<1>8. \A f \in N : Acquire(f) \in S
  OBVIOUS
<1>. HIDE DEF S
<1>9. s \in Seq(S) /\ Range(s) = S
  BY <1>6, SetToSeqIs
<1>. HIDE DEF s
<1>10. Len(s) \in Nat /\ DOMAIN s = 1 .. Len(s) /\ \A i \in 1 .. Len(s) : s[i] \in S
  BY <1>9, LenProperties, ElementOfSeq
<1>11. s \in Seq(Items)
  BY <1>7, <1>9, SeqMonotonic
<1>12. \A x \in S : \E i \in 1 .. Len(s) : s[i] = x
  BY <1>9, <1>10 DEF Range
<1>13. FenceSync(b, c, w) = s
  BY DEF FenceSync, s, S, N
<1>14. \A f \in N : \E i \in 1 .. Len(s) : s[i] = Acquire(f)
  BY <1>8, <1>12
<1>. QED  BY <1>5, <1>7, <1>10, <1>11, <1>13, <1>14 DEF N

\* Once the ring has been executed to where nouveau_fence_sync left it, there is
\* nothing to wait for.
LEMMA SyncSettles ==
  ASSUME GemInv, NEW b \in Bos, NEW t \in Channels, NEW w \in BOOLEAN, NEW new,
         Extends(ring, new, t, FenceSync(b, t, w)), NEW K \in Cuts(new), K[t] = Len(new[t])
  PROVE  Settled(new, K, bos[b], w)
<1>. DEFINE items == FenceSync(b, t, w)
            v == bos[b]
            N == Needed(b, t, w)
            n == Len(ring[t])
<1>1. ring \in Rings /\ AcquiresKnown(ring)
  BY DEF GemInv, TypesInv, KnownInv
<1>2. /\ items \in Seq(Items) /\ Len(items) \in Nat /\ N \subseteq Numbers
      /\ \A f \in N : \E i \in 1 .. Len(items) : items[i] = Acquire(f)
  BY FenceSyncIs
<1>. HIDE DEF items
<1>3. /\ new \in Rings /\ Len(new[t]) = n + Len(items) /\ n \in Nat
      /\ \A i \in 1 .. Len(items) : new[t][n + i] = items[i]
  BY <1>1, ExtendedRing, RingIs DEF items
<1>4. ASSUME NEW f \in N PROVE Done(new, K, f)
  <2>1. PICK i \in 1 .. Len(items) : items[i] = Acquire(f)
    BY <1>2
  <2>2. new[t][n + i] = Acquire(f) /\ n + i \in 1 .. K[t]
    BY <1>2, <1>3, <2>1
  <2>3. Acquire(f).k = "acquire" /\ Acquire(f).fence = f
    BY DEF Acquire
  <2>. QED  BY <1>3, <2>2, <2>3, CutIs
<1>5. ASSUME NEW f, Known(ring, f), Signalled(f) \/ f[1] = t PROVE Done(new, K, f)
  <2>1. Known(new, f)
    BY <1>1, <1>5, ExtendedKnown
  <2>2. CASE f = Nil
    BY <2>2 DEF Done
  <2>3. CASE f # Nil
    BY <1>3, <1>5, <2>1, <2>3, SignalledDone
  <2>. QED  BY <2>2, <2>3
<1>6. Known(ring, v.excl) /\ \A f \in v.shared : Known(ring, f)
  BY DEF GemInv, KnownInv
<1>7. ASSUME ~w \/ v.shared = {} PROVE Done(new, K, v.excl)
  <2>1. CASE v.excl = Nil
    BY <2>1 DEF Done
  <2>2. CASE v.excl # Nil
    <3>1. v.excl \in N \/ Signalled(v.excl) \/ v.excl[1] = t
      BY <1>7, <2>2 DEF Needed
    <3>. QED  BY <1>4, <1>5, <1>6, <3>1
  <2>. QED  BY <2>1, <2>2
<1>8. ASSUME w, v.shared # {} PROVE AllDone(new, K, v)
  <2>1. ASSUME NEW f \in v.shared PROVE Done(new, K, f)
    <3>1. f \in N \/ Signalled(f) \/ f[1] = t
      BY <1>8, <2>1 DEF Needed
    <3>. QED  BY <1>4, <1>5, <1>6, <3>1
  <2>2. Done(new, K, v.excl)
    BY <1>8, <2>1, StillShared
  <2>. QED  BY <2>1, <2>2 DEF AllDone
<1>. QED  BY <1>7, <1>8 DEF Settled, AllDone

LEMMA ValidatedStep ==
  ASSUME GemInv, NEW t \in Clients, Validated(t)
  PROVE  GemInv'
<1>. DEFINE p == push[t]
            e == OpListOf(p)[p.k]
            b == p.req.bos[e].bo
            w == p.req.bos[e].write
            wrong == family = "older" /\ p.presumed[b] # bos[b].place
            m == [p.presumed EXCEPT ![b] = IF wrong THEN bos[b].place ELSE @]
            bad == IF wrong THEN p.invalid \cup {b} ELSE p.invalid
            re == p.reloc \/ wrong
            q == [p EXCEPT !.k = p.k + 1, !.presumed = m, !.invalid = bad, !.reloc = re]
            items == FenceSync(b, t, w)
<1>1. p \in Calls(family) /\ CallOK(t, p, Mine(t), ring[t], family) /\ family \in Families /\ t \in Channels
  BY CallIs DEF GemInv
<1>2. BoOf(t) = b /\ Entry(t, Ith(t)).write = w /\ Ith(t) = e /\ Allowed(t, Ith(t)) = p.req.bos[e].valid
  BY ListIs DEF BoOf, Ith, Entry, Allowed
<1>3. /\ p.pc = "list" /\ p.k <= Len(OpListOf(p)) /\ bos[b].place \in p.req.bos[e].valid
      /\ family' = family /\ executing' = executing /\ bos' = bos
      /\ ring' = [ring EXCEPT ![t] = @ \o items]
  BY <1>2, ListIs DEF Validated, Listing, At, InPlace
<1>4. push' = [push EXCEPT ![t] = q]
  <2>1. push' = [push EXCEPT ![t].k = @ + 1,
                             ![t].presumed[b] = IF wrong THEN bos[b].place ELSE @,
                             ![t].invalid = IF wrong THEN @ \cup {b} ELSE @,
                             ![t].reloc = @ \/ wrong]
    BY <1>2 DEF Validated
  <2>. QED  BY <2>1
<1>5. CallType(p, family) /\ GotOK(p) /\ FlowOK(p) /\ NamedOK(p) /\ HeldBy(p) = Mine(t) /\ p.req # Nil
  BY <1>1, <1>3 DEF CallOK, CallType
<1>6. /\ Len(OpListOf(p)) \in Nat /\ p.k \in 1 .. Len(OpListOf(p)) /\ p.k \in Nat
      /\ \A j \in 1 .. Len(OpListOf(p)) : OpListOf(p)[j] \in ToSet(p.got)
  <2>1. /\ Len(OpListOf(p)) \in Nat
        /\ \A j \in 1 .. Len(OpListOf(p)) : OpListOf(p)[j] \in ToSet(p.got)
    BY <1>1, <1>5, OpListIs
  <2>. DEFINE l == Len(OpListOf(p))
  <2>2. p.k \in 1 .. l + 1 /\ p.k <= l /\ l \in Nat
    BY <1>3, <1>5, <2>1 DEF FlowOK
  <2>. HIDE DEF l, p
  <2>3. p.k \in 1 .. l /\ p.k \in Nat
    BY <2>2
  <2>. QED  BY <2>1, <2>3 DEF l
<1>7. e \in ToSet(p.got) /\ b \in Bos /\ w \in BOOLEAN
  <2>1. e \in ToSet(p.got)
    BY <1>6
  <2>. QED  BY <2>1, CallIs DEF GemInv
<1>8. bos[b].place \in Places
  BY <1>7 DEF GemInv, TypesInv, Buffers
<1>. HIDE DEF p, e, b, w
<1>9. m \in Maps /\ DOMAIN m = DOMAIN p.presumed
  <2>1. PICK B \in SUBSET Bos : p.presumed \in [B -> Places]
    BY <1>1 DEF Calls, Maps
  <2>2. m \in [B -> Places]
    BY <1>8, <2>1
  <2>. QED  BY <2>1, <2>2 DEF Maps
<1>10. bad \in SUBSET Bos /\ re \in BOOLEAN
  BY <1>1, <1>7 DEF Calls
<1>. HIDE DEF m, bad, re, wrong
<1>11. /\ q \in Calls(family) /\ q.k = p.k + 1
       /\ q.pc = "list" /\ q.req = p.req /\ q.got = p.got /\ q.fence = p.fence /\ q.then = p.then
       /\ q.cmds = p.cmds /\ q.presumed = m
  <2>1. p.k + 1 \in Nat
    BY <1>6
  <2>2. \A n \in Nat : [p EXCEPT !.k = n, !.presumed = m, !.invalid = bad, !.reloc = re] \in Calls(family)
    BY <1>1, <1>9, <1>10 DEF Calls
  <2>3. q \in Calls(family)
    BY <2>1, <2>2
  <2>. QED  BY <1>1, <1>3, <2>3 DEF Calls
<1>. HIDE DEF q
<1>12. HeldBy(q) = HeldBy(p) /\ GotOK(q) /\ OpListOf(q) = OpListOf(p)
  BY <1>5, <1>11, HeldSame
<1>13. p.fence = Nil
  BY <1>3, <1>5 DEF FlowOK
<1>14. CallOK(t, q, Mine(t), ring'[t], family)
  <2>1. q.k \in 1 .. Len(OpListOf(q)) + 1
    BY <1>6, <1>11, <1>12
  <2>2. FlowOK(q)
    BY <1>3, <1>5, <1>11, <1>13, <2>1 DEF FlowOK
  <2>3. CallType(q, family) /\ ReserveOK(q) /\ NamedOK(q) /\ RingOK(t, q, ring'[t], family)
    BY <1>3, <1>5, <1>9, <1>11, <1>12, <1>13 DEF CallType, ReserveOK, NamedOK, RingOK, Tracking
  <2>. QED  BY <1>5, <1>12, <2>2, <2>3 DEF CallOK
<1>15. /\ items \in Seq(Items) /\ Len(items) \in Nat
       /\ \A i \in 1 .. Len(items) : items[i].k = "acquire" /\ Known(ring, items[i].fence)
  BY <1>1, <1>7, FenceSyncIs
<1>16. Extends(ring, ring', t, items)
  BY <1>3, <1>15 DEF Extends
<1>17. \A K \in Cuts(ring') : K[t] = Len(ring'[t]) => Settled(ring', K, bos[b], w)
  BY <1>1, <1>7, <1>16, SyncSettles
<1>18. \A i \in 1 .. Len(items), x \in Bos : ~IsUse(items[i], x)
  BY <1>15 DEF IsUse
<1>. HIDE DEF items
<1>19. \A i \in SyncedBy(q) : i \in SyncedBy(p) \/ i = e
  <2>1. \A j \in 1 .. q.k - 1 : j \in 1 .. p.k - 1 \/ j = p.k
    BY <1>6, <1>11
  <2>. QED  BY <1>3, <1>11, <1>12, <2>1 DEF SyncedBy, e
<1>20. \A i \in SyncedBy(q) :
         \/ i \in SyncedBy(p)
         \/ /\ q.req.bos[i].bo \in Bos /\ bos[q.req.bos[i].bo].place \in q.req.bos[i].valid
            /\ \A K \in Cuts(ring') : K[t] = Len(ring'[t]) =>
                 Settled(ring', K, bos[q.req.bos[i].bo], q.req.bos[i].write)
  BY <1>3, <1>7, <1>11, <1>17, <1>19 DEF b, w
<1>21. \A x \in Bos : \A i \in 1 .. Len(ring[t]) : ~Unattached(p, Len(ring[t]), i, x, family)
  BY <1>3, AllAttached DEF GemInv, p
<1>. QED  BY <1>3, <1>4, <1>11, <1>14, <1>15, <1>16, <1>18, <1>20, <1>21, ExtendStep DEF p

LEMMA UserJobIs ==
  ASSUME GemInv, NEW t \in Clients, push[t].pc \in {"list", "submit", "fence"}
  PROVE  /\ UserJob(t) \in Items /\ UserJob(t).k = "job" /\ JobOf(UserJob(t), push[t])
         /\ \A b \in Bos : IsUse(UserJob(t), b) =>
              /\ UserJob(t).place[b] = bos[b].place /\ b \in HeldBy(push[t])
              /\ \E n \in ToSet(push[t].got) :
                   push[t].req.bos[n].bo = b /\ (UserJob(t).uses[b] => push[t].req.bos[n].write)
<1>. DEFINE p == push[t]
            r == p.req.bos
            B == {r[i].bo : i \in DOMAIN r}
            u == UsesOf(p)
            at == [b \in DOMAIN u |-> bos[b].place]
            x == UserJob(t)
<1>1. p \in Calls(family) /\ CallOK(t, p, Mine(t), ring[t], family) /\ family \in Families
  BY CallIs DEF GemInv
<1>2. NamedOK(p) /\ p.req # Nil /\ p.cmds \in Maps
  BY <1>1 DEF CallOK, CallType, Calls
<1>3. /\ DOMAIN r = 1 .. Len(r) /\ \A i \in 1 .. Len(r) : r[i].bo \in Bos /\ r[i].write \in BOOLEAN
  BY <1>1, <1>2, RequestIs
<1>4. u = [b \in B |-> \E i \in DOMAIN r : r[i].bo = b /\ r[i].write]
  BY DEF UsesOf
<1>5. B \in SUBSET Bos /\ u \in [B -> BOOLEAN]
  BY <1>3, <1>4
<1>. HIDE DEF u
<1>6. at \in [B -> Places] /\ \A b \in B : at[b] = bos[b].place
  BY <1>5 DEF GemInv, TypesInv, Buffers
<1>7. x = [k |-> "job", uses |-> u, place |-> at, at |-> p.cmds, loose |-> FALSE]
  BY ListIs DEF UserJob, Job, u
<1>. HIDE DEF x, at
<1>8. x \in [k : {"job"}, uses : [B -> BOOLEAN], place : [B -> Places], at : Maps, loose : BOOLEAN]
  BY <1>2, <1>5, <1>6, <1>7
<1>9. x \in Items
  BY <1>5, <1>8 DEF Items, Jobs
<1>10. x.k = "job" /\ JobOf(x, p)
  BY <1>7 DEF JobOf, u
<1>11. ASSUME NEW b \in Bos, IsUse(x, b)
       PROVE  /\ x.place[b] = bos[b].place /\ b \in HeldBy(p)
              /\ \E n \in ToSet(p.got) : r[n].bo = b /\ (x.uses[b] => r[n].write)
  <2>1. b \in B /\ x.uses = u /\ x.place = at
    BY <1>5, <1>7, <1>11 DEF IsUse
  <2>2. \A j \in 1 .. Len(r) : r[j].bo \in HeldBy(p)
    BY <1>2 DEF NamedOK
  <2>3. \A j, k \in 1 .. Len(r) : r[j].bo = r[k].bo => j = k
    BY <1>2 DEF NamedOK
  <2>4. b \in HeldBy(p)
    BY <1>3, <2>1, <2>2
  <2>5. PICK n \in ToSet(p.got) : r[n].bo = b
    BY <2>4 DEF HeldBy
  <2>6. n \in 1 .. Len(r)
    BY <2>5, CallIs DEF GemInv
  <2>7. x.uses[b] => r[n].write
    <3>1. u[b] = \E i \in DOMAIN r : r[i].bo = b /\ r[i].write
      BY <1>4, <2>1
    <3>2. \A i \in DOMAIN r : r[i].bo = b => i = n
      BY <1>3, <2>3, <2>5, <2>6
    <3>. QED  BY <2>1, <3>1, <3>2
  <2>. QED  BY <1>6, <2>1, <2>4, <2>5, <2>7
<1>. QED  BY <1>9, <1>10, <1>11 DEF x

LEMMA SubmitStep ==
  ASSUME GemInv, NEW t \in Clients, Submit(t), family = "tesla"
  PROVE  GemInv'
<1>. DEFINE p == push[t]
            q == [p EXCEPT !.pc = "fence"]
            x == UserJob(t)
            items == <<x>>
            n == Len(ring[t])
<1>1. p \in Calls(family) /\ CallOK(t, p, Mine(t), ring[t], family) /\ t \in Channels /\ ring \in Rings
  BY CallIs DEF GemInv, TypesInv
<1>2. /\ push' = [push EXCEPT ![t] = q] /\ family' = family /\ executing' = executing /\ bos' = bos
      /\ ring' = [ring EXCEPT ![t] = Append(@, x)]
  BY DEF Submit, PushTo, OfCall
<1>3. p.pc \in {"list", "submit"} /\ p.fence = Nil /\ SyncedBy(p) = ToSet(p.got) /\ p.then = "idle"
  BY AllSynced DEF Submit
<1>4. /\ x \in Items /\ x.k = "job" /\ JobOf(x, p)
      /\ \A b \in Bos : IsUse(x, b) =>
              /\ x.place[b] = bos[b].place /\ b \in HeldBy(p)
              /\ \E i \in ToSet(p.got) :
                   p.req.bos[i].bo = b /\ (x.uses[b] => p.req.bos[i].write)
  BY <1>3, UserJobIs
<1>. HIDE DEF p, x
<1>5. CallType(p, family) /\ NamedOK(p) /\ FlowOK(p) /\ GotOK(p) /\ HeldBy(p) = Mine(t)
  BY <1>1 DEF CallOK
<1>6. /\ q \in Calls(family) /\ q.i = p.i
      /\ q.pc = "fence" /\ q.req = p.req /\ q.got = p.got /\ q.fence = p.fence /\ q.then = p.then
      /\ q.cmds = p.cmds /\ q.presumed = p.presumed
  BY <1>1 DEF Calls, Pcs
<1>. HIDE DEF q
<1>7. HeldBy(q) = HeldBy(p) /\ GotOK(q)
  BY <1>5, <1>6, HeldSame
<1>8. ring[t] \in Seq(Items) /\ items \in Seq(Items) /\ Len(items) = 1 /\ items[1] = x /\ n \in Nat
  BY <1>1, <1>4, RingIs
<1>9. Append(ring[t], x) = ring[t] \o items
  BY <1>4, <1>8, AppendIsConcat
<1>10. Extends(ring, ring', t, items)
  BY <1>2, <1>8, <1>9 DEF Extends
<1>. HIDE DEF items
<1>11. Len(ring'[t]) = n + 1 /\ ring'[t][n + 1] = x
  <2>1. /\ Len(ring'[t]) = n + Len(items)
        /\ \A i \in 1 .. Len(items) : ring'[t][n + i] = items[i]
    BY <1>1, <1>10, ExtendedRing
  <2>. QED  BY <1>8, <2>1
<1>12. CallOK(t, q, Mine(t), ring'[t], family)
  <2>1. FlowOK(q) /\ ReserveOK(q) /\ NamedOK(q) /\ CallType(q, family)
    BY <1>3, <1>5, <1>6, <1>7 DEF FlowOK, ReserveOK, NamedOK, Tracking, CallType
  <2>2. JobOf(ring'[t][Len(ring'[t])], q)
    BY <1>4, <1>6, <1>11 DEF JobOf, UsesOf
  <2>3. RingOK(t, q, ring'[t], family)
    BY <1>3, <1>6, <2>2 DEF RingOK
  <2>. QED  BY <1>5, <1>7, <2>1, <2>3 DEF CallOK
<1>13. \A i \in 1 .. Len(items) : i = 1
  BY <1>8
<1>14. \A i \in 1 .. Len(items) : items[i].k # "acquire"
  BY <1>4, <1>8, <1>13
<1>15. ASSUME NEW i \in 1 .. Len(items), NEW b \in Bos, IsUse(items[i], b)
       PROVE  /\ items[i].place[b] = bos[b].place
              /\ Unattached(q, Len(ring'[t]), n + i, b, family)
              /\ \E m \in SyncedBy(p) : /\ p.req.bos[m].bo = b
                                        /\ items[i].uses[b] => p.req.bos[m].write
  <2>1. i = 1 /\ items[i] = x
    BY <1>8, <1>13
  <2>. QED  BY <1>3, <1>4, <1>6, <1>7, <1>11, <1>15, <2>1 DEF Unattached
<1>16. SyncedBy(q) \subseteq SyncedBy(p)
  BY <1>3, <1>6 DEF SyncedBy
<1>17. \A x1 \in Bos : \A i \in 1 .. Len(ring[t]) : ~Unattached(p, Len(ring[t]), i, x1, family)
  BY <1>3, AllAttached DEF GemInv, p
<1>18. \A i \in 1 .. Len(items), b \in Bos : IsUse(items[i], b) =>
         /\ items[i].place[b] = bos[b].place
         /\ Unattached(q, Len(ring'[t]), Len(ring[t]) + i, b, family)
         /\ \E m \in SyncedBy(push[t]) : /\ push[t].req.bos[m].bo = b
                                         /\ items[i].uses[b] => push[t].req.bos[m].write
  BY <1>15 DEF p
<1>19. \A i \in 1 .. Len(items) : items[i].k = "acquire" => Known(ring, items[i].fence)
  BY <1>14
<1>20. \A i \in SyncedBy(q) : i \in SyncedBy(push[t])
  BY <1>16 DEF p
<1>21. \A b \in Bos : \A i \in 1 .. Len(ring[t]) :
         Unattached(push[t], Len(ring[t]), i, b, family) => Unattached(q, Len(ring'[t]), i, b, family)
  BY <1>17 DEF p
<1>. QED  BY <1>2, <1>6, <1>10, <1>12, <1>18, <1>19, <1>20, <1>21, ExtendStep DEF p

LEMMA FenceNewStep ==
  ASSUME GemInv, NEW t \in Clients, FenceNew(t)
  PROVE  GemInv'
<1>. DEFINE p == push[t]
            pc == IF p.req.sync THEN "wait" ELSE "fini"
            f == NextFence(t)
            q == Ended(p, pc, f)
            x == UserJob(t)
            items == IF family = "tesla" THEN <<FenceItem>> ELSE <<x, FenceItem>>
            n == Len(ring[t])
<1>1. p \in Calls(family) /\ CallOK(t, p, Mine(t), ring[t], family) /\ t \in Channels /\ ring \in Rings
  BY CallIs DEF GemInv, TypesInv
<1>2. p.pc = "fence" /\ family' = family /\ executing' = executing /\ bos' = bos
  BY DEF FenceNew, At, OfCall
<1>3. push' = [push EXCEPT ![t] = q]
  BY DEF FenceNew, Finish, Ended
<1>4. /\ x \in Items /\ x.k = "job" /\ JobOf(x, p)
      /\ \A b \in Bos : IsUse(x, b) =>
              /\ x.place[b] = bos[b].place /\ b \in HeldBy(p)
              /\ \E i \in ToSet(p.got) :
                   p.req.bos[i].bo = b /\ (x.uses[b] => p.req.bos[i].write)
  BY <1>2, UserJobIs
<1>5. ring[t] \in Seq(Items) /\ n \in Nat /\ DOMAIN ring[t] = 1 .. n
  BY <1>1, RingIs
<1>6. /\ items \in Seq(Items) /\ Len(items) \in Nat
      /\ family = "tesla" => Len(items) = 1 /\ items[1] = FenceItem
      /\ family # "tesla" => Len(items) = 2 /\ items[1] = x /\ items[2] = FenceItem
  <2>. HIDE DEF x
  <2>. QED  BY <1>4, ItemIs
<1>7. Extends(ring, ring', t, items)
  <2>1. family = "tesla" => ring' = [ring EXCEPT ![t] = Append(ring[t], FenceItem)]
    BY DEF FenceNew
  <2>2. family # "tesla" => ring' = [ring EXCEPT ![t] = ring[t] \o items]
    BY DEF FenceNew
  <2>3. Append(ring[t], FenceItem) = ring[t] \o <<FenceItem>>
    BY <1>5, ItemIs, AppendIsConcat
  <2>. QED  BY <1>6, <2>1, <2>2, <2>3 DEF Extends
<1>8. f = <<t, Count(ring[t], n) + 1>>
  BY <1>5 DEF NextFence, Queued, Count
<1>9. Count(ring[t], n) \in Nat
  BY <1>5, CountType
<1>10. f \in Numbers /\ f # Nil /\ pc \in {"wait", "fini"} /\ pc \in Pcs
  <2>1. f \in Numbers
    BY <1>1, <1>8, <1>9 DEF Numbers
  <2>. QED  BY <2>1, NumberIs DEF Pcs
<1>. HIDE DEF p, x, f, pc, n
<1>11. /\ q \in Calls(family) /\ q.pc = pc /\ q.req = p.req /\ q.got = p.got /\ q.fence = f
       /\ q.then = "idle" /\ q.cmds = <<>> /\ q.presumed = <<>>
  BY <1>1, <1>10, EndedIs
<1>. HIDE DEF q, items
<1>12. CallType(p, family) /\ NamedOK(p) /\ FlowOK(p) /\ GotOK(p) /\ HeldBy(p) = Mine(t)
       /\ RingOK(t, p, ring[t], family)
  BY <1>1 DEF CallOK
<1>13. HeldBy(q) = HeldBy(p) /\ GotOK(q)
  BY <1>10, <1>11, <1>12, HeldSame
<1>. DEFINE s == ring'[t]
            l == Len(ring'[t])
<1>14. /\ l = n + Len(items) /\ l \in Nat
       /\ \A i \in 1 .. n : s[i] = ring[t][i]
       /\ \A i \in 1 .. Len(items) : s[n + i] = items[i]
  <2>1. /\ ring' \in Rings /\ Len(ring'[t]) = Len(ring[t]) + Len(items)
        /\ \A i \in 1 .. Len(ring[t]) : ring'[t][i] = ring[t][i]
        /\ \A i \in 1 .. Len(items) : ring'[t][Len(ring[t]) + i] = items[i]
    BY <1>1, <1>7, ExtendedRing
  <2>2. Len(ring'[t]) \in Nat
    BY <1>1, <2>1, RingIs
  <2>. QED  BY <2>1, <2>2 DEF s, l, n
<1>. HIDE DEF s, l
<1>15. /\ l = n + Len(items) /\ l \in Nat /\ n \in Nat
       /\ \A i \in 1 .. Len(items) : s[n + i] = items[i]
  BY <1>5, <1>14
<1>16. family = "tesla" => l = n + 1 /\ s[n + 1] = FenceItem
  <2>. SUFFICES ASSUME family = "tesla" PROVE l = n + 1 /\ s[n + 1] = FenceItem
    OBVIOUS
  <2>1. Len(items) = 1
    BY <1>6
  <2>2. items[1] = FenceItem
    BY <1>6
  <2>3. 1 \in 1 .. Len(items)
    BY <2>1
  <2>4. s[n + 1] = items[1]
    BY <1>15, <2>3
  <2>. QED  BY <1>15, <2>1, <2>2, <2>4
<1>17. family # "tesla" => l = n + 2 /\ s[n + 1] = x /\ s[n + 2] = FenceItem
  <2>. SUFFICES ASSUME family # "tesla" PROVE l = n + 2 /\ s[n + 1] = x /\ s[n + 2] = FenceItem
    OBVIOUS
  <2>1. Len(items) = 2
    BY <1>6
  <2>2. items[1] = x /\ items[2] = FenceItem
    BY <1>6
  <2>3. 1 \in 1 .. Len(items) /\ 2 \in 1 .. Len(items)
    BY <2>1
  <2>4. s[n + 1] = items[1] /\ s[n + 2] = items[2]
    BY <1>15, <2>3
  <2>. QED  BY <1>15, <2>1, <2>2, <2>4
<1>18. /\ l > 0 /\ s[l] = FenceItem
       /\ l > 1 => l - 1 \in Nat /\ JobOf(s[l - 1], p)
       /\ Count(s, l) = Count(ring[t], n) + 1
  <2>1. Count(s, n) = Count(ring[t], n)
    <3>1. \A j \in 1 .. n : s[j] = FenceItem <=> ring[t][j] = FenceItem
      BY <1>14
    <3>. QED  BY <1>5, <3>1, CountSame
  <2>2. CASE family = "tesla"
    <3>1. l = n + 1 /\ s[n + 1] = FenceItem
      BY <1>16, <2>2
    <3>2. Count(s, n + 1) = Count(s, n) + 1
      BY <1>5, <3>1, CountNext
    <3>3. l > 1 => JobOf(s[l - 1], p)
      <4>1. n > 0 => JobOf(ring[t][n], p) /\ s[n] = ring[t][n]
        BY <1>2, <1>5, <1>12, <1>14, <2>2 DEF RingOK, n
      <4>2. l - 1 = n
        BY <1>5, <3>1
      <4>. QED  BY <1>5, <3>1, <4>1, <4>2
    <3>. QED  BY <1>5, <2>1, <3>1, <3>2, <3>3
  <2>3. CASE family # "tesla"
    <3>1. l = n + 2 /\ s[n + 1] = x /\ s[n + 2] = FenceItem
      BY <1>17, <2>3
    <3>2. x # FenceItem
      BY <1>4, ItemIs
    <3>3. Count(s, n + 1) = Count(s, n)
      BY <1>5, <1>9, <2>1, <3>1, <3>2, CountNext
    <3>4. Count(s, n + 1 + 1) = Count(s, n + 1) + 1
      <4>1. n + 1 \in Nat /\ n + 1 + 1 = n + 2
        BY <1>5
      <4>. QED  BY <3>1, <4>1, CountNext
    <3>5. l - 1 = n + 1 /\ n + 1 + 1 = l
      BY <1>5, <3>1
    <3>. QED  BY <1>4, <1>5, <2>1, <3>1, <3>3, <3>4, <3>5
  <2>. QED  BY <2>2, <2>3
<1>19. CallOK(t, q, Mine(t), ring'[t], family)
  <2>1. FlowOK(q) /\ ReserveOK(q) /\ CallType(q, family)
    BY <1>10, <1>11, <1>12, <1>2 DEF FlowOK, ReserveOK, CallType
  <2>2. NamedOK(q)
    BY <1>2, <1>10, <1>11, <1>12 DEF NamedOK, Tracking
  <2>3. RingOK(t, q, s, family)
    BY <1>8, <1>9, <1>10, <1>11, <1>18 DEF RingOK, JobOf, UsesOf, l, s
  <2>. QED  BY <1>12, <1>13, <2>1, <2>2, <2>3 DEF CallOK, s
<1>20. Tracking(q) /\ SyncedBy(q) = ToSet(p.got) /\ SyncedBy(p) = ToSet(p.got)
  BY <1>2, <1>10, <1>11 DEF SyncedBy, Tracking
<1>21. \A i \in 1 .. Len(items) : items[i] = FenceItem \/ (family # "tesla" /\ i = 1 /\ items[i] = x)
  BY <1>6
<1>22. \A i \in 1 .. Len(items) : items[i].k # "acquire"
  BY <1>4, <1>21, ItemIs
<1>23. ASSUME NEW i \in 1 .. Len(items), NEW b \in Bos, IsUse(items[i], b)
       PROVE  /\ items[i].place[b] = bos[b].place
              /\ Unattached(q, Len(ring'[t]), n + i, b, family)
              /\ \E m \in SyncedBy(p) : /\ p.req.bos[m].bo = b
                                        /\ items[i].uses[b] => p.req.bos[m].write
  <2>1. i = 1 /\ items[i] = x /\ family # "tesla"
    BY <1>21, <1>23, ItemIs DEF IsUse
  <2>2. n + i = l - 1
    BY <1>15, <1>17, <2>1
  <2>. QED  BY <1>4, <1>13, <1>20, <1>23, <2>1, <2>2 DEF Unattached, l
<1>24. ASSUME NEW b \in Bos, NEW i \in 1 .. n, Unattached(p, n, i, b, family)
       PROVE  Unattached(q, Len(ring'[t]), i, b, family)
  <2>1. family = "tesla" /\ i = n /\ b \in HeldBy(p)
    BY <1>2, <1>24 DEF Unattached, Tracking
  <2>2. i = l - 1
    BY <1>15, <1>16, <2>1
  <2>. QED  BY <1>13, <1>20, <2>1, <2>2 DEF Unattached, l
<1>25. \A i \in 1 .. Len(items), b \in Bos : IsUse(items[i], b) =>
         /\ items[i].place[b] = bos[b].place
         /\ Unattached(q, Len(ring'[t]), Len(ring[t]) + i, b, family)
         /\ \E m \in SyncedBy(push[t]) : /\ push[t].req.bos[m].bo = b
                                         /\ items[i].uses[b] => push[t].req.bos[m].write
  BY <1>23 DEF p, n
<1>26. \A i \in 1 .. Len(items) : items[i].k = "acquire" => Known(ring, items[i].fence)
  BY <1>22
<1>27. \A i \in SyncedBy(q) : i \in SyncedBy(push[t])
  BY <1>20 DEF p
<1>28. \A b \in Bos : \A i \in 1 .. Len(ring[t]) :
         Unattached(push[t], Len(ring[t]), i, b, family) => Unattached(q, Len(ring'[t]), i, b, family)
  BY <1>24 DEF p, n
<1>. QED  BY <1>2, <1>3, <1>7, <1>11, <1>19, <1>25, <1>26, <1>27, <1>28, ExtendStep DEF p

-----------------------------------------------------------------------------
(* Commands whose fence could not be emitted, and the end of a call.       *)

LEMMA LooseIs ==
  ASSUME NEW x \in Jobs
  PROVE  LET y == [x EXCEPT !.loose = TRUE]
         IN  /\ y \in Items /\ y.k = "job" /\ y # FenceItem /\ \A b : ~IsUse(y, b)
<1>. DEFINE y == [x EXCEPT !.loose = TRUE]
<1>1. PICK B \in SUBSET Bos : x \in [k : {"job"}, uses : [B -> BOOLEAN], place : [B -> Places], at : Maps, loose : BOOLEAN]
  BY DEF Jobs
<1>2. y \in [k : {"job"}, uses : [B -> BOOLEAN], place : [B -> Places], at : Maps, loose : BOOLEAN] /\ y.loose
  BY <1>1
<1>. HIDE DEF y
<1>3. y \in Jobs /\ y.k = "job"
  BY <1>2 DEF Jobs
<1>4. y \in Items
  BY <1>3 DEF Items
<1>. QED  BY <1>2, <1>3, <1>4, ItemIs DEF IsUse, y

LEMMA LoosenStep ==
  ASSUME GemInv, NEW t \in Clients, FenceNewFails(t), family = "tesla", ring[t] # <<>>
  PROVE  GemInv'
<1>. DEFINE p == push[t]
            q == Ended(p, "fini", Nil)
            s == ring[t]
            n == Len(s)
            x == s[n]
            y == [x EXCEPT !.loose = TRUE]
<1>1. p \in Calls(family) /\ CallOK(t, p, Mine(t), s, family) /\ t \in Channels /\ ring \in Rings
  BY CallIs DEF GemInv, TypesInv
<1>2. /\ p.pc = "fence" /\ family' = family /\ executing' = executing /\ bos' = bos
      /\ ring' = [ring EXCEPT ![t] = [s EXCEPT ![n] = y]]
  BY DEF FenceNewFails, At, OfCall
<1>3. push' = [push EXCEPT ![t] = q]
  BY DEF FenceNewFails, Fail, Finish, Ended
<1>4. s \in Seq(Items) /\ n \in Nat /\ s \in [1 .. n -> Items] /\ n \in 1 .. n
  <2>1. s \in Seq(Items) /\ s # <<>>
    BY <1>1, RingIs
  <2>2. n \in Nat /\ s \in [1 .. n -> Items]
    BY <2>1, LenProperties
  <2>3. n # 0
    BY <2>1, EmptySeq
  <2>. QED  BY <2>1, <2>2, <2>3
<1>5. x.k = "job" /\ x \in Jobs /\ x # FenceItem
  <2>1. JobOf(x, p)
    BY <1>1, <1>2, <1>4 DEF CallOK, RingOK
  <2>. QED  BY <1>4, <2>1, ItemIs DEF JobOf
<1>6. /\ y \in Items /\ y.k = "job" /\ y # FenceItem /\ \A b : ~IsUse(y, b)
  BY <1>5, LooseIs
<1>7. CallOK(t, q, Mine(t), ring'[t], family) /\ SyncedBy(q) = {}
  BY <1>1, <1>2, FailedCall
<1>. HIDE DEF p, q, y
<1>8. /\ ring' \in Rings
      /\ \A d \in Channels : Len(ring'[d]) = Len(ring[d]) /\ Len(ring[d]) \in Nat
      /\ \A d \in Channels : d # t => ring'[d] = ring[d]
      /\ \A i \in 1 .. n : i # n => ring'[t][i] = s[i]
      /\ ring'[t][n] = y
  <2>. DEFINE z == [s EXCEPT ![n] = y]
  <2>1. z \in [1 .. n -> Items] /\ z[n] = y /\ \A i \in 1 .. n : i # n => z[i] = s[i]
    BY <1>4, <1>6
  <2>2. z \in Seq(Items)
    BY <1>4, <2>1, SeqDef
  <2>3. Len(z) = n
    BY <1>4, <2>1, <2>2, LenProperties
  <2>. HIDE DEF z
  <2>4. ring' \in Rings /\ ring'[t] = z /\ \A d \in Channels : d # t => ring'[d] = ring[d]
    BY <1>1, <1>2, <2>2 DEF Rings, z
  <2>5. \A d \in Channels : Len(ring'[d]) = Len(ring[d])
    BY <2>3, <2>4
  <2>6. \A d \in Channels : Len(ring[d]) \in Nat
    BY <1>1, RingIs
  <2>. QED  BY <2>1, <2>4, <2>5, <2>6
<1>9. ASSUME NEW d \in Channels, NEW i \in 1 .. Len(ring[d])
      PROVE  \/ ring'[d][i] = ring[d][i]
             \/ d = t /\ i = n /\ ring'[d][i] = y /\ ring[d][i] = x
  BY <1>8
<1>. HIDE DEF s, x
<1>10. \A d \in Channels : \A i \in 0 .. Len(ring[d]) : Count(ring'[d], i) = Count(ring[d], i)
  <2>1. ASSUME NEW d \in Channels, NEW i \in 0 .. Len(ring[d])
        PROVE  Count(ring'[d], i) = Count(ring[d], i)
    <3>1. i \in Nat /\ \A j \in 1 .. i : j \in 1 .. Len(ring[d])
      BY <1>8
    <3>2. \A j \in 1 .. i : ring'[d][j] = FenceItem <=> ring[d][j] = FenceItem
      BY <1>5, <1>6, <1>9, <3>1
    <3>. QED  BY <3>1, <3>2, CountSame
  <2>. QED  BY <2>1
<1>11. \A f : Known(ring, f) <=> Known(ring', f)
  BY <1>8, <1>10, NumberIs DEF Known
<1>12. ASSUME NEW K \in [Channels -> Nat], \A d \in Channels : K[d] <= Len(ring[d])
       PROVE  \A f \in Numbers \cup {Nil} : Done(ring', K, f) <=> Done(ring, K, f)
  <2>1. \A d \in Channels : K[d] \in 0 .. Len(ring[d])
    BY <1>8, <1>12
  <2>. QED  BY <1>10, <2>1, NumberIs DEF Done
<1>13. ASSUME NEW d \in Channels, NEW i \in 1 .. Len(ring[d])
       PROVE  /\ ring'[d][i].k = ring[d][i].k
              /\ ring[d][i].k = "acquire" => ring'[d][i] = ring[d][i] /\ ring[d][i].fence \in Numbers
  BY <1>1, <1>5, <1>6, <1>9, RingIs, ItemIs
<1>14. Cuts(ring') = Cuts(ring)
  <2>1. ASSUME NEW K \in [Channels -> Nat], \A d \in Channels : K[d] <= Len(ring[d]),
               NEW d \in Channels, NEW i \in 1 .. K[d]
        PROVE  (ring'[d][i].k = "acquire" => Done(ring', K, ring'[d][i].fence))
                 <=> (ring[d][i].k = "acquire" => Done(ring, K, ring[d][i].fence))
    <3>1. i \in 1 .. Len(ring[d])
      BY <1>8, <2>1
    <3>. QED  BY <1>12, <1>13, <2>1, <3>1
  <2>2. \A K \in [Channels -> Nat] : K \in Cuts(ring') <=> K \in Cuts(ring)
    BY <1>8, <2>1 DEF Cuts
  <2>. QED  BY <2>2 DEF Cuts
<1>15. ASSUME NEW K \in Cuts(ring), NEW b \in Bos
       PROVE  /\ AllDone(ring', K, bos[b]) <=> AllDone(ring, K, bos[b])
              /\ Done(ring', K, bos[b].excl) <=> Done(ring, K, bos[b].excl)
              /\ \A f \in bos[b].shared : Done(ring', K, f) <=> Done(ring, K, f)
              /\ \A w : Settled(ring', K, bos[b], w) <=> Settled(ring, K, bos[b], w)
  <2>1. K \in [Channels -> Nat] /\ \A d \in Channels : K[d] <= Len(ring[d])
    BY <1>15 DEF Cuts
  <2>2. bos[b].excl \in Numbers \cup {Nil} /\ bos[b].shared \subseteq Numbers
    BY DEF GemInv, TypesInv, Buffers
  <2>. QED  BY <1>12, <2>1, <2>2 DEF AllDone, Settled
<1>16. /\ push'[t] = q /\ \A c \in Clients : c # t => push'[c] = push[c]
       /\ push' \in [Clients -> Calls(family)]
  <2>1. q \in Calls(family)
    BY <1>7 DEF CallOK, CallType
  <2>. QED  BY <1>3, <2>1 DEF GemInv, TypesInv
<1>17. TypesInv'
  <2>1. \A d \in executing : Len(ring'[d]) > 0 /\ ring'[d][1].k = "job"
    <3>1. \A d \in executing : d \in Channels /\ Len(ring[d]) > 0 /\ ring[d][1].k = "job"
      BY DEF GemInv, TypesInv
    <3>2. \A d \in executing : 1 \in 1 .. Len(ring[d])
      BY <1>8, <3>1
    <3>. QED  BY <1>8, <1>13, <3>1, <3>2
  <2>. QED  BY <1>2, <1>8, <1>16, <2>1 DEF GemInv, TypesInv
<1>18. KnownInv'
  <2>1. AcquiresKnown(ring')
    BY <1>8, <1>11, <1>13 DEF GemInv, KnownInv, AcquiresKnown
  <2>. QED  BY <1>2, <1>11, <2>1 DEF GemInv, KnownInv
<1>19. CallsInv'
  <2>1. \A c \in Clients : Mine(c)' = Mine(c) /\ c \in Channels
    BY <1>2 DEF Mine, Channels
  <2>2. \A c \in Clients : CallOK(c, push[c], Mine(c), ring[c], family)
    BY DEF CallsInv, GemInv
  <2>3. \A c \in Clients : CallOK(c, push'[c], Mine(c)', ring'[c], family)
    BY <1>7, <1>8, <1>16, <2>1, <2>2
  <2>. QED  BY <1>2, <2>3 DEF CallsInv
<1>20. SyncInv'
  <2>1. ASSUME NEW c \in Clients, NEW i \in SyncedBy(push'[c])
        PROVE  /\ bos[push'[c].req.bos[i].bo].place \in push'[c].req.bos[i].valid
               /\ \A K \in Cuts(ring') : K[c] = Len(ring'[c]) =>
                    Settled(ring', K, bos[push'[c].req.bos[i].bo], push'[c].req.bos[i].write)
    <3>1. c # t /\ push'[c] = push[c]
      BY <1>7, <1>16, <2>1
    <3>2. push[c].req.bos[i].bo \in Bos /\ c \in Channels /\ i \in SyncedBy(push[c])
      BY <2>1, <3>1, CallIs DEF GemInv
    <3>. QED  BY <1>8, <1>14, <1>15, <3>1, <3>2 DEF GemInv, SyncInv
  <2>. QED  BY <1>2, <2>1 DEF SyncInv
<1>21. ASSUME NEW b \in Bos, NEW c \in Channels, NEW i \in 1 .. Len(ring'[c]), IsUse(ring'[c][i], b)
       PROVE  ring'[c][i] = ring[c][i] /\ i \in 1 .. Len(ring[c]) /\ (c = t => i # n)
  <2>1. i \in 1 .. Len(ring[c])
    BY <1>8
  <2>2. ~(c = t /\ i = n)
    BY <1>6, <1>8, <1>21
  <2>. QED  BY <1>9, <2>1, <2>2
<1>22. TrackInv'
  <2>1. ASSUME NEW b \in Bos, NEW c \in Channels, NEW i \in 1 .. Len(ring'[c]),
               IsUse(ring'[c][i], b), ~Exempt(c, i, b)'
        PROVE  ~Exempt(c, i, b)
    <3>1. CASE c = t
      <4>1. i # n
        BY <1>21, <2>1, <3>1
      <4>2. ~Tracking(p)
        BY <1>2 DEF Tracking
      <4>. QED  BY <3>1, <4>1, <4>2 DEF Exempt, Unattached, p, n, s
    <3>2. CASE c # t
      BY <1>2, <1>8, <1>16, <2>1, <3>2 DEF Exempt
    <3>. QED  BY <3>1, <3>2
  <2>. SUFFICES ASSUME NEW b \in Bos, NEW c \in Channels, NEW i \in 1 .. Len(ring'[c]),
                       IsUse(ring'[c][i], b), ~Exempt(c, i, b)', NEW K \in Cuts(ring'),
                       AllDone(ring', K, bos[b]) \/ (ring'[c][i].uses[b] /\ Done(ring', K, bos[b].excl))
                PROVE  i <= K[c]
    BY <1>2 DEF TrackInv
  <2>2. ~Exempt(c, i, b) /\ ring'[c][i] = ring[c][i] /\ i \in 1 .. Len(ring[c]) /\ K \in Cuts(ring)
    BY <1>14, <1>21, <2>1
  <2>3. AllDone(ring, K, bos[b]) \/ (ring[c][i].uses[b] /\ Done(ring, K, bos[b].excl))
    BY <1>15, <2>2
  <2>4. IsUse(ring[c][i], b)
    BY <2>2
  <2>. QED  BY <2>2, <2>3, <2>4 DEF TrackInv, GemInv
<1>23. SharedInv'
  BY <1>2, <1>14, <1>15 DEF SharedInv, GemInv
<1>24. OrderInv'
  <2>. SUFFICES ASSUME NEW b \in Bos, NEW c \in Channels, NEW d \in Channels, c # d,
                       NEW i \in 1 .. Len(ring'[c]), NEW j \in 1 .. Len(ring'[d]),
                       IsUse(ring'[c][i], b), IsUse(ring'[d][j], b),
                       ring'[c][i].uses[b] \/ ring'[d][j].uses[b], NEW K \in Cuts(ring')
                PROVE  ~(K[c] = i - 1 /\ K[d] = j - 1)
    BY DEF OrderInv
  <2>1. /\ ring'[c][i] = ring[c][i] /\ i \in 1 .. Len(ring[c])
        /\ ring'[d][j] = ring[d][j] /\ j \in 1 .. Len(ring[d]) /\ K \in Cuts(ring)
    BY <1>14, <1>21
  <2>2. IsUse(ring[c][i], b) /\ IsUse(ring[d][j], b) /\ (ring[c][i].uses[b] \/ ring[d][j].uses[b])
    BY <2>1
  <2>. QED  BY <2>1, <2>2 DEF OrderInv, GemInv
<1>25. PlaceInv'
  <2>1. ASSUME NEW b \in Bos, NEW c \in Channels, NEW i \in 1 .. Len(ring'[c]), IsUse(ring'[c][i], b)
        PROVE  ring'[c][i].place[b] = bos[b].place
    <3>1. ring'[c][i] = ring[c][i] /\ i \in 1 .. Len(ring[c])
      BY <1>21, <2>1
    <3>. QED  BY <2>1, <3>1 DEF PlaceInv, GemInv
  <2>. QED  BY <1>2, <2>1 DEF PlaceInv
<1>. QED  BY <1>17, <1>18, <1>19, <1>20, <1>22, <1>23, <1>24, <1>25 DEF GemInv

\* A turn of validate_fini takes one entry off, and the buffer is held no more.
LEMMA GivenBack ==
  ASSUME GemInv, NEW t \in Clients, FiniStep(t)
  PROVE  LET p == push[t]
             e == OpListOf(p)[1]
             b == p.req.bos[e].bo
             q == [p EXCEPT !.got = Those(p.got, ToSet(p.got) \ {e})]
             v == IF p.fence = Nil THEN bos[b] ELSE Attach(bos[b], p.fence, p.req.bos[e].write)
         IN  /\ p.pc = "fini" /\ e \in ToSet(p.got) /\ b \in HeldBy(p) /\ p.req # Nil
             /\ push' = [push EXCEPT ![t] = q]
             /\ bos' = [bos EXCEPT ![b] = [v EXCEPT !.holder = Nil]]
             /\ ring' = ring /\ family' = family /\ executing' = executing
             /\ q.pc = "fini" /\ q.req = p.req /\ q.fence = p.fence
             /\ ToSet(q.got) = ToSet(p.got) \ {e} /\ HeldBy(q) = HeldBy(p) \ {b}
             /\ \A i \in ToSet(q.got) : p.req.bos[i].bo # b
             /\ CallOK(t, q, Mine(t) \ {b}, ring[t], family)
<1>. DEFINE p == push[t]
            e == OpListOf(p)[1]
            b == p.req.bos[e].bo
            got == Those(p.got, ToSet(p.got) \ {e})
            q == [p EXCEPT !.got = got]
            v == IF p.fence = Nil THEN bos[b] ELSE Attach(bos[b], p.fence, p.req.bos[e].write)
<1>1. p \in Calls(family) /\ CallOK(t, p, Mine(t), ring[t], family) /\ family \in Families
  BY CallIs DEF GemInv
<1>2. OpList(t)[1] = e /\ Entry(t, e) = p.req.bos[e]
  BY ListIs DEF Entry
<1>3. /\ p.pc = "fini" /\ p.got # <<>> /\ ring' = ring /\ family' = family /\ executing' = executing
      /\ push' = [push EXCEPT ![t] = q]
      /\ bos' = [bos EXCEPT ![b] = [v EXCEPT !.holder = Nil]]
  <2>1. push' = [push EXCEPT ![t].got = Those(@, ToSet(@) \ {e})]
    BY <1>2 DEF FiniStep
  <2>2. push' = [push EXCEPT ![t] = q]
    BY <2>1
  <2>3. bos' = [bos EXCEPT ![b] = [v EXCEPT !.holder = Nil]]
    BY <1>2 DEF FiniStep
  <2>. QED  BY <2>2, <2>3 DEF FiniStep, At
<1>. HIDE DEF p, v
<1>4. /\ CallType(p, family) /\ GotOK(p) /\ FlowOK(p) /\ NamedOK(p) /\ RingOK(t, p, ring[t], family)
      /\ HeldBy(p) = Mine(t) /\ p.req # Nil
  BY <1>1, <1>3 DEF CallOK, CallType
<1>5. p.got \in Seq(Nat)
  BY <1>1 DEF Calls
<1>6. e \in ToSet(p.got)
  <2>1. /\ Range(OpListOf(p)) = ToSet(p.got) /\ OpListOf(p) \in Seq(Nat)
        /\ Len(OpListOf(p)) \in Nat /\ \A j \in 1 .. Len(OpListOf(p)) : OpListOf(p)[j] \in ToSet(p.got)
    BY <1>1, <1>4, OpListIs
  <2>2. ToSet(p.got) # {}
    <3>1. Len(p.got) \in Nat /\ Len(p.got) # 0 /\ DOMAIN p.got = 1 .. Len(p.got)
      BY <1>3, <1>5, EmptySeq, LenProperties
    <3>2. 1 \in DOMAIN p.got
      BY <3>1
    <3>. QED  BY <3>2 DEF ToSet
  <2>3. \E j \in 1 .. Len(OpListOf(p)) : TRUE
    BY <2>1, <2>2, RangeEquality
  <2>4. 1 \in 1 .. Len(OpListOf(p))
    BY <2>1, <2>3
  <2>. QED  BY <2>1, <2>4
<1>7. got \in Seq(Nat) /\ ToSet(got) = ToSet(p.got) \ {e}
  <2>1. got \in Seq(Nat) /\ Range(got) = Range(p.got) \cap (ToSet(p.got) \ {e})
    BY <1>5, ThoseIs
  <2>. QED  BY <2>1, SetOf
<1>. HIDE DEF e, got
<1>8. /\ q \in Calls(family) /\ q.got = got
      /\ q.pc = p.pc /\ q.req = p.req /\ q.fence = p.fence /\ q.then = p.then
      /\ q.cmds = p.cmds /\ q.presumed = p.presumed /\ q.i = p.i
  BY <1>1, <1>7 DEF Calls
<1>. HIDE DEF q
<1>9. \A i, j \in ToSet(p.got) : p.req.bos[i].bo = p.req.bos[j].bo => i = j
  BY <1>4 DEF GotOK
<1>10. \A i \in ToSet(q.got) : p.req.bos[i].bo # b
  BY <1>6, <1>7, <1>8, <1>9
<1>11. HeldBy(q) = HeldBy(p) \ {b} /\ b \in HeldBy(p)
  BY <1>6, <1>7, <1>8, <1>9 DEF HeldBy
<1>12. GotOK(q)
  <2>1. ToSet(p.got) \subseteq 1 .. Len(p.req.bos)
    BY <1>4, <1>6 DEF GotOK
  <2>. QED  BY <1>3, <1>7, <1>8, <1>9, <2>1 DEF GotOK
<1>. HIDE DEF b
<1>13. CallType(q, family) /\ FlowOK(q) /\ ReserveOK(q)
  BY <1>3, <1>4, <1>8 DEF CallType, FlowOK, ReserveOK
<1>14. NamedOK(q)
  BY <1>3, <1>4, <1>8 DEF NamedOK, Tracking
<1>15. RingOK(t, q, ring[t], family)
  BY <1>3, <1>4, <1>8 DEF RingOK, JobOf, UsesOf
<1>16. CallOK(t, q, Mine(t) \ {b}, ring[t], family)
  BY <1>4, <1>11, <1>12, <1>13, <1>14, <1>15 DEF CallOK
<1>17. ToSet(q.got) = ToSet(p.got) \ {e} /\ q.pc = "fini"
  BY <1>3, <1>7, <1>8
<1>. QED  BY <1>3, <1>4, <1>6, <1>8, <1>10, <1>11, <1>16, <1>17 DEF p, e, b, q, v, got

LEMMA FiniQuietStep ==
  ASSUME GemInv, NEW t \in Clients, FiniStep(t), push[t].fence = Nil
  PROVE  GemInv'
<1>. DEFINE p == push[t]
            e == OpListOf(p)[1]
            b == p.req.bos[e].bo
            q == [p EXCEPT !.got = Those(p.got, ToSet(p.got) \ {e})]
<1>1. /\ p.pc = "fini" /\ e \in ToSet(p.got) /\ b \in HeldBy(p)
      /\ push' = [push EXCEPT ![t] = q]
      /\ bos' = [bos EXCEPT ![b] = [bos[b] EXCEPT !.holder = Nil]]
      /\ ring' = ring /\ family' = family /\ executing' = executing
      /\ q.pc = "fini" /\ q.fence = p.fence
      /\ CallOK(t, q, Mine(t) \ {b}, ring[t], family)
  BY GivenBack
<1>. HIDE DEF q
<1>2. b \in Bos /\ bos[b].holder = t
  BY <1>1, CallIs DEF GemInv
<1>3. bos \in [Bos -> Buffers]
  BY DEF GemInv, TypesInv
<1>. DEFINE u == bos[b]
            w == [u EXCEPT !.holder = Nil]
<1>5. bos' = [bos EXCEPT ![b] = w] /\ u = bos[b]
  BY <1>1
<1>. HIDE DEF b, u
<1>4. /\ w \in Buffers /\ w.holder = Nil /\ w.excl = bos[b].excl /\ w.shared = bos[b].shared
      /\ w.place = bos[b].place
  <2>1. u \in Buffers /\ Nil \in Clients \cup {Nil}
    BY <1>2, <1>3, <1>5
  <2>. QED  BY <1>5, <2>1, HolderIs
<1>. HIDE DEF w
<1>6. /\ bos' \in [Bos -> Buffers]
      /\ \A x \in Bos : /\ bos'[x].excl = bos[x].excl /\ bos'[x].shared = bos[x].shared
                        /\ bos'[x].place = bos[x].place
                        /\ bos'[x].holder = IF x = b THEN Nil ELSE bos[x].holder
  BY <1>2, <1>3, <1>4, <1>5
<1>7. Mine(t)' = Mine(t) \ {b} /\ \A s \in Clients \ {t} : Mine(s)' = Mine(s)
  BY <1>2, <1>6, GemAssumption DEF Mine
<1>8. SyncedBy(q) = {}
  BY <1>1 DEF SyncedBy, Tracking
<1>9. \A x \in Bos : \A i \in 1 .. Len(ring[t]) : ~Unattached(p, Len(ring[t]), i, x, family)
  BY <1>1 DEF Unattached, Tracking
<1>. QED  BY <1>1, <1>6, <1>7, <1>8, <1>9, QuietStep

\* What nouveau_bo_fence makes of the fences of a buffer that client t has reserved.
LEMMA AttachIs ==
  ASSUME NEW v \in Buffers, IsFiniteSet(v.shared), NEW f \in Numbers, NEW w \in BOOLEAN
  PROVE  LET u == [Attach(v, f, w) EXCEPT !.holder = Nil]
         IN  /\ u \in Buffers /\ u.holder = Nil /\ u.place = v.place /\ IsFiniteSet(u.shared)
             /\ w => u.excl = f /\ u.shared = {}
             /\ ~w => /\ u.excl = v.excl
                      /\ u.shared = {g \in v.shared : ~Signalled(g) /\ g[1] # f[1]} \cup {f}
<1>. DEFINE kept == {g \in v.shared : ~Signalled(g) /\ g[1] # f[1]}
            u == [Attach(v, f, w) EXCEPT !.holder = Nil]
<1>1. kept \subseteq v.shared /\ v.shared \subseteq Numbers /\ kept \cup {f} \subseteq Numbers
  BY DEF Buffers
<1>2. IsFiniteSet(kept)
  BY <1>1, FS_Subset
<1>3. IsFiniteSet(kept \cup {f}) /\ IsFiniteSet({})
  BY <1>2, FS_AddElement, FS_EmptySet
<1>4. CASE w
  <2>1. u = [[v EXCEPT !.excl = f, !.shared = {}] EXCEPT !.holder = Nil]
    BY <1>4 DEF Attach
  <2>2. u \in Buffers /\ u.holder = Nil /\ u.place = v.place /\ u.excl = f /\ u.shared = {}
    BY <2>1 DEF Buffers
  <2>. QED  BY <1>3, <1>4, <2>2
<1>5. CASE ~w
  <2>1. u = [[v EXCEPT !.shared = kept \cup {f}] EXCEPT !.holder = Nil]
    BY <1>5 DEF Attach
  <2>. HIDE DEF kept
  <2>2. /\ u \in Buffers /\ u.holder = Nil /\ u.place = v.place /\ u.excl = v.excl
        /\ u.shared = kept \cup {f}
    BY <1>1, <2>1 DEF Buffers
  <2>. HIDE DEF u
  <2>3. /\ u \in Buffers /\ u.holder = Nil /\ u.place = v.place /\ u.excl = v.excl
        /\ u.shared = kept \cup {f} /\ IsFiniteSet(u.shared)
    BY <1>3, <2>2
  <2>. QED  BY <1>5, <2>3 DEF kept, u
<1>. QED  BY <1>4, <1>5

LEMMA AttachStep ==
  ASSUME GemInv, NEW t \in Clients, FiniStep(t), push[t].fence # Nil
  PROVE  GemInv'
<1>. DEFINE p == push[t]
            e == OpListOf(p)[1]
            b == p.req.bos[e].bo
            w == p.req.bos[e].write
            q == [p EXCEPT !.got = Those(p.got, ToSet(p.got) \ {e})]
            f == p.fence
            v == bos[b]
            u == [Attach(v, f, w) EXCEPT !.holder = Nil]
            s == ring[t]
            n == Len(s)
<1>1. /\ p.pc = "fini" /\ e \in ToSet(p.got) /\ b \in HeldBy(p)
      /\ push' = [push EXCEPT ![t] = q]
      /\ bos' = [bos EXCEPT ![b] = u]
      /\ ring' = ring /\ family' = family /\ executing' = executing
      /\ q.pc = "fini" /\ q.fence = f /\ q.req = p.req
      /\ ToSet(q.got) = ToSet(p.got) \ {e} /\ HeldBy(q) = HeldBy(p) \ {b}
      /\ \A i \in ToSet(q.got) : p.req.bos[i].bo # b
      /\ CallOK(t, q, Mine(t) \ {b}, ring[t], family)
  BY GivenBack
<1>. HIDE DEF q
<1>2. b \in Bos /\ v.holder = t /\ w \in BOOLEAN /\ e \in 1 .. Len(p.req.bos)
  BY <1>1, CallIs DEF GemInv
<1>3. /\ bos \in [Bos -> Buffers] /\ ring \in Rings /\ t \in Channels
      /\ p \in Calls(family) /\ CallOK(t, p, Mine(t), s, family) /\ family \in Families
  BY CallIs DEF GemInv, TypesInv
<1>4. /\ f \in Numbers /\ f # Nil /\ f = <<t, Count(s, n)>> /\ p.req # Nil /\ NamedOK(p)
      /\ n > 0 => s[n] = FenceItem
      /\ n > 1 => JobOf(s[n - 1], p)
  <2>1. f \in Numbers \cup {Nil}
    BY <1>3 DEF Calls
  <2>. QED  BY <1>1, <1>3, <2>1 DEF CallOK, RingOK, CallType
<1>5. /\ v \in Buffers /\ IsFiniteSet(v.shared) /\ v.shared \subseteq Numbers
      /\ Known(ring, v.excl) /\ \A g \in v.shared : Known(ring, g)
  <2>1. v \in Buffers
    BY <1>2, <1>3
  <2>. QED  BY <1>2, <2>1 DEF GemInv, TypesInv, KnownInv, Buffers
<1>6. n \in Nat /\ Count(s, n) \in Nat
  BY <1>3, RingIs, CountType
<1>7. Known(ring, f) /\ f[1] = t
  BY <1>4, <1>6 DEF Known
<1>8. SyncedBy(p) = ToSet(p.got) /\ SyncedBy(q) = ToSet(q.got) /\ Tracking(p) /\ Tracking(q)
  BY <1>1, <1>4 DEF SyncedBy, Tracking
<1>9. \A K \in Cuts(ring) : K[t] = n => Settled(ring, K, v, w)
  BY <1>1, <1>8 DEF GemInv, SyncInv
<1>. HIDE DEF p, e, w, v, b, f, s, n
<1>10. /\ u \in Buffers /\ u.holder = Nil /\ u.place = v.place /\ IsFiniteSet(u.shared)
       /\ w => u.excl = f /\ u.shared = {}
       /\ ~w => /\ u.excl = v.excl
                /\ u.shared = {g \in v.shared : ~Signalled(g) /\ g[1] # f[1]} \cup {f}
  BY <1>2, <1>4, <1>5, AttachIs
<1>. HIDE DEF u
<1>11. /\ bos' \in [Bos -> Buffers] /\ bos'[b] = u
       /\ \A x \in Bos : x # b => bos'[x] = bos[x]
       /\ push' \in [Clients -> Calls(family)] /\ push'[t] = q
       /\ \A c \in Clients : c # t => push'[c] = push[c]
  <2>1. q \in Calls(family)
    BY <1>1 DEF CallOK, CallType
  <2>. QED  BY <1>1, <1>2, <1>3, <1>10, <2>1 DEF GemInv, TypesInv
\* The fence is the last item of the ring.
<1>12. ASSUME NEW K \in Cuts(ring), Done(ring, K, f)
       PROVE  K[t] = n /\ Done(ring, K, v.excl) /\ (w => AllDone(ring, K, v))
  <2>1. K[t] \in 0 .. n
    BY <1>3, <1>12, CutIs DEF n, s
  <2>2. Count(s, n) <= Count(s, K[t])
    BY <1>4, <1>12 DEF Done, s
  <2>3. K[t] = n
    <3>. SUFFICES ASSUME K[t] # n PROVE FALSE
      OBVIOUS
    <3>1. n - 1 \in Nat /\ K[t] \in Nat /\ K[t] <= n - 1 /\ n > 0
      BY <1>6, <2>1
    <3>2. Count(s, K[t]) <= Count(s, n - 1)
      BY <3>1, CountMore
    <3>3. Count(s, n - 1 + 1) = Count(s, n - 1) + (IF s[n - 1 + 1] = FenceItem THEN 1 ELSE 0)
      BY <3>1, CountNext
    <3>4. n - 1 + 1 = n /\ s[n] = FenceItem
      BY <1>4, <1>6, <3>1
    <3>5. Count(s, n - 1) \in Nat /\ Count(s, K[t]) \in Nat
      BY <3>1, CountType
    <3>. QED  BY <1>6, <2>2, <3>2, <3>3, <3>4, <3>5
  <2>. QED  BY <1>9, <2>3 DEF Settled
<1>13. TypesInv'
  <2>1. \A x \in Bos : IsFiniteSet(bos'[x].shared)
    BY <1>10, <1>11 DEF GemInv, TypesInv
  <2>. QED  BY <1>1, <1>11, <2>1 DEF GemInv, TypesInv
<1>14. KnownInv'
  <2>1. Known(ring, u.excl) /\ \A g \in u.shared : Known(ring, g)
    BY <1>2, <1>5, <1>7, <1>10
  <2>2. \A x \in Bos : Known(ring, bos'[x].excl) /\ \A g \in bos'[x].shared : Known(ring, g)
    BY <1>11, <2>1 DEF GemInv, KnownInv
  <2>. QED  BY <1>1, <2>2 DEF GemInv, KnownInv
<1>15. CallsInv'
  <2>1. \A x \in Bos : bos'[x].holder = IF x = b THEN Nil ELSE bos[x].holder
    BY <1>10, <1>11
  <2>2. Mine(t)' = Mine(t) \ {b} /\ \A c \in Clients : c # t => Mine(c)' = Mine(c)
    BY <1>2, <2>1, GemAssumption DEF Mine, v
  <2>3. \A c \in Clients : CallOK(c, push[c], Mine(c), ring[c], family)
    BY DEF CallsInv, GemInv
  <2>4. \A c \in Clients : CallOK(c, push'[c], Mine(c)', ring[c], family)
    BY <1>1, <1>11, <2>2, <2>3
  <2>. QED  BY <1>1, <2>4 DEF CallsInv
<1>16. SyncInv'
  <2>1. ASSUME NEW c \in Clients, NEW i \in SyncedBy(push'[c])
        PROVE  /\ i \in SyncedBy(push[c]) /\ push'[c].req = push[c].req
               /\ bos'[push[c].req.bos[i].bo] = bos[push[c].req.bos[i].bo]
    <3>1. CASE c = t
      <4>1. i \in ToSet(q.got) /\ i \in ToSet(p.got)
        BY <1>1, <1>8, <1>11, <2>1, <3>1
      <4>2. p.req.bos[i].bo # b /\ p.req.bos[i].bo \in Bos
        BY <1>1, <4>1, CallIs DEF GemInv, p
      <4>. QED  BY <1>1, <1>8, <1>11, <3>1, <4>1, <4>2 DEF p
    <3>2. CASE c # t
      <4>1. i \in SyncedBy(push[c]) /\ push'[c] = push[c]
        BY <1>11, <2>1, <3>2
      <4>2. bos[push[c].req.bos[i].bo].holder = c /\ push[c].req.bos[i].bo \in Bos
        BY <4>1, CallIs DEF GemInv
      <4>3. push[c].req.bos[i].bo # b
        BY <1>2, <3>2, <4>2 DEF v
      <4>. QED  BY <1>11, <4>1, <4>2, <4>3
    <3>. QED  BY <3>1, <3>2
  <2>. QED  BY <1>1, <2>1 DEF SyncInv, GemInv
<1>17. TrackInv'
  <2>. SUFFICES ASSUME NEW x \in Bos, NEW c \in Channels, NEW i \in 1 .. Len(ring[c]),
                       IsUse(ring[c][i], x), ~Exempt(c, i, x)', NEW K \in Cuts(ring),
                       AllDone(ring, K, bos'[x]) \/ (ring[c][i].uses[x] /\ Done(ring, K, bos'[x].excl))
                PROVE  i <= K[c]
    BY <1>1 DEF TrackInv
  <2>1. CASE x # b
    <3>1. x \in HeldBy(q) <=> x \in HeldBy(p)
      BY <1>1, <2>1
    <3>2. ~Exempt(c, i, x)
      <4>1. CASE c = t
        BY <1>1, <1>8, <1>11, <3>1, <4>1 DEF Exempt, Unattached, p
      <4>2. CASE c # t
        BY <1>1, <1>11, <4>2 DEF Exempt
      <4>. QED  BY <4>1, <4>2
    <3>3. bos'[x] = bos[x]
      BY <1>11, <2>1
    <3>. QED  BY <3>2, <3>3 DEF GemInv, TrackInv
  <2>2. CASE x = b
    <3>1. AllDone(ring, K, u) \/ (ring[c][i].uses[b] /\ Done(ring, K, u.excl))
      BY <1>11, <2>2
    <3>2. IsUse(ring[c][i], b)
      BY <2>2
    <3>3. ASSUME K[t] = n, AllDone(ring, K, v) PROVE i <= K[c]
      <4>1. CASE c = t
        BY <1>6, <3>3, <4>1 DEF n, s
      <4>2. CASE c # t
        <5>1. ~Exempt(c, i, b)
          BY <1>1, <4>2, OthersAttached DEF p
        <5>. QED  BY <1>2, <3>2, <3>3, <5>1 DEF GemInv, TrackInv, v
      <4>. QED  BY <4>1, <4>2
    <3>4. CASE w
      <4>1. Done(ring, K, f)
        BY <1>10, <3>1, <3>4 DEF AllDone
      <4>. QED  BY <1>12, <3>3, <3>4, <4>1
    <3>5. CASE ~w /\ AllDone(ring, K, u)
      <4>1. /\ Done(ring, K, f) /\ Done(ring, K, v.excl)
            /\ \A g \in v.shared : ~Signalled(g) /\ g[1] # f[1] => Done(ring, K, g)
        BY <1>10, <3>5 DEF AllDone
      <4>2. K[t] = n
        BY <1>12, <4>1
      <4>3. ASSUME NEW g \in v.shared PROVE Done(ring, K, g)
        <5>1. Known(ring, g) /\ g # Nil
          BY <1>5, <4>3, NumberIs
        <5>2. CASE Signalled(g)
          BY <1>3, <5>1, <5>2, SignalledDone
        <5>3. CASE g[1] = t
          <6>1. \A d \in Channels : g # Nil /\ g[1] = d /\ K[d] = Len(ring[d]) => Done(ring, K, g)
            BY <1>3, <5>1, SignalledDone
          <6>. QED  BY <1>3, <4>2, <5>1, <5>3, <6>1 DEF n, s
        <5>. QED  BY <1>7, <4>1, <5>2, <5>3
      <4>. QED  BY <3>3, <4>1, <4>2, <4>3 DEF AllDone
    <3>6. CASE ~w /\ ring[c][i].uses[b] /\ Done(ring, K, u.excl)
      <4>1. ~Exempt(c, i, b)
        <5>1. CASE c # t
          BY <1>1, <5>1, OthersAttached DEF p
        <5>2. CASE c = t
          <6>. SUFFICES ASSUME Exempt(c, i, b) PROVE FALSE
            OBVIOUS
          <6>1. i = n - 1
            BY <1>1, <5>2 DEF Exempt, Unattached, p, n, s
          <6>2. n > 1 /\ ring[c][i] = s[n - 1]
            BY <1>6, <5>2, <6>1 DEF s
          <6>3. ring[c][i].uses = UsesOf(p)
            BY <1>4, <6>2 DEF JobOf
          <6>4. PICK m \in DOMAIN p.req.bos : p.req.bos[m].bo = b /\ p.req.bos[m].write
            <7>1. b \in DOMAIN UsesOf(p)
              BY <3>2, <6>3 DEF IsUse
            <7>2. UsesOf(p)[b]
              BY <3>6, <6>3
            <7>. QED  BY <7>1, <7>2 DEF UsesOf
          <6>5. m \in 1 .. Len(p.req.bos)
            BY <1>3, <1>4, RequestIs
          <6>6. p.req.bos[e].bo = b
            BY DEF b
          <6>7. m = e
            BY <1>2, <1>4, <1>8, <6>4, <6>5, <6>6 DEF NamedOK
          <6>. QED  BY <3>6, <6>4, <6>7 DEF w
        <5>. QED  BY <5>1, <5>2
      <4>2. Done(ring, K, v.excl)
        BY <1>10, <3>6
      <4>. QED  BY <1>2, <3>2, <3>6, <4>1, <4>2 DEF GemInv, TrackInv, v
    <3>. QED  BY <1>2, <3>1, <3>4, <3>5, <3>6
  <2>. QED  BY <2>1, <2>2
<1>18. SharedInv'
  <2>1. ASSUME NEW K \in Cuts(ring), NEW g \in u.shared, Done(ring, K, g) PROVE Done(ring, K, u.excl)
    <3>1. ~w /\ u.excl = v.excl /\ (g \in v.shared \/ g = f)
      BY <1>2, <1>10, <2>1
    <3>2. CASE g = f
      BY <1>12, <2>1, <3>1, <3>2
    <3>3. CASE g \in v.shared
      BY <1>2, <2>1, <3>1, <3>3 DEF GemInv, SharedInv, v
    <3>. QED  BY <3>1, <3>2, <3>3
  <2>2. \A x \in Bos : \A K \in Cuts(ring) : \A g \in bos'[x].shared :
          Done(ring, K, g) => Done(ring, K, bos'[x].excl)
    BY <1>11, <2>1 DEF GemInv, SharedInv
  <2>. QED  BY <1>1, <2>2 DEF SharedInv
<1>19. OrderInv'
  BY <1>1 DEF GemInv, OrderInv
<1>20. PlaceInv'
  <2>1. \A x \in Bos : bos'[x].place = bos[x].place
    BY <1>10, <1>11 DEF v
  <2>. QED  BY <1>1, <2>1 DEF GemInv, PlaceInv
<1>. QED  BY <1>13, <1>14, <1>15, <1>16, <1>17, <1>18, <1>19, <1>20 DEF GemInv

-----------------------------------------------------------------------------
(* Moves.                                                                  *)

\* A buffer that is idle is in no commands that its fences do not track.
LEMMA IdleUnused ==
  ASSUME GemInv, NEW b \in Bos, BoIdle(b), \A c, i : ~Exempt(c, i, b)
  PROVE  \A c \in Channels : \A i \in 1 .. Len(ring[c]) : ~IsUse(ring[c][i], b)
<1>. DEFINE K == [c \in Channels |-> 0]
<1>1. ring \in Rings /\ Known(ring, bos[b].excl) /\ \A f \in bos[b].shared : Known(ring, f)
  BY DEF GemInv, TypesInv, KnownInv
<1>2. K \in Cuts(ring)
  BY <1>1, NothingDone
<1>3. \A c \in Channels : K[c] = 0
  OBVIOUS
<1>. HIDE DEF K
<1>4. Done(ring, K, bos[b].excl) /\ \A f \in bos[b].shared : Done(ring, K, f)
  BY <1>1, <1>2, SignalledDone DEF BoIdle, FencesOf
<1>5. \A c \in Channels : \A i \in 1 .. Len(ring[c]) : IsUse(ring[c][i], b) => i <= K[c]
  BY <1>2, <1>4 DEF GemInv, TrackInv, AllDone
<1>. QED  BY <1>3, <1>5

\* What nouveau_bo_move_m2mf puts into the ring of the kernel's channel.
LEMMA MoveJobIs ==
  ASSUME NEW b \in Bos, NEW place \in Places
  PROVE  LET x == MoveJob(b, place)
         IN  /\ x \in Items /\ x.k = "job" /\ x # FenceItem
             /\ x.uses[b] /\ x.place[b] = place
             /\ \A y : IsUse(x, y) => y = b
<1>. DEFINE u == [y \in {b} |-> TRUE]
            m == [y \in {b} |-> place]
            x == MoveJob(b, place)
<1>1. x = [k |-> "job", uses |-> u, place |-> m, at |-> m, loose |-> FALSE]
  BY DEF MoveJob
<1>2. u \in [{b} -> BOOLEAN] /\ m \in [{b} -> Places] /\ {b} \in SUBSET Bos
  OBVIOUS
<1>3. m \in Maps
  BY <1>2 DEF Maps
<1>4. u[b] = TRUE /\ m[b] = place /\ DOMAIN u = {b}
  <2>1. b \in {b}
    OBVIOUS
  <2>. QED  BY <2>1, Zenon
<1>. HIDE DEF u, m, x
<1>5. x \in [k : {"job"}, uses : [{b} -> BOOLEAN], place : [{b} -> Places], at : Maps, loose : BOOLEAN]
  BY <1>1, <1>2, <1>3
<1>6. x \in Items
  BY <1>2, <1>5 DEF Items, Jobs
<1>7. x.k = "job" /\ x.uses = u /\ x.place = m
  BY <1>1
<1>8. x # FenceItem
  BY <1>6, <1>7, ItemIs
<1>. QED  BY <1>4, <1>6, <1>7, <1>8 DEF IsUse, x

LEMMA MoveStep ==
  ASSUME GemInv, NEW b \in Bos, NEW place \in Places, MoveTo(b, place),
         push' = push, family' = family, executing' = executing,
         \A c, i : ~Exempt(c, i, b),
         \A c \in Clients : \A i \in SyncedBy(push[c]) : push[c].req.bos[i].bo # b
  PROVE  GemInv'
<1>. DEFINE s == ring[Kernel]
            n == Len(s)
            x == MoveJob(b, place)
            g == NextFence(Kernel)
            v == bos[b]
            u == [[v EXCEPT !.excl = g, !.shared = {}] EXCEPT !.place = place]
            items == <<x, FenceItem>>
<1>1. /\ ring \in Rings /\ AcquiresKnown(ring) /\ bos \in [Bos -> Buffers] /\ Kernel \in Channels
      /\ \A c \in Clients : c \in Channels /\ c # Kernel
  BY GemAssumption DEF GemInv, TypesInv, KnownInv, Channels
<1>2. s \in Seq(Items) /\ n \in Nat /\ DOMAIN s = 1 .. n
  BY <1>1, RingIs
<1>3. /\ x \in Items /\ x.k = "job" /\ x # FenceItem
      /\ x.uses[b] /\ x.place[b] = place
      /\ \A y : IsUse(x, y) => y = b
  BY MoveJobIs
<1>4. FenceSync(b, Kernel, TRUE) = <<>>
  <2>1. \A f \in bos[b].shared \cup {bos[b].excl} : Signalled(f)
    BY DEF MoveTo, BoIdle, FencesOf
  <2>2. Needed(b, Kernel, TRUE) = {}
    BY <2>1 DEF Needed
  <2>3. FenceSync(b, Kernel, TRUE) = SetToSeq({})
    BY <2>2 DEF FenceSync
  <2>4. SetToSeq({}) \in Seq({}) /\ Range(SetToSeq({})) = {}
    BY FS_EmptySet, SetToSeqIs
  <2>. DEFINE z == SetToSeq({})
  <2>. HIDE DEF z
  <2>5. Len(z) \in Nat /\ \A i \in 1 .. Len(z) : z[i] \in {}
    BY <2>4, LenProperties, ElementOfSeq DEF z
  <2>6. Len(z) = 0
    <3>. SUFFICES ASSUME Len(z) # 0 PROVE FALSE
      OBVIOUS
    <3>1. 1 \in 1 .. Len(z)
      BY <2>5
    <3>. QED  BY <2>5, <3>1
  <2>7. z = <<>>
    BY <2>4, <2>6, EmptySeq DEF z
  <2>. QED  BY <2>3, <2>7 DEF z
<1>5. BoIdle(b) /\ bos' = [bos EXCEPT ![b] = u]
  BY DEF MoveTo, Attach
<1>6. /\ items \in Seq(Items) /\ Len(items) = 2 /\ items[1] = x /\ items[2] = FenceItem
  <2>. HIDE DEF x
  <2>. QED  BY <1>3, ItemIs
<1>7. Extends(ring, ring', Kernel, items)
  <2>1. ring' = [ring EXCEPT ![Kernel] = @ \o FenceSync(b, Kernel, TRUE) \o items]
    BY DEF MoveTo
  <2>2. ring' = [ring EXCEPT ![Kernel] = (s \o <<>>) \o items]
    BY <1>4, <2>1
  <2>3. s \o <<>> = s
    BY <1>2, ConcatEmptySeq
  <2>4. ring' = [ring EXCEPT ![Kernel] = @ \o items]
    BY <2>2, <2>3
  <2>. QED  BY <1>6, <2>4 DEF Extends
<1>8. g = <<Kernel, Count(s, n) + 1>> /\ Count(s, n) \in Nat
  BY <1>2, CountType DEF NextFence, Queued, Count
<1>9. g \in Numbers /\ g # Nil /\ g[1] = Kernel /\ g[2] = Count(s, n) + 1
  <2>1. g \in Numbers
    BY <1>1, <1>8 DEF Numbers
  <2>. QED  BY <1>8, <2>1, NumberIs
<1>10. v \in Buffers
  BY <1>1
<1>. HIDE DEF x, g, v
<1>11. u \in Buffers /\ u.holder = v.holder /\ u.place = place /\ u.excl = g /\ u.shared = {}
  BY <1>9, <1>10 DEF Buffers
<1>. HIDE DEF u, items
<1>12. bos' \in [Bos -> Buffers] /\ bos'[b] = u /\ \A y \in Bos : y # b => bos'[y] = bos[y]
  BY <1>1, <1>5, <1>11
<1>13. \A c \in Channels : \A i \in 1 .. Len(ring[c]) : ~IsUse(ring[c][i], b)
  BY <1>5, IdleUnused
<1>14. ASSUME NEW d \in Channels, NEW i \in 1 .. Len(ring'[d])
       PROVE  /\ i \in Nat
              /\ \/ i \in 1 .. Len(ring[d]) /\ ring'[d][i] = ring[d][i]
                 \/ d = Kernel /\ i = n + 1 /\ ring'[d][i] = x
                 \/ d = Kernel /\ i = n + 2 /\ ring'[d][i] = FenceItem
  <2>1. \/ i \in 1 .. Len(ring[d]) /\ ring'[d][i] = ring[d][i]
        \/ /\ d = Kernel /\ i > n /\ i - n \in 1 .. Len(items) /\ ring'[d][i] = items[i - n]
    BY <1>1, <1>7, ExtendedAt
  <2>2. i \in Nat
    BY <1>1, <1>7, ExtendedAt
  <2>3. i - n \in 1 .. Len(items) => i - n = 1 \/ i - n = 2
    BY <1>2, <1>6, <2>2
  <2>. QED  BY <1>2, <1>6, <2>1, <2>2, <2>3
<1>15. ASSUME NEW d \in Channels, NEW i \in 1 .. Len(ring'[d]), NEW y \in Bos, IsUse(ring'[d][i], y)
       PROVE  \/ /\ i \in 1 .. Len(ring[d]) /\ ring'[d][i] = ring[d][i] /\ IsUse(ring[d][i], y)
                 /\ y # b /\ bos'[y] = bos[y]
              \/ d = Kernel /\ i = n + 1 /\ ring'[d][i] = x /\ y = b
  <2>1. CASE i \in 1 .. Len(ring[d]) /\ ring'[d][i] = ring[d][i]
    <3>1. IsUse(ring[d][i], y)
      BY <1>15, <2>1
    <3>2. y # b
      BY <1>13, <2>1, <3>1
    <3>. QED  BY <1>12, <2>1, <3>1, <3>2
  <2>2. CASE d = Kernel /\ i = n + 1 /\ ring'[d][i] = x
    BY <1>3, <1>15, <2>2
  <2>3. CASE ring'[d][i] = FenceItem
    BY <1>15, <2>3, ItemIs DEF IsUse
  <2>. QED  BY <1>14, <2>1, <2>2, <2>3
<1>16. /\ AcquiresKnown(ring') /\ \A f : Known(ring, f) => Known(ring', f)
       /\ ring' \in Rings
       /\ \A d \in executing : Len(ring'[d]) > 0 /\ ring'[d][1].k = "job"
  <2>1. \A i \in 1 .. Len(items) : items[i].k = "acquire" => Known(ring, items[i].fence)
    <3>1. \A i \in 1 .. 2 : i = 1 \/ i = 2
      OBVIOUS
    <3>. QED  BY <1>3, <1>6, <3>1, ItemIs
  <2>. QED  BY <1>1, <1>7, <2>1, StillKnown
<1>17. \A d \in Channels : d # Kernel => ring'[d] = ring[d]
  BY <1>1, <1>7, ExtendedRing
\* The fence of the move is the last item of the ring.
<1>18. /\ \A m \in 0 .. n : Count(ring'[Kernel], m) <= Count(s, n)
       /\ Count(ring'[Kernel], Len(ring'[Kernel])) = Count(s, n) + 1
  <2>1. /\ Len(ring'[Kernel]) = n + Len(items)
        /\ \A i \in 1 .. Len(items) : ring'[Kernel][n + i] = items[i]
    BY <1>1, <1>7, ExtendedRing
  <2>2. Len(ring'[Kernel]) = n + 2 /\ ring'[Kernel][n + 1] = x /\ ring'[Kernel][n + 2] = FenceItem
    BY <1>6, <2>1
  <2>3. \A m \in 0 .. n : Count(ring'[Kernel], m) = Count(s, m)
    BY <1>1, <1>7, ExtendedCount
  <2>4. \A m \in 0 .. n : Count(s, m) <= Count(s, n)
    BY <1>2, CountMore
  <2>5. Count(ring'[Kernel], n + 1) = Count(ring'[Kernel], n)
    <3>1. Count(ring'[Kernel], n + 1) = Count(ring'[Kernel], n) + (IF ring'[Kernel][n + 1] = FenceItem THEN 1 ELSE 0)
      BY <1>2, CountNext
    <3>2. Count(ring'[Kernel], n) \in Nat
      BY <1>2, CountType
    <3>. QED  BY <1>3, <2>2, <3>1, <3>2
  <2>6. Count(ring'[Kernel], n + 1 + 1) = Count(ring'[Kernel], n + 1) + 1
    <3>1. n + 1 \in Nat /\ n + 1 + 1 = n + 2
      BY <1>2
    <3>2. ring'[Kernel][n + 1 + 1] = FenceItem
      BY <2>2, <3>1
    <3>. QED  BY <3>1, <3>2, CountNext
  <2>7. n \in 0 .. n /\ n + 1 + 1 = Len(ring'[Kernel])
    BY <1>2, <2>2
  <2>. QED  BY <2>3, <2>4, <2>5, <2>6, <2>7
<1>19. TypesInv'
  <2>1. \A y \in Bos : IsFiniteSet(bos'[y].shared)
    BY <1>11, <1>12, FS_EmptySet DEF GemInv, TypesInv
  <2>. QED  BY <1>12, <1>16, <2>1 DEF GemInv, TypesInv
<1>20. KnownInv'
  <2>1. Known(ring', g)
    BY <1>8, <1>9, <1>18 DEF Known
  <2>2. \A y \in Bos : Known(ring', bos'[y].excl) /\ \A f \in bos'[y].shared : Known(ring', f)
    BY <1>11, <1>12, <1>16, <2>1 DEF GemInv, KnownInv
  <2>. QED  BY <1>16, <2>2 DEF KnownInv
<1>21. CallsInv'
  <2>1. \A y \in Bos : bos'[y].holder = bos[y].holder
    BY <1>11, <1>12 DEF v
  <2>2. \A c \in Clients : Mine(c)' = Mine(c)
    BY <2>1 DEF Mine
  <2>. QED  BY <1>1, <1>17, <2>2 DEF CallsInv, GemInv
<1>22. SyncInv'
  <2>1. ASSUME NEW c \in Clients, NEW i \in SyncedBy(push[c])
        PROVE  /\ bos'[push[c].req.bos[i].bo] = bos[push[c].req.bos[i].bo]
               /\ bos[push[c].req.bos[i].bo].place \in push[c].req.bos[i].valid
               /\ \A K \in Cuts(ring') : K[c] = Len(ring'[c]) =>
                    Settled(ring', K, bos[push[c].req.bos[i].bo], push[c].req.bos[i].write)
    <3>1. push[c].req.bos[i].bo # b /\ push[c].req.bos[i].bo \in Bos
      BY CallIs DEF GemInv
    <3>2. bos[push[c].req.bos[i].bo].place \in push[c].req.bos[i].valid
      BY DEF SyncInv, GemInv
    <3>. QED  BY <1>1, <1>7, <1>12, <3>1, <3>2, StillSettled
  <2>. QED  BY <2>1 DEF SyncInv
<1>23. TrackInv'
  <2>. SUFFICES ASSUME NEW y \in Bos, NEW c \in Channels, NEW i \in 1 .. Len(ring'[c]),
                       IsUse(ring'[c][i], y), ~Exempt(c, i, y)', NEW K \in Cuts(ring'),
                       AllDone(ring', K, bos'[y]) \/ (ring'[c][i].uses[y] /\ Done(ring', K, bos'[y].excl))
                PROVE  i <= K[c]
    BY DEF TrackInv
  <2>1. CASE /\ i \in 1 .. Len(ring[c]) /\ ring'[c][i] = ring[c][i] /\ IsUse(ring[c][i], y)
             /\ y # b /\ bos'[y] = bos[y]
    <3>1. ~Exempt(c, i, y)
      BY <1>1, <1>17 DEF Exempt
    <3>2. AllDone(ring', K, bos[y]) \/ (ring[c][i].uses[y] /\ Done(ring', K, bos[y].excl))
      BY <2>1
    <3>. QED  BY <1>1, <1>7, <2>1, <3>1, <3>2, StillTracked
  <2>2. CASE c = Kernel /\ i = n + 1 /\ y = b
    <3>1. Done(ring', K, g)
      BY <1>11, <1>12, <2>2 DEF AllDone
    <3>2. g[2] <= Count(ring'[Kernel], K[Kernel])
      BY <1>9, <3>1 DEF Done
    <3>3. K[Kernel] \in Nat
      BY <1>1, <1>16, CutIs
    <3>4. ~(K[Kernel] \in 0 .. n)
      <4>. SUFFICES ASSUME K[Kernel] \in 0 .. n PROVE FALSE
        OBVIOUS
      <4>1. Count(ring'[Kernel], K[Kernel]) <= Count(s, n) /\ Count(ring'[Kernel], K[Kernel]) \in Nat
        BY <1>18, <3>3, CountType
      <4>. QED  BY <1>8, <1>9, <3>2, <4>1
    <3>. QED  BY <1>2, <2>2, <3>3, <3>4
  <2>. QED  BY <1>15, <2>1, <2>2
<1>24. SharedInv'
  <2>1. ASSUME NEW y \in Bos, NEW K \in Cuts(ring'), NEW f \in bos'[y].shared, Done(ring', K, f)
        PROVE  Done(ring', K, bos'[y].excl)
    <3>1. y # b /\ bos'[y] = bos[y]
      BY <1>11, <1>12, <2>1
    <3>. QED  BY <1>1, <1>7, <2>1, <3>1, StillShared
  <2>. QED  BY <2>1 DEF SharedInv
<1>25. OrderInv'
  <2>. SUFFICES ASSUME NEW y \in Bos, NEW c \in Channels, NEW d \in Channels, c # d,
                       NEW i \in 1 .. Len(ring'[c]), NEW j \in 1 .. Len(ring'[d]),
                       IsUse(ring'[c][i], y), IsUse(ring'[d][j], y),
                       ring'[c][i].uses[y] \/ ring'[d][j].uses[y], NEW K \in Cuts(ring'),
                       K[c] = i - 1, K[d] = j - 1
                PROVE  FALSE
    BY DEF OrderInv
  <2>1. /\ i \in 1 .. Len(ring[c]) /\ ring'[c][i] = ring[c][i] /\ IsUse(ring[c][i], y)
        /\ j \in 1 .. Len(ring[d]) /\ ring'[d][j] = ring[d][j] /\ IsUse(ring[d][j], y)
    <3>1. \/ i \in 1 .. Len(ring[c]) /\ ring'[c][i] = ring[c][i] /\ IsUse(ring[c][i], y) /\ y # b
          \/ c = Kernel /\ y = b
      BY <1>15
    <3>2. \/ j \in 1 .. Len(ring[d]) /\ ring'[d][j] = ring[d][j] /\ IsUse(ring[d][j], y) /\ y # b
          \/ d = Kernel /\ y = b
      BY <1>15
    <3>. QED  BY <3>1, <3>2
  <2>2. K[c] <= Len(ring[c]) /\ K[d] <= Len(ring[d])
    BY <1>1, <2>1, RingIs
  <2>3. /\ Upon(ring, Kernel, K) \in Cuts(ring)
        /\ Upon(ring, Kernel, K)[c] = K[c] /\ Upon(ring, Kernel, K)[d] = K[d]
    BY <1>1, <1>7, <2>2, UponIs
  <2>. QED  BY <2>1, <2>3 DEF OrderInv, GemInv
<1>26. PlaceInv'
  <2>1. ASSUME NEW y \in Bos, NEW c \in Channels, NEW i \in 1 .. Len(ring'[c]), IsUse(ring'[c][i], y)
        PROVE  ring'[c][i].place[y] = bos'[y].place
    <3>1. CASE /\ i \in 1 .. Len(ring[c]) /\ ring'[c][i] = ring[c][i] /\ IsUse(ring[c][i], y)
               /\ bos'[y] = bos[y]
      BY <3>1 DEF PlaceInv, GemInv
    <3>2. CASE ring'[c][i] = x /\ y = b
      BY <1>3, <1>11, <1>12, <3>2
    <3>. QED  BY <1>15, <2>1, <3>1, <3>2
  <2>. QED  BY <2>1 DEF PlaceInv
<1>. QED  BY <1>19, <1>20, <1>21, <1>22, <1>23, <1>24, <1>25, <1>26 DEF GemInv

LEMMA MovesStep ==
  ASSUME GemInv, NEW t \in Clients, Move(t) \/ Evict(t)
  PROVE  GemInv'
<1>1. push' = push /\ family' = family /\ executing' = executing
  BY DEF Move, Evict
<1>2. CASE Move(t)
  <2>. DEFINE p == push[t]
              e == OpListOf(p)[p.k]
              b == p.req.bos[e].bo
  <2>1. BoOf(t) = b /\ Allowed(t, Ith(t)) = p.req.bos[e].valid
    BY ListIs DEF BoOf, Ith, Entry, Allowed
  <2>2. /\ p.pc = "list" /\ p.k <= Len(OpListOf(p)) /\ bos[b].place \notin p.req.bos[e].valid
        /\ \E place \in p.req.bos[e].valid : MoveTo(b, place)
    BY <1>2, <2>1, ListIs DEF Move, Listing, At, InPlace
  <2>3. PICK place \in p.req.bos[e].valid : MoveTo(b, place)
    BY <2>2
  <2>4. p \in Calls(family) /\ CallOK(t, p, Mine(t), ring[t], family) /\ family \in Families
    BY CallIs DEF GemInv
  <2>. HIDE DEF p
  <2>5. GotOK(p) /\ FlowOK(p) /\ p.req # Nil
    BY <2>2, <2>4 DEF CallOK, CallType
  <2>6. e \in ToSet(p.got)
    <3>. DEFINE l == Len(OpListOf(p))
                z == OpListOf(p)
    <3>1. l \in Nat /\ \A j \in 1 .. l : z[j] \in ToSet(p.got)
      BY <2>4, <2>5, OpListIs
    <3>2. p.k \in 1 .. l + 1 /\ p.k <= l
      BY <2>2, <2>5 DEF FlowOK
    <3>. HIDE DEF l, z
    <3>3. p.k \in 1 .. l
      BY <3>1, <3>2
    <3>. QED  BY <3>1, <3>3 DEF z
  <2>. HIDE DEF e
  <2>7. /\ b \in Bos /\ b \in HeldBy(p) /\ bos[b].holder = t
        /\ p.req.bos[e].valid \in {{"vram"}, {"gart"}, Places}
    BY <2>6, CallIs DEF GemInv, p
  <2>8. place \in Places
    BY <2>3, <2>7 DEF Places
  <2>9. \A c, i : ~Exempt(c, i, b)
    <3>1. \A c \in Clients : b \in HeldBy(push[c]) => c = t
      BY <2>7, CallIs DEF GemInv
    <3>2. \A n, i : ~Unattached(p, n, i, b, family)
      BY <2>2 DEF Unattached, Tracking
    <3>. QED  BY <3>1, <3>2 DEF Exempt, Unattached, p
  <2>10. ASSUME NEW c \in Clients, NEW i \in SyncedBy(push[c]), push[c].req.bos[i].bo = b PROVE FALSE
    <3>1. i \in ToSet(push[c].got) /\ bos[push[c].req.bos[i].bo].holder = c
      BY CallIs DEF GemInv
    <3>2. c = t
      BY <2>7, <2>10, <3>1
    <3>3. i = e
      BY <2>5, <2>6, <2>10, <3>1, <3>2 DEF GotOK, p
    <3>4. bos[push[c].req.bos[i].bo].place \in push[c].req.bos[i].valid
      BY DEF GemInv, SyncInv
    <3>. QED  BY <2>2, <2>10, <3>2, <3>3, <3>4 DEF p
  <2>. HIDE DEF b
  <2>. QED  BY <1>1, <2>3, <2>7, <2>8, <2>9, <2>10, MoveStep
<1>3. CASE Evict(t)
  <2>1. PICK b \in Victims : MoveTo(b, "gart")
    BY <1>3 DEF Evict
  <2>2. b \in Bos /\ bos[b].holder = Nil /\ "gart" \in Places
    BY DEF Victims, Places
  <2>3. \A c \in Clients : b \notin HeldBy(push[c])
    BY <2>2, CallIs, GemAssumption DEF GemInv
  <2>4. \A c, i : ~Exempt(c, i, b)
    BY <2>3 DEF Exempt, Unattached
  <2>5. \A c \in Clients : \A i \in SyncedBy(push[c]) : push[c].req.bos[i].bo # b
    BY <2>3, CallIs DEF GemInv
  <2>. QED  BY <1>1, <2>1, <2>2, <2>4, <2>5, MoveStep
<1>. QED  BY <1>2, <1>3

-----------------------------------------------------------------------------
(* The GPU.                                                                *)

LEMMA TailIs ==
  ASSUME NEW T, NEW s \in Seq(T), s # <<>>
  PROVE  /\ Tail(s) \in Seq(T) /\ Len(s) \in Nat /\ Len(s) > 0 /\ Len(s) = Len(Tail(s)) + 1
         /\ Head(s) = s[1] /\ Len(Tail(s)) \in Nat
         /\ \A i \in 1 .. Len(Tail(s)) : Tail(s)[i] = s[i + 1]
<1>1. Head(s) = s[1] /\ Tail(s) \in Seq(T) /\ Len(Tail(s)) = Len(s) - 1
      /\ \A i \in 1 .. Len(Tail(s)) : Tail(s)[i] = s[i + 1]
  BY HeadTailProperties
<1>2. Len(s) \in Nat /\ Len(s) # 0
  BY EmptySeq, LenProperties
<1>. QED  BY <1>1, <1>2

LEMMA SyncedSame ==
  ASSUME NEW p, NEW q, q.pc = p.pc, q.k = p.k, q.got = p.got, OpListOf(q) = OpListOf(p),
         Tracking(q) <=> Tracking(p)
  PROVE  SyncedBy(q) = SyncedBy(p)
<1>1. CASE p.pc = "list"
  BY <1>1 DEF SyncedBy
<1>2. CASE p.pc # "list" /\ (p.pc \in {"submit", "fence"} \/ Tracking(p))
  BY <1>2 DEF SyncedBy
<1>3. CASE p.pc # "list" /\ ~(p.pc \in {"submit", "fence"} \/ Tracking(p))
  BY <1>3 DEF SyncedBy
<1>. QED  BY <1>1, <1>2, <1>3

\* Commands m and n of two channels that must not be executed at a time.
Clash(rg, c, m, d, n, b) ==
  /\ c # d /\ m \in 1 .. Len(rg[c]) /\ n \in 1 .. Len(rg[d])
  /\ IsUse(rg[c][m], b) /\ IsUse(rg[d][n], b)
  /\ rg[c][m].uses[b] \/ rg[d][n].uses[b]

LEMMA OrderAt ==
  ASSUME OrderInv, NEW b \in Bos, NEW c \in Channels, NEW d \in Channels, NEW m, NEW n, Clash(ring, c, m, d, n, b),
         NEW K \in Cuts(ring), K[c] = m - 1, K[d] = n - 1
  PROVE  FALSE
<1>1. m \in 1 .. Len(ring[c]) /\ n \in 1 .. Len(ring[d])
  BY DEF Clash
<1>. QED  BY <1>1 DEF OrderInv, Clash

LEMMA AfterNil ==
  ASSUME NEW rg, NEW c \in Channels, NEW f \in Numbers \cup {Nil}
  PROVE  After(rg, c, f) # Nil <=> f # Nil
  BY AfterIs

\* The last fence of a ring stays the last.
LEMMA PoppedFence ==
  ASSUME NEW rg \in Rings, NEW c \in Channels, NEW new, Pops(rg, new, c), NEW t \in Channels,
         NEW f \in Numbers, f = <<t, Count(rg[t], Len(rg[t]))>>
  PROVE  After(rg, c, f) = <<t, Count(new[t], Len(new[t]))>>
<1>. DEFINE g == After(rg, c, f)
            l == Len(new[t])
            m == Count(rg[t], Len(rg[t]))
<1>1. g \in Numbers /\ g[1] = f[1]
      /\ g[2] = IF rg[c][1] = FenceItem /\ f[1] = c /\ f[2] > 0 THEN f[2] - 1 ELSE f[2]
  BY AfterIs
<1>2. l \in Nat /\ Len(rg[t]) = Place(c, t, l)
  BY PoppedRing
<1>3. Count(new[t], l) \in Nat
  BY <1>2, CountType
<1>4. m = Count(new[t], l) + (IF rg[c][1] = FenceItem /\ t = c THEN 1 ELSE 0)
  <2>1. l \in 0 .. l
    BY <1>2
  <2>. QED  BY <1>2, <2>1, PoppedCount
<1>5. f[1] = t /\ f[2] = m
  OBVIOUS
<1>. HIDE DEF g, l, m
<1>6. g[1] = t /\ g[2] = Count(new[t], l)
  BY <1>1, <1>3, <1>4, <1>5
<1>. QED  BY <1>1, <1>6, NumberIs DEF g, l

\* The fence of an item that leaves the ring signals, in the buffers and the calls too.
LEMMA PopStep ==
  ASSUME GemInv, NEW c \in Channels, Pops(ring, ring', c), family' = family,
         executing' \subseteq executing \ {c},
         bos' \in [Bos -> Buffers],
         \A b \in Bos : /\ bos'[b].holder = bos[b].holder /\ bos'[b].place = bos[b].place
                        /\ bos'[b].excl = After(ring, c, bos[b].excl)
                        /\ bos'[b].shared = {After(ring, c, f) : f \in bos[b].shared},
         push' \in [Clients -> Calls(family)],
         \A t \in Clients : push'[t] = [push[t] EXCEPT !.fence = After(ring, c, push[t].fence)]
  PROVE  GemInv'
<1>0. ring \in Rings /\ AcquiresKnown(ring) /\ ring' \in Rings
  BY DEF GemInv, TypesInv, KnownInv, Pops
\* The cut before, and what was done then.
<1>1. ASSUME NEW K \in Cuts(ring')
      PROVE  /\ Before(c, K) \in Cuts(ring)
             /\ \A d \in Channels : Before(c, K)[d] = Place(c, d, K[d])
             /\ \A f : Known(ring, f) => (Done(ring', K, After(ring, c, f)) <=> Done(ring, Before(c, K), f))
  BY <1>0, PoppedCut
<1>2. ASSUME NEW b \in Bos
      PROVE  /\ Known(ring, bos[b].excl) /\ \A f \in bos[b].shared : Known(ring, f)
             /\ bos[b].shared \subseteq Numbers /\ IsFiniteSet(bos[b].shared)
  BY DEF GemInv, KnownInv, TypesInv, Buffers
<1>3. ASSUME NEW K \in Cuts(ring'), NEW b \in Bos
      PROVE  /\ Done(ring', K, bos'[b].excl) <=> Done(ring, Before(c, K), bos[b].excl)
             /\ AllDone(ring', K, bos'[b]) <=> AllDone(ring, Before(c, K), bos[b])
             /\ \A w : Settled(ring', K, bos'[b], w) <=> Settled(ring, Before(c, K), bos[b], w)
  <2>1. Done(ring', K, bos'[b].excl) <=> Done(ring, Before(c, K), bos[b].excl)
    BY <1>1, <1>2
  <2>2. (\A f \in bos'[b].shared : Done(ring', K, f)) <=> (\A f \in bos[b].shared : Done(ring, Before(c, K), f))
    BY <1>1, <1>2
  <2>. QED  BY <2>1, <2>2 DEF AllDone, Settled
<1>4. \A d \in Channels :
        /\ Len(ring[d]) \in Nat /\ Len(ring'[d]) \in Nat /\ Len(ring[d]) = Place(c, d, Len(ring'[d]))
        /\ \A i \in 1 .. Len(ring'[d]) : Place(c, d, i) \in 1 .. Len(ring[d])
  <2>. TAKE d \in Channels
  <2>1. /\ Len(ring[d]) \in Nat /\ Len(ring'[d]) \in Nat /\ Len(ring[d]) = Place(c, d, Len(ring'[d]))
        /\ \A i \in 0 .. Len(ring'[d]) :
              Place(c, d, i) \in 0 .. Len(ring[d]) /\ (i # 0 => Place(c, d, i) \in 1 .. Len(ring[d]))
    BY <1>0, PoppedRing
  <2>2. \A i \in 1 .. Len(ring'[d]) : i \in 0 .. Len(ring'[d]) /\ i # 0
    BY <2>1
  <2>. QED  BY <2>1, <2>2
<1>5. ASSUME NEW d \in Channels, NEW i \in 1 .. Len(ring'[d])
      PROVE  /\ ring[d][Place(c, d, i)] \in Items /\ ring'[d][i].k = ring[d][Place(c, d, i)].k
             /\ ring'[d][i] = FenceItem <=> ring[d][Place(c, d, i)] = FenceItem
             /\ ring'[d][i].k = "acquire" => ring'[d][i].fence = After(ring, c, ring[d][Place(c, d, i)].fence)
             /\ ring'[d][i].k # "acquire" => ring'[d][i] = ring[d][Place(c, d, i)]
  BY <1>0, PoppedRing
<1>6. ASSUME NEW d \in Channels, NEW i \in 1 .. Len(ring'[d]), NEW b, IsUse(ring'[d][i], b)
      PROVE  /\ Place(c, d, i) \in 1 .. Len(ring[d]) /\ ring[d][Place(c, d, i)] = ring'[d][i]
             /\ IsUse(ring[d][Place(c, d, i)], b)
  BY <1>4, <1>5, <1>6 DEF IsUse
<1>7. ASSUME NEW d \in Channels, NEW i \in Int PROVE Place(c, d, i + 1) = Place(c, d, i) + 1
  <2>1. CASE d = c
    BY <2>1 DEF Place
  <2>2. CASE d # c
    BY <2>2 DEF Place
  <2>. QED  BY <2>1, <2>2
\* The calls are the same but for the numbers of their fences.
<1>8. ASSUME NEW t \in Clients
      PROVE  /\ push[t] \in Calls(family) /\ t \in Channels
             /\ push'[t].pc = push[t].pc /\ push'[t].req = push[t].req /\ push'[t].got = push[t].got
             /\ push'[t].i = push[t].i /\ push'[t].res = push[t].res /\ push'[t].k = push[t].k
             /\ push'[t].then = push[t].then /\ push'[t].cmds = push[t].cmds
             /\ push'[t].presumed = push[t].presumed
             /\ push'[t].fence = After(ring, c, push[t].fence)
             /\ push[t].fence \in Numbers \cup {Nil}
             /\ push'[t].fence # Nil <=> push[t].fence # Nil
  <2>. DEFINE p == push[t]
              f == After(ring, c, push[t].fence)
  <2>1. p \in Calls(family) /\ t \in Channels /\ push'[t] = [p EXCEPT !.fence = f]
    BY CallIs DEF GemInv
  <2>. HIDE DEF p, f
  <2>2. /\ push'[t].pc = p.pc /\ push'[t].req = p.req /\ push'[t].got = p.got
        /\ push'[t].i = p.i /\ push'[t].res = p.res /\ push'[t].k = p.k
        /\ push'[t].then = p.then /\ push'[t].cmds = p.cmds
        /\ push'[t].presumed = p.presumed /\ push'[t].fence = f /\ p.fence \in Numbers \cup {Nil}
    BY <2>1 DEF Calls
  <2>3. f # Nil <=> push[t].fence # Nil
    BY <2>2, AfterNil DEF p, f
  <2>. QED  BY <2>1, <2>2, <2>3 DEF p, f
<1>9. ASSUME NEW t \in Clients
      PROVE  /\ HeldBy(push'[t]) = HeldBy(push[t]) /\ SyncedBy(push'[t]) = SyncedBy(push[t])
             /\ Tracking(push'[t]) <=> Tracking(push[t])
             /\ UsesOf(push'[t]) = UsesOf(push[t]) /\ OpListOf(push'[t]) = OpListOf(push[t])
  <2>1. HeldBy(push'[t]) = HeldBy(push[t]) /\ OpListOf(push'[t]) = OpListOf(push[t])
    BY <1>8, HeldSame
  <2>2. (Tracking(push'[t]) <=> Tracking(push[t])) /\ UsesOf(push'[t]) = UsesOf(push[t])
    BY <1>8 DEF Tracking, UsesOf
  <2>3. SyncedBy(push'[t]) = SyncedBy(push[t])
    BY <1>8, <2>1, <2>2, SyncedSame
  <2>. QED  BY <2>1, <2>2, <2>3
<1>10. TypesInv'
  <2>1. \A b \in Bos : IsFiniteSet(bos'[b].shared)
    <3>. TAKE b \in Bos
    <3>. DEFINE S == bos[b].shared
                g == [f \in S |-> After(ring, c, f)]
                R == {After(ring, c, f) : f \in S}
    <3>1. g \in Surjection(S, R)
      BY DEF Surjection
    <3>2. IsFiniteSet(S)
      BY <1>2
    <3>3. IsFiniteSet(R)
      BY <3>1, <3>2, FS_Surjection
    <3>. QED  BY <3>3
  <2>2. ASSUME NEW d \in executing' PROVE Len(ring'[d]) > 0 /\ ring'[d][1].k = "job"
    <3>1. d \in Channels /\ d # c /\ Len(ring[d]) > 0 /\ ring[d][1].k = "job"
      BY DEF GemInv, TypesInv
    <3>2. Len(ring'[d]) = Len(ring[d]) /\ Place(c, d, 1) = 1
      BY <1>4, <3>1 DEF Place
    <3>3. 1 \in 1 .. Len(ring'[d])
      BY <1>4, <3>1, <3>2
    <3>. QED  BY <1>5, <3>1, <3>2, <3>3
  <2>3. executing' \subseteq Channels
    BY DEF GemInv, TypesInv
  <2>. QED  BY <1>0, <2>1, <2>2, <2>3 DEF GemInv, TypesInv
<1>11. KnownInv'
  <2>1. \A f : Known(ring, f) => Known(ring', After(ring, c, f))
    BY <1>0, PoppedKnown
  <2>2. ASSUME NEW d \in Channels, NEW i \in 1 .. Len(ring'[d]), ring'[d][i].k = "acquire"
        PROVE  Known(ring', ring'[d][i].fence)
    <3>. DEFINE j == Place(c, d, i)
    <3>1. j \in 1 .. Len(ring[d])
      BY <1>4
    <3>2. ring[d][j].k = "acquire" /\ ring'[d][i].fence = After(ring, c, ring[d][j].fence)
      BY <1>5, <2>2
    <3>. HIDE DEF j
    <3>3. Known(ring, ring[d][j].fence)
      BY <1>0, <3>1, <3>2 DEF AcquiresKnown
    <3>. QED  BY <2>1, <3>2, <3>3
  <2>3. \A b \in Bos : Known(ring', bos'[b].excl) /\ \A f \in bos'[b].shared : Known(ring', f)
    BY <1>2, <2>1
  <2>. QED  BY <2>2, <2>3 DEF KnownInv, AcquiresKnown
<1>12. CallsInv'
  <2>. SUFFICES ASSUME NEW t \in Clients PROVE CallOK(t, push'[t], Mine(t)', ring'[t], family)
    BY DEF CallsInv
  <2>. DEFINE p == push[t]
              q == push'[t]
              s == ring[t]
              r == ring'[t]
              l == Len(r)
  <2>1. CallOK(t, p, Mine(t), s, family)
    BY DEF GemInv, CallsInv
  <2>2. Mine(t)' = Mine(t)
    BY DEF Mine
  <2>3. /\ t \in Channels /\ q \in Calls(family) /\ q.pc = p.pc /\ q.req = p.req /\ q.got = p.got
        /\ q.i = p.i /\ q.res = p.res /\ q.k = p.k
        /\ q.then = p.then /\ q.cmds = p.cmds /\ q.presumed = p.presumed
        /\ q.fence = After(ring, c, p.fence) /\ p.fence \in Numbers \cup {Nil}
        /\ q.fence # Nil <=> p.fence # Nil
        /\ HeldBy(q) = HeldBy(p) /\ UsesOf(q) = UsesOf(p) /\ OpListOf(q) = OpListOf(p)
        /\ Tracking(q) <=> Tracking(p)
    BY <1>8, <1>9
  <2>4. /\ l \in Nat /\ Len(s) = Place(c, t, l)
        /\ l > 0 => Place(c, t, l) \in 1 .. Len(s)
        /\ \A i \in 1 .. l : /\ r[i] = FenceItem <=> s[Place(c, t, i)] = FenceItem
                             /\ r[i].k = s[Place(c, t, i)].k
                             /\ r[i].k # "acquire" => r[i] = s[Place(c, t, i)]
    <3>1. t \in Channels
      BY <2>3
    <3>2. l \in Nat /\ Len(s) = Place(c, t, l) /\ \A i \in 1 .. l : Place(c, t, i) \in 1 .. Len(s)
      BY <1>4, <3>1
    <3>3. l > 0 => l \in 1 .. l
      BY <3>2
    <3>. QED  BY <1>5, <3>1, <3>2, <3>3
  <2>. HIDE DEF p, q, s, r, l
  <2>7. CallType(p, family) /\ GotOK(p) /\ FlowOK(p) /\ ReserveOK(p) /\ NamedOK(p)
        /\ RingOK(t, p, s, family) /\ Mine(t) = HeldBy(p)
    BY <2>1 DEF CallOK
  <2>8. CallType(q, family) /\ GotOK(q)
    BY <2>3, <2>7 DEF CallType, GotOK
  <2>9. FlowOK(q)
    BY <2>3, <2>7 DEF FlowOK
  <2>10. ReserveOK(q) /\ NamedOK(q)
    BY <2>3, <2>7 DEF ReserveOK, NamedOK
  <2>11. ASSUME q.fence # Nil PROVE q.fence = <<t, Count(r, l)>>
    <3>1. p.fence = <<t, Count(s, Len(s))>> /\ p.fence \in Numbers
      BY <2>3, <2>7, <2>11 DEF RingOK
    <3>2. After(ring, c, p.fence) = <<t, Count(ring'[t], Len(ring'[t]))>>
      BY <1>0, <2>3, <3>1, PoppedFence DEF s
    <3>. QED  BY <2>3, <3>2 DEF r, l
  <2>12. ASSUME q.fence # Nil, l > 0 PROVE r[l] = FenceItem
    <3>1. l \in 1 .. l /\ Len(s) > 0
      BY <2>4, <2>12
    <3>2. s[Len(s)] = FenceItem
      BY <2>3, <2>7, <2>12, <3>1 DEF RingOK
    <3>. QED  BY <2>4, <3>1, <3>2
  <2>13. ASSUME q.fence # Nil, l > 1 PROVE JobOf(r[l - 1], q)
    <3>1. l - 1 \in 1 .. l /\ l - 1 \in Int /\ l = l - 1 + 1 /\ l \in Int
      BY <2>4, <2>13
    <3>2. Place(c, t, l) = Place(c, t, l - 1) + 1
      <4>1. Place(c, t, l - 1 + 1) = Place(c, t, l - 1) + 1
        BY <1>7, <2>3, <3>1
      <4>. QED  BY <3>1, <4>1
    <3>3. Len(s) - 1 = Place(c, t, l - 1) /\ Len(s) > 1
      BY <2>4, <2>13, <3>1, <3>2 DEF Place
    <3>4. JobOf(s[Place(c, t, l - 1)], p)
      BY <2>3, <2>7, <2>13, <3>3 DEF RingOK
    <3>5. r[l - 1] = s[Place(c, t, l - 1)]
      BY <2>4, <3>1, <3>4 DEF JobOf
    <3>. QED  BY <2>3, <3>4, <3>5 DEF JobOf
  <2>14. ASSUME q.pc = "fence", family = "tesla", l > 0 PROVE JobOf(r[l], q)
    <3>1. l \in 1 .. l /\ Len(s) > 0 /\ Len(s) = Place(c, t, l)
      BY <2>4, <2>14
    <3>2. JobOf(s[Len(s)], p)
      BY <2>3, <2>7, <2>14, <3>1 DEF RingOK
    <3>3. r[l] = s[Len(s)]
      BY <2>4, <3>1, <3>2 DEF JobOf
    <3>. QED  BY <2>3, <3>2, <3>3 DEF JobOf
  <2>15. RingOK(t, q, r, family)
    BY <2>11, <2>12, <2>13, <2>14 DEF RingOK, l
  <2>. QED  BY <2>2, <2>3, <2>7, <2>8, <2>9, <2>10, <2>15 DEF CallOK, q, r
<1>13. SyncInv'
  <2>. SUFFICES ASSUME NEW t \in Clients, NEW i \in SyncedBy(push'[t])
                PROVE  /\ bos'[push'[t].req.bos[i].bo].place \in push'[t].req.bos[i].valid
                       /\ \A K \in Cuts(ring') : K[t] = Len(ring'[t]) =>
                            Settled(ring', K, bos'[push'[t].req.bos[i].bo], push'[t].req.bos[i].write)
    BY DEF SyncInv
  <2>. DEFINE b == push[t].req.bos[i].bo
              w == push[t].req.bos[i].write
  <2>1. i \in SyncedBy(push[t]) /\ push'[t].req = push[t].req /\ t \in Channels
    BY <1>8, <1>9
  <2>2. b \in Bos
    BY <2>1, CallIs DEF GemInv
  <2>3. bos[b].place \in push[t].req.bos[i].valid
    BY <2>1 DEF GemInv, SyncInv
  <2>4. ASSUME NEW K \in Cuts(ring'), K[t] = Len(ring'[t]) PROVE Settled(ring', K, bos'[b], w)
    <3>1. Before(c, K) \in Cuts(ring) /\ Before(c, K)[t] = Place(c, t, K[t])
      BY <1>1, <2>1
    <3>2. Before(c, K)[t] = Len(ring[t])
      BY <1>4, <2>1, <2>4, <3>1
    <3>3. Settled(ring, Before(c, K), bos[b], w)
      BY <2>1, <3>1, <3>2 DEF GemInv, SyncInv
    <3>. QED  BY <1>3, <2>2, <3>3
  <2>. QED  BY <2>1, <2>2, <2>3, <2>4
<1>14. TrackInv'
  <2>. SUFFICES ASSUME NEW b \in Bos, NEW d \in Channels, NEW i \in 1 .. Len(ring'[d]),
                       IsUse(ring'[d][i], b), ~Exempt(d, i, b)', NEW K \in Cuts(ring'),
                       AllDone(ring', K, bos'[b]) \/ (ring'[d][i].uses[b] /\ Done(ring', K, bos'[b].excl))
                PROVE  i <= K[d]
    BY DEF TrackInv
  <2>. DEFINE j == Place(c, d, i)
              J == Before(c, K)
  <2>1. j \in 1 .. Len(ring[d]) /\ ring[d][j] = ring'[d][i] /\ IsUse(ring[d][j], b)
    BY <1>6
  <2>2. J \in Cuts(ring) /\ J[d] = Place(c, d, K[d]) /\ K[d] \in Nat
    BY <1>0, <1>1, CutIs
  <2>3. AllDone(ring, J, bos[b]) \/ (ring[d][j].uses[b] /\ Done(ring, J, bos[b].excl))
    BY <1>3, <2>1
  <2>4. i \in Nat /\ Len(ring'[d]) \in Nat /\ Len(ring[d]) = Place(c, d, Len(ring'[d]))
    BY <1>4
  <2>5. /\ j = Len(ring[d]) <=> i = Len(ring'[d])
        /\ j = Len(ring[d]) - 1 <=> i = Len(ring'[d]) - 1
    BY <2>4 DEF Place
  <2>. HIDE DEF j, J
  <2>6. ~Exempt(d, j, b)
    <3>. SUFFICES ASSUME Exempt(d, j, b) PROVE FALSE
      OBVIOUS
    <3>1. d \in Clients /\ Unattached(push[d], Len(ring[d]), j, b, family)
      BY DEF Exempt
    <3>2. Unattached(push'[d], Len(ring'[d]), i, b, family)
      BY <1>8, <1>9, <2>5, <3>1 DEF Unattached
    <3>. QED  BY <3>1, <3>2 DEF Exempt
  <2>7. j <= J[d]
    BY <2>1, <2>2, <2>3, <2>6 DEF GemInv, TrackInv
  <2>. QED  BY <2>2, <2>4, <2>7 DEF Place, j
<1>15. SharedInv'
  <2>1. ASSUME NEW b \in Bos, NEW K \in Cuts(ring'), NEW f \in bos[b].shared,
               Done(ring', K, After(ring, c, f))
        PROVE  Done(ring', K, bos'[b].excl)
    <3>1. Done(ring, Before(c, K), f) /\ Before(c, K) \in Cuts(ring)
      BY <1>1, <1>2, <2>1
    <3>2. Done(ring, Before(c, K), bos[b].excl)
      BY <3>1 DEF GemInv, SharedInv
    <3>. QED  BY <1>3, <3>2
  <2>2. ASSUME NEW b \in Bos, NEW K \in Cuts(ring'), NEW g \in bos'[b].shared, Done(ring', K, g)
        PROVE  Done(ring', K, bos'[b].excl)
    <3>1. PICK f \in bos[b].shared : g = After(ring, c, f)
      OBVIOUS
    <3>. QED  BY <2>1, <2>2, <3>1
  <2>. QED  BY <2>2 DEF SharedInv
<1>16. OrderInv'
  <2>. SUFFICES ASSUME NEW b \in Bos, NEW d \in Channels, NEW e \in Channels, d # e,
                       NEW i \in 1 .. Len(ring'[d]), NEW j \in 1 .. Len(ring'[e]),
                       IsUse(ring'[d][i], b), IsUse(ring'[e][j], b),
                       ring'[d][i].uses[b] \/ ring'[e][j].uses[b], NEW K \in Cuts(ring'),
                       K[d] = i - 1, K[e] = j - 1
                PROVE  FALSE
    BY DEF OrderInv
  <2>. DEFINE J == Before(c, K)
              m == Place(c, d, i)
              n == Place(c, e, j)
  <2>1. m \in 1 .. Len(ring[d]) /\ ring[d][m] = ring'[d][i] /\ IsUse(ring[d][m], b)
    BY <1>6
  <2>2. n \in 1 .. Len(ring[e]) /\ ring[e][n] = ring'[e][j] /\ IsUse(ring[e][n], b)
    BY <1>6
  <2>3. i \in Nat /\ j \in Nat
    BY <1>4
  <2>4. J \in Cuts(ring) /\ J[d] = Place(c, d, i - 1) /\ J[e] = Place(c, e, j - 1)
    BY <1>1
  <2>5. J[d] = m - 1 /\ J[e] = n - 1
    BY <2>3, <2>4 DEF Place
  <2>6. Clash(ring, d, m, e, n, b)
    BY <2>1, <2>2 DEF Clash
  <2>. HIDE DEF m, n, J
  <2>7. ASSUME NEW x, NEW y, Clash(ring, d, x, e, y, b), NEW L \in Cuts(ring), L[d] = x - 1, L[e] = y - 1
        PROVE  FALSE
    <3>1. OrderInv
      BY DEF GemInv
    <3>. QED  BY <2>7, <3>1, OrderAt
  <2>. QED  BY <2>4, <2>5, <2>6, <2>7
<1>17. PlaceInv'
  <2>1. ASSUME NEW b \in Bos, NEW d \in Channels, NEW i \in 1 .. Len(ring'[d]), IsUse(ring'[d][i], b)
        PROVE  ring'[d][i].place[b] = bos'[b].place
    <3>1. /\ Place(c, d, i) \in 1 .. Len(ring[d]) /\ ring[d][Place(c, d, i)] = ring'[d][i]
          /\ IsUse(ring[d][Place(c, d, i)], b)
      BY <1>6, <2>1
    <3>. QED  BY <3>1 DEF GemInv, PlaceInv
  <2>. QED  BY <2>1 DEF PlaceInv
<1>. QED  BY <1>10, <1>11, <1>12, <1>13, <1>14, <1>15, <1>16, <1>17 DEF GemInv

\* An acquire or a job at the head leaves the ring: no fence is nearer for it.
LEMMA PlainPop ==
  ASSUME NEW rg \in Rings, NEW c \in Channels, rg[c] # <<>>, rg[c][1].k \in {"acquire", "job"},
         rg[c][1].k = "acquire" => Signalled(rg[c][1].fence),
         NEW new, new = [rg EXCEPT ![c] = Tail(@)]
  PROVE  Pops(rg, new, c) /\ \A f : After(rg, c, f) = f
<1>1. rg[c] \in Seq(Items) /\ DOMAIN rg = Channels
  BY RingIs DEF Rings
<1>2. /\ Tail(rg[c]) \in Seq(Items) /\ Len(rg[c]) > 0 /\ Len(rg[c]) = Len(Tail(rg[c])) + 1
      /\ \A i \in 1 .. Len(Tail(rg[c])) : Tail(rg[c])[i] = rg[c][i + 1]
  BY <1>1, TailIs
<1>3. new \in Rings /\ new[c] = Tail(rg[c]) /\ \A d \in Channels : d # c => new[d] = rg[d]
  BY <1>2 DEF Rings
<1>4. \A f : After(rg, c, f) = f
  BY ItemIs DEF After
<1>5. ASSUME NEW x \in Items PROVE ItemAfter(rg, c, x) = x
  BY <1>4, ItemIs DEF ItemAfter
<1>6. \A d \in Channels : Len(rg[d]) = Place(c, d, Len(new[d]))
  BY <1>2, <1>3 DEF Place
<1>7. ASSUME NEW d \in Channels, NEW i \in 1 .. Len(new[d])
      PROVE  new[d][i] = ItemAfter(rg, c, rg[d][Place(c, d, i)])
  <2>1. new[d][i] = rg[d][Place(c, d, i)]
    BY <1>2, <1>3 DEF Place
  <2>2. new[d][i] \in Items
    BY <1>3, RingIs
  <2>. QED  BY <1>5, <2>1, <2>2
<1>. QED  BY <1>2, <1>3, <1>4, <1>6, <1>7 DEF Pops

FencesNearer(c, rg) ==
  [d \in Channels |->
     [i \in DOMAIN rg[d] |->
        IF rg[d][i].k = "acquire" THEN Acquire(Nearer(c, rg[d][i].fence)) ELSE rg[d][i]]]

\* A fence at the head signals.
LEMMA FencePop ==
  ASSUME NEW rg \in Rings, NEW c \in Channels, rg[c] # <<>>, rg[c][1].k = "fence", NEW new,
         new = FencesNearer(c, [rg EXCEPT ![c] = Tail(@)])
  PROVE  Pops(rg, new, c) /\ \A f : After(rg, c, f) = Nearer(c, f)
<1>. DEFINE tl == [rg EXCEPT ![c] = Tail(@)]
<1>0. tl = [rg EXCEPT ![c] = Tail(@)] /\ new = FencesNearer(c, tl)
  OBVIOUS
<1>. HIDE DEF tl
<1>1. rg[c] \in Seq(Items) /\ DOMAIN rg = Channels
  BY RingIs DEF Rings
<1>2. /\ Tail(rg[c]) \in Seq(Items) /\ Len(rg[c]) > 0 /\ Len(rg[c]) = Len(Tail(rg[c])) + 1
      /\ \A i \in 1 .. Len(Tail(rg[c])) : Tail(rg[c])[i] = rg[c][i + 1]
  BY <1>1, TailIs
<1>3. tl \in Rings /\ tl[c] = Tail(rg[c]) /\ \A d \in Channels : d # c => tl[d] = rg[d]
  BY <1>0, <1>2 DEF Rings
<1>4. \A f : After(rg, c, f) = Nearer(c, f)
  <2>1. rg[c][1] \in Items
    BY <1>2, RingIs
  <2>2. rg[c][1] = FenceItem
    BY <2>1, ItemIs
  <2>. QED  BY <2>2 DEF After
<1>5. ASSUME NEW d \in Channels
      PROVE  /\ tl[d] \in Seq(Items) /\ Len(tl[d]) \in Nat /\ DOMAIN tl[d] = 1 .. Len(tl[d])
             /\ new[d] = [i \in 1 .. Len(tl[d]) |-> ItemAfter(rg, c, tl[d][i])]
  <2>1. tl[d] \in Seq(Items) /\ Len(tl[d]) \in Nat /\ DOMAIN tl[d] = 1 .. Len(tl[d])
    BY <1>3, RingIs
  <2>2. \A x : ItemAfter(rg, c, x) = IF x.k = "acquire" THEN Acquire(Nearer(c, x.fence)) ELSE x
    BY <1>4 DEF ItemAfter
  <2>3. new[d] = [i \in 1 .. Len(tl[d]) |->
                     IF tl[d][i].k = "acquire" THEN Acquire(Nearer(c, tl[d][i].fence)) ELSE tl[d][i]]
    BY <1>0, <2>1 DEF FencesNearer
  <2>. QED  BY <2>1, <2>2, <2>3
<1>6. ASSUME NEW d \in Channels
      PROVE  new[d] \in Seq(Items) /\ Len(new[d]) = Len(tl[d])
             /\ \A i \in 1 .. Len(tl[d]) : new[d][i] = ItemAfter(rg, c, tl[d][i])
  <2>1. \A i \in 1 .. Len(tl[d]) : ItemAfter(rg, c, tl[d][i]) \in Items
    BY <1>5, ElementOfSeq, ItemAfterIs
  <2>2. [i \in 1 .. Len(tl[d]) |-> ItemAfter(rg, c, tl[d][i])] \in [1 .. Len(tl[d]) -> Items]
    BY <2>1
  <2>3. new[d] \in [1 .. Len(tl[d]) -> Items] /\ \A i \in 1 .. Len(tl[d]) : new[d][i] = ItemAfter(rg, c, tl[d][i])
    BY <1>5, <2>2
  <2>4. Len(tl[d]) \in Nat
    BY <1>5
  <2>. DEFINE n == Len(tl[d])
              s == new[d]
  <2>5. n \in Nat /\ s \in [1 .. n -> Items]
    BY <2>3, <2>4
  <2>. HIDE DEF Items, n, s
  <2>6. s \in Seq(Items)
    BY <2>5, SeqDef
  <2>7. Len(s) = n
    BY <2>5, <2>6
  <2>. QED  BY <2>3, <2>6, <2>7 DEF n, s
<1>7. new \in Rings
  <2>1. DOMAIN new = Channels /\ new = [d \in Channels |-> new[d]]
    BY <1>0 DEF FencesNearer
  <2>. QED  BY <1>6, <2>1 DEF Rings
<1>8. \A d \in Channels : Len(rg[d]) = Place(c, d, Len(new[d]))
  BY <1>2, <1>3, <1>6 DEF Place
<1>9. ASSUME NEW d \in Channels, NEW i \in 1 .. Len(new[d])
      PROVE  new[d][i] = ItemAfter(rg, c, rg[d][Place(c, d, i)])
  <2>1. Len(new[d]) = Len(tl[d])
    BY <1>6
  <2>2. new[d][i] = ItemAfter(rg, c, tl[d][i]) /\ i \in 1 .. Len(tl[d])
    BY <1>6, <2>1
  <2>3. CASE d = c
    <3>1. tl[d][i] = rg[d][i + 1] /\ Place(c, d, i) = i + 1
      BY <1>2, <1>3, <2>2, <2>3 DEF Place
    <3>. QED  BY <2>2, <3>1
  <2>4. CASE d # c
    <3>1. tl[d] = rg[d] /\ Place(c, d, i) = i
      BY <1>3, <2>4 DEF Place
    <3>. QED  BY <2>2, <3>1
  <2>. QED  BY <2>3, <2>4
<1>10. rg[c][1].k # "acquire"
  OBVIOUS
<1>. QED  BY <1>2, <1>4, <1>7, <1>8, <1>9, <1>10 DEF Pops

LEMMA FenceKept ==
  ASSUME NEW fam, NEW p \in Calls(fam)
  PROVE  /\ [p EXCEPT !.fence = p.fence] = p
         /\ \A f \in Numbers \cup {Nil} : [p EXCEPT !.fence = f] \in Calls(fam)
<1>1. p = [p EXCEPT !.fence = p.fence]
  BY DEF Calls
<1>2. \A f \in Numbers \cup {Nil} : [p EXCEPT !.fence = f] \in Calls(fam)
  BY DEF Calls
<1>. QED  BY <1>1, <1>2

-----------------------------------------------------------------------------
(* The steps of the GPU.                                                   *)

LEMMA HeadIsItem ==
  ASSUME TypesInv, NEW c \in Channels, ring[c] # <<>>
  PROVE  Head(ring[c]) = ring[c][1] /\ ring[c][1] \in Items /\ Len(ring[c]) > 0
<1>1. ring[c] \in Seq(Items)
  BY RingIs DEF TypesInv
<1>2. Head(ring[c]) = ring[c][1] /\ Len(ring[c]) > 0 /\ Len(ring[c]) \in Nat
  BY <1>1, TailIs
<1>3. 1 \in 1 .. Len(ring[c])
  BY <1>2
<1>. QED  BY <1>1, <1>2, <1>3, ElementOfSeq

\* An item that is not a fence leaves the ring.
LEMMA PlainPopStep ==
  ASSUME GemInv, NEW c \in Channels, ring[c] # <<>>, ring[c][1].k \in {"acquire", "job"},
         ring[c][1].k = "acquire" => Signalled(ring[c][1].fence), ring' = Pop(c),
         bos' = bos, push' = push, family' = family, executing' \subseteq executing \ {c}
  PROVE  GemInv'
<1>1. TypesInv /\ ring \in Rings
  BY DEF GemInv, TypesInv
<1>2. Pops(ring, ring', c) /\ \A f : After(ring, c, f) = f
  BY <1>1, PlainPop DEF Pop
<1>3. bos \in [Bos -> Buffers] /\ push \in [Clients -> Calls(family)]
  BY <1>1 DEF TypesInv
<1>4. \A b \in Bos : /\ bos'[b].holder = bos[b].holder /\ bos'[b].place = bos[b].place
                     /\ bos'[b].excl = After(ring, c, bos[b].excl)
                     /\ bos'[b].shared = {After(ring, c, f) : f \in bos[b].shared}
  BY <1>2
<1>5. \A t \in Clients : push'[t] = [push[t] EXCEPT !.fence = After(ring, c, push[t].fence)]
  BY <1>2, <1>3, FenceKept
<1>. QED  BY <1>2, <1>3, <1>4, <1>5, PopStep

LEMMA AcquireStep ==
  ASSUME GemInv, NEW c \in Channels, GpuAcquire(c)
  PROVE  GemInv'
<1>1. TypesInv
  BY DEF GemInv
<1>2. /\ ring[c] # <<>> /\ Head(ring[c]).k = "acquire" /\ Signalled(Head(ring[c]).fence)
      /\ ring' = Pop(c) /\ bos' = bos /\ push' = push /\ executing' = executing /\ family' = family
  BY DEF GpuAcquire, HeadIs
<1>3. ring[c][1].k = "acquire" /\ Signalled(ring[c][1].fence)
  BY <1>1, <1>2, HeadIsItem
<1>4. executing \subseteq executing \ {c}
  BY <1>1, <1>3 DEF TypesInv
<1>. QED  BY <1>2, <1>3, <1>4, PlainPopStep

LEMMA FinishStep ==
  ASSUME GemInv, NEW c \in Channels, GpuFinish(c)
  PROVE  GemInv'
<1>1. TypesInv
  BY DEF GemInv
<1>2. /\ c \in executing /\ ring' = Pop(c) /\ bos' = bos /\ push' = push
      /\ executing' = executing \ {c} /\ family' = family
  BY DEF GpuFinish
<1>3. Len(ring[c]) > 0 /\ ring[c][1].k = "job"
  BY <1>1, <1>2 DEF TypesInv
<1>4. ring[c] # <<>>
  BY <1>3, EmptySeq
<1>. QED  BY <1>2, <1>3, <1>4, PlainPopStep

LEMMA OrderUnmoved ==
  ASSUME OrderInv, ring' = ring
  PROVE  OrderInv'
  BY DEF OrderInv

LEMMA StartStep ==
  ASSUME GemInv, NEW c \in Channels, GpuStart(c)
  PROVE  GemInv'
<1>0. TypesInv /\ KnownInv /\ CallsInv /\ SyncInv /\ TrackInv /\ SharedInv /\ OrderInv /\ PlaceInv
  BY DEF GemInv
<1>1. /\ ring[c] # <<>> /\ Head(ring[c]).k = "job" /\ executing' = executing \cup {c}
      /\ ring' = ring /\ bos' = bos /\ push' = push /\ family' = family
  BY DEF GpuStart, HeadIs
<1>2. ring[c][1].k = "job" /\ Len(ring[c]) > 0
  BY <1>0, <1>1, HeadIsItem
<1>3. TypesInv'
  BY <1>0, <1>1, <1>2 DEF TypesInv
<1>4. KnownInv' /\ CallsInv'
  BY <1>0, <1>1 DEF KnownInv, CallsInv, Mine
<1>5. SyncInv' /\ SharedInv' /\ PlaceInv'
  BY <1>0, <1>1 DEF SyncInv, SharedInv, PlaceInv
<1>6. TrackInv'
  BY <1>0, <1>1 DEF TrackInv, Exempt
<1>7. OrderInv'
  BY <1>0, <1>1, OrderUnmoved
<1>. QED  BY <1>3, <1>4, <1>5, <1>6, <1>7 DEF GemInv

LEMMA FenceStep ==
  ASSUME GemInv, NEW c \in Channels, GpuFence(c)
  PROVE  GemInv'
<1>1. TypesInv /\ ring \in Rings
  BY DEF GemInv, TypesInv
<1>2. /\ ring[c] # <<>> /\ Head(ring[c]).k = "fence"
      /\ bos' = [b \in Bos |-> [bos[b] EXCEPT !.excl = Nearer(c, @), !.shared = {Nearer(c, f) : f \in @}]]
      /\ push' = [t \in Clients |-> [push[t] EXCEPT !.fence = Nearer(c, @)]]
      /\ executing' = executing /\ family' = family
  BY DEF GpuFence, HeadIs
<1>3. ring[c][1].k = "fence"
  BY <1>1, <1>2, HeadIsItem
<1>4. Pops(ring, ring', c) /\ \A f : After(ring, c, f) = Nearer(c, f)
  <2>1. ring' = FencesNearer(c, [ring EXCEPT ![c] = Tail(@)])
    BY DEF GpuFence, Pop, FencesNearer
  <2>. QED  BY <1>1, <1>2, <1>3, <2>1, FencePop
<1>5. executing' \subseteq executing \ {c}
  BY <1>1, <1>2, <1>3 DEF TypesInv
<1>6. ASSUME NEW f \in Numbers PROVE Nearer(c, f) \in Numbers
  BY NearerIs
<1>7. Nearer(c, Nil) = Nil
  BY DEF Nearer
<1>8. ASSUME NEW b \in Bos
      PROVE  /\ bos'[b] \in Buffers
             /\ bos'[b].holder = bos[b].holder /\ bos'[b].place = bos[b].place
             /\ bos'[b].excl = Nearer(c, bos[b].excl)
             /\ bos'[b].shared = {Nearer(c, f) : f \in bos[b].shared}
  <2>. DEFINE v == bos[b]
              e == Nearer(c, bos[b].excl)
              h == {Nearer(c, f) : f \in bos[b].shared}
  <2>1. v \in Buffers /\ v.excl \in Numbers \cup {Nil} /\ v.shared \subseteq Numbers
    BY <1>1 DEF TypesInv, Buffers
  <2>2. e \in Numbers \cup {Nil} /\ h \in SUBSET Numbers
    BY <1>6, <1>7, <2>1
  <2>3. bos'[b] = [v EXCEPT !.excl = e, !.shared = h]
    BY <1>2
  <2>. HIDE DEF v, e, h
  <2>4. /\ bos'[b] \in Buffers /\ bos'[b].holder = v.holder /\ bos'[b].place = v.place
        /\ bos'[b].excl = e /\ bos'[b].shared = h
    BY <2>1, <2>2, <2>3 DEF Buffers
  <2>. QED  BY <2>4 DEF v, e, h
<1>9. bos' \in [Bos -> Buffers]
  BY <1>2, <1>8
<1>10. ASSUME NEW t \in Clients
       PROVE  push'[t] \in Calls(family) /\ push'[t] = [push[t] EXCEPT !.fence = Nearer(c, push[t].fence)]
  <2>1. push[t] \in Calls(family) /\ push[t].fence \in Numbers \cup {Nil}
    BY <1>1 DEF TypesInv, Calls
  <2>2. Nearer(c, push[t].fence) \in Numbers \cup {Nil}
    BY <1>6, <1>7, <2>1
  <2>3. push'[t] = [push[t] EXCEPT !.fence = Nearer(c, push[t].fence)]
    BY <1>2
  <2>. QED  BY <2>1, <2>2, <2>3, FenceKept
<1>11. push' \in [Clients -> Calls(family)]
  BY <1>2, <1>10
<1>12. \A b \in Bos : /\ bos'[b].holder = bos[b].holder /\ bos'[b].place = bos[b].place
                      /\ bos'[b].excl = After(ring, c, bos[b].excl)
                      /\ bos'[b].shared = {After(ring, c, f) : f \in bos[b].shared}
  BY <1>4, <1>8
<1>13. \A t \in Clients : push'[t] = [push[t] EXCEPT !.fence = After(ring, c, push[t].fence)]
  BY <1>4, <1>10
<1>. QED  BY <1>2, <1>4, <1>5, <1>9, <1>11, <1>12, <1>13, PopStep

-----------------------------------------------------------------------------
(* The theorems.                                                           *)

\* No call, no ring: nothing is reserved and nothing has a fence.
LEMMA GemInitInv == GemInit => GemInv
<1>. SUFFICES ASSUME GemInit PROVE GemInv
  OBVIOUS
<1>1. /\ \A b \in Bos : bos[b] = [holder |-> Nil, place |-> Homes[b], excl |-> Nil, shared |-> {}]
      /\ DOMAIN bos = Bos /\ bos = [b \in Bos |-> bos[b]]
      /\ push = [t \in Clients |-> Idle]
      /\ \A c \in Channels : ring[c] = <<>>
      /\ ring = [c \in Channels |-> <<>>] /\ executing = {} /\ family \in Families
  BY DEF GemInit
<1>2. ring \in Rings /\ \A c \in Channels : Len(ring[c]) = 0
  BY <1>1, EmptySeq DEF Rings
<1>3. \A c \in Channels : 1 .. Len(ring[c]) = {}
  BY <1>2
<1>4. ASSUME NEW b \in Bos
      PROVE  /\ bos[b] \in Buffers /\ bos[b].holder = Nil /\ bos[b].excl = Nil /\ bos[b].shared = {}
  BY <1>1, GemAssumption DEF Buffers
<1>5. \A t \in Clients : push[t] = Idle
  BY <1>1
<1>6. TypesInv
  <2>1. push \in [Clients -> Calls(family)]
    BY <1>1, IdleIs
  <2>2. bos \in [Bos -> Buffers]
    BY <1>1, <1>4
  <2>3. \A b \in Bos : IsFiniteSet(bos[b].shared)
    BY <1>4, FS_EmptySet
  <2>. QED  BY <1>1, <1>2, <2>1, <2>2, <2>3 DEF TypesInv
<1>7. KnownInv
  BY <1>3, <1>4 DEF KnownInv, AcquiresKnown, Known
<1>8. CallsInv
  <2>. SUFFICES ASSUME NEW t \in Clients PROVE CallOK(t, push[t], Mine(t), ring[t], family)
    BY DEF CallsInv
  <2>1. Mine(t) = {}
    BY <1>4, GemAssumption DEF Mine
  <2>2. family \in Families /\ t \in Channels
    BY <1>1 DEF Channels
  <2>. DEFINE q == push[t]
  <2>. HIDE DEF q
  <2>3. q = Idle /\ q \in Calls(family)
    BY <1>5, IdleIs DEF q
  <2>6. q.pc = "idle" /\ q.got = <<>> /\ q.fence = Nil /\ q.then = "idle" /\ DOMAIN q.cmds = DOMAIN q.presumed
    BY <2>3 DEF Idle
  <2>4. HeldBy(q) = {} /\ GotOK(q)
    BY <2>6, NoneHeld
  <2>5. CallType(q, family) /\ FlowOK(q) /\ ReserveOK(q) /\ NamedOK(q) /\ RingOK(t, q, ring[t], family)
    BY <2>3, <2>6 DEF CallType, FlowOK, ReserveOK, NamedOK, RingOK, Tracking
  <2>. QED  BY <2>1, <2>4, <2>5 DEF CallOK, q
<1>9. SyncInv
  <2>1. \A t \in Clients : SyncedBy(push[t]) = {}
    BY <1>5 DEF SyncedBy, Idle, Tracking
  <2>. QED  BY <2>1 DEF SyncInv
<1>10. TrackInv /\ OrderInv /\ PlaceInv
  BY <1>3 DEF TrackInv, OrderInv, PlaceInv
<1>11. SharedInv
  BY <1>4 DEF SharedInv
<1>. QED  BY <1>6, <1>7, <1>8, <1>9, <1>10, <1>11 DEF GemInv

LEMMA CallSteps ==
  ASSUME GemInv, NEW t \in Clients, PushStart(t) \/ CallStep(t) \/ Interrupted(t)
  PROVE  GemInv'
<1>1. CASE PushStart(t) \/ Interrupted(t)
  BY <1>1, PushStartStep, FailSteps
<1>2. CASE \/ SkipReserved(t) \/ Duplicate(t) \/ Reserve(t) \/ NoVma(t) \/ BackOff(t) \/ SlowPath(t)
           \/ AllReserved(t)
  BY <1>2, SkipStep, FailSteps, ReserveStep, NoVmaStep, BackOffStep, SlowPathStep, AllReservedStep
<1>3. CASE Move(t) \/ Evict(t) \/ NoSpace(t) \/ Validated(t)
  BY <1>3, MovesStep, FailSteps, ValidatedStep
<1>4. CASE DropForRelocs(t) \/ Revalidate(t) \/ CopyFails(t) \/ RelocApply(t) \/ RelocFails(t)
  BY <1>4, DropStep, RevalidateStep, CopyFailsStep, RelocStep, FailSteps
<1>5. CASE Submit(t)
  BY <1>5, SubmitStep, SubmitOlderStep
<1>6. CASE SubmitFails(t) \/ FenceNew(t)
  BY <1>6, FailSteps, FenceNewStep
<1>7. CASE FenceNewFails(t)
  BY <1>7, FailSteps, LoosenStep
<1>8. CASE FiniStep(t)
  BY <1>8, FiniQuietStep, AttachStep
<1>9. CASE SyncDone(t) \/ FiniEnd(t)
  BY <1>9, SyncDoneStep, FiniEndStep
<1>. QED  BY <1>1, <1>2, <1>3, <1>4, <1>5, <1>6, <1>7, <1>8, <1>9 DEF CallStep

LEMMA Stutters ==
  ASSUME GemInv, UNCHANGED gemVars
  PROVE  GemInv'
<1>0. TypesInv /\ KnownInv /\ CallsInv /\ SyncInv /\ TrackInv /\ SharedInv /\ OrderInv /\ PlaceInv
  BY DEF GemInv
<1>1. ring' = ring /\ bos' = bos /\ push' = push /\ executing' = executing /\ family' = family
  BY DEF gemVars
<1>2. TypesInv' /\ KnownInv' /\ CallsInv'
  BY <1>0, <1>1 DEF TypesInv, KnownInv, CallsInv, Mine
<1>3. SyncInv' /\ SharedInv' /\ PlaceInv'
  BY <1>0, <1>1 DEF SyncInv, SharedInv, PlaceInv
<1>4. TrackInv'
  BY <1>0, <1>1 DEF TrackInv, Exempt
<1>5. OrderInv'
  BY <1>0, <1>1, OrderUnmoved
<1>. QED  BY <1>2, <1>3, <1>4, <1>5 DEF GemInv

\* What the rings hold is of their channels, every fence that a buffer, a call
\* or an acquire has is one that a ring still has to execute or has executed,
\* what a call has reserved is what it holds, and the buffers of commands are
\* tracked by fences (nouveau_gem_ioctl_pushbuf, nouveau_bo_fence).
THEOREM GemCorrect == GemSpec => []GemInv
<1>1. GemInit => GemInv
  BY GemInitInv
<1>2. ASSUME GemInv, [GemNext]_gemVars PROVE GemInv'
  <2>1. ASSUME NEW t \in Clients, PushStart(t) \/ CallStep(t) \/ Interrupted(t) PROVE GemInv'
    BY <1>2, <2>1, CallSteps
  <2>2. ASSUME NEW c \in Channels, ChannelStep(c) PROVE GemInv'
    BY <1>2, <2>2, AcquireStep, StartStep, FinishStep, FenceStep DEF ChannelStep
  <2>3. CASE UNCHANGED gemVars
    BY <1>2, <2>3, Stutters
  <2>. QED  BY <1>2, <2>1, <2>2, <2>3 DEF GemNext
<1>. QED  BY <1>1, <1>2, PTL DEF GemSpec

\* The commands that a channel has still to execute find each buffer where it
\* was when they were validated, and no two channels work at a time on a buffer
\* that one of them writes (nouveau_fence_sync, nouveau_bo_move, validate_fini).
THEOREM Coherent == GemSpec => []GpuCoherent
<1>1. GemInv => GpuCoherent
  <2>. SUFFICES ASSUME GemInv PROVE GpuCoherent
    OBVIOUS
  <2>1. TypesInv /\ ring \in Rings /\ OrderInv /\ PlaceInv
    BY DEF GemInv, TypesInv
  <2>2. ASSUME NEW x \in Items, x.k = "job" PROVE DOMAIN x.uses \subseteq Bos
    BY <2>2, ItemIs DEF Jobs
  <2>3. Stays
    <3>. SUFFICES ASSUME NEW c \in Channels, NEW j \in Fenced(c), NEW b \in DOMAIN j.uses
                  PROVE  j.place[b] = bos[b].place
      BY DEF Stays
    <3>1. PICK i \in 1 .. Len(ring[c]) : j = ring[c][i] /\ j.k = "job" /\ ~j.loose /\ j \in Items
      BY <2>1, RingIs DEF Fenced
    <3>2. b \in Bos /\ IsUse(ring[c][i], b)
      BY <2>2, <3>1 DEF IsUse
    <3>. QED  BY <2>1, <3>1, <3>2 DEF PlaceInv
  <2>4. Ordered
    <3>. SUFFICES ASSUME NEW c \in executing, NEW d \in executing, c # d,
                         ~Head(ring[c]).loose, ~Head(ring[d]).loose,
                         NEW b \in DOMAIN Head(ring[c]).uses \cap DOMAIN Head(ring[d]).uses,
                         Head(ring[c]).uses[b] \/ Head(ring[d]).uses[b]
                  PROVE  FALSE
      BY DEF Ordered
    <3>1. /\ c \in Channels /\ Len(ring[c]) > 0 /\ ring[c][1].k = "job"
          /\ d \in Channels /\ Len(ring[d]) > 0 /\ ring[d][1].k = "job"
      BY <2>1 DEF TypesInv
    <3>2. /\ Head(ring[c]) = ring[c][1] /\ ring[c][1] \in Items /\ 1 \in 1 .. Len(ring[c])
          /\ Head(ring[d]) = ring[d][1] /\ ring[d][1] \in Items /\ 1 \in 1 .. Len(ring[d])
      <4>1. ring[c] # <<>> /\ ring[d] # <<>> /\ Len(ring[c]) \in Nat /\ Len(ring[d]) \in Nat
        BY <2>1, <3>1, RingIs, EmptySeq
      <4>2. 1 \in 1 .. Len(ring[c]) /\ 1 \in 1 .. Len(ring[d])
        BY <3>1, <4>1
      <4>. QED  BY <2>1, <3>1, <4>1, <4>2, HeadIsItem
    <3>3. b \in Bos
      BY <2>2, <3>1, <3>2
    <3>4. Clash(ring, c, 1, d, 1, b)
      BY <3>1, <3>2 DEF Clash, IsUse
    <3>. DEFINE K == [x \in Channels |-> 0]
    <3>5. K \in Cuts(ring) /\ K[c] = 1 - 1 /\ K[d] = 1 - 1
      BY <2>1, <3>1, NothingDone
    <3>. HIDE DEF K
    <3>. QED  BY <2>1, <3>1, <3>3, <3>4, <3>5, OrderAt
  <2>. QED  BY <2>3, <2>4 DEF GpuCoherent
<1>. QED  BY <1>1, GemCorrect, PTL

=============================================================================
