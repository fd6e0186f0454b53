---------------------------- MODULE MemoryProofs ----------------------------
(***************************************************************************)
(* Proofs about the memory of the GPU: NvkmMm, which allocates VRAM, and   *)
(* Nv50Instmem, which maps objects in it for the CPU.                      *)
(*                                                                         *)
(* NvkmMm: for any layout of VRAM, any requests and any memories that are  *)
(* got and freed in turns, with any failures of kmalloc, the regions stay  *)
(* tiled, no block is in two memories, every memory is whole, made of      *)
(* blocks as aligned and as large as was asked, and when no memory is      *)
(* left, VRAM is as nvkm_mm_init made it.  nodes is seen as a list that    *)
(* tiles an interval: allocation and freeing replace some neighbouring     *)
(* nodes by others that tile the same interval, and free stays the rising  *)
(* list of the offsets of the free nodes.                                  *)
(*                                                                         *)
(* Nv50Instmem: for any objects, any room in BAR2 and any finite number of *)
(* threads.                                                                *)
(***************************************************************************)
EXTENDS NvkmMm, Nv50Instmem, FiniteSetTheorems, SequenceTheorems, WellFoundedInduction,
        NaturalsInduction, TLAPS

-----------------------------------------------------------------------------
(* Arithmetic.                                                             *)

LEMMA Division ==
  ASSUME NEW x \in Nat, NEW b \in Nat \ {0}
  PROVE  /\ x \div b \in Nat /\ x % b \in 0 .. b - 1
         /\ x = b * (x \div b) + (x % b)
  BY SMTT(30)

LEMMA Quotient ==
  ASSUME NEW x \in Nat, NEW b \in Nat \ {0}, NEW q \in Nat
  PROVE  /\ x < b * q => x \div b < q
         /\ b * q <= x => q <= x \div b
<1>. DEFINE d == x \div b
            m == x % b
<1>1. d \in Nat /\ m \in 0 .. b - 1 /\ x = b * d + m
  BY Division
<1>. HIDE DEF d, m
<1>2. ASSUME x < b * q, q <= d PROVE FALSE
  <2>1. b * q <= b * d
    BY <1>1, <1>2, SMTT(30)
  <2>2. b * q \in Nat /\ b * d \in Nat
    BY <1>1, SMTT(30)
  <2>. QED  BY <1>1, <1>2, <2>1, <2>2
<1>3. ASSUME b * q <= x, d < q PROVE FALSE
  <2>1. d + 1 <= q
    BY <1>1, <1>3
  <2>2. b * (d + 1) <= b * q
    BY <1>1, <2>1, SMTT(30)
  <2>3. b * (d + 1) = b * d + b
    BY <1>1, SMTT(30)
  <2>4. b * q \in Nat /\ b * d \in Nat
    BY <1>1, SMTT(30)
  <2>. QED  BY <1>1, <1>3, <2>2, <2>3, <2>4
<1>4. d < q \/ q <= d
  BY <1>1
<1>. QED  BY <1>2, <1>3, <1>4 DEF d

\* Multiples, as the code's properties say it and as the proofs use it.
LEMMA Multiple ==
  ASSUME NEW q \in Nat, NEW b \in Nat \ {0}
  PROVE  (q * b) % b = 0 /\ (q * b) \div b = q /\ q * b = b * q /\ q * b \in Nat
<1>1. q * b = b * q /\ q * b \in Nat
  BY SMTT(30)
<1>. DEFINE x == q * b
            d == x \div b
            m == x % b
<1>2. x \in Nat /\ x = b * q
  BY <1>1
<1>3. d \in Nat /\ m \in 0 .. b - 1 /\ x = b * d + m
  BY <1>2, Division
<1>4. q <= d
  BY <1>2, Quotient
<1>5. d <= q
  <2>1. b * (q + 1) = b * q + b
    BY SMTT(30)
  <2>2. x < b * (q + 1)
    BY <1>2, <2>1
  <2>3. d < q + 1
    BY <1>2, <2>2, Quotient
  <2>. HIDE DEF x, d
  <2>. QED  BY <1>3, <2>3
<1>. HIDE DEF x, d, m
<1>6. d = q /\ m = 0
  BY <1>2, <1>3, <1>4, <1>5
<1>. QED  BY <1>1, <1>6 DEF x, d, m

LEMMA MultipleIs ==
  ASSUME NEW x \in Nat, NEW b \in Nat \ {0}, x % b = 0
  PROVE  x \div b \in Nat /\ x = (x \div b) * b
<1>. DEFINE d == x \div b
<1>1. d \in Nat /\ x = b * d + 0
  BY Division
<1>. HIDE DEF d
<1>2. d * b = b * d /\ b * d \in Nat
  BY <1>1, SMTT(30)
<1>3. x = d * b
  BY <1>1, <1>2
<1>. QED  BY <1>1, <1>3 DEF d

LEMMA MultipleBetween ==
  ASSUME NEW b \in Nat \ {0}, NEW x \in Nat, x % b = 0, NEW y \in Nat, y % b = 0, y <= x
  PROVE  (x - y) % b = 0 /\ (y < x => b <= x - y)
<1>1. PICK p \in Nat : x = p * b
  BY MultipleIs
<1>2. PICK q \in Nat : y = q * b
  BY MultipleIs
<1>3. q <= p
  <2>. SUFFICES ASSUME p < q PROVE FALSE
    OBVIOUS
  <2>1. q = p + (q - p) /\ q - p \in Nat \ {0}
    OBVIOUS
  <2>2. q * b = p * b + (q - p) * b
    BY <2>1, SMTT(30)
  <2>3. (q - p) * b > 0
    BY <2>1, SMTT(30)
  <2>. QED  BY <1>1, <1>2, <2>2, <2>3
<1>4. p - q \in Nat /\ x - y = (p - q) * b
  BY <1>1, <1>2, <1>3, SMTT(30)
<1>5. (x - y) % b = 0
  BY <1>4, Multiple
<1>6. ASSUME y < x PROVE b <= x - y
  <2>1. p - q >= 1
    <3>. SUFFICES ASSUME p = q PROVE FALSE
      BY <1>3
    <3>. QED  BY <1>1, <1>2, <1>6
  <2>2. (p - q) * b >= 1 * b
    BY <1>4, <2>1, SMTT(30)
  <2>. QED  BY <1>4, <2>2
<1>. QED  BY <1>5, <1>6

LEMMA RoundUpIs ==
  ASSUME NEW x \in Nat, NEW b \in Nat \ {0}
  PROVE  RoundUp(x, b) \in Nat /\ x <= RoundUp(x, b) /\ RoundUp(x, b) % b = 0
<1>. DEFINE y == x + b - 1
            d == y \div b
            m == y % b
<1>1. y \in Nat
  OBVIOUS
<1>. HIDE DEF y
<1>2. d \in Nat /\ m \in 0 .. b - 1 /\ y = b * d + m
  BY <1>1, Division
<1>. HIDE DEF d, m
<1>3. (d * b) % b = 0 /\ d * b = b * d /\ d * b \in Nat
  BY <1>2, Multiple
<1>4. x <= d * b
  BY <1>2, <1>3 DEF y
<1>5. RoundUp(x, b) = d * b
  BY DEF RoundUp, d, y
<1>. QED  BY <1>3, <1>4, <1>5

LEMMA RoundDownIs ==
  ASSUME NEW x \in Nat, NEW b \in Nat \ {0}
  PROVE  /\ RoundDown(x, b) \in Nat /\ RoundDown(x, b) <= x /\ RoundDown(x, b) % b = 0
         /\ \A y \in Nat : y % b = 0 /\ y <= x => y <= RoundDown(x, b)
<1>. DEFINE d == x \div b
            m == x % b
<1>1. d \in Nat /\ m \in 0 .. b - 1 /\ x = b * d + m
  BY Division
<1>. HIDE DEF d, m
<1>2. (d * b) % b = 0 /\ d * b = b * d /\ d * b \in Nat
  BY <1>1, Multiple
<1>3. d * b <= x
  BY <1>1, <1>2
<1>4. ASSUME NEW y \in Nat, y % b = 0, y <= x PROVE y <= d * b
  <2>1. PICK q \in Nat : y = q * b
    BY <1>4, MultipleIs
  <2>2. q * b = b * q
    BY Multiple
  <2>3. q <= d
    BY <1>4, <2>1, <2>2, Quotient DEF d
  <2>4. q * b <= d * b
    BY <1>1, <2>3, SMTT(30)
  <2>. QED  BY <2>1, <2>4
<1>5. RoundDown(x, b) = d * b
  BY DEF RoundDown, d
<1>. QED  BY <1>2, <1>3, <1>4, <1>5

\* Blocks follow each other.
LEMMA Blocks ==
  ASSUME NEW b \in Nat \ {0}, NEW x \in Nat, NEW y \in Nat
  PROVE  /\ x <= y => x \div b <= y \div b
         /\ x < y /\ y % b = 0 => x \div b < y \div b
         /\ x \div b \in Nat
<1>1. x \div b \in Nat /\ y \div b \in Nat
  BY Division
<1>2. ASSUME x <= y PROVE x \div b <= y \div b
  <2>. DEFINE d == x \div b
  <2>1. d \in Nat /\ x = b * d + (x % b) /\ x % b \in 0 .. b - 1
    BY Division
  <2>. HIDE DEF d
  <2>2. b * d \in Nat
    BY <2>1, SMTT(30)
  <2>3. b * d <= y
    BY <1>2, <2>1, <2>2
  <2>4. d <= y \div b
    BY <2>1, <2>3, Quotient
  <2>. QED  BY <2>4 DEF d
<1>3. ASSUME x < y, y % b = 0 PROVE x \div b < y \div b
  <2>. DEFINE q == y \div b
  <2>1. q \in Nat /\ y = q * b
    BY <1>3, MultipleIs
  <2>. HIDE DEF q
  <2>2. x < b * q
    BY <1>3, <2>1, Multiple
  <2>. QED  BY <2>1, <2>2, Quotient DEF q
<1>. QED  BY <1>1, <1>2, <1>3

-----------------------------------------------------------------------------
(* Lists.                                                                  *)

LEMMA LeastNat ==
  ASSUME NEW S \in SUBSET Nat, S # {}
  PROVE  \E x \in S : \A y \in S : x <= y
<1>. DEFINE R == OpToRel(<, Nat)
<1>1. IsWellFoundedOn(R, Nat)
  BY NatLessThanWellFounded
<1>2. \A a, b \in Nat : a < b => <<a, b>> \in R
  BY DEF OpToRel
<1>. HIDE DEF R
<1>3. PICK x \in S : \A y \in S : ~(<<y, x>> \in R)
  BY <1>1, WFMin
<1>4. \A y \in S : ~(y < x)
  BY <1>2, <1>3
<1>. QED  BY <1>4

LEMMA SetInduction ==
  ASSUME NEW S, 0 \in S, \A n \in Nat : n \in S => n + 1 \in S
  PROVE  Nat \subseteq S
<1>. SUFFICES ASSUME ~(Nat \subseteq S) PROVE FALSE
  OBVIOUS
<1>. DEFINE T == Nat \ S
<1>1. PICK x \in T : \A y \in T : x <= y
  BY LeastNat
<1>2. x # 0 /\ x - 1 \in Nat /\ x - 1 \notin T
  BY <1>1
<1>3. x - 1 + 1 = x
  BY <1>1
<1>. QED  BY <1>1, <1>2, <1>3

\* The lists before and behind an entry.
Before(s, i) == SubSeq(s, 1, i - 1)
Behind(s, i) == SubSeq(s, i + 1, Len(s))

LEMMA BeforeIs ==
  ASSUME NEW T, NEW s \in Seq(T), NEW i \in 1 .. Len(s)
  PROVE  /\ Before(s, i) \in Seq(T) /\ Len(Before(s, i)) = i - 1
         /\ \A j \in 1 .. i - 1 : Before(s, i)[j] = s[j]
         /\ Range(Before(s, i)) = {s[j] : j \in 1 .. i - 1}
<1>1. Len(s) \in Nat /\ \A j \in 1 .. i - 1 : s[j] \in T
  BY LenProperties, ElementOfSeq
<1>. DEFINE u == Before(s, i)
<1>2. u \in Seq(T) /\ Len(u) = i - 1 /\ \A j \in 1 .. i - 1 : u[j] = s[j]
  <2>1. /\ u \in Seq(T) /\ Len(u) = IF 1 <= i - 1 THEN i - 1 - 1 + 1 ELSE 0
        /\ \A j \in 1 .. i - 1 - 1 + 1 : u[j] = s[1 + j - 1]
    BY <1>1, SubSeqProperties DEF Before
  <2>. HIDE DEF u
  <2>2. i - 1 - 1 + 1 = i - 1 /\ \A j \in 1 .. i - 1 : 1 + j - 1 = j
    BY <1>1
  <2>. QED  BY <1>1, <2>1, <2>2
<1>. HIDE DEF u
<1>3. Range(u) = {u[j] : j \in 1 .. i - 1}
  BY <1>2, RangeEquality
<1>4. Range(u) = {s[j] : j \in 1 .. i - 1}
  BY <1>2, <1>3
<1>. QED  BY <1>2, <1>4 DEF u

LEMMA BehindIs ==
  ASSUME NEW T, NEW s \in Seq(T), NEW i \in 1 .. Len(s)
  PROVE  /\ Behind(s, i) \in Seq(T) /\ Len(Behind(s, i)) = Len(s) - i
         /\ \A j \in 1 .. Len(s) - i : Behind(s, i)[j] = s[i + j]
         /\ Range(Behind(s, i)) = {s[j] : j \in i + 1 .. Len(s)}
<1>1. Len(s) \in Nat /\ \A j \in i + 1 .. Len(s) : s[j] \in T
  BY LenProperties, ElementOfSeq
<1>. DEFINE u == Behind(s, i)
<1>2. u \in Seq(T) /\ Len(u) = Len(s) - i /\ \A j \in 1 .. Len(s) - i : u[j] = s[i + j]
  <2>1. /\ u \in Seq(T) /\ Len(u) = IF i + 1 <= Len(s) THEN Len(s) - (i + 1) + 1 ELSE 0
        /\ \A j \in 1 .. Len(s) - (i + 1) + 1 : u[j] = s[i + 1 + j - 1]
    BY <1>1, SubSeqProperties DEF Behind
  <2>. HIDE DEF u
  <2>2. Len(s) - (i + 1) + 1 = Len(s) - i /\ \A j \in 1 .. Len(s) - i : i + 1 + j - 1 = i + j
    BY <1>1
  <2>3. Len(u) = Len(s) - i
    BY <1>1, <2>1
  <2>4. \A j \in 1 .. Len(s) - i : u[j] = s[i + j]
    BY <2>1, <2>2
  <2>. QED  BY <2>1, <2>3, <2>4
<1>. HIDE DEF u
<1>3. Range(u) = {u[j] : j \in 1 .. Len(s) - i}
  BY <1>2, RangeEquality
<1>4. Range(u) = {s[j] : j \in i + 1 .. Len(s)}
  <2>1. Range(u) = {s[i + j] : j \in 1 .. Len(s) - i}
    BY <1>2, <1>3
  <2>2. ASSUME NEW j \in i + 1 .. Len(s) PROVE \E k \in 1 .. Len(s) - i : s[j] = s[i + k]
    <3>1. j - i \in 1 .. Len(s) - i /\ j = i + (j - i)
      BY <1>1
    <3>. QED  BY <3>1
  <2>3. \A k \in 1 .. Len(s) - i : i + k \in i + 1 .. Len(s)
    BY <1>1
  <2>. QED  BY <2>1, <2>2, <2>3
<1>. QED  BY <1>2, <1>4 DEF u

\* Neighbours in a list made of two.
LEMMA ConcatPairs ==
  ASSUME NEW T, NEW s \in Seq(T), NEW t \in Seq(T), NEW i \in 1 .. Len(s \o t) - 1
  PROVE  LET c == s \o t
             j == i - Len(s)
         IN  \/ i \in 1 .. Len(s) - 1 /\ c[i] = s[i] /\ c[i + 1] = s[i + 1]
             \/ s # <<>> /\ t # <<>> /\ c[i] = s[Len(s)] /\ c[i + 1] = t[1]
             \/ j \in 1 .. Len(t) - 1 /\ c[i] = t[j] /\ c[i + 1] = t[j + 1]
<1>. DEFINE c == s \o t
            m == Len(s)
            n == Len(t)
            j == i - m
<1>1. m \in Nat /\ n \in Nat /\ Len(c) = m + n
  BY LenProperties, ConcatProperties
<1>2. \A k \in 1 .. m + n : c[k] = IF k <= m THEN s[k] ELSE t[k - m]
  BY ConcatProperties
<1>3. i \in 1 .. m + n - 1
  BY <1>1
<1>4. s = <<>> => m = 0
  BY EmptySeq
<1>5. t = <<>> => n = 0
  BY EmptySeq
<1>. SUFFICES \/ i \in 1 .. m - 1 /\ c[i] = s[i] /\ c[i + 1] = s[i + 1]
              \/ s # <<>> /\ t # <<>> /\ c[i] = s[m] /\ c[i + 1] = t[1]
              \/ j \in 1 .. n - 1 /\ c[i] = t[j] /\ c[i + 1] = t[j + 1]
  OBVIOUS
<1>. HIDE DEF c, m, n
<1>6. i \in 1 .. m + n /\ i + 1 \in 1 .. m + n
  BY <1>1, <1>3
<1>7. CASE i < m
  <2>1. i \in 1 .. m - 1 /\ i <= m /\ i + 1 <= m
    BY <1>1, <1>3, <1>7
  <2>. QED  BY <1>2, <1>6, <2>1
<1>8. CASE i = m
  <2>1. i <= m /\ ~(i + 1 <= m) /\ i + 1 - m = 1 /\ m # 0 /\ n # 0
    BY <1>1, <1>3, <1>8
  <2>2. c[i] = s[i] /\ c[i + 1] = t[i + 1 - m]
    BY <1>2, <1>6, <1>8, <2>1
  <2>. QED  BY <1>4, <1>5, <1>8, <2>1, <2>2
<1>9. CASE i > m
  <2>1. ~(i <= m) /\ ~(i + 1 <= m) /\ i + 1 - m = j + 1 /\ j \in 1 .. n - 1
    BY <1>1, <1>3, <1>9
  <2>2. c[i] = t[i - m]
    BY <1>2, <1>6, <2>1
  <2>. DEFINE k == i + 1
  <2>3. k \in 1 .. m + n /\ ~(k <= m) /\ k - m = j + 1
    BY <1>1, <1>6, <2>1
  <2>. HIDE DEF k
  <2>4. c[k] = t[k - m]
    BY <1>2, <2>3
  <2>. QED  BY <2>1, <2>2, <2>3, <2>4 DEF k
<1>. QED  BY <1>1, <1>3, <1>7, <1>8, <1>9

LEMMA ConcatEnds ==
  ASSUME NEW T, NEW s \in Seq(T), NEW t \in Seq(T)
  PROVE  LET c == s \o t
         IN  /\ c \in Seq(T) /\ Range(c) = Range(s) \cup Range(t) /\ Len(c) = Len(s) + Len(t)
             /\ c = <<>> <=> s = <<>> /\ t = <<>>
             /\ s # <<>> => c[1] = s[1]
             /\ t # <<>> => c[Len(c)] = t[Len(t)]
             /\ s = <<>> => c = t
             /\ t = <<>> => c = s
<1>. DEFINE c == s \o t
<1>1. Len(s) \in Nat /\ Len(t) \in Nat /\ Len(c) = Len(s) + Len(t) /\ c \in Seq(T)
  BY LenProperties, ConcatProperties
<1>2. \A k \in 1 .. Len(s) + Len(t) : c[k] = IF k <= Len(s) THEN s[k] ELSE t[k - Len(s)]
  BY ConcatProperties
<1>3. Range(c) = Range(s) \cup Range(t)
  BY RangeConcatenation
<1>4. c = <<>> <=> s = <<>> /\ t = <<>>
  BY ConcatEqualIffEmpty
<1>5. (s = <<>> => c = t) /\ (t = <<>> => c = s)
  BY ConcatEmptySeq
<1>6. ASSUME s # <<>> PROVE c[1] = s[1]
  <2>1. Len(s) \in Nat \ {0}
    BY <1>6, EmptySeq
  <2>2. 1 \in 1 .. Len(s) + Len(t) /\ 1 <= Len(s)
    BY <1>1, <2>1
  <2>. QED  BY <1>2, <2>2
<1>7. ASSUME t # <<>> PROVE c[Len(c)] = t[Len(t)]
  <2>1. Len(t) \in Nat \ {0}
    BY <1>7, EmptySeq
  <2>2. Len(s) + Len(t) \in 1 .. Len(s) + Len(t) /\ ~(Len(s) + Len(t) <= Len(s))
        /\ Len(s) + Len(t) - Len(s) = Len(t)
    BY <1>1, <2>1
  <2>. HIDE DEF c
  <2>. QED  BY <1>1, <1>2, <2>2
<1>. HIDE DEF c
<1>. QED  BY <1>1, <1>3, <1>4, <1>5, <1>6, <1>7 DEF c

LEMMA OneIs ==
  ASSUME NEW T, NEW n \in T
  PROVE  /\ <<n>> \in Seq(T) /\ <<n>> # <<>> /\ Len(<<n>>) = 1 /\ <<n>>[1] = n
         /\ Range(<<n>>) = {n}
<1>1. <<n>> \in Seq(T) /\ Len(<<n>>) = 1 /\ <<n>>[1] = n
  OBVIOUS
<1>2. Range(<<n>>) = {<<n>>[j] : j \in 1 .. 1}
  BY <1>1, RangeEquality
<1>3. 1 .. 1 = {1}
  OBVIOUS
<1>4. <<n>> # <<>>
  OBVIOUS
<1>. QED  BY <1>1, <1>2, <1>3, <1>4

-----------------------------------------------------------------------------
(* Lists of nodes.                                                         *)

NodeSet == [offset : Nat, length : Nat \ {0}, heap : 0 .. 255, type : 0 .. 255]

\* The nodes of s follow each other from a to b.
Tiles(s, a, b) ==
  /\ s \in Seq(NodeSet) /\ a \in Nat /\ b \in Nat
  /\ \A i \in 1 .. Len(s) - 1 : End(s[i]) = s[i + 1].offset
  /\ IF s = <<>> THEN a = b ELSE s[1].offset = a /\ End(s[Len(s)]) = b

\* No two of them that are free and neighbours.
Apart(s) == \A i \in 1 .. Len(s) - 1 : ~(s[i].type = NONE /\ s[i + 1].type = NONE)

LEMMA NodeIs ==
  ASSUME NEW n \in NodeSet
  PROVE  n.offset \in Nat /\ End(n) \in Nat /\ n.offset < End(n)
  BY DEF NodeSet, End

LEMMA TilesOrder ==
  ASSUME NEW s, NEW a, NEW b, Tiles(s, a, b)
  PROVE  /\ \A i \in 1 .. Len(s) : \A j \in i + 1 .. Len(s) : End(s[i]) <= s[j].offset
         /\ \A i \in 1 .. Len(s) : a <= s[i].offset /\ End(s[i]) <= b
<1>. DEFINE m == Len(s)
<1>1. m \in Nat /\ \A i \in 1 .. m : s[i] \in NodeSet
  BY LenProperties, ElementOfSeq DEF Tiles
<1>2. \A i \in 1 .. m - 1 : End(s[i]) = s[i + 1].offset
  BY DEF Tiles
<1>3. m # 0 => s[1].offset = a /\ End(s[m]) = b
  BY EmptySeq DEF Tiles
<1>. HIDE DEF m
<1>4. \A i \in 1 .. m : s[i].offset \in Nat /\ End(s[i]) \in Nat /\ s[i].offset < End(s[i])
  BY <1>1, NodeIs
<1>5. ASSUME NEW i \in 1 .. m
      PROVE  \A j \in i + 1 .. m : End(s[i]) <= s[j].offset
  <2>. DEFINE S == {k \in Nat : i + 1 + k <= m => End(s[i]) <= s[i + 1 + k].offset}
  <2>1. 0 \in S
    <3>. SUFFICES ASSUME i + 1 <= m PROVE End(s[i]) <= s[i + 1].offset
      BY <1>1
    <3>1. i \in 1 .. m - 1 /\ i + 1 \in 1 .. m
      BY <1>1
    <3>. QED  BY <1>2, <1>4, <3>1
  <2>2. ASSUME NEW k \in Nat, k \in S PROVE k + 1 \in S
    <3>. SUFFICES ASSUME i + 1 + (k + 1) <= m PROVE End(s[i]) <= s[i + 1 + (k + 1)].offset
      OBVIOUS
    <3>. DEFINE j == i + 1 + k
    <3>1. j \in 1 .. m - 1 /\ j + 1 \in 1 .. m /\ j \in 1 .. m /\ i + 1 + (k + 1) = j + 1 /\
          i + 1 + k <= m
      BY <1>1
    <3>2. End(s[i]) <= s[j].offset
      BY <2>2, <3>1
    <3>. HIDE DEF j
    <3>3. End(s[j]) = s[j + 1].offset
      BY <1>2, <3>1
    <3>4. End(s[i]) <= s[j + 1].offset
      BY <1>4, <3>1, <3>2, <3>3
    <3>. QED  BY <3>1, <3>4
  <2>3. Nat \subseteq S
    <3>. HIDE DEF S
    <3>. QED  BY <2>1, <2>2, SetInduction
  <2>4. ASSUME NEW j \in i + 1 .. m PROVE End(s[i]) <= s[j].offset
    <3>1. j - (i + 1) \in Nat /\ i + 1 + (j - (i + 1)) = j /\ j <= m
      BY <1>1
    <3>. QED  BY <2>3, <3>1
  <2>. QED  BY <2>4
<1>6. ASSUME NEW i \in 1 .. m PROVE a <= s[i].offset /\ End(s[i]) <= b
  <2>1. 1 \in 1 .. m /\ m \in 1 .. m /\ m # 0
    BY <1>1
  <2>2. a <= s[i].offset
    <3>1. CASE i = 1
      BY <1>3, <1>4, <2>1, <3>1
    <3>2. CASE i # 1
      <4>1. i \in 1 + 1 .. m
        BY <1>1, <3>2
      <4>2. End(s[1]) <= s[i].offset
        BY <1>5, <2>1, <4>1
      <4>. QED  BY <1>3, <1>4, <2>1, <4>2
    <3>. QED  BY <3>1, <3>2
  <2>3. End(s[i]) <= b
    <3>1. CASE i = m
      BY <1>3, <1>4, <2>1, <3>1
    <3>2. CASE i # m
      <4>1. m \in i + 1 .. m
        BY <1>1, <3>2
      <4>2. End(s[i]) <= s[m].offset
        BY <1>5, <4>1
      <4>. QED  BY <1>3, <1>4, <2>1, <4>2
    <3>. QED  BY <3>1, <3>2
  <2>. QED  BY <2>2, <2>3
<1>. QED  BY <1>5, <1>6 DEF m

\* Two nodes of a list at the same place are one entry.
LEMMA TilesUnique ==
  ASSUME NEW s, NEW a, NEW b, Tiles(s, a, b), NEW i \in 1 .. Len(s), NEW j \in 1 .. Len(s)
  PROVE  /\ s[i].offset < End(s[j]) /\ s[j].offset < End(s[i]) => i = j
         /\ s[i].offset < s[j].offset => i < j
         /\ i < j => End(s[i]) <= s[j].offset
<1>1. Len(s) \in Nat /\ s[i] \in NodeSet /\ s[j] \in NodeSet
  BY LenProperties, ElementOfSeq DEF Tiles
<1>2. /\ s[i].offset \in Nat /\ End(s[i]) \in Nat /\ s[i].offset < End(s[i])
      /\ s[j].offset \in Nat /\ End(s[j]) \in Nat /\ s[j].offset < End(s[j])
  BY <1>1, NodeIs
<1>3. i < j => End(s[i]) <= s[j].offset
  <2>. SUFFICES ASSUME i < j PROVE End(s[i]) <= s[j].offset
    OBVIOUS
  <2>1. j \in i + 1 .. Len(s)
    BY <1>1
  <2>. QED  BY <2>1, TilesOrder
<1>4. j < i => End(s[j]) <= s[i].offset
  <2>. SUFFICES ASSUME j < i PROVE End(s[j]) <= s[i].offset
    OBVIOUS
  <2>1. i \in j + 1 .. Len(s)
    BY <1>1
  <2>. QED  BY <2>1, TilesOrder
<1>5. i < j \/ j < i \/ i = j
  BY <1>1
<1>6. ASSUME s[i].offset < End(s[j]), s[j].offset < End(s[i]) PROVE i = j
  BY <1>2, <1>3, <1>4, <1>5, <1>6
<1>7. ASSUME s[i].offset < s[j].offset PROVE i < j
  BY <1>2, <1>4, <1>5, <1>7
<1>. QED  BY <1>3, <1>6, <1>7

LEMMA TilesCut ==
  ASSUME NEW s, NEW a, NEW b, Tiles(s, a, b), NEW i \in 1 .. Len(s)
  PROVE  /\ Tiles(Before(s, i), a, s[i].offset)
         /\ Tiles(Behind(s, i), End(s[i]), b)
         /\ Apart(s) => Apart(Before(s, i)) /\ Apart(Behind(s, i))
<1>. DEFINE m == Len(s)
            u == Before(s, i)
            v == Behind(s, i)
<1>1. s \in Seq(NodeSet)
  BY DEF Tiles
<1>2. m \in Nat /\ (\A j \in 1 .. m : s[j] \in NodeSet) /\ a \in Nat /\ b \in Nat
  BY LenProperties, ElementOfSeq DEF Tiles
<1>3. \A j \in 1 .. m - 1 : End(s[j]) = s[j + 1].offset
  BY DEF Tiles
<1>4. s[1].offset = a /\ End(s[m]) = b
  BY EmptySeq DEF Tiles
<1>5. u \in Seq(NodeSet) /\ Len(u) = i - 1 /\ \A j \in 1 .. i - 1 : u[j] = s[j]
  BY <1>1, BeforeIs
<1>6. v \in Seq(NodeSet) /\ Len(v) = m - i /\ \A j \in 1 .. m - i : v[j] = s[i + j]
  BY <1>1, BehindIs
<1>7. s[i].offset \in Nat /\ End(s[i]) \in Nat
  BY <1>2, NodeIs
<1>8. i \in 1 .. m
  OBVIOUS
<1>9. (u = <<>> <=> Len(u) = 0) /\ (v = <<>> <=> Len(v) = 0)
  BY <1>5, <1>6, EmptySeq
<1>. HIDE DEF m, u, v
<1>10. Tiles(u, a, s[i].offset)
  <2>1. ASSUME NEW j \in 1 .. Len(u) - 1 PROVE End(u[j]) = u[j + 1].offset
    <3>1. j \in 1 .. i - 1 /\ j + 1 \in 1 .. i - 1 /\ j \in 1 .. m - 1
      BY <1>2, <1>5, <1>8
    <3>. QED  BY <1>3, <1>5, <3>1
  <2>2. ASSUME u = <<>> PROVE a = s[i].offset
    <3>1. i = 1
      BY <1>2, <1>5, <1>8, <1>9, <2>2
    <3>. QED  BY <1>4, <3>1
  <2>3. ASSUME u # <<>> PROVE u[1].offset = a /\ End(u[Len(u)]) = s[i].offset
    <3>1. 1 \in 1 .. i - 1 /\ i - 1 \in 1 .. i - 1 /\ i - 1 \in 1 .. m - 1 /\ i - 1 + 1 = i
      BY <1>2, <1>5, <1>8, <1>9, <2>3
    <3>. QED  BY <1>3, <1>4, <1>5, <3>1
  <2>. QED  BY <1>2, <1>5, <1>7, <2>1, <2>2, <2>3 DEF Tiles
<1>11. Tiles(v, End(s[i]), b)
  <2>1. ASSUME NEW j \in 1 .. Len(v) - 1 PROVE End(v[j]) = v[j + 1].offset
    <3>1. j \in 1 .. m - i /\ j + 1 \in 1 .. m - i /\ i + j \in 1 .. m - 1 /\ i + (j + 1) = i + j + 1
      BY <1>2, <1>6, <1>8
    <3>2. v[j] = s[i + j] /\ v[j + 1] = s[i + j + 1]
      BY <1>6, <3>1
    <3>. QED  BY <1>3, <3>1, <3>2
  <2>2. ASSUME v = <<>> PROVE End(s[i]) = b
    <3>1. i = m
      BY <1>2, <1>6, <1>8, <1>9, <2>2
    <3>. QED  BY <1>4, <3>1
  <2>3. ASSUME v # <<>> PROVE v[1].offset = End(s[i]) /\ End(v[Len(v)]) = b
    <3>1. 1 \in 1 .. m - i /\ m - i \in 1 .. m - i /\ i \in 1 .. m - 1 /\ i + (m - i) = m
      BY <1>2, <1>6, <1>8, <1>9, <2>3
    <3>2. v[1] = s[i + 1] /\ v[m - i] = s[m]
      BY <1>6, <3>1
    <3>. QED  BY <1>3, <1>4, <1>6, <3>1, <3>2
  <2>. QED  BY <1>2, <1>6, <1>7, <2>1, <2>2, <2>3 DEF Tiles
<1>12. ASSUME Apart(s) PROVE Apart(u) /\ Apart(v)
  <2>1. \A j \in 1 .. m - 1 : ~(s[j].type = NONE /\ s[j + 1].type = NONE)
    BY <1>12 DEF Apart, m
  <2>2. ASSUME NEW j \in 1 .. Len(u) - 1 PROVE ~(u[j].type = NONE /\ u[j + 1].type = NONE)
    <3>1. j \in 1 .. i - 1 /\ j + 1 \in 1 .. i - 1 /\ j \in 1 .. m - 1
      BY <1>2, <1>5, <1>8
    <3>. QED  BY <1>5, <2>1, <3>1
  <2>3. ASSUME NEW j \in 1 .. Len(v) - 1 PROVE ~(v[j].type = NONE /\ v[j + 1].type = NONE)
    <3>1. j \in 1 .. m - i /\ j + 1 \in 1 .. m - i /\ i + j \in 1 .. m - 1 /\ i + (j + 1) = i + j + 1
      BY <1>2, <1>6, <1>8
    <3>2. v[j] = s[i + j] /\ v[j + 1] = s[i + j + 1]
      BY <1>6, <3>1
    <3>. QED  BY <2>1, <3>1, <3>2
  <2>. QED  BY <2>2, <2>3 DEF Apart
<1>. QED  BY <1>10, <1>11, <1>12 DEF u, v

LEMMA TilesConcat ==
  ASSUME NEW s, NEW t, NEW a, NEW b, NEW c, Tiles(s, a, b), Tiles(t, b, c)
  PROVE  /\ Tiles(s \o t, a, c)
         /\ Apart(s) /\ Apart(t)
              /\ ~(s # <<>> /\ t # <<>> /\ s[Len(s)].type = NONE /\ t[1].type = NONE) => Apart(s \o t)
<1>. DEFINE r == s \o t
<1>1. s \in Seq(NodeSet) /\ t \in Seq(NodeSet)
  BY DEF Tiles
<1>2. /\ r \in Seq(NodeSet) /\ (r = <<>> <=> s = <<>> /\ t = <<>>)
      /\ s # <<>> => r[1] = s[1]
      /\ t # <<>> => r[Len(r)] = t[Len(t)]
      /\ s = <<>> => r = t
      /\ t = <<>> => r = s
  BY <1>1, ConcatEnds
<1>3. ASSUME NEW i \in 1 .. Len(r) - 1
      PROVE  LET j == i - Len(s)
             IN  \/ i \in 1 .. Len(s) - 1 /\ r[i] = s[i] /\ r[i + 1] = s[i + 1]
                 \/ s # <<>> /\ t # <<>> /\ r[i] = s[Len(s)] /\ r[i + 1] = t[1]
                 \/ j \in 1 .. Len(t) - 1 /\ r[i] = t[j] /\ r[i + 1] = t[j + 1]
  BY <1>1, ConcatPairs
<1>. HIDE DEF r
<1>4. a \in Nat /\ b \in Nat /\ c \in Nat
  BY DEF Tiles
<1>5. /\ \A i \in 1 .. Len(s) - 1 : End(s[i]) = s[i + 1].offset
      /\ \A i \in 1 .. Len(t) - 1 : End(t[i]) = t[i + 1].offset
      /\ s = <<>> => a = b
      /\ s # <<>> => s[1].offset = a /\ End(s[Len(s)]) = b
      /\ t = <<>> => b = c
      /\ t # <<>> => t[1].offset = b /\ End(t[Len(t)]) = c
  BY DEF Tiles
<1>6. ASSUME NEW i \in 1 .. Len(r) - 1 PROVE End(r[i]) = r[i + 1].offset
  <2>1. CASE i \in 1 .. Len(s) - 1 /\ r[i] = s[i] /\ r[i + 1] = s[i + 1]
    BY <1>5, <2>1
  <2>2. CASE s # <<>> /\ t # <<>> /\ r[i] = s[Len(s)] /\ r[i + 1] = t[1]
    BY <1>5, <2>2
  <2>3. CASE LET j == i - Len(s) IN j \in 1 .. Len(t) - 1 /\ r[i] = t[j] /\ r[i + 1] = t[j + 1]
    BY <1>5, <2>3
  <2>. QED  BY <1>3, <2>1, <2>2, <2>3
<1>7. r = <<>> => a = c
  BY <1>2, <1>5
<1>8. r # <<>> => r[1].offset = a /\ End(r[Len(r)]) = c
  BY <1>2, <1>5
<1>9. Tiles(r, a, c)
  BY <1>2, <1>4, <1>6, <1>7, <1>8 DEF Tiles
<1>10. ASSUME Apart(s), Apart(t), ~(s # <<>> /\ t # <<>> /\ s[Len(s)].type = NONE /\ t[1].type = NONE)
      PROVE  Apart(r)
  <2>. SUFFICES ASSUME NEW i \in 1 .. Len(r) - 1
                PROVE  ~(r[i].type = NONE /\ r[i + 1].type = NONE)
    BY DEF Apart
  <2>1. CASE i \in 1 .. Len(s) - 1 /\ r[i] = s[i] /\ r[i + 1] = s[i + 1]
    BY <1>10, <2>1 DEF Apart
  <2>2. CASE s # <<>> /\ t # <<>> /\ r[i] = s[Len(s)] /\ r[i + 1] = t[1]
    BY <1>10, <2>2
  <2>3. CASE LET j == i - Len(s) IN j \in 1 .. Len(t) - 1 /\ r[i] = t[j] /\ r[i + 1] = t[j + 1]
    BY <1>10, <2>3 DEF Apart
  <2>. QED  BY <1>3, <2>1, <2>2, <2>3
<1>. QED  BY <1>9, <1>10 DEF r

LEMMA TilesOne ==
  ASSUME NEW n \in NodeSet
  PROVE  Tiles(<<n>>, n.offset, End(n)) /\ Apart(<<n>>)
<1>1. /\ <<n>> \in Seq(NodeSet) /\ <<n>> # <<>> /\ Len(<<n>>) = 1 /\ <<n>>[1] = n
  BY OneIs
<1>2. 1 .. 1 - 1 = {}
  OBVIOUS
<1>. QED  BY <1>1, <1>2, NodeIs DEF Tiles, Apart

-----------------------------------------------------------------------------
(* Lists of offsets.                                                       *)

Rising(f) == \A j, k \in 1 .. Len(f) : j < k => f[j] < f[k]

LEMMA RisingOne ==
  ASSUME NEW x \in Nat
  PROVE  <<x>> \in Seq(Nat) /\ Rising(<<x>>) /\ Range(<<x>>) = {x}
<1>1. <<x>> \in Seq(Nat) /\ Len(<<x>>) = 1 /\ Range(<<x>>) = {x}
  BY OneIs
<1>2. \A j, k \in 1 .. 1 : ~(j < k)
  OBVIOUS
<1>. QED  BY <1>1, <1>2 DEF Rising

LEMMA RisingNone == <<>> \in Seq(Nat) /\ Rising(<<>>) /\ Range(<<>>) = {}
<1>1. <<>> \in Seq(Nat) /\ Len(<<>>) = 0
  BY EmptySeq
<1>2. Range(<<>>) = {<<>>[j] : j \in 1 .. 0}
  BY <1>1, RangeEquality
<1>3. 1 .. 0 = {}
  OBVIOUS
<1>. QED  BY <1>1, <1>2, <1>3 DEF Rising

LEMMA RisingConcat ==
  ASSUME NEW f \in Seq(Nat), NEW g \in Seq(Nat), Rising(f), Rising(g),
         \A x \in Range(f), y \in Range(g) : x < y
  PROVE  f \o g \in Seq(Nat) /\ Rising(f \o g) /\ Range(f \o g) = Range(f) \cup Range(g)
<1>. DEFINE r == f \o g
            m == Len(f)
            n == Len(g)
<1>1. m \in Nat /\ n \in Nat /\ Len(r) = m + n /\ r \in Seq(Nat) /\ Range(r) = Range(f) \cup Range(g)
  BY LenProperties, ConcatEnds
<1>2. \A k \in 1 .. m + n : r[k] = IF k <= m THEN f[k] ELSE g[k - m]
  BY ConcatProperties
<1>3. \A k \in 1 .. m : f[k] \in Range(f)
  BY RangeEquality
<1>4. \A k \in 1 .. n : g[k] \in Range(g)
  BY RangeEquality
<1>5. /\ \A j, k \in 1 .. m : j < k => f[j] < f[k]
      /\ \A j, k \in 1 .. n : j < k => g[j] < g[k]
  BY DEF Rising
<1>. HIDE DEF r, m, n
<1>6. ASSUME NEW j \in 1 .. m + n, NEW k \in 1 .. m + n, j < k PROVE r[j] < r[k]
  <2>1. CASE k <= m
    <3>1. j \in 1 .. m /\ k \in 1 .. m /\ j <= m
      BY <1>1, <1>6, <2>1
    <3>. QED  BY <1>2, <1>5, <1>6, <2>1, <3>1
  <2>2. CASE j > m
    <3>1. j - m \in 1 .. n /\ k - m \in 1 .. n /\ ~(j <= m) /\ ~(k <= m) /\ j - m < k - m
      BY <1>1, <1>6, <2>2
    <3>2. r[j] = g[j - m]
      BY <1>2, <3>1
    <3>3. r[k] = g[k - m]
      BY <1>2, <3>1
    <3>. QED  BY <1>5, <3>1, <3>2, <3>3
  <2>3. CASE j <= m /\ ~(k <= m)
    <3>1. j \in 1 .. m /\ k - m \in 1 .. n
      BY <1>1, <1>6, <2>3
    <3>2. r[j] = f[j]
      BY <1>2, <2>3
    <3>3. r[k] = g[k - m]
      BY <1>2, <2>3
    <3>. QED  BY <1>3, <1>4, <3>1, <3>2, <3>3
  <2>4. k <= m \/ j > m \/ (j <= m /\ ~(k <= m))
    BY <1>1, <1>6
  <2>. QED  BY <2>1, <2>2, <2>3, <2>4
<1>. QED  BY <1>1, <1>6 DEF r, Rising

LEMMA RisingCut ==
  ASSUME NEW f \in Seq(Nat), Rising(f), NEW k \in 1 .. Len(f)
  PROVE  /\ Before(f, k) \in Seq(Nat) /\ Rising(Before(f, k))
         /\ Range(Before(f, k)) = {x \in Range(f) : x < f[k]}
         /\ Behind(f, k) \in Seq(Nat) /\ Rising(Behind(f, k))
         /\ Range(Behind(f, k)) = {x \in Range(f) : x > f[k]}
         /\ f[k] \in Range(f)
<1>. DEFINE m == Len(f)
            u == Before(f, k)
            v == Behind(f, k)
<1>1. m \in Nat /\ \A j \in 1 .. m : f[j] \in Nat
  BY LenProperties, ElementOfSeq
<1>2. \A i, j \in 1 .. m : i < j => f[i] < f[j]
  BY DEF Rising
<1>3. Range(f) = {f[j] : j \in 1 .. m}
  BY RangeEquality
<1>4. /\ u \in Seq(Nat) /\ Len(u) = k - 1 /\ \A j \in 1 .. k - 1 : u[j] = f[j]
      /\ Range(u) = {f[j] : j \in 1 .. k - 1}
  BY BeforeIs
<1>5. /\ v \in Seq(Nat) /\ Len(v) = m - k /\ \A j \in 1 .. m - k : v[j] = f[k + j]
      /\ Range(v) = {f[j] : j \in k + 1 .. m}
  BY BehindIs
<1>6. k \in 1 .. m
  OBVIOUS
<1>. HIDE DEF m, u, v
<1>7. Rising(u)
  <2>. SUFFICES ASSUME NEW i \in 1 .. k - 1, NEW j \in 1 .. k - 1, i < j PROVE u[i] < u[j]
    BY <1>4 DEF Rising
  <2>1. i \in 1 .. m /\ j \in 1 .. m
    BY <1>1, <1>6
  <2>. QED  BY <1>2, <1>4, <2>1
<1>8. Rising(v)
  <2>. SUFFICES ASSUME NEW i \in 1 .. m - k, NEW j \in 1 .. m - k, i < j PROVE v[i] < v[j]
    BY <1>5 DEF Rising
  <2>1. k + i \in 1 .. m /\ k + j \in 1 .. m /\ k + i < k + j
    BY <1>1, <1>6
  <2>. QED  BY <1>2, <1>5, <2>1
<1>9. ASSUME NEW j \in 1 .. m
      PROVE  /\ f[j] < f[k] <=> j \in 1 .. k - 1
             /\ f[j] > f[k] <=> j \in k + 1 .. m
  <2>1. CASE j < k
    BY <1>1, <1>2, <1>6, <2>1
  <2>2. CASE j > k
    BY <1>1, <1>2, <1>6, <2>2
  <2>3. CASE j = k
    BY <1>1, <1>6, <2>3
  <2>. QED  BY <1>6, <2>1, <2>2, <2>3
<1>10. \A j \in 1 .. k - 1 : j \in 1 .. m
  BY <1>1, <1>6
<1>11. \A j \in k + 1 .. m : j \in 1 .. m
  BY <1>1, <1>6
<1>12. Range(u) = {x \in Range(f) : x < f[k]}
  BY <1>3, <1>4, <1>9, <1>10
<1>13. Range(v) = {x \in Range(f) : x > f[k]}
  BY <1>3, <1>5, <1>9, <1>11
<1>14. f[k] \in Range(f)
  BY <1>3, <1>6
<1>. QED  BY <1>4, <1>5, <1>7, <1>8, <1>12, <1>13, <1>14 DEF u, v

\* g in the place of the entry k.
LEMMA RisingSplit ==
  ASSUME NEW f \in Seq(Nat), Rising(f), NEW k \in 1 .. Len(f), NEW g \in Seq(Nat), Rising(g),
         \A x \in Range(g), y \in Range(f) : (y < f[k] => y < x) /\ (y > f[k] => x < y)
  PROVE  LET r == Before(f, k) \o g \o Behind(f, k)
         IN  r \in Seq(Nat) /\ Rising(r) /\ Range(r) = (Range(f) \ {f[k]}) \cup Range(g)
<1>. DEFINE u == Before(f, k)
            v == Behind(f, k)
            w == u \o g
<1>1. /\ u \in Seq(Nat) /\ Rising(u) /\ Range(u) = {x \in Range(f) : x < f[k]}
      /\ v \in Seq(Nat) /\ Rising(v) /\ Range(v) = {x \in Range(f) : x > f[k]}
      /\ f[k] \in Range(f)
  BY RisingCut
<1>2. Range(f) \subseteq Nat
  BY RangeOfSeq
<1>. HIDE DEF u, v
<1>3. w \in Seq(Nat) /\ Rising(w) /\ Range(w) = Range(u) \cup Range(g)
  <2>1. \A x \in Range(u), y \in Range(g) : x < y
    BY <1>1
  <2>. QED  BY <1>1, <2>1, RisingConcat
<1>. HIDE DEF w
<1>4. w \o v \in Seq(Nat) /\ Rising(w \o v) /\ Range(w \o v) = Range(w) \cup Range(v)
  <2>1. \A x \in Range(w), y \in Range(v) : x < y
    <3>. SUFFICES ASSUME NEW x \in Range(w), NEW y \in Range(v) PROVE x < y
      OBVIOUS
    <3>1. y \in Range(f) /\ y > f[k] /\ y \in Nat /\ f[k] \in Nat
      BY <1>1, <1>2
    <3>2. CASE x \in Range(g)
      BY <3>1, <3>2
    <3>3. CASE x \in Range(u)
      <4>1. x \in Nat /\ x < f[k]
        BY <1>1, <1>2, <3>3
      <4>. QED  BY <3>1, <4>1
    <3>. QED  BY <1>3, <3>2, <3>3
  <2>. QED  BY <1>1, <1>3, <2>1, RisingConcat
<1>5. \A x \in Range(f) : x < f[k] \/ x > f[k] \/ x = f[k]
  BY <1>1, <1>2
<1>6. \A x \in {y \in Range(f) : y < f[k]} \cup {y \in Range(f) : y > f[k]} : x # f[k]
  BY <1>1, <1>2
<1>7. Range(w) \cup Range(v) = (Range(f) \ {f[k]}) \cup Range(g)
  BY <1>1, <1>3, <1>5, <1>6
<1>. QED  BY <1>4, <1>7 DEF w, u, v

\* The least and the greatest of some entries.
LEMMA LeastEntry ==
  ASSUME NEW n \in Nat, NEW I \in SUBSET (1 .. n), I # {}
  PROVE  Min(I) \in I /\ \A i \in I : Min(I) <= i
<1>1. I \subseteq Nat
  OBVIOUS
<1>2. \E x \in I : \A y \in I : x <= y
  BY <1>1, LeastNat
<1>. QED  BY <1>2 DEF Min

LEMMA GreatestEntry ==
  ASSUME NEW n \in Nat, NEW I \in SUBSET (1 .. n), I # {}
  PROVE  Max(I) \in I
<1>. DEFINE J == {n - i : i \in I}
<1>1. J \subseteq Nat /\ J # {}
  <2>1. \A i \in I : i \in 1 .. n
    OBVIOUS
  <2>2. \A i \in I : n - i \in Nat
    BY <2>1
  <2>. QED  BY <2>2
<1>2. PICK x \in J : \A y \in J : x <= y
  BY <1>1, LeastNat
<1>3. PICK i \in I : x = n - i
  BY <1>2
<1>4. \A j \in I : i >= j
  <2>. SUFFICES ASSUME NEW j \in I PROVE i >= j
    OBVIOUS
  <2>1. n - j \in J
    OBVIOUS
  <2>2. n - i <= n - j
    BY <1>2, <1>3, <2>1
  <2>. QED  BY <2>2
<1>. QED  BY <1>3, <1>4 DEF Max

LEMMA RisingRemove ==
  ASSUME NEW f \in Seq(Nat), Rising(f), NEW e \in Range(f)
  PROVE  LET r == RemoveFirst(f, e)
         IN  r \in Seq(Nat) /\ Rising(r) /\ Range(r) = Range(f) \ {e}
<1>. DEFINE n == Len(f)
            I == {i \in 1 .. n : f[i] = e}
<1>1. n \in Nat /\ \A j \in 1 .. n : f[j] \in Nat
  BY LenProperties, ElementOfSeq
<1>2. PICK k \in 1 .. n : f[k] = e
  BY RangeEquality
<1>3. I = {k}
  <2>1. ASSUME NEW i \in 1 .. n, f[i] = e PROVE i = k
    <3>1. ~(i < k) /\ ~(k < i)
      BY <1>1, <1>2, <2>1 DEF Rising
    <3>. QED  BY <1>1, <3>1
  <2>. QED  BY <1>2, <2>1
<1>4. RemoveFirst(f, e) = RemoveAt(f, Min(I))
  BY <1>2 DEF RemoveFirst, SelectInSeq
<1>5. Min(I) = k
  <2>1. I \subseteq 1 .. n /\ I # {}
    BY <1>2
  <2>. HIDE DEF I, n
  <2>. QED  BY <1>1, <1>3, <2>1, LeastEntry
<1>. HIDE DEF I
<1>6. RemoveFirst(f, e) = Before(f, k) \o Behind(f, k)
  BY <1>4, <1>5 DEF RemoveAt, Before, Behind
<1>7. /\ Before(f, k) \in Seq(Nat) /\ Rising(Before(f, k))
      /\ Range(Before(f, k)) = {x \in Range(f) : x < f[k]}
      /\ Behind(f, k) \in Seq(Nat) /\ Rising(Behind(f, k))
      /\ Range(Behind(f, k)) = {x \in Range(f) : x > f[k]}
  BY RisingCut
<1>8. Range(f) \subseteq Nat
  BY RangeOfSeq
<1>9. \A x \in Range(Before(f, k)), y \in Range(Behind(f, k)) : x < y
  BY <1>1, <1>7, <1>8
<1>10. {x \in Range(f) : x < f[k]} \cup {x \in Range(f) : x > f[k]} = Range(f) \ {e}
  <2>1. \A x \in Range(f) : x < f[k] \/ x > f[k] \/ x = f[k]
    BY <1>1, <1>8
  <2>2. \A x \in {y \in Range(f) : y < f[k]} \cup {y \in Range(f) : y > f[k]} : x # f[k]
    BY <1>1, <1>8
  <2>. QED  BY <1>2, <2>1, <2>2
<1>. QED  BY <1>6, <1>7, <1>9, <1>10, RisingConcat

LEMMA RisingReplace ==
  ASSUME NEW f \in Seq(Nat), Rising(f), NEW old \in Range(f), NEW new \in Nat, new <= old,
         \A y \in Range(f) : y < old => y < new
  PROVE  LET r == ReplaceAll(f, old, new)
         IN  r \in Seq(Nat) /\ Rising(r) /\ Range(r) = (Range(f) \ {old}) \cup {new}
<1>. DEFINE n == Len(f)
            r == ReplaceAll(f, old, new)
<1>1. n \in Nat /\ \A j \in 1 .. n : f[j] \in Nat
  BY LenProperties, ElementOfSeq
<1>2. /\ r \in Seq(Nat) /\ Len(r) = n
      /\ \A i \in 1 .. n : r[i] = IF f[i] = old THEN new ELSE f[i]
  BY <1>1 DEF ReplaceAll
<1>3. Range(f) = {f[i] : i \in 1 .. n} /\ Range(f) \subseteq Nat
  BY RangeEquality, RangeOfSeq
<1>4. Range(r) = {r[i] : i \in 1 .. n}
  BY <1>2, RangeEquality
<1>5. \A j, k \in 1 .. n : j < k => f[j] < f[k]
  BY DEF Rising
<1>. HIDE DEF r, n
<1>6. PICK i \in 1 .. n : f[i] = old
  BY <1>3
<1>7. ASSUME NEW j \in 1 .. n, NEW k \in 1 .. n, j < k PROVE r[j] < r[k]
  <2>1. f[j] < f[k] /\ f[j] \in Nat /\ f[k] \in Nat /\ old \in Nat
    BY <1>1, <1>3, <1>5, <1>7
  <2>2. f[k] = old => f[j] < new
    BY <1>3, <2>1
  <2>3. r[j] = IF f[j] = old THEN new ELSE f[j]
    BY <1>2
  <2>4. r[k] = IF f[k] = old THEN new ELSE f[k]
    BY <1>2
  <2>. QED  BY <2>1, <2>2, <2>3, <2>4
<1>8. Range(r) = (Range(f) \ {old}) \cup {new}
  <2>1. r[i] = new
    BY <1>2, <1>6
  <2>2. \A x \in Range(f) \ {old} : x \in Range(r)
    BY <1>2, <1>3, <1>4
  <2>3. \A x \in Range(r) : x \in (Range(f) \ {old}) \cup {new}
    BY <1>2, <1>3, <1>4
  <2>4. new \in Range(r)
    BY <1>4, <1>6, <2>1
  <2>. QED  BY <2>2, <2>3, <2>4
<1>. QED  BY <1>2, <1>7, <1>8 DEF Rising, r

LEMMA RisingInsert ==
  ASSUME NEW f \in Seq(Nat), Rising(f), NEW x \in Nat, x \notin Range(f), NEW w \in 1 .. Len(f) + 1,
         \A j \in 1 .. w - 1 : ~(x < f[j]), w <= Len(f) => x < f[w]
  PROVE  LET r == InsertAt(f, w, x)
         IN  r \in Seq(Nat) /\ Rising(r) /\ Range(r) = Range(f) \cup {x}
<1>. DEFINE n == Len(f)
<1>1. n \in Nat /\ (\A j \in 1 .. n : f[j] \in Nat) /\ \A j \in 1 .. n : f[j] \in Range(f)
  BY LenProperties, ElementOfSeq, RangeEquality
<1>2. <<x>> \in Seq(Nat) /\ Rising(<<x>>) /\ Range(<<x>>) = {x}
  BY RisingOne
<1>3. Range(f) \subseteq Nat
  BY RangeOfSeq
<1>4. InsertAt(f, w, x) = SubSeq(f, 1, w - 1) \o <<x>> \o SubSeq(f, w, n)
  BY DEF InsertAt
<1>5. CASE w <= n
  <2>1. w \in 1 .. n /\ n \in w .. n
    BY <1>1, <1>5
  <2>. DEFINE u == Before(f, w)
              v == Behind(f, w)
  <2>2. /\ u \in Seq(Nat) /\ Rising(u) /\ Range(u) = {y \in Range(f) : y < f[w]}
        /\ v \in Seq(Nat) /\ Rising(v) /\ Range(v) = {y \in Range(f) : y > f[w]}
        /\ f[w] \in Range(f)
    BY <2>1, RisingCut
  <2>3. SubSeq(f, w, n) = <<f[w]>> \o v
    BY <2>1, SubSeqRecursiveFirst DEF Behind
  <2>4. SubSeq(f, 1, w - 1) = u
    BY DEF Before
  <2>5. Range(u) = {f[j] : j \in 1 .. w - 1}
    BY <2>1, BeforeIs
  <2>. HIDE DEF u, v
  <2>6. \A y \in Range(u) : y < x
    <3>. SUFFICES ASSUME NEW j \in 1 .. w - 1 PROVE f[j] < x
      BY <2>5
    <3>1. j \in 1 .. n
      BY <1>1, <2>1
    <3>2. f[j] \in Nat /\ f[j] # x /\ ~(x < f[j])
      BY <1>1, <3>1
    <3>. QED  BY <3>2
  <2>7. f[w] \in Nat /\ x < f[w]
    BY <1>1, <1>5, <2>1
  <2>. DEFINE p == u \o <<x>>
              q == <<f[w]>> \o v
  <2>8. p \in Seq(Nat) /\ Rising(p) /\ Range(p) = Range(u) \cup {x}
    <3>1. \A y \in Range(u), z \in Range(<<x>>) : y < z
      BY <1>2, <2>6
    <3>. QED  BY <1>2, <2>2, <3>1, RisingConcat
  <2>9. q \in Seq(Nat) /\ Rising(q) /\ Range(q) = {f[w]} \cup Range(v)
    <3>1. <<f[w]>> \in Seq(Nat) /\ Rising(<<f[w]>>) /\ Range(<<f[w]>>) = {f[w]}
      BY <2>7, RisingOne
    <3>2. \A y \in Range(<<f[w]>>), z \in Range(v) : y < z
      BY <2>2, <3>1
    <3>. QED  BY <2>2, <3>1, <3>2, RisingConcat
  <2>. HIDE DEF p, q
  <2>10. \A y \in Range(p), z \in Range(q) : y < z
    <3>. SUFFICES ASSUME NEW y \in Range(p), NEW z \in Range(q) PROVE y < z
      OBVIOUS
    <3>1. y <= x /\ y \in Nat
      BY <1>3, <2>2, <2>6, <2>8
    <3>2. x < z /\ z \in Nat
      BY <1>3, <2>2, <2>7, <2>9
    <3>. QED  BY <3>1, <3>2
  <2>11. p \o q \in Seq(Nat) /\ Rising(p \o q) /\ Range(p \o q) = Range(p) \cup Range(q)
    BY <2>8, <2>9, <2>10, RisingConcat
  <2>12. \A y \in Range(f) : y < f[w] \/ y > f[w] \/ y = f[w]
    BY <1>3, <2>7
  <2>13. Range(p) \cup Range(q) = Range(f) \cup {x}
    BY <2>2, <2>8, <2>9, <2>12
  <2>. QED  BY <1>4, <2>3, <2>4, <2>11, <2>13 DEF p, q
<1>6. CASE w = n + 1
  <2>1. SubSeq(f, 1, w - 1) = f
    <3>1. w - 1 = n
      BY <1>1, <1>6
    <3>. QED  BY <3>1, SubSeqFull
  <2>2. SubSeq(f, w, n) = <<>>
    BY <1>1, <1>6, SubSeqEmpty
  <2>3. \A y \in Range(f), z \in Range(<<x>>) : y < z
    <3>. SUFFICES ASSUME NEW j \in 1 .. n PROVE f[j] < x
      BY <1>2, RangeEquality
    <3>1. j \in 1 .. w - 1
      BY <1>1, <1>6
    <3>2. f[j] \in Nat /\ f[j] # x /\ ~(x < f[j])
      BY <1>1, <3>1
    <3>. QED  BY <3>2
  <2>4. f \o <<x>> \in Seq(Nat) /\ Rising(f \o <<x>>) /\ Range(f \o <<x>>) = Range(f) \cup {x}
    BY <1>2, <2>3, RisingConcat
  <2>5. (f \o <<x>>) \o <<>> = f \o <<x>>
    BY <2>4, ConcatEmptySeq
  <2>. QED  BY <1>4, <2>1, <2>2, <2>4, <2>5
<1>. QED  BY <1>1, <1>5, <1>6

-----------------------------------------------------------------------------
(* Sums of lengths.                                                        *)

\* f[j] is the sum of the first j of list.
Sums(list, n, f) ==
  f \in [0 .. n -> Nat] /\ f[0] = 0 /\ \A j \in 1 .. n : f[j] = f[j - 1] + list[j]

LEMMA SumsExist ==
  ASSUME NEW v \in Seq(Nat)
  PROVE  \E f : Sums(v, Len(v), f)
<1>. DEFINE m == Len(v)
            S == {n \in Nat : n <= m => \E f : Sums(v, n, f)}
<1>1. m \in Nat /\ \A j \in 1 .. m : v[j] \in Nat
  BY LenProperties, ElementOfSeq
<1>. HIDE DEF m
<1>2. 0 \in S
  <2>. DEFINE f == [j \in 0 .. 0 |-> 0]
  <2>1. f \in [0 .. 0 -> Nat] /\ f[0] = 0 /\ 1 .. 0 = {}
    OBVIOUS
  <2>. HIDE DEF f
  <2>2. Sums(v, 0, f)
    BY <2>1 DEF Sums
  <2>. QED  BY <2>2
<1>3. ASSUME NEW n \in Nat, n \in S PROVE n + 1 \in S
  <2>. SUFFICES ASSUME n + 1 <= m PROVE \E f : Sums(v, n + 1, f)
    OBVIOUS
  <2>1. PICK f : Sums(v, n, f)
    BY <1>1, <1>3
  <2>. DEFINE g == [j \in 0 .. n + 1 |-> IF j = n + 1 THEN f[n] + v[n + 1] ELSE f[j]]
  <2>2. /\ f \in [0 .. n -> Nat] /\ f[0] = 0 /\ \A j \in 1 .. n : f[j] = f[j - 1] + v[j]
    BY <2>1 DEF Sums
  <2>3. v[n + 1] \in Nat
    BY <1>1
  <2>4. g \in [0 .. n + 1 -> Nat]
    <3>1. ASSUME NEW j \in 0 .. n + 1 PROVE (IF j = n + 1 THEN f[n] + v[n + 1] ELSE f[j]) \in Nat
      <4>1. n \in 0 .. n /\ (j # n + 1 => j \in 0 .. n)
        OBVIOUS
      <4>. QED  BY <2>2, <2>3, <4>1
    <3>. QED  BY <3>1
  <2>5. g[0] = 0
    BY <2>2
  <2>6. ASSUME NEW j \in 1 .. n + 1 PROVE g[j] = g[j - 1] + v[j]
    <3>1. j - 1 \in 0 .. n /\ j \in 0 .. n + 1 /\ j - 1 # n + 1 /\ j - 1 \in 0 .. n + 1
      OBVIOUS
    <3>2. g[j - 1] = f[j - 1]
      BY <3>1
    <3>3. CASE j = n + 1
      <4>1. g[j] = f[n] + v[n + 1] /\ j - 1 = n
        BY <3>3
      <4>. QED  BY <3>2, <3>3, <4>1
    <3>4. CASE j # n + 1
      <4>1. g[j] = f[j] /\ j \in 1 .. n
        BY <3>1, <3>4
      <4>. QED  BY <2>2, <3>2, <4>1
    <3>. QED  BY <3>3, <3>4
  <2>. HIDE DEF g
  <2>7. Sums(v, n + 1, g)
    BY <2>4, <2>5, <2>6 DEF Sums
  <2>. QED  BY <2>7
<1>4. m \in S
  <2>. HIDE DEF S
  <2>. QED  BY <1>1, <1>2, <1>3, SetInduction
<1>. QED  BY <1>1, <1>4 DEF m

LEMMA SumsAgree ==
  ASSUME NEW v, NEW n \in Nat, NEW f, NEW g, Sums(v, n, f), Sums(v, n, g)
  PROVE  f = g
<1>. DEFINE S == {j \in Nat : j <= n => f[j] = g[j]}
<1>1. /\ f \in [0 .. n -> Nat] /\ f[0] = 0 /\ \A j \in 1 .. n : f[j] = f[j - 1] + v[j]
      /\ g \in [0 .. n -> Nat] /\ g[0] = 0 /\ \A j \in 1 .. n : g[j] = g[j - 1] + v[j]
  BY DEF Sums
<1>2. 0 \in S
  BY <1>1
<1>3. ASSUME NEW j \in Nat, j \in S PROVE j + 1 \in S
  <2>. SUFFICES ASSUME j + 1 <= n PROVE f[j + 1] = g[j + 1]
    OBVIOUS
  <2>1. j + 1 \in 1 .. n /\ j + 1 - 1 = j /\ j <= n
    OBVIOUS
  <2>2. f[j] = g[j]
    BY <1>3, <2>1
  <2>3. f[j + 1] = f[j] + v[j + 1]
    BY <1>1, <2>1
  <2>4. g[j + 1] = g[j] + v[j + 1]
    BY <1>1, <2>1
  <2>. QED  BY <2>2, <2>3, <2>4
<1>4. Nat \subseteq S
  <2>. HIDE DEF S
  <2>. QED  BY <1>2, <1>3, SetInduction
<1>5. \A j \in 0 .. n : f[j] = g[j]
  BY <1>4
<1>. QED  BY <1>1, <1>5

LEMMA SumIs ==
  ASSUME NEW v \in Seq(Nat), NEW f, Sums(v, Len(v), f)
  PROVE  SumOf(v) = f[Len(v)]
<1>. DEFINE m == Len(v)
            Rec(g) == g = [j \in 0 .. m |-> IF j = 0 THEN 0 ELSE g[j - 1] + v[j]]
<1>1. m \in Nat
  BY LenProperties
<1>. HIDE DEF m
<1>2. ASSUME NEW g, Sums(v, m, g) PROVE Rec(g)
  <2>1. g \in [0 .. m -> Nat] /\ g[0] = 0 /\ \A j \in 1 .. m : g[j] = g[j - 1] + v[j]
    BY <1>2 DEF Sums
  <2>2. \A j \in 0 .. m : g[j] = IF j = 0 THEN 0 ELSE g[j - 1] + v[j]
    <3>. SUFFICES ASSUME NEW j \in 0 .. m PROVE g[j] = IF j = 0 THEN 0 ELSE g[j - 1] + v[j]
      OBVIOUS
    <3>1. j # 0 => j \in 1 .. m
      BY <1>1
    <3>. QED  BY <2>1, <3>1
  <2>. QED  BY <2>1, <2>2
<1>3. Rec(f)
  BY <1>2 DEF m
<1>4. ASSUME NEW g, Rec(g) PROVE Sums(v, m, g)
  <2>. DEFINE S == {j \in Nat : j <= m => g[j] \in Nat}
  <2>1. \A j \in 0 .. m : g[j] = IF j = 0 THEN 0 ELSE g[j - 1] + v[j]
    BY <1>4
  <2>2. \A j \in 1 .. m : v[j] \in Nat
    BY ElementOfSeq DEF m
  <2>3. 0 \in 0 .. m
    BY <1>1
  <2>4. g[0] = 0
    BY <2>1, <2>3
  <2>5. ASSUME NEW j \in 1 .. m PROVE g[j] = g[j - 1] + v[j]
    <3>1. j \in 0 .. m /\ j # 0
      BY <1>1
    <3>. QED  BY <2>1, <3>1
  <2>6. 0 \in S
    BY <2>4
  <2>7. ASSUME NEW j \in Nat, j \in S PROVE j + 1 \in S
    <3>. SUFFICES ASSUME j + 1 <= m PROVE g[j + 1] \in Nat
      OBVIOUS
    <3>1. j + 1 \in 1 .. m /\ j + 1 - 1 = j /\ j <= m
      BY <1>1
    <3>2. g[j] \in Nat /\ v[j + 1] \in Nat
      BY <2>2, <2>7, <3>1
    <3>3. g[j + 1] = g[j] + v[j + 1]
      BY <2>5, <3>1
    <3>. QED  BY <3>2, <3>3
  <2>8. Nat \subseteq S
    <3>. HIDE DEF S
    <3>. QED  BY <2>6, <2>7, SetInduction
  <2>9. g \in [0 .. m -> Nat]
    <3>1. \A j \in 0 .. m : g[j] \in Nat
      BY <2>8
    <3>2. g = [j \in 0 .. m |-> g[j]]
      BY <1>4
    <3>. QED  BY <3>1, <3>2
  <2>. QED  BY <2>4, <2>5, <2>9 DEF Sums
<1>5. SumOf(v) = (CHOOSE g : Rec(g))[m]
  BY DEF SumOf, m
<1>. HIDE DEF Rec
<1>6. Sums(v, m, CHOOSE g : Rec(g))
  BY <1>3, <1>4
<1>7. (CHOOSE g : Rec(g)) = f
  BY <1>1, <1>6, SumsAgree DEF m
<1>. QED  BY <1>5, <1>7 DEF m

LEMMA SumAppend ==
  ASSUME NEW v \in Seq(Nat), NEW x \in Nat
  PROVE  SumOf(Append(v, x)) = SumOf(v) + x
<1>. DEFINE m == Len(v)
            w == Append(v, x)
<1>1. m \in Nat /\ w \in Seq(Nat) /\ Len(w) = m + 1 /\ w[m + 1] = x /\ \A j \in 1 .. m : w[j] = v[j]
  BY LenProperties, AppendProperties
<1>2. PICK f : Sums(w, m + 1, f)
  BY <1>1, SumsExist
<1>3. SumOf(w) = f[m + 1]
  BY <1>1, <1>2, SumIs
<1>. DEFINE g == [j \in 0 .. m |-> f[j]]
<1>. HIDE DEF w, m
<1>4. f \in [0 .. m + 1 -> Nat] /\ f[0] = 0 /\ \A j \in 1 .. m + 1 : f[j] = f[j - 1] + w[j]
  BY <1>2 DEF Sums
<1>5. Sums(v, m, g)
  <2>1. g \in [0 .. m -> Nat]
    <3>1. \A j \in 0 .. m : j \in 0 .. m + 1
      BY <1>1
    <3>. QED  BY <1>4, <3>1
  <2>2. g[0] = 0
    BY <1>1, <1>4
  <2>3. ASSUME NEW j \in 1 .. m PROVE g[j] = g[j - 1] + v[j]
    <3>1. j \in 1 .. m + 1 /\ j \in 0 .. m /\ j - 1 \in 0 .. m
      BY <1>1
    <3>2. g[j] = f[j] /\ g[j - 1] = f[j - 1]
      BY <3>1
    <3>3. f[j] = f[j - 1] + w[j]
      BY <1>4, <3>1
    <3>. QED  BY <1>1, <3>2, <3>3
  <2>. HIDE DEF g
  <2>. QED  BY <2>1, <2>2, <2>3 DEF Sums
<1>6. SumOf(v) = g[m]
  BY <1>5, SumIs DEF m
<1>7. g[m] = f[m] /\ m + 1 \in 1 .. m + 1 /\ m + 1 - 1 = m
  BY <1>1
<1>8. f[m + 1] = f[m] + x
  BY <1>1, <1>4, <1>7
<1>. QED  BY <1>3, <1>6, <1>7, <1>8 DEF w

LEMMA SumNone == SumOf(<<>>) = 0
<1>1. <<>> \in Seq(Nat) /\ Len(<<>>) = 0
  BY EmptySeq
<1>2. PICK f : Sums(<<>>, Len(<<>>), f)
  BY <1>1, SumsExist
<1>3. f[0] = 0
  BY <1>2 DEF Sums
<1>. QED  BY <1>1, <1>2, <1>3, SumIs

-----------------------------------------------------------------------------
(* VRAM: the inductive invariant.                                          *)

Ends == RamCtor(layout)

InRegion(n) ==
  \E j \in DOMAIN Ends :
    /\ Ends[j].heap = n.heap /\ (Ends[j].type = HOLE <=> n.type = HOLE)
    /\ Ends[j].offset <= n.offset /\ End(n) <= End(Ends[j])

NodesInv ==
  /\ layout \in Layouts
  /\ Tiles(nodes, Ends[1].offset, End(Ends[Len(Ends)]))
  /\ \A n \in Range(nodes) : InRegion(n) /\ (n.type = HOLE => n \in Range(Ends))

FreeInv ==
  /\ free \in Seq(Nat) /\ Rising(free)
  /\ Range(free) = {n.offset : n \in {n \in Range(nodes) : n.type = NONE}}

Reqs ==
  [heap : 0 .. 255, type : 1 .. 254, size : Nat \ {0}, min : Nat \ {0}, align : Nat \ {0},
   back : BOOLEAN]
States == {"none", "get", "live", "doomed", "put"}
Held(m) == Range(mem[m].mn)

MemInv ==
  /\ mutex \in Mems \cup {None} /\ failed \in BOOLEAN
  /\ mem \in [Mems -> [st : States, mn : Seq(Nat), req : Reqs \cup {NoReq}, left : Nat]]
  /\ \A m \in Mems :
       /\ mutex = m <=> mem[m].st \in {"get", "put"}
       /\ mem[m].st = "none" => mem[m].mn = <<>>
       /\ mem[m].st # "none" =>
            LET r == mem[m].req IN
            /\ r \in Reqs /\ r.size % r.align = 0
            /\ r.min \in {r.size, r.align} /\ (r.back => r.min = r.size)

\* Who has which node.
HeldInv ==
  /\ \A m \in Mems : \A j, k \in DOMAIN mem[m].mn : mem[m].mn[j] = mem[m].mn[k] => j = k
  /\ \A l, m \in Mems : Held(l) \cap Held(m) # {} => l = m
  /\ \A m \in Mems : \A o \in Held(m) :
       \E n \in Range(nodes) : n.offset = o /\ n.type = mem[m].req.type
  /\ \A n \in Range(nodes) : IsUsed(n) => \E m \in Mems : n.offset \in Held(m)

\* What a memory is made of, while it is gathered and then.
PageOf(m) ==
  LET r == mem[m].req IN
  /\ mem[m].st = "live" => Total(m) = r.size
  /\ mem[m].st = "get" =>
       /\ mem[m].left > 0 /\ Total(m) + mem[m].left = r.size /\ mem[m].left % r.align = 0
       /\ r.min = r.size => mem[m].mn = <<>>
  /\ mem[m].st \in {"get", "live"} =>
       /\ r.min = r.size => Len(mem[m].mn) <= 1
       /\ \A n \in Range(nodes) : n.offset \in Held(m) =>
            n.offset % r.align = 0 /\ n.length % r.align = 0 /\ r.heap \in {ANY, n.heap}
PageInv == \A m \in Mems : PageOf(m)

BlockInv ==
  \A n, o \in Range(nodes) :
    IsUsed(n) /\ IsUsed(o) /\ n.type # o.type /\ n.offset < o.offset
      => (End(n) - 1) \div layout.block < o.offset \div layout.block

ApartInv == ~failed => Apart(nodes)

MmInv == NodesInv /\ FreeInv /\ MemInv /\ HeldInv /\ PageInv /\ BlockInv /\ ApartInv

-----------------------------------------------------------------------------
(* The regions.                                                            *)

LEMMA LayoutIs ==
  ASSUME NEW l \in Layouts
  PROVE  /\ l.block \in Nat \ {0} /\ l.types \subseteq 1 .. 254 /\ Len(l.regions) \in {1, 2}
         /\ DOMAIN l.regions = 1 .. Len(l.regions)
         /\ \A i \in 1 .. Len(l.regions) :
              /\ l.regions[i].heap \in 1 .. 255 /\ l.regions[i].offset \in Nat
              /\ l.regions[i].length \in Nat
              /\ Start(l.regions[i], l.block) < Stop(l.regions[i], l.block)
         /\ Len(l.regions) = 2 =>
              l.block = 1 /\ l.regions[1].offset + l.regions[1].length < l.regions[2].offset
<1>. DEFINE R == [heap : 1 .. 255, offset : Nat, length : Nat]
            n == Len(l.regions)
<1>1. /\ l.block \in Nat \ {0} /\ l.types \subseteq 1 .. 254 /\ l.regions \in Seq(R) /\ n \in {1, 2}
      /\ \A i \in DOMAIN l.regions : Start(l.regions[i], l.block) < Stop(l.regions[i], l.block)
      /\ n = 2 => l.block = 1 /\ l.regions[1].offset + l.regions[1].length < l.regions[2].offset
  BY MmAssumption
<1>2. DOMAIN l.regions = 1 .. n /\ \A i \in 1 .. n : l.regions[i] \in R
  BY <1>1, LenProperties, ElementOfSeq
<1>. HIDE DEF n
<1>3. ASSUME NEW i \in 1 .. n
      PROVE  /\ l.regions[i].heap \in 1 .. 255 /\ l.regions[i].offset \in Nat
             /\ l.regions[i].length \in Nat
             /\ Start(l.regions[i], l.block) < Stop(l.regions[i], l.block)
  <2>. DEFINE r == l.regions[i]
  <2>1. r \in R /\ Start(r, l.block) < Stop(r, l.block)
    BY <1>1, <1>2, Zenon
  <2>. HIDE DEF r
  <2>2. r.heap \in 1 .. 255 /\ r.offset \in Nat /\ r.length \in Nat
    BY <2>1
  <2>. QED  BY <2>1, <2>2 DEF r
<1>. QED  BY <1>1, <1>2, <1>3, Zenon DEF n

LEMMA RegionIs ==
  ASSUME NEW l \in Layouts, NEW i \in 1 .. Len(l.regions)
  PROVE  /\ Start(l.regions[i], l.block) \in Nat /\ Stop(l.regions[i], l.block) \in Nat
         /\ Start(l.regions[i], l.block) < Stop(l.regions[i], l.block)
         /\ Stop(l.regions[i], l.block) <= l.regions[i].offset + l.regions[i].length
         /\ l.regions[i].heap \in 1 .. 255 /\ l.regions[i].offset \in Nat
<1>. DEFINE r == l.regions[i]
<1>1. /\ r.heap \in 1 .. 255 /\ r.offset \in Nat /\ r.length \in Nat
      /\ Start(r, l.block) < Stop(r, l.block)
  <2>1. \A j \in 1 .. Len(l.regions) :
         /\ l.regions[j].heap \in 1 .. 255 /\ l.regions[j].offset \in Nat
         /\ l.regions[j].length \in Nat
         /\ Start(l.regions[j], l.block) < Stop(l.regions[j], l.block)
    BY LayoutIs
  <2>. QED  BY <2>1, Zenon
<1>2. l.block \in Nat \ {0}
  BY LayoutIs
<1>. HIDE DEF r
<1>3. Start(r, l.block) \in Nat
  BY <1>2, <1>1, RoundUpIs DEF Start
<1>4. r.offset + r.length \in Nat
  BY <1>1
<1>5. Stop(r, l.block) \in Nat /\ Stop(r, l.block) <= r.offset + r.length
  BY <1>2, <1>1, <1>4, RoundDownIs DEF Stop
<1>. QED  BY <1>2, <1>1, <1>3, <1>5 DEF r

LEMMA SecondRegion ==
  ASSUME NEW l \in Layouts, Len(l.regions) = 2
  PROVE  /\ Start(l.regions[2], l.block) = l.regions[2].offset
         /\ Stop(l.regions[1], l.block) < l.regions[2].offset
<1>. DEFINE x == l.regions[2].offset
            y == Stop(l.regions[1], l.block)
            z == l.regions[1].offset + l.regions[1].length
<1>1. 1 \in 1 .. Len(l.regions) /\ 2 \in 1 .. Len(l.regions)
  OBVIOUS
<1>2. l.block = 1 /\ z < x /\ z \in Nat
  BY <1>1, LayoutIs
<1>3. x \in Nat /\ y \in Nat /\ y <= z
  BY <1>1, RegionIs
<1>4. Start(l.regions[2], l.block) = ((x + 1 - 1) \div 1) * 1
  BY <1>2 DEF Start, RoundUp
<1>. HIDE DEF x, y, z
<1>5. x % 1 = 0
  <2>1. x % 1 \in 0 .. 1 - 1
    BY <1>3, Division
  <2>. QED  BY <2>1
<1>6. x + 1 - 1 = x /\ x \div 1 \in Nat /\ x = (x \div 1) * 1
  BY <1>3, <1>5, MultipleIs
<1>7. y < x
  BY <1>2, <1>3
<1>. QED  BY <1>4, <1>6, <1>7 DEF x, y

\* The node that nvkm_mm_init makes of a region.
RegionNode(l, i) ==
  Node(Start(l.regions[i], l.block), Stop(l.regions[i], l.block) - Start(l.regions[i], l.block),
       l.regions[i].heap, NONE)

LEMMA RegionNodeIs ==
  ASSUME NEW l \in Layouts, NEW i \in 1 .. Len(l.regions)
  PROVE  LET n == RegionNode(l, i)
         IN  /\ n \in NodeSet /\ n.offset = Start(l.regions[i], l.block)
             /\ End(n) = Stop(l.regions[i], l.block) /\ n.type = NONE
<1>. DEFINE s == Start(l.regions[i], l.block)
            e == Stop(l.regions[i], l.block)
            h == l.regions[i].heap
<1>1. h \in 1 .. 255 /\ s \in Nat /\ e \in Nat /\ s < e
  BY RegionIs
<1>2. RegionNode(l, i) = Node(s, e - s, h, NONE)
  BY DEF RegionNode
<1>. HIDE DEF s, e, h
<1>3. Node(s, e - s, h, NONE) \in NodeSet
  BY <1>1 DEF Node, NodeSet, NONE
<1>4. Node(s, e - s, h, NONE).offset = s /\ Node(s, e - s, h, NONE).type = NONE
  BY DEF Node
<1>5. End(Node(s, e - s, h, NONE)) = e
  BY <1>1 DEF Node, End
<1>. QED  BY <1>2, <1>3, <1>4, <1>5 DEF s, e

LEMMA CtorIs ==
  ASSUME NEW l \in Layouts
  PROVE  LET e == RamCtor(l)
         IN  /\ Tiles(e, e[1].offset, End(e[Len(e)])) /\ Apart(e) /\ e # <<>>
             /\ (Len(e) = 1 /\ Len(l.regions) = 1) \/ (Len(e) = 3 /\ Len(l.regions) = 2)
             /\ e[1] = RegionNode(l, 1)
             /\ Len(e) = 3 => e[2].type = HOLE /\ e[3] = RegionNode(l, 2)
<1>. DEFINE e == RamCtor(l)
            a == RegionNode(l, 1)
            b == RegionNode(l, 2)
<1>1. 1 \in 1 .. Len(l.regions)
  BY LayoutIs
<1>2. a \in NodeSet /\ End(a) = Stop(l.regions[1], l.block) /\ a.type = NONE
  BY <1>1, RegionNodeIs
<1>3. MmInit(<<>>, l.block, l.regions[1]) = <<a>>
  <2>1. MmInit(<<>>, l.block, l.regions[1]) = <<>> \o <<>> \o <<a>>
    BY DEF MmInit, RegionNode
  <2>2. <<a>> \in Seq(NodeSet) /\ <<>> \in Seq(NodeSet)
    BY <1>2, OneIs, EmptySeq
  <2>. HIDE DEF a
  <2>3. <<>> \o <<>> = <<>>
    BY <2>2, ConcatEmptySeq
  <2>4. <<>> \o <<a>> = <<a>>
    BY <2>2, ConcatEmptySeq
  <2>. QED  BY <2>1, <2>3, <2>4
<1>4. CASE Len(l.regions) = 1
  <2>1. e = <<a>>
    BY <1>3, <1>4 DEF RamCtor
  <2>. HIDE DEF a, e
  <2>2. <<a>>[1] = a /\ Len(<<a>>) = 1 /\ <<a>> # <<>>
    BY <1>2, OneIs
  <2>3. Tiles(<<a>>, a.offset, End(a)) /\ Apart(<<a>>)
    BY <1>2, TilesOne
  <2>. QED  BY <1>4, <2>1, <2>2, <2>3 DEF a, e
<1>5. CASE Len(l.regions) = 2
  <2>. DEFINE x == Stop(l.regions[1], l.block)
              y == l.regions[2].offset
              h == Node(x, y - x, 0, HOLE)
  <2>1. 2 \in 1 .. Len(l.regions)
    BY <1>5
  <2>2. x \in Nat /\ y \in Nat /\ x < y /\ Start(l.regions[2], l.block) = y
    BY <1>1, <1>5, <2>1, RegionIs, SecondRegion
  <2>3. b \in NodeSet /\ b.offset = y /\ b.type = NONE
    BY <2>1, <2>2, RegionNodeIs
  <2>4. End(a) = x
    BY <1>2
  <2>5. e = MmInit(<<a>>, l.block, l.regions[2])
    BY <1>3, <1>5 DEF RamCtor
  <2>6. <<a>> # <<>> /\ Len(<<a>>) = 1 /\ <<a>>[1] = a
    BY <1>2, OneIs
  <2>7. MmInit(<<a>>, l.block, l.regions[2]) = <<a>> \o <<h>> \o <<b>>
    <3>1. x # y
      BY <2>2
    <3>. HIDE DEF a, x, y
    <3>. QED  BY <2>4, <2>6, <3>1 DEF MmInit, RegionNode, y
  <2>. HIDE DEF x, y, a, b, e
  <2>8. h \in NodeSet /\ h.offset = x /\ End(h) = y /\ h.type = HOLE
    BY <2>2 DEF Node, NodeSet, HOLE, End
  <2>. HIDE DEF h
  <2>9. /\ Tiles(<<a>>, a.offset, x) /\ Tiles(<<h>>, x, y) /\ Tiles(<<b>>, y, End(b))
        /\ Apart(<<a>>) /\ Apart(<<h>>) /\ Apart(<<b>>)
        /\ <<h>>[1] = h /\ Len(<<h>>) = 1 /\ <<b>>[1] = b /\ Len(<<b>>) = 1 /\ <<h>> # <<>> /\
           <<b>> # <<>>
    BY <1>2, <2>3, <2>4, <2>8, TilesOne, OneIs
  <2>. DEFINE c == <<a>> \o <<h>>
  <2>10. NONE # HOLE
    BY DEF NONE, HOLE
  <2>11. Tiles(c, a.offset, y) /\ Apart(c)
    BY <2>6, <2>8, <2>9, <2>10, TilesConcat
  <2>12. <<a>> \in Seq(NodeSet) /\ <<h>> \in Seq(NodeSet) /\ <<b>> \in Seq(NodeSet)
    BY <2>9 DEF Tiles
  <2>13. Len(c) = 2 /\ c[1] = a /\ c[2] = h /\ c # <<>> /\ c \in Seq(NodeSet)
    <3>1. c[1] = a /\ c[Len(c)] = h /\ Len(c) = 1 + 1 /\ c # <<>> /\ c \in Seq(NodeSet)
      BY <2>6, <2>9, <2>12, ConcatEnds
    <3>. QED  BY <3>1
  <2>. HIDE DEF c
  <2>14. e = c \o <<b>>
    BY <2>5, <2>7 DEF c
  <2>15. Tiles(c \o <<b>>, a.offset, End(b)) /\ Apart(c \o <<b>>)
    BY <2>8, <2>9, <2>10, <2>11, <2>13, TilesConcat
  <2>16. Len(c \o <<b>>) = 3 /\ (c \o <<b>>)[1] = a /\ (c \o <<b>>)[3] = b /\ c \o <<b>> # <<>>
    <3>1. /\ (c \o <<b>>)[1] = a /\ (c \o <<b>>)[Len(c \o <<b>>)] = b /\ c \o <<b>> # <<>>
          /\ Len(c \o <<b>>) = 2 + 1
      BY <2>9, <2>12, <2>13, ConcatEnds
    <3>. QED  BY <3>1
  <2>17. (c \o <<b>>)[2] = h
    <3>1. 2 \in 1 .. Len(c) + Len(<<b>>) /\ 2 <= Len(c)
      BY <2>9, <2>13
    <3>2. (c \o <<b>>)[2] = c[2]
      BY <2>12, <2>13, <3>1, ConcatProperties
    <3>. QED  BY <2>13, <3>2
  <2>. QED  BY <1>5, <2>8, <2>14, <2>15, <2>16, <2>17 DEF a, b, e
<1>. QED  BY <1>4, <1>5, LayoutIs

\* The ends of VRAM are apart, and so are two regions.
LEMMA EndsIs ==
  ASSUME layout \in Layouts
  PROVE  /\ Ends # <<>> /\ Tiles(Ends, Ends[1].offset, End(Ends[Len(Ends)])) /\ Apart(Ends)
         /\ Ends[1].offset < End(Ends[Len(Ends)]) /\ Len(Ends) \in {1, 3}
         /\ \A j \in 1 .. Len(Ends) : Ends[j] \in NodeSet
         /\ DOMAIN Ends = 1 .. Len(Ends)
         /\ Len(Ends) = 1 => Ends[1].type = NONE
         /\ Len(Ends) = 3 =>
              /\ Ends[1].type = NONE /\ Ends[2].type = HOLE /\ Ends[3].type = NONE
              /\ End(Ends[1]) = Ends[2].offset /\ End(Ends[2]) = Ends[3].offset
<1>. DEFINE e == RamCtor(layout)
            c == Len(layout.regions)
<1>1. /\ Tiles(e, e[1].offset, End(e[Len(e)])) /\ Apart(e) /\ e # <<>>
      /\ (Len(e) = 1 /\ c = 1) \/ (Len(e) = 3 /\ c = 2)
      /\ e[1] = RegionNode(layout, 1)
      /\ Len(e) = 3 => e[2].type = HOLE /\ e[3] = RegionNode(layout, 2)
  BY CtorIs
<1>2. RegionNode(layout, 1).type = NONE
  <2>1. 1 \in 1 .. Len(layout.regions)
    BY <1>1
  <2>. QED  BY <2>1, RegionNodeIs
<1>3. Len(e) = 3 => RegionNode(layout, 2).type = NONE
  <2>. SUFFICES ASSUME Len(e) = 3 PROVE RegionNode(layout, 2).type = NONE
    OBVIOUS
  <2>1. c = 2
    <3>. HIDE DEF e, c
    <3>. QED  BY <1>1
  <2>2. 2 \in 1 .. Len(layout.regions)
    BY <2>1
  <2>. QED  BY <2>2, RegionNodeIs
<1>. HIDE DEF e, c
<1>4. e \in Seq(NodeSet) /\ \A i \in 1 .. Len(e) - 1 : End(e[i]) = e[i + 1].offset
  BY <1>1 DEF Tiles
<1>5. DOMAIN e = 1 .. Len(e) /\ \A j \in 1 .. Len(e) : e[j] \in NodeSet
  BY <1>4, LenProperties, ElementOfSeq
<1>6. e[1].offset < End(e[Len(e)])
  <2>1. 1 \in 1 .. Len(e)
    BY <1>1
  <2>2. e[1].offset < End(e[1]) /\ End(e[1]) <= End(e[Len(e)])
    <3>. DEFINE z == End(e[Len(e)])
    <3>1. e[1].offset < End(e[1])
      BY <1>5, <2>1, NodeIs
    <3>2. Tiles(e, e[1].offset, z)
      BY <1>1
    <3>. HIDE DEF z
    <3>3. \A i \in 1 .. Len(e) : End(e[i]) <= z
      BY <3>2, TilesOrder
    <3>. QED  BY <2>1, <3>1, <3>3 DEF z
  <2>3. Len(e) \in 1 .. Len(e)
    BY <1>1
  <2>4. e[1].offset \in Nat /\ End(e[1]) \in Nat /\ End(e[Len(e)]) \in Nat
    BY <1>5, <2>1, <2>3, NodeIs
  <2>. QED  BY <2>2, <2>4
<1>7. Len(e) = 3 => End(e[1]) = e[2].offset /\ End(e[2]) = e[3].offset
  <2>. SUFFICES ASSUME Len(e) = 3 PROVE End(e[1]) = e[2].offset /\ End(e[2]) = e[3].offset
    OBVIOUS
  <2>1. 1 \in 1 .. Len(e) - 1 /\ 2 \in 1 .. Len(e) - 1 /\ 1 + 1 = 2 /\ 2 + 1 = 3
    BY <1>1
  <2>2. End(e[1]) = e[1 + 1].offset /\ End(e[2]) = e[2 + 1].offset
    BY <1>4, <2>1
  <2>. QED  BY <2>1, <2>2
<1>8. Ends = e
  BY DEF Ends, e
<1>. QED  BY <1>1, <1>2, <1>3, <1>5, <1>6, <1>7, <1>8

\* Neighbours that are no hole are of the same region.
LEMMA Neighbours ==
  ASSUME layout \in Layouts, NEW n \in NodeSet, NEW o \in NodeSet, InRegion(n), InRegion(o),
         n.type # HOLE, o.type # HOLE, End(n) = o.offset
  PROVE  /\ n.heap = o.heap
         /\ \A x : /\ x.offset = n.offset /\ End(x) = End(o)
                   /\ x.heap = n.heap /\ x.type # HOLE
                   => InRegion(x)
<1>1. PICK j \in DOMAIN Ends :
        Ends[j].heap = n.heap /\ Ends[j].type # HOLE
          /\ Ends[j].offset <= n.offset /\ End(n) <= End(Ends[j])
  BY DEF InRegion
<1>2. PICK k \in DOMAIN Ends :
        Ends[k].heap = o.heap /\ Ends[k].type # HOLE
          /\ Ends[k].offset <= o.offset /\ End(o) <= End(Ends[k])
  BY DEF InRegion
<1>3. /\ Len(Ends) \in {1, 3} /\ DOMAIN Ends = 1 .. Len(Ends)
      /\ \A i \in 1 .. Len(Ends) : Ends[i] \in NodeSet
      /\ Len(Ends) = 3 =>
           Ends[2].type = HOLE /\ End(Ends[1]) = Ends[2].offset /\ End(Ends[2]) = Ends[3].offset
  BY EndsIs
<1>4. /\ n.offset \in Nat /\ End(n) \in Nat /\ n.offset < End(n)
      /\ o.offset \in Nat /\ End(o) \in Nat /\ o.offset < End(o)
  BY NodeIs
<1>5. j = k
  <2>1. CASE Len(Ends) = 1
    BY <1>1, <1>2, <1>3, <2>1
  <2>2. CASE Len(Ends) = 3
    <3>. DEFINE a == Ends[1]
                h == Ends[2]
                b == Ends[3]
    <3>1. a \in NodeSet /\ h \in NodeSet /\ b \in NodeSet
      BY <1>3, <2>2
    <3>2. End(a) = h.offset /\ End(h) = b.offset /\ h.type = HOLE
      BY <1>3, <2>2
    <3>3. j \in {1, 2, 3} /\ k \in {1, 2, 3}
      BY <1>1, <1>2, <1>3, <2>2
    <3>4. j \in {1, 3} /\ k \in {1, 3}
      BY <1>1, <1>2, <3>2, <3>3
    <3>5. /\ h.offset \in Nat /\ End(h) \in Nat /\ h.offset < End(h)
          /\ End(a) \in Nat /\ b.offset \in Nat
      BY <3>1, NodeIs
    <3>. HIDE DEF a, h, b
    <3>6. CASE j = 1 /\ k = 3
      <4>1. End(n) <= End(a) /\ b.offset <= o.offset
        BY <1>1, <1>2, <3>6 DEF a, b
      <4>. QED  BY <1>4, <3>2, <3>5, <4>1
    <3>7. CASE j = 3 /\ k = 1
      <4>1. End(o) <= End(a) /\ b.offset <= n.offset
        BY <1>1, <1>2, <3>7 DEF a, b
      <4>. QED  BY <1>4, <3>2, <3>5, <4>1
    <3>. QED  BY <3>4, <3>6, <3>7
  <2>. QED  BY <1>3, <2>1, <2>2
<1>6. ASSUME NEW x, x.offset = n.offset, End(x) = End(o), x.heap = n.heap, x.type # HOLE
      PROVE  InRegion(x)
  BY <1>1, <1>2, <1>5, <1>6 DEF InRegion
<1>. QED  BY <1>1, <1>2, <1>5, <1>6

-----------------------------------------------------------------------------
(* Nodes that replace others.                                              *)

\* The nodes from f to l are replaced by parts.
LEMMA Exchange ==
  ASSUME NEW s, NEW a, NEW b, Tiles(s, a, b), NEW f \in 1 .. Len(s), NEW l \in f .. Len(s),
         NEW parts, Tiles(parts, s[f].offset, End(s[l]))
  PROVE  LET x == Before(s, f) \o parts \o Behind(s, l)
         IN  /\ Tiles(x, a, b)
             /\ Range(x) = {s[j] : j \in (1 .. Len(s)) \ (f .. l)} \cup Range(parts)
<1>. DEFINE u == Before(s, f)
            v == Behind(s, l)
            x == u \o parts \o v
<1>1. Len(s) \in Nat /\ s \in Seq(NodeSet) /\ l \in 1 .. Len(s)
  BY LenProperties DEF Tiles
<1>2. Tiles(u, a, s[f].offset) /\ Tiles(v, End(s[l]), b)
  <2>1. Tiles(Before(s, f), a, s[f].offset)
    BY TilesCut
  <2>2. Tiles(Behind(s, l), End(s[l]), b)
    BY <1>1, TilesCut
  <2>. QED  BY <2>1, <2>2
<1>3. Range(u) = {s[j] : j \in 1 .. f - 1} /\ Range(v) = {s[j] : j \in l + 1 .. Len(s)}
  <2>1. Range(Before(s, f)) = {s[j] : j \in 1 .. f - 1}
    BY <1>1, BeforeIs
  <2>2. Range(Behind(s, l)) = {s[j] : j \in l + 1 .. Len(s)}
    BY <1>1, BehindIs
  <2>. QED  BY <2>1, <2>2
<1>. HIDE DEF u, v
<1>4. Tiles(u \o parts, a, End(s[l]))
  BY <1>2, TilesConcat
<1>5. Tiles(x, a, b)
  BY <1>2, <1>4, TilesConcat
<1>6. u \in Seq(NodeSet) /\ v \in Seq(NodeSet) /\ parts \in Seq(NodeSet) /\ u \o parts \in Seq(NodeSet)
  BY <1>2, <1>4 DEF Tiles
<1>7. Range(x) = Range(u) \cup Range(parts) \cup Range(v)
  <2>. DEFINE w == u \o parts
  <2>1. w \in Seq(NodeSet) /\ Range(w) = Range(u) \cup Range(parts) /\ x = w \o v
    BY <1>6, ConcatEnds
  <2>. HIDE DEF w, x
  <2>2. Range(w \o v) = Range(w) \cup Range(v)
    BY <1>6, <2>1, ConcatEnds
  <2>. QED  BY <2>1, <2>2
<1>8. (1 .. Len(s)) \ (f .. l) = (1 .. f - 1) \cup (l + 1 .. Len(s))
  BY <1>1
<1>. HIDE DEF x
<1>9. Range(x) = {s[j] : j \in (1 .. Len(s)) \ (f .. l)} \cup Range(parts)
  <2>1. {s[j] : j \in (1 .. f - 1) \cup (l + 1 .. Len(s))} = Range(u) \cup Range(v)
    BY <1>3
  <2>. QED  BY <1>7, <1>8, <2>1
<1>. QED  BY <1>5, <1>9 DEF x, u, v

LEMMA ExchangeApart ==
  ASSUME NEW s, NEW a, NEW b, Tiles(s, a, b), NEW f \in 1 .. Len(s), NEW l \in f .. Len(s),
         NEW parts, Tiles(parts, s[f].offset, End(s[l])), Apart(s), Apart(parts), parts # <<>>,
         f > 1 => ~(s[f - 1].type = NONE /\ parts[1].type = NONE),
         l < Len(s) => ~(parts[Len(parts)].type = NONE /\ s[l + 1].type = NONE)
  PROVE  Apart(Before(s, f) \o parts \o Behind(s, l))
<1>. DEFINE u == Before(s, f)
            v == Behind(s, l)
            w == u \o parts
<1>1. Len(s) \in Nat /\ s \in Seq(NodeSet) /\ l \in 1 .. Len(s)
  BY LenProperties DEF Tiles
<1>2. Tiles(u, a, s[f].offset) /\ Tiles(v, End(s[l]), b) /\ Apart(u) /\ Apart(v)
  BY <1>1, TilesCut
<1>3. u # <<>> => f > 1 /\ u[Len(u)] = s[f - 1]
  <2>. SUFFICES ASSUME u # <<>> PROVE f > 1 /\ u[Len(u)] = s[f - 1]
    OBVIOUS
  <2>1. u \in Seq(NodeSet) /\ Len(u) = f - 1 /\ \A j \in 1 .. f - 1 : u[j] = s[j]
    BY <1>1, BeforeIs
  <2>2. Len(u) # 0
    BY <2>1, EmptySeq
  <2>. HIDE DEF u
  <2>. QED  BY <2>1, <2>2
<1>4. v # <<>> => l < Len(s) /\ v[1] = s[l + 1]
  <2>. SUFFICES ASSUME v # <<>> PROVE l < Len(s) /\ v[1] = s[l + 1]
    OBVIOUS
  <2>1. v \in Seq(NodeSet) /\ Len(v) = Len(s) - l /\ \A j \in 1 .. Len(s) - l : v[j] = s[l + j]
    BY <1>1, BehindIs
  <2>2. Len(v) # 0
    BY <2>1, EmptySeq
  <2>. HIDE DEF v
  <2>. QED  BY <1>1, <2>1, <2>2
<1>. HIDE DEF u, v
<1>5. Tiles(w, a, End(s[l])) /\ Apart(w)
  BY <1>2, <1>3, TilesConcat
<1>6. w[Len(w)] = parts[Len(parts)]
  <2>1. u \in Seq(NodeSet) /\ parts \in Seq(NodeSet)
    BY <1>2 DEF Tiles
  <2>2. (u \o parts)[Len(u \o parts)] = parts[Len(parts)]
    BY <2>1, ConcatEnds
  <2>. QED  BY <2>2
<1>. HIDE DEF w
<1>7. Apart(w \o v)
  BY <1>2, <1>4, <1>5, <1>6, TilesConcat
<1>. QED  BY <1>7 DEF u, v, w

\* A list of nodes by its nodes.
LEMMA Indices ==
  ASSUME NEW s, NEW a, NEW b, Tiles(s, a, b)
  PROVE  /\ Len(s) \in Nat /\ DOMAIN s = 1 .. Len(s)
         /\ \A i \in 1 .. Len(s) : s[i] \in NodeSet /\ s[i] \in Range(s)
         /\ \A n \in Range(s) : n \in NodeSet /\ \E i \in 1 .. Len(s) : s[i] = n
<1>1. s \in Seq(NodeSet)
  BY DEF Tiles
<1>2. Len(s) \in Nat /\ DOMAIN s = 1 .. Len(s) /\ \A i \in 1 .. Len(s) : s[i] \in NodeSet
  BY <1>1, LenProperties, ElementOfSeq
<1>3. Range(s) = {s[i] : i \in 1 .. Len(s)}
  BY <1>1, RangeEquality
<1>. QED  BY <1>2, <1>3

LEMMA NodesApart ==
  ASSUME NEW s, NEW a, NEW b, Tiles(s, a, b), NEW n \in Range(s), NEW o \in Range(s)
  PROVE  /\ n.offset = o.offset => n = o
         /\ n.offset < o.offset => End(n) <= o.offset
         /\ a <= n.offset /\ End(n) <= b
<1>1. PICK i \in 1 .. Len(s), j \in 1 .. Len(s) : s[i] = n /\ s[j] = o
  BY Indices
<1>2. /\ n.offset \in Nat /\ End(n) \in Nat /\ n.offset < End(n)
      /\ o.offset \in Nat /\ End(o) \in Nat /\ o.offset < End(o)
  BY Indices, NodeIs
<1>3. /\ n.offset < End(o) /\ o.offset < End(n) => i = j
      /\ n.offset < o.offset => i < j
      /\ i < j => End(n) <= o.offset
  BY <1>1, TilesUnique
<1>4. a <= n.offset /\ End(n) <= b
  BY <1>1, TilesOrder
<1>. QED  BY <1>1, <1>2, <1>3, <1>4

\* The index of a node.
Found ==
  \A n \in Range(nodes) : n.type # HOLE => At(n.offset) \in 1 .. Len(nodes) /\ nodes[At(n.offset)] = n

LEMMA FoundNow == NodesInv => Found
<1>. SUFFICES ASSUME NodesInv, NEW n \in Range(nodes), n.type # HOLE
              PROVE  At(n.offset) \in 1 .. Len(nodes) /\ nodes[At(n.offset)] = n
  BY DEF Found
<1>. DEFINE a == Ends[1].offset
            b == End(Ends[Len(Ends)])
<1>1. Tiles(nodes, a, b)
  BY DEF NodesInv
<1>. HIDE DEF a, b
<1>2. DOMAIN nodes = 1 .. Len(nodes) /\ \E i \in 1 .. Len(nodes) : nodes[i] = n
  BY <1>1, Indices
<1>. DEFINE i == At(n.offset)
<1>3. i \in DOMAIN nodes /\ nodes[i].offset = n.offset
  BY <1>2 DEF At
<1>. HIDE DEF i
<1>4. nodes[i] \in Range(nodes)
  BY <1>1, <1>2, <1>3, Indices
<1>5. nodes[i] = n
  BY <1>1, <1>3, <1>4, NodesApart
<1>. QED  BY <1>2, <1>3, <1>5 DEF i

LEMMA FoundNext == NodesInv' => Found'
  BY FoundNow, PTL

-----------------------------------------------------------------------------
(* The parts of a node.                                                    *)

LEMMA NoPart ==
  ASSUME NEW n, NEW from \in Nat, NEW type
  PROVE  /\ Tiles(Part(n, from, from, type), from, from) /\ Apart(Part(n, from, from, type))
         /\ Part(n, from, from, type) \in Seq(NodeSet) /\ Range(Part(n, from, from, type)) = {}
         /\ OffsetOf(from, from) \in Seq(Nat) /\ Rising(OffsetOf(from, from))
         /\ Range(OffsetOf(from, from)) = {}
<1>1. Part(n, from, from, type) = <<>> /\ OffsetOf(from, from) = <<>>
  BY DEF Part, OffsetOf
<1>2. Tiles(<<>>, from, from) /\ Apart(<<>>) /\ <<>> \in Seq(NodeSet)
  <2>1. <<>> \in Seq(NodeSet) /\ Len(<<>>) = 0 /\ 1 .. 0 - 1 = {}
    BY EmptySeq
  <2>. QED  BY <2>1 DEF Tiles, Apart
<1>3. <<>> \in Seq(Nat) /\ Rising(<<>>) /\ Range(<<>>) = {}
  BY RisingNone
<1>. QED  BY <1>1, <1>2, <1>3

Bytes == 0 .. 255

\* The part of a node of heap between from and to.
Piece(from, to, heap, type) == Node(from, to - from, heap, type)

LEMMA NodeOf ==
  ASSUME NEW from \in Nat, NEW to \in Nat, from < to, NEW heap \in Bytes, NEW type \in Bytes
  PROVE  /\ Piece(from, to, heap, type) \in NodeSet
         /\ Piece(from, to, heap, type).offset = from
         /\ Piece(from, to, heap, type).type = type
         /\ Piece(from, to, heap, type).heap = heap
         /\ End(Piece(from, to, heap, type)) = to
  BY DEF Piece, Node, NodeSet, End, Bytes

LEMMA OnePart ==
  ASSUME NEW n \in NodeSet, NEW from \in Nat, NEW to \in Nat, from < to, NEW type \in Bytes
  PROVE  /\ Part(n, from, to, type) = <<Piece(from, to, n.heap, type)>>
         /\ Range(Part(n, from, to, type)) = {Piece(from, to, n.heap, type)}
         /\ Tiles(Part(n, from, to, type), from, to) /\ Apart(Part(n, from, to, type))
         /\ Part(n, from, to, type) \in Seq(NodeSet)
<1>. DEFINE x == Piece(from, to, n.heap, type)
<1>1. Part(n, from, to, type) = <<x>>
  BY DEF Part, Piece
<1>2. n.heap \in Bytes
  BY DEF NodeSet, Bytes
<1>3. x \in NodeSet /\ x.offset = from /\ End(x) = to
  BY <1>2, NodeOf
<1>. HIDE DEF x
<1>4. Tiles(<<x>>, from, to) /\ Apart(<<x>>) /\ Range(<<x>>) = {x} /\ <<x>> \in Seq(NodeSet)
  BY <1>3, TilesOne, OneIs
<1>. QED  BY <1>1, <1>4 DEF x

LEMMA OneOffset ==
  ASSUME NEW from \in Nat, NEW to \in Nat, from < to
  PROVE  /\ OffsetOf(from, to) \in Seq(Nat) /\ Rising(OffsetOf(from, to))
         /\ Range(OffsetOf(from, to)) = {from}
<1>1. OffsetOf(from, to) = <<from>>
  BY DEF OffsetOf
<1>. QED  BY <1>1, RisingOne

\* What is left of a node, if anything is.
LEMMA Rest ==
  ASSUME NEW n \in NodeSet, NEW from \in Nat, NEW to \in Nat, from <= to
  PROVE  /\ Tiles(Part(n, from, to, NONE), from, to) /\ Apart(Part(n, from, to, NONE))
         /\ Part(n, from, to, NONE) \in Seq(NodeSet)
         /\ OffsetOf(from, to) \in Seq(Nat) /\ Rising(OffsetOf(from, to))
         /\ \A x \in Range(Part(n, from, to, NONE)) : x.type = NONE /\ x.heap = n.heap
         /\ {x.offset : x \in Range(Part(n, from, to, NONE))} = Range(OffsetOf(from, to))
         /\ \A y \in Range(OffsetOf(from, to)) : y = from /\ from < to
<1>1. CASE from = to
  BY <1>1, NoPart
<1>2. CASE from < to
  <2>. DEFINE x == Piece(from, to, n.heap, NONE)
              p == Part(n, from, to, NONE)
  <2>1. NONE \in Bytes /\ n.heap \in Bytes
    BY DEF NONE, NodeSet, Bytes
  <2>2. x.offset = from /\ x.type = NONE /\ x.heap = n.heap
    BY <1>2, <2>1, NodeOf
  <2>3. Range(p) = {x} /\ Tiles(p, from, to) /\ Apart(p) /\ p \in Seq(NodeSet)
    BY <1>2, <2>1, OnePart
  <2>4. /\ OffsetOf(from, to) \in Seq(Nat) /\ Rising(OffsetOf(from, to))
        /\ Range(OffsetOf(from, to)) = {from}
    BY <1>2, OneOffset
  <2>. HIDE DEF x, p
  <2>5. (\A y \in Range(p) : y.type = NONE /\ y.heap = n.heap) /\ {y.offset : y \in Range(p)} = {from}
    BY <2>2, <2>3
  <2>. QED  BY <1>2, <2>3, <2>4, <2>5 DEF p
<1>. QED  BY <1>1, <1>2

\* What nvkm_mm_head and nvkm_mm_tail make of a node: what they return and what
\* is left of it.
CutInto(p, o, new, n, type) ==
  /\ Tiles(p, n.offset, End(n)) /\ Apart(p) /\ p # <<>>
  /\ new \in Range(p) /\ new.type = type /\ new.heap = n.heap
  /\ \A x \in Range(p) : x.heap = n.heap /\ (x = new \/ x.type = NONE)
  /\ o \in Seq(Nat) /\ Rising(o)
  /\ Range(o) = {x.offset : x \in {x \in Range(p) : x.type = NONE}}

LEMMA Cut ==
  ASSUME NEW n \in NodeSet, NEW s \in Nat, NEW e \in Nat, n.offset <= s, s < e, e <= End(n),
         NEW type \in Bytes \ {NONE}
  PROVE  CutInto(Part(n, n.offset, s, NONE) \o Part(n, s, e, type) \o Part(n, e, End(n), NONE),
                 OffsetOf(n.offset, s) \o OffsetOf(e, End(n)),
                 Piece(s, e, n.heap, type), n, type)
<1>1. PICK a \in Nat, b \in Nat : a = n.offset /\ b = End(n)
  BY NodeIs
<1>. DEFINE u == Part(n, a, s, NONE)
            v == Part(n, s, e, type)
            w == Part(n, e, b, NONE)
            uv == u \o v
            p == uv \o w
            f == OffsetOf(a, s)
            g == OffsetOf(e, b)
            o == f \o g
            new == Piece(s, e, n.heap, type)
<1>2. a <= s /\ s <= e /\ e <= b /\ NONE \in Bytes
  BY <1>1 DEF NONE, Bytes
<1>3. /\ v = <<new>> /\ Range(v) = {new} /\ Tiles(v, s, e) /\ Apart(v) /\ v \in Seq(NodeSet)
  BY <1>2, OnePart
<1>4. n.heap \in Bytes
  BY DEF NodeSet, Bytes
<1>5. /\ new \in NodeSet /\ new.offset = s /\ End(new) = e /\ new.type = type /\ new.heap = n.heap
  BY <1>4, <1>2, NodeOf
<1>. HIDE DEF new
<1>6. Tiles(u, a, s) /\ Apart(u) /\ u \in Seq(NodeSet) /\ f \in Seq(Nat) /\ Rising(f)
  BY <1>2, Rest
<1>7. Tiles(w, e, b) /\ Apart(w) /\ w \in Seq(NodeSet) /\ g \in Seq(Nat) /\ Rising(g)
  BY <1>2, Rest
<1>8. /\ \A x \in Range(u) : x.type = NONE /\ x.heap = n.heap
      /\ {x.offset : x \in Range(u)} = Range(f)
      /\ \A y \in Range(f) : y = a /\ a < s
  BY <1>2, Rest
<1>9. /\ \A x \in Range(w) : x.type = NONE /\ x.heap = n.heap
      /\ {x.offset : x \in Range(w)} = Range(g)
      /\ \A y \in Range(g) : y = e
  BY <1>2, Rest
<1>. HIDE DEF u, v, w, f, g
<1>10. v[1] = new /\ v[Len(v)] = new /\ v # <<>>
  <2>1. <<new>>[1] = new /\ Len(<<new>>) = 1 /\ <<new>> # <<>>
    BY <1>5, OneIs
  <2>. QED  BY <1>3, <2>1
<1>11. Tiles(uv, a, e) /\ Apart(uv)
  BY <1>2, <1>3, <1>5, <1>6, <1>10, TilesConcat
<1>12. uv \in Seq(NodeSet) /\ Range(uv) = Range(u) \cup {new} /\ uv[Len(uv)] = new /\ uv # <<>>
  <2>1. /\ u \o v \in Seq(NodeSet) /\ Range(u \o v) = Range(u) \cup Range(v)
        /\ (u \o v)[Len(u \o v)] = v[Len(v)] /\ u \o v # <<>>
    <3>1. u \in Seq(NodeSet) /\ v \in Seq(NodeSet) /\ v # <<>>
      BY <1>3, <1>6, <1>10
    <3>. QED  BY <3>1, ConcatEnds
  <2>. QED  BY <1>3, <1>10, <2>1
<1>. HIDE DEF uv
<1>13. Tiles(p, a, b) /\ Apart(p)
  BY <1>2, <1>5, <1>7, <1>11, <1>12, TilesConcat
<1>14. Range(p) = Range(u) \cup {new} \cup Range(w) /\ p # <<>>
  BY <1>7, <1>12, ConcatEnds
<1>15. \A x \in Range(f), y \in Range(g) : x < y
  BY <1>2, <1>8, <1>9
<1>16. o \in Seq(Nat) /\ Rising(o) /\ Range(o) = Range(f) \cup Range(g)
  BY <1>6, <1>7, <1>15, RisingConcat
<1>. HIDE DEF p, o
<1>17. \A x \in Range(p) : x.heap = n.heap /\ (x = new \/ x.type = NONE)
  BY <1>5, <1>8, <1>9, <1>14
<1>18. Range(o) = {x.offset : x \in {x \in Range(p) : x.type = NONE}}
  <2>1. {x \in Range(p) : x.type = NONE} = Range(u) \cup Range(w)
    BY <1>2, <1>5, <1>8, <1>9, <1>14
  <2>2. {x.offset : x \in Range(u) \cup Range(w)} = Range(f) \cup Range(g)
    BY <1>8, <1>9
  <2>. QED  BY <1>16, <2>1, <2>2
<1>19. new \in Range(p)
  BY <1>14
<1>20. Tiles(p, n.offset, End(n))
  BY <1>13, <1>1
<1>21. CutInto(p, o, new, n, type)
  BY <1>5, <1>13, <1>14, <1>16, <1>17, <1>18, <1>19, <1>20 DEF CutInto
<1>. QED  BY <1>1, <1>21, Zenon DEF u, v, w, uv, p, f, g, o, new

\* What a failed allocation may leave.
LEMMA HalfCut ==
  ASSUME NEW n \in NodeSet, NEW cut \in Nat, n.offset < cut, cut < End(n)
  PROVE  LET p == Part(n, n.offset, cut, NONE) \o Part(n, cut, End(n), NONE)
             o == <<n.offset, cut>>
         IN  /\ Tiles(p, n.offset, End(n))
             /\ \A x \in Range(p) : x.heap = n.heap /\ x.type = NONE
             /\ o \in Seq(Nat) /\ Rising(o)
             /\ Range(o) = {x.offset : x \in {x \in Range(p) : x.type = NONE}}
<1>1. PICK a \in Nat, b \in Nat : a = n.offset /\ b = End(n)
  BY NodeIs
<1>. DEFINE u == Part(n, a, cut, NONE)
            w == Part(n, cut, b, NONE)
            p == u \o w
            o == <<a, cut>>
            first == Piece(a, cut, n.heap, NONE)
            last == Piece(cut, b, n.heap, NONE)
<1>2. a < cut /\ cut < b /\ NONE \in Bytes
  BY <1>1 DEF NONE, Bytes
<1>3. n.heap \in Bytes
  BY DEF NodeSet, Bytes
<1>4. first.offset = a /\ first.type = NONE /\ first.heap = n.heap /\ End(first) = cut
  BY <1>3, <1>2, NodeOf
<1>5. last.offset = cut /\ last.type = NONE /\ last.heap = n.heap
  BY <1>3, <1>2, NodeOf
<1>6. Tiles(u, a, cut) /\ u \in Seq(NodeSet) /\ Range(u) = {first}
  BY <1>2, OnePart
<1>7. Tiles(w, cut, b) /\ w \in Seq(NodeSet) /\ Range(w) = {last}
  BY <1>2, OnePart
<1>. HIDE DEF first, last
<1>. HIDE DEF u, w
<1>8. Tiles(p, a, b)
  BY <1>6, <1>7, TilesConcat
<1>9. Range(p) = {first, last}
  <2>1. Range(u \o w) = Range(u) \cup Range(w)
    BY <1>6, <1>7, ConcatEnds
  <2>. QED  BY <1>6, <1>7, <2>1
<1>10. o \in Seq(Nat) /\ Len(o) = 2 /\ o[1] = a /\ o[2] = cut
  BY <1>2
<1>11. Range(o) = {a, cut}
  <2>1. Range(o) = {o[j] : j \in 1 .. 2}
    BY <1>10, RangeEquality
  <2>2. 1 .. 2 = {1, 2}
    OBVIOUS
  <2>. HIDE DEF o
  <2>. QED  BY <1>10, <2>1, <2>2
<1>. HIDE DEF p, o
<1>12. Rising(o)
  <2>1. \A j, k \in 1 .. 2 : j < k => j = 1 /\ k = 2
    OBVIOUS
  <2>. QED  BY <1>2, <1>10, <2>1 DEF Rising
<1>13. {x \in Range(p) : x.type = NONE} = {first, last}
  BY <1>4, <1>5, <1>9
<1>14. {x.offset : x \in {first, last}} = {a, cut}
  BY <1>4, <1>5
<1>15. \A x \in Range(p) : x.heap = n.heap /\ x.type = NONE
  BY <1>4, <1>5, <1>9
<1>16. Range(o) = {x.offset : x \in {x \in Range(p) : x.type = NONE}}
  BY <1>11, <1>13, <1>14
<1>17. /\ Tiles(p, a, b)
       /\ \A x \in Range(p) : x.heap = n.heap /\ x.type = NONE
       /\ o \in Seq(Nat) /\ Rising(o)
       /\ Range(o) = {x.offset : x \in {x \in Range(p) : x.type = NONE}}
  BY <1>8, <1>10, <1>12, <1>15, <1>16
<1>. QED  BY <1>17, <1>1, Zenon DEF u, w, p, o

-----------------------------------------------------------------------------
(* What a request finds.                                                   *)

LEMMA MinOf ==
  ASSUME NEW x \in Int, NEW y \in Int
  PROVE  Min({x, y}) = IF x <= y THEN x ELSE y
  BY DEF Min

\* What nvkm_mm_head and nvkm_mm_tail take of a window.
FromHead(from, to, align, max, s, room, size) ==
  /\ s = RoundUp(from, align)
  /\ room = RoundDown(to, align) - s /\ size = Min({max, room})
FromTail(from, to, align, max, s, room, size) ==
  /\ room = to - RoundUp(from, align) /\ size = Min({max, room})
  /\ s = RoundDown(to - size, align)

LEMMA FromHeadIs ==
  ASSUME NEW from \in Nat, NEW to \in Nat, NEW align \in Nat \ {0},
         NEW max \in Nat \ {0}, max % align = 0,
         NEW min \in Nat \ {0}, NEW s, NEW room, NEW size,
         FromHead(from, to, align, max, s, room, size), room >= min
  PROVE  /\ s \in Nat /\ size \in Nat \ {0} /\ size <= max /\ s % align = 0 /\ size % align = 0
         /\ from <= s /\ s + size <= to /\ (min = max => size = max)
<1>1. s = RoundUp(from, align) /\ room = RoundDown(to, align) - s /\ size = Min({max, room})
  BY DEF FromHead
<1>. DEFINE e == RoundDown(to, align)
<1>2. s \in Nat /\ from <= s /\ s % align = 0
  BY <1>1, RoundUpIs
<1>3. e \in Nat /\ e <= to /\ e % align = 0 /\ room = e - s
  BY <1>1, RoundDownIs
<1>. HIDE DEF e
<1>4. room \in Nat /\ s < e
  BY <1>2, <1>3
<1>5. room % align = 0
  <2>1. s <= e
    BY <1>2, <1>3, <1>4
  <2>2. (e - s) % align = 0
    BY <1>2, <1>3, <2>1, MultipleBetween
  <2>. QED  BY <1>3, <2>2
<1>6. size = IF max <= room THEN max ELSE room
  BY <1>1, <1>4, MinOf
<1>7. size % align = 0
  BY <1>5, <1>6
<1>8. size \in Nat \ {0} /\ size <= max /\ size <= room /\ (min = max => size = max)
  BY <1>4, <1>6
<1>9. s + size <= to
  BY <1>2, <1>3, <1>8
<1>. QED  BY <1>2, <1>7, <1>8, <1>9

LEMMA FromTailIs ==
  ASSUME NEW from \in Nat, NEW to \in Nat, NEW align \in Nat \ {0},
         NEW max \in Nat \ {0}, max % align = 0,
         NEW s, NEW room, NEW size, FromTail(from, to, align, max, s, room, size), room >= max
  PROVE  /\ s \in Nat /\ size = max /\ s % align = 0 /\ from <= s /\ s + size <= to
<1>1. room = to - RoundUp(from, align) /\ size = Min({max, room}) /\ s = RoundDown(to - size, align)
  BY DEF FromTail
<1>. DEFINE u == RoundUp(from, align)
<1>2. u \in Nat /\ from <= u /\ u % align = 0
  BY RoundUpIs
<1>. HIDE DEF u
<1>3. room = to - u /\ room \in Nat
  BY <1>1, <1>2 DEF u
<1>4. size = max
  BY <1>1, <1>3, MinOf
<1>. DEFINE x == to - size
<1>5. x \in Nat /\ u <= x
  BY <1>2, <1>3, <1>4
<1>. HIDE DEF x
<1>6. s = RoundDown(x, align)
  BY <1>1 DEF x
<1>7. s \in Nat /\ s <= x /\ s % align = 0 /\ u <= s
  BY <1>2, <1>5, <1>6, RoundDownIs
<1>8. from <= s /\ s + size <= to
  BY <1>2, <1>4, <1>5, <1>7 DEF x
<1>. QED  BY <1>4, <1>7, <1>8

LEMMA WindowIs ==
  ASSUME NodesInv, NEW i \in 1 .. Len(nodes), NEW type
  PROVE  LET w == Window(i, type)
         IN  /\ w.s \in Nat /\ w.e \in Nat /\ nodes[i].offset <= w.s /\ w.e <= End(nodes[i])
             /\ i > 1 /\ nodes[i - 1].type # type => w.s % layout.block = 0
             /\ i < Len(nodes) /\ nodes[i + 1].type # type => w.e % layout.block = 0
<1>. DEFINE n == nodes[i]
            b == layout.block
            before == i - 1 \in DOMAIN nodes /\ nodes[i - 1].type # type
            after == i + 1 \in DOMAIN nodes /\ nodes[i + 1].type # type
            s == IF before THEN RoundUp(n.offset, b) ELSE n.offset
            e == IF after THEN RoundDown(End(n), b) ELSE End(n)
<1>1. Len(nodes) \in Nat /\ DOMAIN nodes = 1 .. Len(nodes) /\ n \in NodeSet
  BY Indices DEF NodesInv
<1>2. n.offset \in Nat /\ End(n) \in Nat
  BY <1>1, NodeIs
<1>3. b \in Nat \ {0}
  BY LayoutIs DEF NodesInv
<1>4. Window(i, type) = [s |-> s, e |-> e]
  BY DEF Window
<1>5. i > 1 /\ nodes[i - 1].type # type => before
  BY <1>1
<1>6. i < Len(nodes) /\ nodes[i + 1].type # type => after
  BY <1>1
<1>. HIDE DEF n, b, before, after
<1>7. s \in Nat /\ n.offset <= s /\ (before => s % b = 0)
  <2>. DEFINE x == n.offset
              y == RoundUp(x, b)
  <2>. HIDE DEF x
  <2>1. y \in Nat /\ x <= y /\ y % b = 0
    BY <1>2, <1>3, RoundUpIs DEF x
  <2>. HIDE DEF y
  <2>2. s = IF before THEN y ELSE x
    BY DEF x, y
  <2>. QED  BY <1>2, <2>1, <2>2 DEF x
<1>8. e \in Nat /\ e <= End(n) /\ (after => e % b = 0)
  <2>. DEFINE x == End(n)
              y == RoundDown(x, b)
  <2>. HIDE DEF x
  <2>1. y \in Nat /\ y <= x /\ y % b = 0
    BY <1>2, <1>3, RoundDownIs DEF x
  <2>. HIDE DEF y
  <2>2. e = IF after THEN y ELSE x
    BY DEF x, y
  <2>. QED  BY <1>2, <2>1, <2>2 DEF x
<1>. HIDE DEF s, e
<1>9. Window(i, type).s = s /\ Window(i, type).e = e
  BY <1>4
<1>. QED  BY <1>5, <1>6, <1>7, <1>8, <1>9 DEF n, b

\* A request, and what of it is left to find.
Asked(r, max) ==
  /\ r \in Reqs /\ r.min \in {r.size, r.align} /\ (r.back => r.min = r.size)
  /\ max \in Nat \ {0} /\ max % r.align = 0 /\ (r.min = r.size => max = r.size)

LEMMA TakeIs ==
  ASSUME NodesInv, NEW i \in 1 .. Len(nodes), NEW r, NEW max, Asked(r, max), Fits(i, r, max)
  PROVE  LET t == Take(i, r, max)
             w == Window(i, r.type)
         IN  /\ t.s \in Nat /\ t.size \in Nat \ {0} /\ t.size <= max
             /\ t.s % r.align = 0 /\ t.size % r.align = 0 /\ (r.min = r.size => t.size = max)
             /\ w.s <= t.s /\ t.s + t.size <= w.e
             /\ r.heap \in {ANY, nodes[i].heap}
<1>. DEFINE w == Window(i, r.type)
            t == Take(i, r, max)
<1>1. PICK from \in Nat, to \in Nat : from = w.s /\ to = w.e
  BY WindowIs
<1>2. /\ r.align \in Nat \ {0} /\ r.min \in Nat \ {0} /\ r.back \in BOOLEAN
      /\ max \in Nat \ {0} /\ max % r.align = 0 /\ (r.min = r.size => max = r.size) /\
         (r.back => r.min = r.size)
  BY DEF Asked, Reqs
<1>3. PICK align \in Nat \ {0}, min \in Nat \ {0} : align = r.align /\ min = r.min
  BY <1>2
<1>4. r.heap \in {ANY, nodes[i].heap} /\ t.room >= r.min
  BY DEF Fits
<1>. HIDE DEF w
<1>5. CASE ~r.back
  <2>. DEFINE s == RoundUp(w.s, r.align)
              room == RoundDown(w.e, r.align) - s
              size == Min({max, room})
  <2>1. t = [s |-> s, room |-> room, size |-> size]
    BY <1>5 DEF Take, HeadTake, w
  <2>. HIDE DEF t
  <2>2. t.s = RoundUp(w.s, r.align) /\ t.room = RoundDown(w.e, r.align) - t.s /\
        t.size = Min({max, t.room})
    BY <2>1
  <2>. HIDE DEF s, room, size
  <2>. DEFINE x == t.s
              y == t.room
              z == t.size
  <2>3. FromHead(from, to, align, max, x, y, z) /\ y >= min
    BY <1>1, <1>4, <1>3, <2>2 DEF FromHead
  <2>. HIDE DEF x, y, z
  <2>4. max % align = 0
    BY <1>2, <1>3
  <2>5. /\ x \in Nat /\ z \in Nat \ {0} /\ z <= max /\ x % align = 0 /\ z % align = 0
        /\ from <= x /\ x + z <= to /\ (min = max => z = max)
    BY <1>2, <2>3, <2>4, FromHeadIs
  <2>. QED  BY <1>1, <1>2, <1>4, <1>3, <2>5 DEF x, z, w, t
<1>6. CASE r.back
  <2>. DEFINE room == w.e - RoundUp(w.s, r.align)
              size == Min({max, room})
              s == RoundDown(w.e - size, r.align)
  <2>1. t = [s |-> s, room |-> room, size |-> size]
    BY <1>6 DEF Take, TailTake, w
  <2>. HIDE DEF t
  <2>2. t.room = w.e - RoundUp(w.s, r.align) /\ t.size = Min({max, t.room}) /\
        t.s = RoundDown(w.e - t.size, r.align)
    BY <2>1
  <2>. HIDE DEF s, room, size
  <2>. DEFINE x == t.s
              y == t.room
              z == t.size
  <2>3. FromTail(from, to, align, max, x, y, z) /\ y >= max
    BY <1>1, <1>2, <1>4, <1>6, <1>3, <2>2 DEF FromTail
  <2>. HIDE DEF x, y, z
  <2>4. max % align = 0
    BY <1>2, <1>3
  <2>5. x \in Nat /\ z = max /\ x % align = 0 /\ from <= x /\ x + z <= to
    BY <1>2, <2>3, <2>4, FromTailIs
  <2>. QED  BY <1>1, <1>2, <1>4, <1>3, <2>5, <2>4 DEF x, z, w, t
<1>. QED  BY <1>2, <1>5, <1>6

LEMMA FitIs ==
  ASSUME NodesInv, FreeInv, NEW r, NEW max, FirstFit(r, max) # 0
  PROVE  LET k == FirstFit(r, max)
             i == At(free[k])
         IN  /\ k \in 1 .. Len(free) /\ i \in 1 .. Len(nodes) /\ nodes[i].offset = free[k]
             /\ nodes[i].type = NONE /\ Fits(i, r, max)
<1>. DEFINE k == FirstFit(r, max)
            i == At(free[k])
            K == {j \in 1 .. Len(free) : Fits(At(free[j]), r, max)}
<1>1. free \in Seq(Nat) /\ Len(free) \in Nat
  BY LenProperties DEF FreeInv
<1>2. k = 0 \/ k \in K
  <2>1. CASE r.back
    <3>1. k = IF K # {} THEN Max(K) ELSE 0
      BY <2>1 DEF FirstFit, SelectLastInSeq
    <3>. HIDE DEF k
    <3>2. K # {} => Max(K) \in K
      BY <1>1, GreatestEntry
    <3>. QED  BY <3>1, <3>2
  <2>2. CASE ~r.back
    <3>1. k = IF K # {} THEN Min(K) ELSE 0
      BY <2>2 DEF FirstFit, SelectInSeq
    <3>. HIDE DEF k
    <3>2. K # {} => Min(K) \in K
      BY <1>1, LeastEntry
    <3>. QED  BY <3>1, <3>2
  <2>. QED  BY <2>1, <2>2
<1>3. k \in K
  BY <1>2
<1>. HIDE DEF k
<1>4. k \in 1 .. Len(free) /\ Fits(i, r, max)
  BY <1>3
<1>5. free[k] \in Range(free)
  BY <1>1, <1>4, RangeEquality
<1>6. PICK n \in Range(nodes) : n.type = NONE /\ n.offset = free[k]
  BY <1>5 DEF FreeInv
<1>7. n.type # HOLE
  BY <1>6 DEF NONE, HOLE
<1>8. At(n.offset) \in 1 .. Len(nodes) /\ nodes[At(n.offset)] = n
  BY <1>7, FoundNow DEF Found
<1>9. i \in 1 .. Len(nodes) /\ nodes[i] = n
  BY <1>6, <1>8
<1>. QED  BY <1>4, <1>6, <1>9 DEF k

\* Node i, the k-th of the free list, is split.
LEMMA SplitIs ==
  ASSUME NodesInv, FreeInv, UNCHANGED layout, NEW i \in 1 .. Len(nodes), NEW k \in 1 .. Len(free),
         nodes[i].offset = free[k], nodes[i].type = NONE, NEW parts, NEW offsets,
         Tiles(parts, nodes[i].offset, End(nodes[i])),
         \A x \in Range(parts) : x.heap = nodes[i].heap /\ x.type # HOLE,
         offsets \in Seq(Nat), Rising(offsets),
         Range(offsets) = {x.offset : x \in {x \in Range(parts) : x.type = NONE}},
         Split(i, k, parts, offsets)
  PROVE  /\ NodesInv' /\ FreeInv'
         /\ Range(nodes') = (Range(nodes) \ {nodes[i]}) \cup Range(parts)
         /\ \A x \in Range(parts) : nodes[i].offset <= x.offset /\ End(x) <= End(nodes[i])
<1>. DEFINE a == Ends[1].offset
            b == End(Ends[Len(Ends)])
            n == nodes[i]
<1>1. Tiles(nodes, a, b) /\ layout \in Layouts
  BY DEF NodesInv
<1>2. Ends' = Ends
  BY DEF Ends
<1>. HIDE DEF a, b
<1>3. nodes' = Before(nodes, i) \o parts \o Behind(nodes, i)
  BY DEF Split, Before, Behind
<1>4. i \in i .. i
  OBVIOUS
<1>5. /\ Tiles(nodes', a, b)
      /\ Range(nodes') = {nodes[j] : j \in (1 .. Len(nodes)) \ (i .. i)} \cup Range(parts)
  BY <1>1, <1>3, <1>4, Exchange
<1>6. /\ Len(nodes) \in Nat /\ \A j \in 1 .. Len(nodes) : nodes[j] \in Range(nodes)
      /\ \A x \in Range(nodes) : \E j \in 1 .. Len(nodes) : nodes[j] = x
  BY <1>1, Indices
<1>7. \A j \in 1 .. Len(nodes) : nodes[j] = n => j = i
  <2>. SUFFICES ASSUME NEW j \in 1 .. Len(nodes), nodes[j] = n PROVE j = i
    OBVIOUS
  <2>1. nodes[j] \in NodeSet
    BY <1>1, Indices
  <2>2. nodes[j].offset < End(n) /\ n.offset < End(nodes[j])
    BY <2>1, NodeIs
  <2>. QED  BY <1>1, <2>2, TilesUnique
<1>8. i .. i = {i}
  BY <1>6
<1>. HIDE DEF n
<1>9. {nodes[j] : j \in (1 .. Len(nodes)) \ (i .. i)} = Range(nodes) \ {n}
  BY <1>6, <1>7, <1>8 DEF n
<1>10. Range(nodes') = (Range(nodes) \ {n}) \cup Range(parts)
  BY <1>5, <1>9
<1>11. n \in Range(nodes) /\ InRegion(n) /\ n.type = NONE
  BY <1>6 DEF n, NodesInv
<1>12. \A x \in Range(parts) : n.offset <= x.offset /\ End(x) <= End(n)
  BY Indices, TilesOrder DEF n
<1>13. \A x \in Range(parts) : x \in NodeSet
  BY Indices
<1>14. n \in NodeSet
  BY <1>1, <1>11, Indices
<1>15. ASSUME NEW x \in Range(parts) PROVE InRegion(x) /\ x.type # HOLE
  <2>1. /\ x.heap = n.heap /\ x.type # HOLE /\ n.type # HOLE
        /\ n.offset <= x.offset /\ End(x) <= End(n)
    BY <1>11, <1>12 DEF n, NONE, HOLE
  <2>2. PICK j \in DOMAIN Ends :
          Ends[j].heap = n.heap /\ Ends[j].type # HOLE
            /\ Ends[j].offset <= n.offset /\ End(n) <= End(Ends[j])
    BY <1>11, <2>1 DEF InRegion
  <2>3. Ends[j] \in NodeSet
    BY <1>1, EndsIs
  <2>4. Ends[j].offset \in Nat /\ End(Ends[j]) \in Nat /\ n.offset \in Nat /\ End(n) \in Nat
        /\ x.offset \in Nat /\ End(x) \in Nat
    BY <1>13, <1>14, <2>3, NodeIs
  <2>5. Ends[j].offset <= x.offset /\ End(x) <= End(Ends[j])
    BY <2>1, <2>2, <2>4
  <2>. QED  BY <2>1, <2>2, <2>5 DEF InRegion
<1>16. NodesInv'
  <2>1. \A x \in Range(nodes') : InRegion(x) /\ (x.type = HOLE => x \in Range(Ends))
    BY <1>10, <1>15 DEF NodesInv
  <2>2. \A x : InRegion(x)' <=> InRegion(x)
    BY <1>2 DEF InRegion
  <2>. QED  BY <1>1, <1>2, <1>5, <2>1, <2>2 DEF NodesInv, a, b
<1>17. FreeInv'
  <2>1. free' = Before(free, k) \o offsets \o Behind(free, k)
    BY DEF Split, Before, Behind
  <2>2. free \in Seq(Nat) /\ Rising(free) /\
        Range(free) = {x.offset : x \in {x \in Range(nodes) : x.type = NONE}}
    BY DEF FreeInv
  <2>3. \A x \in Range(offsets), y \in Range(free) : (y < free[k] => y < x) /\ (y > free[k] => x < y)
    <3>. SUFFICES ASSUME NEW x \in Range(parts), NEW y \in Range(nodes)
                  PROVE  /\ y.offset < n.offset => y.offset < x.offset
                         /\ y.offset > n.offset => x.offset < y.offset
      BY <2>2 DEF n
    <3>1. y \in NodeSet /\ x \in NodeSet
      BY <1>1, <1>13, Indices
    <3>2. /\ y.offset \in Nat /\ End(y) \in Nat /\ y.offset < End(y)
          /\ x.offset \in Nat /\ End(x) \in Nat /\ x.offset < End(x)
          /\ n.offset \in Nat /\ End(n) \in Nat
      BY <1>14, <3>1, NodeIs
    <3>3. n.offset < y.offset => End(n) <= y.offset
      BY <1>1, <1>11, NodesApart
    <3>. QED  BY <1>12, <3>2, <3>3
  <2>. DEFINE f == Before(free, k) \o offsets \o Behind(free, k)
  <2>4. f \in Seq(Nat) /\ Rising(f) /\ Range(f) = (Range(free) \ {free[k]}) \cup Range(offsets)
    BY <2>2, <2>3, RisingSplit
  <2>. HIDE DEF f
  <2>5. \A x \in Range(nodes) : x.offset = n.offset => x = n
    BY <1>1, <1>11, NodesApart
  <2>6. Range(free) \ {free[k]} = {x.offset : x \in {x \in Range(nodes) \ {n} : x.type = NONE}}
    BY <2>2, <2>5 DEF n
  <2>7. Range(f) = {x.offset : x \in {x \in Range(nodes') : x.type = NONE}}
    BY <1>10, <2>4, <2>6
  <2>. QED  BY <2>1, <2>4, <2>7 DEF FreeInv, f
<1>. QED  BY <1>10, <1>12, <1>16, <1>17 DEF n

-----------------------------------------------------------------------------
(* The size of a memory.                                                   *)

Index == [o \in Nat |-> At(o)]

IndexInv ==
  /\ \A n \in Range(nodes) : n.type # HOLE => nodes[Index[n.offset]] = n
  /\ \A m \in Mems : Lengths(m) = [j \in DOMAIN mem[m].mn |-> nodes[Index[mem[m].mn[j]]].length]

LEMMA IndexNow == NodesInv /\ MemInv => IndexInv
<1>. SUFFICES ASSUME NodesInv, MemInv PROVE IndexInv
  OBVIOUS
<1>1. ASSUME NEW n \in Range(nodes), n.type # HOLE PROVE nodes[Index[n.offset]] = n
  <2>1. n.offset \in Nat
    BY Indices, NodeIs DEF NodesInv
  <2>2. nodes[At(n.offset)] = n
    BY <1>1, FoundNow DEF Found
  <2>. QED  BY <2>1, <2>2 DEF Index
<1>2. ASSUME NEW m \in Mems
      PROVE  Lengths(m) = [j \in DOMAIN mem[m].mn |-> nodes[Index[mem[m].mn[j]]].length]
  <2>1. mem[m].mn \in Seq(Nat)
    BY DEF MemInv
  <2>. DEFINE c == mem[m].mn
  <2>2. \A j \in DOMAIN c : c[j] \in Nat
    BY <2>1, ElementOfSeq, LenProperties
  <2>3. Lengths(m) = [j \in DOMAIN c |-> nodes[At(c[j])].length]
    BY DEF Lengths
  <2>. HIDE DEF c
  <2>4. \A j \in DOMAIN c : Index[c[j]] = At(c[j])
    BY <2>2 DEF Index
  <2>. QED  BY <2>3, <2>4 DEF c
<1>. QED  BY <1>1, <1>2 DEF IndexInv

LEMMA IndexNext == NodesInv' /\ MemInv' => IndexInv'
  BY IndexNow, PTL

LEMMA LengthsIs ==
  ASSUME IndexInv, NEW m \in Mems, mem[m].mn \in Seq(Nat),
         \A o \in Held(m) : \E n \in Range(nodes) : n.offset = o /\ n.type # HOLE /\ n \in NodeSet
  PROVE  /\ Lengths(m) \in Seq(Nat) /\ Len(Lengths(m)) = Len(mem[m].mn)
         /\ \A j \in 1 .. Len(mem[m].mn) : Lengths(m)[j] = nodes[Index[mem[m].mn[j]]].length
         /\ Total(m) \in Nat
<1>. DEFINE c == mem[m].mn
            v == Lengths(m)
<1>1. c \in Seq(Nat) /\ Len(c) \in Nat /\ DOMAIN c = 1 .. Len(c)
  BY LenProperties
<1>2. v = [j \in 1 .. Len(c) |-> nodes[Index[c[j]]].length]
  BY <1>1 DEF IndexInv
<1>3. \A j \in 1 .. Len(c) : c[j] \in Held(m)
  BY <1>1, RangeEquality DEF Held
<1>. HIDE DEF v, c
<1>4. ASSUME NEW j \in 1 .. Len(c) PROVE nodes[Index[c[j]]].length \in Nat
  <2>1. PICK n \in Range(nodes) : n.offset = c[j] /\ n.type # HOLE /\ n \in NodeSet
    BY <1>3
  <2>2. nodes[Index[n.offset]] = n
    BY <2>1 DEF IndexInv
  <2>3. n.length \in Nat
    BY <2>1 DEF NodeSet
  <2>. QED  BY <2>1, <2>2, <2>3
<1>5. v \in Seq(Nat) /\ Len(v) = Len(c) /\ \A j \in 1 .. Len(c) : v[j] = nodes[Index[c[j]]].length
  BY <1>1, <1>2, <1>4, SeqDef, LenProperties
<1>6. Total(m) \in Nat
  <2>1. PICK f : Sums(v, Len(v), f)
    BY <1>5, SumsExist
  <2>2. f \in [0 .. Len(v) -> Nat] /\ Len(v) \in 0 .. Len(v)
    BY <1>1, <1>5, <2>1 DEF Sums
  <2>3. SumOf(v) = f[Len(v)]
    BY <1>5, <2>1, SumIs
  <2>. QED  BY <2>2, <2>3 DEF Total, v
<1>. QED  BY <1>5, <1>6 DEF v, c

LEMMA TotalKept ==
  ASSUME IndexInv, IndexInv', NEW m \in Mems, mem[m].mn \in Seq(Nat), mem'[m].mn = mem[m].mn,
         \A o \in Held(m) :
           \E n \in Range(nodes) : n.offset = o /\ n.type # HOLE /\ n \in Range(nodes')
  PROVE  Total(m)' = Total(m)
<1>. DEFINE c == mem[m].mn
<1>1. c \in Seq(Nat) /\ Len(c) \in Nat /\ DOMAIN c = 1 .. Len(c)
  BY LenProperties
<1>2. Lengths(m) = [j \in 1 .. Len(c) |-> nodes[Index[c[j]]].length]
  BY <1>1 DEF IndexInv
<1>3. Lengths(m)' = [j \in 1 .. Len(c) |-> nodes'[Index'[c[j]]].length]
  BY <1>1 DEF IndexInv
<1>4. \A j \in 1 .. Len(c) : c[j] \in Held(m)
  BY <1>1, RangeEquality DEF Held
<1>. HIDE DEF c
<1>5. ASSUME NEW j \in 1 .. Len(c) PROVE nodes'[Index'[c[j]]] = nodes[Index[c[j]]]
  <2>1. PICK n \in Range(nodes) : n.offset = c[j] /\ n.type # HOLE /\ n \in Range(nodes')
    BY <1>4
  <2>2. nodes[Index[n.offset]] = n /\ nodes'[Index'[n.offset]] = n
    BY <2>1 DEF IndexInv
  <2>. QED  BY <2>1, <2>2
<1>6. Lengths(m)' = Lengths(m)
  BY <1>2, <1>3, <1>5
<1>. QED  BY <1>6 DEF Total, SumOf

LEMMA TotalAppend ==
  ASSUME IndexInv, IndexInv', NEW m \in Mems, mem[m].mn \in Seq(Nat),
         NEW new \in Range(nodes'), new.type # HOLE,
         new.offset \in Nat, new.length \in Nat, mem'[m].mn = Append(mem[m].mn, new.offset),
         \A o \in Held(m) :
           \E n \in Range(nodes) : /\ n.offset = o /\ n.type # HOLE /\ n \in NodeSet
                                   /\ n \in Range(nodes')
  PROVE  Total(m)' = Total(m) + new.length
<1>. DEFINE c == mem[m].mn
            d == Append(c, new.offset)
            v == Lengths(m)
            x == new.length
<1>1. c \in Seq(Nat) /\ Len(c) \in Nat
  BY LenProperties
<1>2. d \in Seq(Nat) /\ Len(d) = Len(c) + 1 /\ d[Len(c) + 1] = new.offset /\
      \A j \in 1 .. Len(c) : d[j] = c[j]
  BY <1>1, AppendProperties
<1>3. DOMAIN d = 1 .. Len(c) + 1
  BY <1>1, <1>2, LenProperties
<1>4. v \in Seq(Nat) /\ Len(v) = Len(c) /\ \A j \in 1 .. Len(c) : v[j] = nodes[Index[c[j]]].length
  BY LengthsIs
<1>5. Lengths(m)' = [j \in 1 .. Len(c) + 1 |-> nodes'[Index'[d[j]]].length]
  <2>. DEFINE f == mem'[m].mn
  <2>1. Lengths(m)' = [j \in DOMAIN f |-> nodes'[Index'[f[j]]].length]
    BY DEF IndexInv
  <2>2. f = d
    OBVIOUS
  <2>. HIDE DEF f, d
  <2>. QED  BY <1>3, <2>1, <2>2
<1>6. \A j \in 1 .. Len(c) : c[j] \in Held(m)
  BY <1>1, RangeEquality DEF Held
<1>. HIDE DEF c, d, v, x
<1>7. ASSUME NEW j \in 1 .. Len(c) PROVE nodes'[Index'[d[j]]].length = v[j]
  <2>1. PICK n \in Range(nodes) : n.offset = c[j] /\ n.type # HOLE /\ n \in Range(nodes')
    BY <1>6
  <2>2. nodes[Index[n.offset]] = n /\ nodes'[Index'[n.offset]] = n
    BY <2>1 DEF IndexInv
  <2>3. d[j] = c[j]
    BY <1>2
  <2>4. v[j] = nodes[Index[c[j]]].length
    BY <1>4
  <2>. QED  BY <2>1, <2>2, <2>3, <2>4
<1>8. nodes'[Index'[d[Len(c) + 1]]].length = x
  <2>1. nodes'[Index'[new.offset]] = new
    BY DEF IndexInv
  <2>. QED  BY <1>2, <2>1 DEF x
<1>. DEFINE w == Append(v, x)
<1>9. x \in Nat
  BY DEF x
<1>10. w \in Seq(Nat) /\ Len(w) = Len(c) + 1 /\ w[Len(c) + 1] = x /\ \A j \in 1 .. Len(c) : w[j] = v[j]
  BY <1>4, <1>9, AppendProperties
<1>11. w = [j \in 1 .. Len(c) + 1 |-> w[j]]
  <2>1. w \in [1 .. Len(w) -> Nat]
    BY <1>10, LenProperties
  <2>. HIDE DEF w
  <2>. QED  BY <1>10, <2>1
<1>. HIDE DEF w
<1>12. \A j \in 1 .. Len(c) + 1 : nodes'[Index'[d[j]]].length = w[j]
  <2>1. \A j \in 1 .. Len(c) + 1 : j \in 1 .. Len(c) \/ j = Len(c) + 1
    BY <1>1
  <2>. QED  BY <1>7, <1>8, <1>10, <2>1
<1>13. Lengths(m)' = w
  BY <1>5, <1>11, <1>12
<1>14. SumOf(w) = SumOf(v) + x
  BY <1>4, <1>9, SumAppend DEF w
<1>15. Total(m)' = SumOf(Lengths(m)')
  BY DEF Total, SumOf
<1>. QED  BY <1>13, <1>14, <1>15 DEF Total, v, x

-----------------------------------------------------------------------------
(* Steps that leave what is in use alone.                                  *)

LEMMA MemIs ==
  ASSUME MemInv, NEW m \in Mems
  PROVE  /\ mem[m].st \in States /\ mem[m].mn \in Seq(Nat) /\ mem[m].left \in Nat
         /\ mem[m].req \in Reqs \cup {NoReq} /\ Held(m) \in SUBSET Nat
         /\ mem[m].mn = <<>> => Held(m) = {}
         /\ \A o \in Held(m) : \E j \in 1 .. Len(mem[m].mn) : mem[m].mn[j] = o
         /\ \A j \in 1 .. Len(mem[m].mn) : mem[m].mn[j] \in Held(m)
         /\ DOMAIN mem[m].mn = 1 .. Len(mem[m].mn) /\ Len(mem[m].mn) \in Nat
         /\ Held(m) # {} => mem[m].st # "none"
<1>. DEFINE c == mem[m].mn
<1>1. mem[m].st \in States /\ c \in Seq(Nat) /\ mem[m].left \in Nat /\ mem[m].req \in Reqs \cup {NoReq}
  BY DEF MemInv
<1>2. mem[m].st = "none" => c = <<>>
  BY DEF MemInv
<1>. HIDE DEF c
<1>3. DOMAIN c = 1 .. Len(c) /\ Len(c) \in Nat /\ \A j \in 1 .. Len(c) : c[j] \in Nat
  BY <1>1, LenProperties, ElementOfSeq
<1>4. Range(c) = {c[j] : j \in 1 .. Len(c)}
  BY <1>1, RangeEquality
<1>5. c = <<>> => Range(c) = {}
  BY RisingNone
<1>6. Range(c) \in SUBSET Nat
  BY <1>3, <1>4
<1>. QED  BY <1>1, <1>2, <1>3, <1>4, <1>5, <1>6 DEF c, Held

LEMMA ReqOf ==
  ASSUME MemInv, NEW m \in Mems, mem[m].st # "none"
  PROVE  LET r == mem[m].req
         IN  /\ r \in Reqs /\ r.size % r.align = 0 /\ r.min \in {r.size, r.align}
             /\ (r.back => r.min = r.size)
             /\ r.type \in Bytes \ {NONE} /\ r.type # HOLE /\ r.size \in Nat \ {0} /\
                r.align \in Nat \ {0}
<1>. DEFINE r == mem[m].req
<1>1. /\ r \in Reqs /\ r.size % r.align = 0 /\ r.min \in {r.size, r.align}
      /\ (r.back => r.min = r.size)
  BY DEF MemInv
<1>. HIDE DEF r
<1>2. r.type \in 1 .. 254 /\ r.size \in Nat \ {0} /\ r.align \in Nat \ {0}
  BY <1>1 DEF Reqs
<1>3. r.type \in Bytes \ {NONE} /\ r.type # HOLE
  BY <1>2 DEF Bytes, NONE, HOLE
<1>. QED  BY <1>1, <1>2, <1>3 DEF r

LEMMA HeldIs ==
  ASSUME NodesInv, MemInv, HeldInv, NEW m \in Mems, NEW o \in Held(m)
  PROVE  /\ \E n \in Range(nodes) : n.offset = o
         /\ \A n \in Range(nodes) : n.offset = o =>
              n.type = mem[m].req.type /\ IsUsed(n) /\ n.type # HOLE /\ n \in NodeSet
<1>1. PICK x \in Range(nodes) : x.offset = o /\ x.type = mem[m].req.type
  BY DEF HeldInv
<1>2. mem[m].st # "none"
  BY MemIs
<1>3. mem[m].req.type # NONE /\ mem[m].req.type # HOLE
  BY <1>2, ReqOf
<1>4. \A n \in Range(nodes) : n \in NodeSet /\ (n.offset = x.offset => n = x)
  BY Indices, NodesApart DEF NodesInv
<1>. QED  BY <1>1, <1>3, <1>4 DEF IsUsed

\* A memory that no step is about.
LEMMA Bystander ==
  ASSUME MmInv, NodesInv', MemInv', NEW l \in Mems, mem'[l] = mem[l],
         \A n \in Range(nodes) : n.offset \in Held(l) => n \in Range(nodes')
  PROVE  PageOf(l)'
<1>1. NodesInv /\ MemInv /\ HeldInv /\ PageOf(l)
  BY DEF MmInv, PageInv
<1>2. Held(l)' = Held(l)
  BY DEF Held
<1>3. \A o \in Held(l) :
        /\ \E n \in Range(nodes) : n.offset = o
        /\ \A n \in Range(nodes) : n.offset = o => n.type # HOLE
  BY <1>1, HeldIs
<1>4. Total(l)' = Total(l)
  <2>1. mem[l].mn \in Seq(Nat) /\ mem'[l].mn = mem[l].mn
    BY <1>1, MemIs
  <2>2. \A o \in Held(l) : \E n \in Range(nodes) : n.offset = o /\ n.type # HOLE /\ n \in Range(nodes')
    BY <1>3
  <2>3. IndexInv /\ IndexInv'
    BY <1>1, IndexNow, IndexNext
  <2>. QED  BY <2>1, <2>2, <2>3, TotalKept
<1>5. \A n \in Range(nodes') : n.offset \in Held(l) => n \in Range(nodes)
  <2>. SUFFICES ASSUME NEW n \in Range(nodes'), n.offset \in Held(l) PROVE n \in Range(nodes)
    OBVIOUS
  <2>1. PICK x \in Range(nodes) : x.offset = n.offset
    BY <1>3
  <2>2. x \in Range(nodes')
    BY <2>1
  <2>3. x = n
    BY <2>1, <2>2, NodesApart DEF NodesInv
  <2>. QED  BY <2>3
<1>. QED  BY <1>1, <1>2, <1>4, <1>5 DEF PageOf

LEMMA FewerUsed ==
  ASSUME BlockInv, UNCHANGED layout,
         \A n \in Range(nodes') : IsUsed(n) => n \in Range(nodes)
  PROVE  BlockInv'
  BY DEF BlockInv

LEMMA TotalNone == \A m \in Mems : mem[m].mn = <<>> => Total(m) = 0
<1>. SUFFICES ASSUME NEW m \in Mems, mem[m].mn = <<>> PROVE Total(m) = 0
  OBVIOUS
<1>1. DOMAIN (mem[m].mn) = {}
  BY EmptySeq
<1>2. Lengths(m) = [j \in {} |-> nodes[At(mem[m].mn[j])].length]
  BY <1>1 DEF Lengths
<1>3. <<>> = [j \in {} |-> nodes[At(mem[m].mn[j])].length]
  OBVIOUS
<1>. QED  BY <1>2, <1>3, SumNone DEF Total

LEMMA TotalNoneNext == \A m \in Mems : mem'[m].mn = <<>> => Total(m)' = 0
<1>1. (\A m \in Mems : mem[m].mn = <<>> => Total(m) = 0)'
  BY TotalNone, PTL
<1>. QED  BY <1>1

LEMMA QuietStep ==
  ASSUME MmInv, NodesInv', FreeInv', MemInv', ApartInv', UNCHANGED layout,
         \A n \in Range(nodes') : IsUsed(n) => n \in Range(nodes),
         \A n \in Range(nodes) : IsUsed(n) => n \in Range(nodes'),
         \A l \in Mems : mem'[l].mn = mem[l].mn,
         \A l \in Mems : mem[l].mn # <<>> => mem'[l].req = mem[l].req,
         \A l \in Mems :
           \/ mem'[l] = mem[l]
           \/ mem'[l].st \notin {"get", "live"}
           \/ mem[l].mn = <<>> /\ mem'[l].st = "get" /\ mem'[l].left = mem'[l].req.size
  PROVE  MmInv'
<1>1. NodesInv /\ MemInv /\ HeldInv /\ PageInv /\ BlockInv
  BY DEF MmInv
<1>2. \A l \in Mems : Held(l)' = Held(l) /\ (Held(l) # {} => mem[l].mn # <<>>)
  BY <1>1, MemIs DEF Held
<1>3. \A l \in Mems : \A n \in Range(nodes) : n.offset \in Held(l) => n \in Range(nodes')
  BY <1>1, HeldIs
<1>4. HeldInv'
  <2>1. \A m \in Mems : \A j, k \in DOMAIN mem'[m].mn : mem'[m].mn[j] = mem'[m].mn[k] => j = k
    BY <1>1 DEF HeldInv
  <2>2. \A l, m \in Mems : Held(l)' \cap Held(m)' # {} => l = m
    BY <1>1, <1>2 DEF HeldInv
  <2>3. \A m \in Mems : \A o \in Held(m)' :
          \E n \in Range(nodes') : n.offset = o /\ n.type = mem'[m].req.type
    <3>. SUFFICES ASSUME NEW m \in Mems, NEW o \in Held(m)
                  PROVE  \E n \in Range(nodes') : n.offset = o /\ n.type = mem'[m].req.type
      BY <1>2
    <3>1. mem'[m].req = mem[m].req
      BY <1>2
    <3>2. PICK n \in Range(nodes) : n.offset = o
      BY <1>1, HeldIs
    <3>3. n.type = mem[m].req.type /\ n \in Range(nodes')
      BY <1>1, <1>3, <3>2, HeldIs
    <3>. QED  BY <3>1, <3>2, <3>3
  <2>4. \A n \in Range(nodes') : IsUsed(n) => \E m \in Mems : n.offset \in Held(m)'
    BY <1>1, <1>2 DEF HeldInv
  <2>. QED  BY <2>1, <2>2, <2>3, <2>4 DEF HeldInv
<1>5. ASSUME NEW l \in Mems PROVE PageOf(l)'
  <2>1. CASE mem'[l] = mem[l]
    BY <1>3, <2>1, Bystander
  <2>2. CASE mem'[l].st \notin {"get", "live"}
    BY <2>2 DEF PageOf
  <2>3. CASE mem[l].mn = <<>> /\ mem'[l].st = "get" /\ mem'[l].left = mem'[l].req.size
    <3>. DEFINE r == mem'[l].req
    <3>1. r \in Reqs /\ r.size % r.align = 0 /\ mem'[l].mn = <<>>
      BY <2>3 DEF MemInv
    <3>2. r.size \in Nat \ {0}
      BY <3>1 DEF Reqs
    <3>3. Total(l)' = 0
      BY <3>1, TotalNoneNext
    <3>4. Held(l)' = {}
      BY <1>1, <1>2, <2>3, MemIs
    <3>5. Len(mem'[l].mn) = 0
      BY <3>1, EmptySeq
    <3>. QED  BY <2>3, <3>1, <3>2, <3>3, <3>4, <3>5 DEF PageOf
  <2>. QED  BY <2>1, <2>2, <2>3
<1>6. BlockInv'
  BY <1>1, FewerUsed
<1>. QED  BY <1>4, <1>5, <1>6 DEF MmInv, PageInv

Memory == [st : States, mn : Seq(Nat), req : Reqs \cup {NoReq}, left : Nat]

LEMMA MemStep ==
  ASSUME MemInv, failed' \in BOOLEAN, NEW m \in Mems, NEW x \in Memory, mem' = [mem EXCEPT ![m] = x],
         \/ mutex \in {None, m} /\ mutex' = m /\ x.st \in {"get", "put"}
         \/ mutex \in {None, m} /\ mutex' = None /\ x.st \notin {"get", "put"}
         \/ mutex # m /\ mutex' = mutex /\ x.st \notin {"get", "put"},
         x.st = "none" => x.mn = <<>>,
         x.st # "none" =>
           /\ x.req \in Reqs /\ x.req.size % x.req.align = 0
           /\ x.req.min \in {x.req.size, x.req.align} /\ (x.req.back => x.req.min = x.req.size)
  PROVE  MemInv' /\ mem'[m] = x /\ \A l \in Mems : l # m => mem'[l] = mem[l]
<1>1. mem \in [Mems -> Memory] /\ mutex \in Mems \cup {None} /\ None \notin Mems
  BY MmAssumption DEF MemInv, Memory
<1>2. mem' \in [Mems -> Memory] /\ mem'[m] = x /\ \A l \in Mems : l # m => mem'[l] = mem[l]
  BY <1>1
<1>3. mutex' \in Mems \cup {None}
  BY <1>1
<1>4. ASSUME NEW l \in Mems PROVE mutex' = l <=> mem'[l].st \in {"get", "put"}
  <2>1. mutex = l <=> mem[l].st \in {"get", "put"}
    BY DEF MemInv
  <2>2. CASE l = m
    BY <1>1, <1>2, <2>2
  <2>3. CASE l # m
    <3>1. mem'[l] = mem[l]
      BY <1>2, <2>3
    <3>2. mutex' = l <=> mutex = l
      BY <1>1, <2>3
    <3>. QED  BY <2>1, <3>1, <3>2
  <2>. QED  BY <2>2, <2>3
<1>5. ASSUME NEW l \in Mems
      PROVE  /\ mem'[l].st = "none" => mem'[l].mn = <<>>
             /\ mem'[l].st # "none" =>
                  LET r == mem'[l].req IN
                  /\ r \in Reqs /\ r.size % r.align = 0
                  /\ r.min \in {r.size, r.align} /\ (r.back => r.min = r.size)
  <2>1. CASE l = m
    BY <1>2, <2>1
  <2>2. CASE l # m
    BY <1>2, <2>2 DEF MemInv
  <2>. QED  BY <2>1, <2>2
<1>. QED  BY <1>2, <1>3, <1>4, <1>5 DEF MemInv, Memory

LEMMA RequestIs ==
  ASSUME layout \in Layouts, NEW r \in Requests
  PROVE  /\ r \in Reqs /\ r.size % r.align = 0 /\ r.min \in {r.size, r.align}
         /\ (r.back => r.min = r.size)
<1>. DEFINE heaps == {layout.regions[i].heap : i \in DOMAIN layout.regions}
            front == [heap : heaps, type : layout.types, contig : BOOLEAN, back : {FALSE},
                      size : Sizes, align : Aligns]
            rear == [heap : {ANY}, type : {1}, contig : {TRUE}, back : {TRUE},
                     size : Sizes, align : Aligns]
            request(c) ==
              LET size == RoundUp(c.size, c.align)
              IN  [heap |-> c.heap, type |-> c.type, align |-> c.align, back |-> c.back,
                   size |-> size, min |-> IF c.contig THEN size ELSE c.align]
<1>1. PICK c \in front \cup rear : r = request(c)
  BY DEF Requests
<1>2. heaps \subseteq 0 .. 255 /\ layout.types \subseteq 1 .. 254
  <2>1. \A i \in DOMAIN layout.regions : layout.regions[i].heap \in 1 .. 255
    <3>1. DOMAIN layout.regions = 1 .. Len(layout.regions)
      BY LayoutIs
    <3>2. \A i \in 1 .. Len(layout.regions) : layout.regions[i].heap \in 1 .. 255
      BY RegionIs
    <3>. QED  BY <3>1, <3>2
  <2>2. layout.types \subseteq 1 .. 254
    BY LayoutIs
  <2>. QED  BY <2>1, <2>2
<1>. HIDE DEF heaps
<1>3. /\ c.heap \in 0 .. 255 /\ c.type \in 1 .. 254 /\ c.contig \in BOOLEAN /\ c.back \in BOOLEAN
      /\ c.size \in Nat \ {0} /\ c.align \in Nat \ {0} /\ (c.back => c.contig)
  <2>1. Sizes \subseteq Nat \ {0} /\ Aligns \subseteq Nat \ {0}
    BY MmAssumption
  <2>2. CASE c \in front
    <3>1. c.heap \in heaps /\ c.type \in layout.types /\ c.size \in Sizes /\ c.align \in Aligns
      BY <2>2
    <3>2. c.contig \in BOOLEAN /\ c.back = FALSE
      BY <2>2
    <3>3. c.back \in BOOLEAN /\ ~c.back
      BY <3>2
    <3>. HIDE DEF front, rear
    <3>4. c.heap \in 0 .. 255 /\ c.type \in 1 .. 254
      <4>. DEFINE h == c.heap
                  t == c.type
                  T == layout.types
      <4>1. h \in heaps /\ t \in T /\ heaps \subseteq 0 .. 255 /\ T \subseteq 1 .. 254
        BY <1>2, <3>1
      <4>. HIDE DEF h, t, T
      <4>2. h \in 0 .. 255 /\ t \in 1 .. 254
        BY <4>1
      <4>. QED  BY <4>2 DEF h, t
    <3>5. c.size \in Nat \ {0} /\ c.align \in Nat \ {0}
      BY <2>1, <3>1
    <3>. QED  BY <3>2, <3>3, <3>4, <3>5, Zenon
  <2>3. CASE c \in rear
    <3>1. c.heap \in {ANY} /\ c.type \in {1} /\ c.size \in Sizes /\ c.align \in Aligns
      BY <2>3
    <3>2. c.contig \in {TRUE} /\ c.back \in {TRUE}
      BY <2>3
    <3>3. c.contig \in BOOLEAN /\ c.contig /\ c.back \in BOOLEAN
      BY <3>2
    <3>4. c.heap \in 0 .. 255 /\ c.type \in 1 .. 254
      BY <3>1 DEF ANY
    <3>. QED  BY <2>1, <3>1, <3>3, <3>4
  <2>. QED  BY <1>1, <2>2, <2>3
<1>. HIDE DEF front, rear
<1>. DEFINE s == RoundUp(c.size, c.align)
<1>4. s \in Nat /\ c.size <= s /\ s % c.align = 0
  BY <1>3, RoundUpIs
<1>5. r = [heap |-> c.heap, type |-> c.type, align |-> c.align, back |-> c.back,
           size |-> s, min |-> IF c.contig THEN s ELSE c.align]
  BY <1>1
<1>. HIDE DEF s, request
<1>6. s \in Nat \ {0}
  BY <1>3, <1>4
<1>7. r \in Reqs
  BY <1>3, <1>5, <1>6 DEF Reqs
<1>8. r.size = s /\ r.align = c.align /\ r.back = c.back /\ r.min = IF c.contig THEN s ELSE c.align
  BY <1>5
<1>. QED  BY <1>3, <1>4, <1>7, <1>8

\* Steps that leave the nodes alone.
LEMMA NodesKept ==
  ASSUME MmInv, UNCHANGED <<layout, mmVars>>
  PROVE  NodesInv' /\ FreeInv' /\ ((failed => failed') => ApartInv')
<1>1. NodesInv' /\ FreeInv'
  BY DEF MmInv, NodesInv, FreeInv, Ends, InRegion, mmVars
<1>2. (failed => failed') => ApartInv'
  BY DEF MmInv, ApartInv, mmVars
<1>. QED  BY <1>1, <1>2

\* Only the state of m changes.
LEMMA StateIs ==
  ASSUME MemInv, NEW m \in Mems, NEW st \in States \ {"none"}, mem[m].st # "none",
         mem' = [mem EXCEPT ![m].st = st]
  PROVE  LET x == [mem[m] EXCEPT !.st = st]
         IN  /\ x \in Memory /\ mem' = [mem EXCEPT ![m] = x] /\ x.st = st /\ x.mn = mem[m].mn
             /\ x.req = mem[m].req
             /\ x.req \in Reqs /\ x.req.size % x.req.align = 0
             /\ x.req.min \in {x.req.size, x.req.align} /\ (x.req.back => x.req.min = x.req.size)
<1>. DEFINE x == [mem[m] EXCEPT !.st = st]
<1>1. mem \in [Mems -> Memory]
  BY DEF MemInv, Memory
<1>2. mem[m] \in Memory /\ mem' = [mem EXCEPT ![m] = x]
  BY <1>1
<1>3. x \in Memory /\ x.st = st /\ x.mn = mem[m].mn /\ x.req = mem[m].req
  BY <1>2 DEF Memory
<1>. HIDE DEF x
<1>4. LET r == mem[m].req
      IN  /\ r \in Reqs /\ r.size % r.align = 0 /\ r.min \in {r.size, r.align}
          /\ (r.back => r.min = r.size)
  BY DEF MemInv
<1>. QED  BY <1>2, <1>3, <1>4 DEF x

LEMMA RamGetStep ==
  ASSUME MmInv, NEW m \in Mems, NEW r \in Requests, RamGet(m, r)
  PROVE  MmInv'
<1>1. NodesInv /\ MemInv
  BY DEF MmInv
<1>. DEFINE x == [st |-> "get", mn |-> <<>>, req |-> r, left |-> r.size]
<1>2. /\ mem[m].st = "none" /\ mutex = None /\ mutex' = m /\ mem' = [mem EXCEPT ![m] = x]
      /\ UNCHANGED <<layout, mmVars, failed>>
  BY DEF RamGet
<1>3. /\ r \in Reqs /\ r.size % r.align = 0 /\ r.min \in {r.size, r.align}
      /\ (r.back => r.min = r.size)
  BY <1>1, RequestIs DEF NodesInv
<1>4. r.size \in Nat \ {0}
  BY <1>3 DEF Reqs
<1>5. x \in Memory /\ x.st = "get" /\ x.mn = <<>> /\ x.req = r /\ x.left = r.size
  BY <1>3, <1>4, EmptySeq DEF Memory, States
<1>6. mem[m].mn = <<>> /\ failed' \in BOOLEAN
  BY <1>1, <1>2 DEF MemInv
<1>. HIDE DEF x
<1>7. MemInv' /\ mem'[m] = x /\ \A l \in Mems : l # m => mem'[l] = mem[l]
  BY <1>1, <1>2, <1>3, <1>5, <1>6, MemStep
<1>8. NodesInv' /\ FreeInv' /\ ApartInv'
  BY <1>2, NodesKept
<1>9. Range(nodes') = Range(nodes)
  BY <1>2 DEF mmVars
<1>10. \A l \in Mems : mem'[l].mn = mem[l].mn
  BY <1>5, <1>6, <1>7
<1>11. \A l \in Mems : mem[l].mn # <<>> => mem'[l].req = mem[l].req
  BY <1>6, <1>7
<1>12. \A l \in Mems :
         \/ mem'[l] = mem[l]
         \/ mem'[l].st \notin {"get", "live"}
         \/ mem[l].mn = <<>> /\ mem'[l].st = "get" /\ mem'[l].left = mem'[l].req.size
  BY <1>5, <1>6, <1>7
<1>. QED  BY <1>2, <1>7, <1>8, <1>9, <1>10, <1>11, <1>12, QuietStep

\* The function of m ends, or its last reference is dropped: what it has is to be freed.
LEMMA StateStep ==
  ASSUME MmInv, NEW m \in Mems, NEW st \in {"doomed", "put"}, mem[m].st # "none",
         mem' = [mem EXCEPT ![m].st = st], UNCHANGED layout, NodesInv', FreeInv', ApartInv',
         failed' \in BOOLEAN,
         \A n \in Range(nodes') : IsUsed(n) => n \in Range(nodes),
         \A n \in Range(nodes) : IsUsed(n) => n \in Range(nodes'),
         \/ mutex \in {None, m} /\ mutex' = m /\ st = "put"
         \/ mutex \in {None, m} /\ mutex' = None /\ st = "doomed"
         \/ mutex # m /\ mutex' = mutex /\ st = "doomed"
  PROVE  MmInv'
<1>1. MemInv /\ st \in States \ {"none"}
  BY DEF MmInv, States
<1>. DEFINE x == [mem[m] EXCEPT !.st = st]
<1>2. /\ x \in Memory /\ mem' = [mem EXCEPT ![m] = x] /\ x.st = st /\ x.mn = mem[m].mn
      /\ x.req = mem[m].req
      /\ x.req \in Reqs /\ x.req.size % x.req.align = 0
      /\ x.req.min \in {x.req.size, x.req.align} /\ (x.req.back => x.req.min = x.req.size)
  BY <1>1, StateIs
<1>. HIDE DEF x
<1>3. MemInv' /\ mem'[m] = x /\ \A l \in Mems : l # m => mem'[l] = mem[l]
  BY <1>1, <1>2, MemStep
<1>4. \A l \in Mems : mem'[l].mn = mem[l].mn /\ mem'[l].req = mem[l].req
  BY <1>2, <1>3
<1>5. \A l \in Mems : mem'[l] = mem[l] \/ mem'[l].st \notin {"get", "live"}
  BY <1>2, <1>3
<1>. QED  BY <1>3, <1>4, <1>5, QuietStep

LEMMA UnrefStep ==
  ASSUME MmInv, NEW m \in Mems, Unref(m)
  PROVE  MmInv'
<1>1. /\ mem[m].st = "live" /\ mem' = [mem EXCEPT ![m].st = "doomed"]
      /\ UNCHANGED <<layout, mmVars, mutex, failed>>
  BY DEF Unref, Doom
<1>2. mutex # m /\ failed' \in BOOLEAN
  BY <1>1 DEF MmInv, MemInv
<1>3. NodesInv' /\ FreeInv' /\ ApartInv' /\ Range(nodes') = Range(nodes)
  BY <1>1, NodesKept DEF mmVars
<1>. QED  BY <1>1, <1>2, <1>3, StateStep

LEMMA DtorStartStep ==
  ASSUME MmInv, NEW m \in Mems, DtorStart(m)
  PROVE  MmInv'
<1>1. /\ mem[m].st = "doomed" /\ mem' = [mem EXCEPT ![m].st = "put"] /\ mutex = None /\ mutex' = m
      /\ UNCHANGED <<layout, mmVars, failed>>
  BY DEF DtorStart
<1>2. failed' \in BOOLEAN
  BY <1>1 DEF MmInv, MemInv
<1>3. NodesInv' /\ FreeInv' /\ ApartInv' /\ Range(nodes') = Range(nodes)
  BY <1>1, NodesKept DEF mmVars
<1>. QED  BY <1>1, <1>2, <1>3, StateStep

LEMMA DtorEndStep ==
  ASSUME MmInv, NEW m \in Mems, DtorEnd(m)
  PROVE  MmInv'
<1>1. NodesInv /\ MemInv
  BY DEF MmInv
<1>2. /\ mem[m].st = "put" /\ mem[m].mn = <<>> /\ mutex' = None /\ mem' = [mem EXCEPT ![m] = NoMem]
      /\ UNCHANGED <<layout, mmVars, failed>>
  BY DEF DtorEnd
<1>3. NoMem \in Memory /\ NoMem.st = "none" /\ NoMem.mn = <<>>
  BY EmptySeq DEF NoMem, Memory, States
<1>4. mutex = m /\ failed' \in BOOLEAN
  BY <1>1, <1>2 DEF MemInv
<1>5. MemInv' /\ mem'[m] = NoMem /\ \A l \in Mems : l # m => mem'[l] = mem[l]
  BY <1>1, <1>2, <1>3, <1>4, MemStep
<1>6. NodesInv' /\ FreeInv' /\ ApartInv' /\ Range(nodes') = Range(nodes)
  BY <1>2, NodesKept DEF mmVars
<1>7. \A l \in Mems : mem'[l].mn = mem[l].mn
  BY <1>2, <1>3, <1>5
<1>8. \A l \in Mems : mem[l].mn # <<>> => mem'[l].req = mem[l].req
  BY <1>2, <1>5
<1>9. \A l \in Mems : mem'[l] = mem[l] \/ mem'[l].st \notin {"get", "live"}
  BY <1>3, <1>5
<1>. QED  BY <1>2, <1>5, <1>6, <1>7, <1>8, <1>9, QuietStep

LEMMA IdleStep ==
  ASSUME MmInv, UNCHANGED vars
  PROVE  MmInv'
<1>1. UNCHANGED <<layout, nodes, free, mutex, mem, failed>>
  BY DEF vars, mmVars
<1>2. NodesInv' /\ FreeInv' /\ ApartInv' /\ Range(nodes') = Range(nodes)
  BY <1>1, NodesKept DEF mmVars
<1>3. MemInv'
  BY <1>1 DEF MmInv, MemInv
<1>. QED  BY <1>1, <1>2, <1>3, QuietStep

-----------------------------------------------------------------------------
(* The turns of nvkm_ram_get.                                              *)

LEMMA AskedIs ==
  ASSUME MmInv, NEW m \in Mems, mem[m].st = "get"
  PROVE  Asked(mem[m].req, mem[m].left)
<1>1. MemInv /\ PageOf(m)
  BY DEF MmInv, PageInv
<1>. DEFINE r == mem[m].req
            max == mem[m].left
<1>2. /\ r \in Reqs /\ r.min \in {r.size, r.align} /\ (r.back => r.min = r.size)
      /\ r.size \in Nat \ {0}
  BY <1>1, ReqOf
<1>3. max \in Nat /\ max > 0 /\ max % r.align = 0 /\ Total(m) + max = r.size
  BY <1>1, MemIs DEF PageOf
<1>4. r.min = r.size => Total(m) = 0
  BY <1>1, TotalNone DEF PageOf
<1>. HIDE DEF r, max
<1>5. r.min = r.size => max = r.size
  BY <1>2, <1>3, <1>4
<1>6. max \in Nat \ {0}
  BY <1>3
<1>. QED  BY <1>2, <1>3, <1>5, <1>6 DEF Asked, r, max

\* The node that m takes from, and what it takes.
LEMMA TurnIs ==
  ASSUME MmInv, NEW m \in Mems, mem[m].st = "get", Fit(m) # 0
  PROVE  LET k == Fit(m)
             i == At(free[k])
             t == Take(i, mem[m].req, mem[m].left)
         IN  /\ k \in 1 .. Len(free) /\ i \in 1 .. Len(nodes) /\ nodes[i].offset = free[k]
             /\ nodes[i].type = NONE /\ nodes[i] \in Range(nodes) /\ nodes[i] \in NodeSet
             /\ t.s \in Nat /\ t.s + t.size \in Nat /\ t.s < t.s + t.size
             /\ nodes[i].offset <= t.s /\ t.s + t.size <= End(nodes[i])
             /\ Fits(i, mem[m].req, mem[m].left)
<1>. DEFINE r == mem[m].req
            max == mem[m].left
            k == Fit(m)
            i == At(free[k])
            t == Take(i, r, max)
            w == Window(i, r.type)
            n == nodes[i]
<1>1. NodesInv /\ FreeInv /\ Asked(r, max)
  BY AskedIs DEF MmInv
<1>2. k \in 1 .. Len(free) /\ i \in 1 .. Len(nodes) /\ n.offset = free[k] /\ n.type = NONE /\
      Fits(i, r, max)
  BY <1>1, FitIs DEF Fit
<1>3. n \in Range(nodes) /\ n \in NodeSet
  BY <1>1, <1>2, Indices DEF NodesInv
<1>4. w.s \in Nat /\ w.e \in Nat /\ n.offset <= w.s /\ w.e <= End(n)
  BY <1>1, <1>2, WindowIs
<1>5. t.s \in Nat /\ t.size \in Nat \ {0} /\ w.s <= t.s /\ t.s + t.size <= w.e
  BY <1>1, <1>2, TakeIs
<1>6. n.offset \in Nat /\ End(n) \in Nat
  BY <1>3, NodeIs
<1>. HIDE DEF r, max, k, i, t, w, n
<1>7. /\ t.s \in Nat /\ t.s + t.size \in Nat /\ t.s < t.s + t.size
      /\ n.offset <= t.s /\ t.s + t.size <= End(n)
  BY <1>4, <1>5, <1>6
<1>. QED  BY <1>2, <1>3, <1>7 DEF r, max, k, i, t, w, n

LEMMA RamNodeFailsStep ==
  ASSUME MmInv, NEW m \in Mems, RamNodeFails(m)
  PROVE  MmInv'
<1>1. /\ mem[m].st = "get" /\ mem' = [mem EXCEPT ![m].st = "doomed"] /\ mutex' = None
      /\ UNCHANGED layout
  BY DEF RamNodeFails, Doom
<1>2. mutex = m /\ failed \in BOOLEAN
  BY <1>1 DEF MmInv, MemInv
<1>3. CASE UNCHANGED mmVars /\ (failed' = failed \/ failed' = TRUE)
  <2>1. NodesInv' /\ FreeInv' /\ ApartInv' /\ Range(nodes') = Range(nodes)
    BY <1>1, <1>2, <1>3, NodesKept DEF mmVars
  <2>2. failed' \in BOOLEAN
    BY <1>2, <1>3
  <2>. QED  BY <1>1, <1>2, <2>1, <2>2, StateStep
<1>. DEFINE r == mem[m].req
            max == mem[m].left
            k == Fit(m)
            i == At(free[k])
            n == nodes[i]
            s == Take(i, r, max).s
            e == s + Take(i, r, max).size
            cut == IF r.back THEN e ELSE s
            parts == Part(n, n.offset, cut, NONE) \o Part(n, cut, End(n), NONE)
            offsets == <<n.offset, cut>>
<1>4. CASE k # 0 /\ failed' = TRUE /\ n.offset < s /\ e < End(n) /\ Split(i, k, parts, offsets)
  <2>1. /\ k \in 1 .. Len(free) /\ i \in 1 .. Len(nodes) /\ n.offset = free[k]
        /\ n.type = NONE /\ n \in Range(nodes) /\ n \in NodeSet
        /\ s \in Nat /\ e \in Nat /\ s < e
    BY <1>1, <1>4, TurnIs
  <2>2. n.offset \in Nat /\ End(n) \in Nat
    BY <2>1, NodeIs
  <2>. HIDE DEF r, max, k, i, n, s, e
  <2>3. cut \in Nat /\ n.offset < cut /\ cut < End(n)
    BY <1>4, <2>1, <2>2
  <2>. HIDE DEF cut
  <2>4. /\ Tiles(parts, n.offset, End(n))
        /\ \A x \in Range(parts) : x.heap = n.heap /\ x.type = NONE
        /\ offsets \in Seq(Nat) /\ Rising(offsets)
        /\ Range(offsets) = {x.offset : x \in {x \in Range(parts) : x.type = NONE}}
    BY <2>1, <2>3, HalfCut
  <2>. HIDE DEF parts, offsets
  <2>5. \A x \in Range(parts) : x.heap = nodes[i].heap /\ x.type # HOLE
    BY <2>4 DEF n, NONE, HOLE
  <2>6. NodesInv /\ FreeInv
    BY DEF MmInv
  <2>7. NodesInv' /\ FreeInv' /\ Range(nodes') = (Range(nodes) \ {n}) \cup Range(parts)
    BY <1>1, <1>4, <2>1, <2>4, <2>5, <2>6, SplitIs DEF n
  <2>8. /\ \A x \in Range(nodes') : IsUsed(x) => x \in Range(nodes)
        /\ \A x \in Range(nodes) : IsUsed(x) => x \in Range(nodes')
    BY <2>1, <2>4, <2>7 DEF IsUsed
  <2>9. ApartInv' /\ failed' \in BOOLEAN
    BY <1>4 DEF ApartInv
  <2>. QED  BY <1>1, <1>2, <2>7, <2>8, <2>9, StateStep
<1>5. \/ Fit(m) = 0 /\ UNCHANGED <<mmVars, failed>>
      \/ Fit(m) # 0 /\ MmAllocFails(Fit(m), r, max) /\ failed' = TRUE
  BY DEF RamNodeFails
<1>6. MmAllocFails(k, r, max) =>
        \/ UNCHANGED mmVars
        \/ n.offset < s /\ e < End(n) /\ Split(i, k, parts, offsets)
  BY DEF MmAllocFails
<1>. QED  BY <1>3, <1>4, <1>5, <1>6

\* What a turn makes of the nodes.
LEMMA AllocNodes ==
  ASSUME MmInv, NEW m \in Mems, RamNode(m)
  PROVE  LET r == mem[m].req
             i == At(free[Fit(m)])
             t == Take(i, r, mem[m].left)
             new == Piece(t.s, t.s + t.size, nodes[i].heap, r.type)
         IN  /\ NodesInv' /\ FreeInv' /\ ApartInv'
             /\ new \in Range(nodes') /\ new.offset = t.s /\ End(new) = t.s + t.size
             /\ new.type = r.type /\ new.heap = nodes[i].heap
             /\ \A x \in Range(nodes') : x \in Range(nodes) \/ x = new \/ x.type = NONE
             /\ \A x \in Range(nodes) : x \in Range(nodes') \/ x.type = NONE
<1>. DEFINE r == mem[m].req
            max == mem[m].left
            k == Fit(m)
            i == At(free[k])
            n == nodes[i]
            t == Take(i, r, max)
            s == t.s
            e == s + t.size
            new == Piece(s, e, n.heap, r.type)
            parts == Part(n, n.offset, s, NONE) \o Part(n, s, e, r.type) \o Part(n, e, End(n), NONE)
            offsets == OffsetOf(n.offset, s) \o OffsetOf(e, End(n))
            a == Ends[1].offset
            b == End(Ends[Len(Ends)])
<1>1. mem[m].st = "get" /\ k # 0 /\ MmAlloc(k, r, max) /\ UNCHANGED <<layout, failed>>
  BY DEF RamNode
<1>2. Split(i, k, parts, offsets)
  BY <1>1 DEF MmAlloc
<1>3. NodesInv /\ FreeInv /\ MemInv /\ ApartInv /\ Tiles(nodes, a, b)
  BY DEF MmInv, NodesInv
<1>4. /\ k \in 1 .. Len(free) /\ i \in 1 .. Len(nodes) /\ n.offset = free[k]
      /\ n.type = NONE /\ n \in NodeSet
      /\ s \in Nat /\ e \in Nat /\ s < e /\ n.offset <= s /\ e <= End(n)
  BY <1>1, TurnIs
<1>5. r.type \in Bytes \ {NONE} /\ r.type # HOLE
  BY <1>1, <1>3, ReqOf
<1>. HIDE DEF r, max, k, i, n, t, s, e, a, b
<1>6. /\ Tiles(parts, n.offset, End(n)) /\ Apart(parts) /\ parts # <<>>
      /\ new \in Range(parts) /\ new.offset = s /\ End(new) = e
      /\ new.type = r.type /\ new.heap = n.heap
      /\ \A x \in Range(parts) : x.heap = n.heap /\ (x = new \/ x.type = NONE)
      /\ offsets \in Seq(Nat) /\ Rising(offsets)
      /\ Range(offsets) = {x.offset : x \in {x \in Range(parts) : x.type = NONE}}
  <2>. DEFINE type == r.type
  <2>1. type \in Bytes \ {NONE}
    BY <1>5
  <2>. HIDE DEF type
  <2>2. CutInto(Part(n, n.offset, s, NONE) \o Part(n, s, e, type) \o Part(n, e, End(n), NONE),
                OffsetOf(n.offset, s) \o OffsetOf(e, End(n)), Piece(s, e, n.heap, type), n, type)
    BY <1>4, <2>1, Cut
  <2>3. CutInto(parts, offsets, new, n, r.type)
    BY <2>2, Zenon DEF type
  <2>4. n.heap \in Bytes /\ r.type \in Bytes
    BY <1>4, <1>5 DEF NodeSet, Bytes
  <2>5. new.offset = s /\ End(new) = e
    BY <1>4, <2>4, NodeOf
  <2>. HIDE DEF parts, offsets, new
  <2>. QED  BY <2>3, <2>5 DEF CutInto
<1>. HIDE DEF new, parts, offsets
<1>7. \A x \in Range(parts) : x.heap = nodes[i].heap /\ x.type # HOLE
  BY <1>5, <1>6 DEF n, NONE, HOLE
<1>8. NodesInv' /\ FreeInv' /\ Range(nodes') = (Range(nodes) \ {n}) \cup Range(parts)
  BY <1>1, <1>2, <1>3, <1>4, <1>6, <1>7, SplitIs DEF n
<1>9. ApartInv'
  <2>. SUFFICES ASSUME ~failed PROVE Apart(nodes')
    BY <1>1 DEF ApartInv
  <2>1. Apart(nodes)
    BY <1>3 DEF ApartInv
  <2>2. nodes' = Before(nodes, i) \o parts \o Behind(nodes, i)
    BY <1>2 DEF Split, Before, Behind
  <2>3. i > 1 => nodes[i - 1].type # NONE
    <3>. SUFFICES ASSUME i > 1 PROVE nodes[i - 1].type # NONE
      OBVIOUS
    <3>. DEFINE j == i - 1
    <3>1. j \in 1 .. Len(nodes) - 1 /\ j + 1 = i
      BY <1>3, <1>4, Indices
    <3>. HIDE DEF j
    <3>2. nodes[j].type # NONE
      BY <1>4, <2>1, <3>1 DEF Apart, n
    <3>. QED  BY <3>2 DEF j
  <2>4. i < Len(nodes) => nodes[i + 1].type # NONE
    <3>. SUFFICES ASSUME i < Len(nodes) PROVE nodes[i + 1].type # NONE
      OBVIOUS
    <3>1. i \in 1 .. Len(nodes) - 1
      BY <1>3, <1>4, Indices
    <3>. QED  BY <1>4, <2>1, <3>1 DEF Apart, n
  <2>5. i \in i .. i
    BY <1>4
  <2>. QED  BY <1>3, <1>4, <1>6, <2>1, <2>2, <2>3, <2>4, <2>5, ExchangeApart DEF n
<1>10. /\ \A x \in Range(nodes') : x \in Range(nodes) \/ x = new \/ x.type = NONE
       /\ \A x \in Range(nodes) : x \in Range(nodes') \/ x.type = NONE
  BY <1>4, <1>6, <1>8
<1>11. new \in Range(nodes')
  BY <1>6, <1>8
<1>12. /\ NodesInv' /\ FreeInv' /\ ApartInv'
       /\ new \in Range(nodes') /\ new.offset = s /\ End(new) = e
       /\ new.type = r.type /\ new.heap = n.heap
       /\ \A x \in Range(nodes') : x \in Range(nodes) \/ x = new \/ x.type = NONE
       /\ \A x \in Range(nodes) : x \in Range(nodes') \/ x.type = NONE
  BY <1>6, <1>8, <1>9, <1>10, <1>11
<1>. QED  BY <1>12, Zenon DEF r, max, k, i, n, t, s, e, new

\* What a turn takes is in no block of another type.
LEMMA AllocBlocks ==
  ASSUME MmInv, NEW m \in Mems, mem[m].st = "get", Fit(m) # 0,
         NEW x \in Range(nodes), IsUsed(x), x.type # mem[m].req.type
  PROVE  LET t == Take(At(free[Fit(m)]), mem[m].req, mem[m].left)
         IN  /\ x.offset < t.s => (End(x) - 1) \div layout.block < t.s \div layout.block
             /\ t.s <= x.offset =>
                  ((t.s + t.size) - 1) \div layout.block < x.offset \div layout.block
<1>. DEFINE r == mem[m].req
            max == mem[m].left
            k == Fit(m)
            i == At(free[k])
            n == nodes[i]
            t == Take(i, r, max)
            w == Window(i, r.type)
            s == t.s
            e == s + t.size
            b == layout.block
            A == Ends[1].offset
            Z == End(Ends[Len(Ends)])
<1>1. NodesInv /\ BlockInv /\ MemInv /\ Tiles(nodes, A, Z) /\ Asked(r, max)
  BY AskedIs DEF MmInv, NodesInv
<1>2. /\ i \in 1 .. Len(nodes) /\ n.type = NONE /\ n \in Range(nodes) /\ n \in NodeSet
      /\ s \in Nat /\ e \in Nat /\ s < e /\ n.offset <= s /\ e <= End(n) /\ Fits(i, r, max)
  BY TurnIs
<1>3. /\ w.s \in Nat /\ w.e \in Nat /\ n.offset <= w.s /\ w.e <= End(n)
      /\ i > 1 /\ nodes[i - 1].type # r.type => w.s % b = 0
      /\ i < Len(nodes) /\ nodes[i + 1].type # r.type => w.e % b = 0
  BY <1>1, <1>2, WindowIs
<1>4. w.s <= s /\ e <= w.e
  BY <1>1, <1>2, TakeIs
<1>5. b \in Nat \ {0}
  BY <1>1, LayoutIs DEF NodesInv
<1>6. r.type # NONE /\ r.type # HOLE
  BY <1>1, ReqOf
<1>. HIDE DEF r, max, k, i, n, t, w, s, e, b, A, Z
<1>7. PICK p \in 1 .. Len(nodes) : nodes[p] = x
  BY <1>1, Indices
<1>8. /\ x \in NodeSet /\ Len(nodes) \in Nat
      /\ \A j \in 1 .. Len(nodes) : nodes[j] \in NodeSet /\ nodes[j] \in Range(nodes)
  BY <1>1, Indices
<1>9. /\ x.offset \in Nat /\ End(x) \in Nat /\ x.offset < End(x)
      /\ n.offset \in Nat /\ End(n) \in Nat /\ n.offset < End(n)
  BY <1>2, <1>8, NodeIs
<1>10. x # n
  BY <1>2 DEF IsUsed
<1>11. /\ x.offset = n.offset => x = n
       /\ x.offset < n.offset => End(x) <= n.offset
       /\ n.offset < x.offset => End(n) <= x.offset
  BY <1>1, <1>2, NodesApart
<1>12. /\ x.offset < n.offset => p < i
       /\ n.offset < x.offset => i < p
  BY <1>1, <1>2, <1>7, TilesUnique DEF n
<1>13. ASSUME x.offset < s PROVE (End(x) - 1) \div b < s \div b
  <2>1. x.offset < n.offset /\ End(x) <= n.offset /\ p < i
    BY <1>2, <1>9, <1>10, <1>11, <1>12, <1>13
  <2>. DEFINE j == i - 1
              o == nodes[j]
              z == End(x) - 1
  <2>2. j \in 1 .. Len(nodes) /\ i > 1 /\ p <= j /\ j < i
    BY <1>2, <2>1
  <2>3. z \in Nat /\ z < n.offset
    BY <1>9, <2>1
  <2>. HIDE DEF z
  <2>4. CASE nodes[j].type # r.type
    <3>1. w.s % b = 0
      BY <1>3, <2>2, <2>4
    <3>. DEFINE y == w.s
    <3>2. y \in Nat /\ y % b = 0 /\ z < y /\ y <= s
      BY <1>3, <1>4, <1>9, <2>3, <3>1
    <3>. HIDE DEF y
    <3>3. z \div b < y \div b /\ y \div b <= s \div b
      BY <1>2, <1>5, <2>3, <3>2, Blocks
    <3>4. z \div b \in Nat /\ y \div b \in Nat /\ s \div b \in Nat
      BY <1>2, <1>5, <2>3, <3>2, Blocks
    <3>. QED  BY <3>3, <3>4 DEF z
  <2>5. CASE nodes[j].type = r.type
    <3>. HIDE DEF j
    <3>1. o \in Range(nodes) /\ o \in NodeSet /\ IsUsed(o) /\ o.type # x.type
      BY <1>6, <1>8, <2>2, <2>5 DEF IsUsed, r
    <3>2. p < j
      <4>1. p # j
        BY <1>7, <3>1
      <4>. QED  BY <2>2, <4>1
    <3>3. End(x) <= o.offset /\ End(o) <= n.offset
      BY <1>1, <1>2, <1>7, <2>2, <3>2, TilesUnique DEF n
    <3>. HIDE DEF o
    <3>4. o.offset \in Nat /\ o.offset < End(o) /\ End(o) \in Nat
      BY <3>1, NodeIs
    <3>5. x.offset < o.offset /\ o.offset <= s
      BY <1>2, <1>9, <3>3, <3>4
    <3>6. z \div b < o.offset \div b
      BY <1>1, <3>1, <3>5 DEF BlockInv, b, z
    <3>. DEFINE y == o.offset
    <3>7. y \in Nat /\ y <= s /\ z \div b < y \div b
      BY <3>4, <3>5, <3>6
    <3>. HIDE DEF y
    <3>8. y \div b <= s \div b /\ z \div b \in Nat /\ y \div b \in Nat /\ s \div b \in Nat
      BY <1>2, <1>5, <2>3, <3>7, Blocks
    <3>. QED  BY <3>7, <3>8 DEF z
  <2>. QED  BY <2>4, <2>5
<1>14. ASSUME s <= x.offset PROVE (e - 1) \div b < x.offset \div b
  <2>1. n.offset < x.offset /\ End(n) <= x.offset /\ i < p
    BY <1>2, <1>9, <1>10, <1>11, <1>12, <1>14
  <2>. DEFINE j == i + 1
              o == nodes[j]
              z == e - 1
              v == x.offset
  <2>2. j \in 1 .. Len(nodes) /\ i < Len(nodes) /\ j <= p /\ i < j
    BY <1>2, <1>8, <2>1
  <2>3. z \in Nat /\ z < e /\ v \in Nat /\ End(n) <= v
    BY <1>2, <1>9, <2>1
  <2>. HIDE DEF z, v
  <2>4. CASE nodes[j].type # r.type
    <3>1. w.e % b = 0
      BY <1>3, <2>2, <2>4
    <3>. DEFINE y == w.e
    <3>2. y \in Nat /\ y % b = 0 /\ z < y /\ y <= v
      BY <1>2, <1>3, <1>4, <1>9, <2>3, <3>1
    <3>. HIDE DEF y
    <3>3. z \div b < y \div b /\ y \div b <= v \div b
      BY <1>5, <2>3, <3>2, Blocks
    <3>4. z \div b \in Nat /\ y \div b \in Nat /\ v \div b \in Nat
      BY <1>5, <2>3, <3>2, Blocks
    <3>. QED  BY <3>3, <3>4 DEF z, v
  <2>5. CASE nodes[j].type = r.type
    <3>. HIDE DEF j
    <3>1. o \in Range(nodes) /\ o \in NodeSet /\ IsUsed(o) /\ o.type # x.type
      BY <1>6, <1>8, <2>2, <2>5 DEF IsUsed, r
    <3>2. j < p
      <4>1. p # j
        BY <1>7, <3>1
      <4>. QED  BY <2>2, <4>1
    <3>3. End(o) <= x.offset /\ End(n) <= o.offset
      BY <1>1, <1>2, <1>7, <2>2, <3>2, TilesUnique DEF n
    <3>. HIDE DEF o
    <3>4. o.offset \in Nat /\ o.offset < End(o) /\ End(o) \in Nat
      BY <3>1, NodeIs
    <3>5. o.offset < x.offset
      BY <1>9, <3>3, <3>4
    <3>6. (End(o) - 1) \div b < v \div b
      BY <1>1, <3>1, <3>5 DEF BlockInv, b, v
    <3>. DEFINE y == End(o) - 1
    <3>7. y \in Nat /\ z <= y /\ y \div b < v \div b
      BY <1>2, <1>9, <2>3, <3>3, <3>4, <3>6 DEF z
    <3>. HIDE DEF y
    <3>8. z \div b <= y \div b /\ z \div b \in Nat /\ y \div b \in Nat /\ v \div b \in Nat
      BY <1>5, <2>3, <3>7, Blocks
    <3>. QED  BY <3>7, <3>8 DEF z, v
  <2>. QED  BY <2>4, <2>5
<1>15. /\ x.offset < s => (End(x) - 1) \div b < s \div b
       /\ s <= x.offset => (e - 1) \div b < x.offset \div b
  BY <1>13, <1>14
<1>. QED  BY <1>15, Zenon DEF b, s, e, t, i, k, r, max

\* What a turn makes of the memories.
LEMMA TurnMem ==
  ASSUME MmInv, NEW m \in Mems, RamNode(m)
  PROVE  LET t == Take(At(free[Fit(m)]), mem[m].req, mem[m].left)
             left == mem[m].left - t.size
         IN  /\ MemInv' /\ (\A l \in Mems : l # m => mem'[l] = mem[l])
             /\ mem'[m].mn = Append(mem[m].mn, t.s) /\ mem'[m].req = mem[m].req
             /\ mem'[m].left = left /\ left \in Nat
             /\ mem'[m].st = (IF left = 0 THEN "live" ELSE "get")
<1>. DEFINE r == mem[m].req
            max == mem[m].left
            i == At(free[Fit(m)])
            t == Take(i, r, max)
            s == t.s
            left == max - t.size
            x == [mem[m] EXCEPT !.mn = Append(@, s), !.left = left,
                           !.st = IF left = 0 THEN "live" ELSE @]
<1>1. /\ mem[m].st = "get" /\ Fit(m) # 0
      /\ mem' = [mem EXCEPT ![m].mn = Append(@, s), ![m].left = left,
                            ![m].st = IF left = 0 THEN "live" ELSE @]
      /\ mutex' = (IF left = 0 THEN None ELSE mutex)
      /\ UNCHANGED <<layout, failed>>
  BY DEF RamNode
<1>2. NodesInv /\ FreeInv /\ MemInv /\ Asked(r, max) /\ mutex = m /\ failed' \in BOOLEAN
  BY <1>1, AskedIs DEF MmInv, MemInv
<1>3. i \in 1 .. Len(nodes) /\ Fits(i, r, max)
  BY <1>1, TurnIs
<1>4. s \in Nat /\ t.size \in Nat \ {0} /\ t.size <= max
  BY <1>2, <1>3, TakeIs
<1>5. max \in Nat
  BY <1>2 DEF Asked
<1>. HIDE DEF max, i, t, s
<1>6. left \in Nat
  BY <1>4, <1>5
<1>7. mem \in [Mems -> Memory]
  BY <1>2 DEF MemInv, Memory
<1>. HIDE DEF left
<1>8. mem[m] \in Memory /\ mem' = [mem EXCEPT ![m] = x]
  BY <1>1, <1>7
<1>9. mem[m].mn \in Seq(Nat) /\ Append(mem[m].mn, s) \in Seq(Nat)
  BY <1>2, <1>4, MemIs, AppendProperties
<1>10. /\ x \in Memory /\ x.mn = Append(mem[m].mn, s) /\ x.req = r /\ x.left = left
       /\ x.st = (IF left = 0 THEN "live" ELSE "get")
  BY <1>1, <1>6, <1>8, <1>9 DEF Memory, States
<1>11. /\ r \in Reqs /\ r.size % r.align = 0 /\ r.min \in {r.size, r.align}
       /\ (r.back => r.min = r.size)
  BY <1>1, <1>2, ReqOf
<1>. HIDE DEF x, r
<1>12. \/ mutex \in {None, m} /\ mutex' = m /\ x.st \in {"get", "put"}
       \/ mutex \in {None, m} /\ mutex' = None /\ x.st \notin {"get", "put"}
  BY <1>1, <1>2, <1>10
<1>13. x.st # "none"
  BY <1>10
<1>14. MemInv' /\ mem'[m] = x /\ \A l \in Mems : l # m => mem'[l] = mem[l]
  BY <1>2, <1>8, <1>10, <1>11, <1>12, <1>13, MemStep
<1>15. /\ MemInv' /\ (\A l \in Mems : l # m => mem'[l] = mem[l])
       /\ mem'[m].mn = Append(mem[m].mn, s) /\ mem'[m].req = r
       /\ mem'[m].left = left /\ left \in Nat
       /\ mem'[m].st = (IF left = 0 THEN "live" ELSE "get")
  BY <1>6, <1>10, <1>14
<1>. QED  BY <1>15, Zenon DEF r, left, max, i, t, s

\* What a turn takes was nobody's.
LEMMA Fresh ==
  ASSUME MmInv, NEW m \in Mems, mem[m].st = "get", Fit(m) # 0, NEW l \in Mems
  PROVE  Take(At(free[Fit(m)]), mem[m].req, mem[m].left).s \notin Held(l)
<1>. DEFINE i == At(free[Fit(m)])
            n == nodes[i]
            t == Take(i, mem[m].req, mem[m].left)
            s == t.s
            e == s + t.size
<1>1. NodesInv /\ MemInv /\ HeldInv
  BY DEF MmInv
<1>2. /\ n.type = NONE /\ n \in Range(nodes) /\ n \in NodeSet
      /\ s \in Nat /\ e \in Nat /\ s < e /\ n.offset <= s /\ e <= End(n)
  BY TurnIs
<1>3. n.offset \in Nat /\ End(n) \in Nat
  BY <1>2, NodeIs
<1>. HIDE DEF n, s, e
<1>4. SUFFICES ASSUME s \in Held(l) PROVE FALSE
  BY DEF s
<1>5. PICK x \in Range(nodes) : x.offset = s /\ IsUsed(x)
  BY <1>1, <1>4, HeldIs
<1>6. x # n
  BY <1>2, <1>5 DEF IsUsed
<1>7. (x.offset = n.offset => x = n) /\ (n.offset < x.offset => End(n) <= x.offset)
  BY <1>1, <1>2, NodesApart DEF NodesInv
<1>. QED  BY <1>2, <1>3, <1>5, <1>6, <1>7

\* Who has what after a turn.
LEMMA TurnHeld ==
  ASSUME MmInv, NEW m \in Mems, RamNode(m)
  PROVE  LET s == Take(At(free[Fit(m)]), mem[m].req, mem[m].left).s
         IN  /\ HeldInv' /\ Held(m)' = Held(m) \cup {s}
             /\ \A l \in Mems : l # m => Held(l)' = Held(l)
<1>. DEFINE r == mem[m].req
            i == At(free[Fit(m)])
            t == Take(i, r, mem[m].left)
            s == t.s
            new == Piece(s, s + t.size, nodes[i].heap, r.type)
            c == mem[m].mn
<1>1. mem[m].st = "get" /\ Fit(m) # 0
  BY DEF RamNode
<1>2. NodesInv /\ MemInv /\ HeldInv /\ s \in Nat
  BY <1>1, TurnIs DEF MmInv
<1>3. \A l \in Mems : s \notin Held(l)
  BY <1>1, Fresh
<1>4. /\ NodesInv' /\ new \in Range(nodes') /\ new.offset = s /\ new.type = r.type
      /\ \A x \in Range(nodes') : x \in Range(nodes) \/ x = new \/ x.type = NONE
      /\ \A x \in Range(nodes) : x \in Range(nodes') \/ x.type = NONE
  BY AllocNodes
<1>5. /\ mem'[m].mn = Append(c, s) /\ mem'[m].req = r
      /\ \A l \in Mems : l # m => mem'[l] = mem[l]
  BY TurnMem
<1>. HIDE DEF r, i, t, s, new, c
<1>6. c \in Seq(Nat) /\ Len(c) \in Nat /\ Held(m) = {c[j] : j \in 1 .. Len(c)}
  <2>1. c \in Seq(Nat)
    BY <1>2, MemIs DEF c
  <2>. QED  BY <2>1, RangeEquality, LenProperties DEF c, Held
<1>. DEFINE d == Append(c, s)
<1>7. /\ d \in Seq(Nat) /\ Len(d) = Len(c) + 1 /\ d[Len(c) + 1] = s
      /\ \A j \in 1 .. Len(c) : d[j] = c[j]
  BY <1>2, <1>6, AppendProperties
<1>8. Range(d) = {d[j] : j \in 1 .. Len(c) + 1} /\ DOMAIN d = 1 .. Len(c) + 1
  BY <1>6, <1>7, RangeEquality, LenProperties
<1>9. mem'[m].mn = d
  BY <1>5
<1>. HIDE DEF d
<1>10. \A j \in 1 .. Len(c) + 1 : j \in 1 .. Len(c) \/ j = Len(c) + 1
  BY <1>6
<1>11. Held(m)' = Held(m) \cup {s}
  <2>1. Held(m)' = Range(d)
    BY <1>9 DEF Held
  <2>2. \A j \in 1 .. Len(c) : j \in 1 .. Len(c) + 1
    BY <1>6
  <2>3. Len(c) + 1 \in 1 .. Len(c) + 1
    BY <1>6
  <2>4. Range(d) \subseteq Held(m) \cup {s}
    BY <1>6, <1>7, <1>8, <1>10
  <2>5. Held(m) \cup {s} \subseteq Range(d)
    BY <1>6, <1>7, <1>8, <2>2, <2>3
  <2>. QED  BY <2>1, <2>4, <2>5
<1>12. \A l \in Mems : l # m => Held(l)' = Held(l)
  BY <1>5 DEF Held
<1>13. \A l \in Mems : \A j, k \in DOMAIN mem'[l].mn : mem'[l].mn[j] = mem'[l].mn[k] => j = k
  <2>. SUFFICES ASSUME NEW l \in Mems, NEW j \in DOMAIN mem'[l].mn, NEW k \in DOMAIN mem'[l].mn,
                       mem'[l].mn[j] = mem'[l].mn[k]
                PROVE  j = k
    OBVIOUS
  <2>1. CASE l # m
    BY <1>2, <1>5, <2>1 DEF HeldInv
  <2>2. CASE l = m
    <3>1. j \in 1 .. Len(c) + 1 /\ k \in 1 .. Len(c) + 1 /\ d[j] = d[k]
      BY <1>8, <1>9, <2>2
    <3>2. \A x \in 1 .. Len(c) : c[x] # s
      BY <1>3, <1>6
    <3>3. \A x, y \in 1 .. Len(c) : c[x] = c[y] => x = y
      BY <1>2, <1>6, LenProperties DEF HeldInv, c
    <3>. QED  BY <1>7, <1>10, <3>1, <3>2, <3>3
  <2>. QED  BY <2>1, <2>2
<1>14. \A l, o \in Mems : Held(l)' \cap Held(o)' # {} => l = o
  BY <1>2, <1>3, <1>11, <1>12 DEF HeldInv
<1>15. \A l \in Mems : \A o \in Held(l)' :
         \E n \in Range(nodes') : n.offset = o /\ n.type = mem'[l].req.type
  <2>. SUFFICES ASSUME NEW l \in Mems, NEW o \in Held(l)'
                PROVE  \E n \in Range(nodes') : n.offset = o /\ n.type = mem'[l].req.type
    OBVIOUS
  <2>1. mem'[l].req = mem[l].req
    BY <1>5 DEF r
  <2>2. CASE o \in Held(l)
    <3>1. PICK n \in Range(nodes) : n.offset = o
      BY <1>2, <2>2, HeldIs
    <3>2. n.type = mem[l].req.type /\ IsUsed(n)
      BY <1>2, <2>2, <3>1, HeldIs
    <3>3. n \in Range(nodes')
      BY <1>4, <3>2 DEF IsUsed
    <3>. QED  BY <2>1, <3>1, <3>2, <3>3
  <2>3. CASE o \notin Held(l)
    <3>1. l = m /\ o = s
      BY <1>11, <1>12, <2>3
    <3>. QED  BY <1>4, <1>5, <3>1
  <2>. QED  BY <2>2, <2>3
<1>16. \A n \in Range(nodes') : IsUsed(n) => \E l \in Mems : n.offset \in Held(l)'
  <2>. SUFFICES ASSUME NEW n \in Range(nodes'), IsUsed(n) PROVE \E l \in Mems : n.offset \in Held(l)'
    OBVIOUS
  <2>1. n \in Range(nodes) \/ n = new
    BY <1>4 DEF IsUsed
  <2>2. CASE n \in Range(nodes)
    BY <1>2, <1>11, <1>12, <2>2 DEF HeldInv
  <2>3. CASE n = new
    BY <1>4, <1>11, <2>3
  <2>. QED  BY <2>1, <2>2, <2>3
<1>17. HeldInv'
  BY <1>13, <1>14, <1>15, <1>16 DEF HeldInv
<1>18. /\ HeldInv' /\ Held(m)' = Held(m) \cup {s}
       /\ \A l \in Mems : l # m => Held(l)' = Held(l)
  BY <1>11, <1>12, <1>17
<1>. QED  BY <1>18, Zenon DEF s, t, i, r

\* No block gets memory of two types in a turn.
LEMMA TurnBlocks ==
  ASSUME MmInv, NEW m \in Mems, RamNode(m)
  PROVE  BlockInv'
<1>. DEFINE r == mem[m].req
            i == At(free[Fit(m)])
            t == Take(i, r, mem[m].left)
            s == t.s
            e == s + t.size
            new == Piece(s, e, nodes[i].heap, r.type)
            b == layout.block
<1>1. mem[m].st = "get" /\ Fit(m) # 0 /\ layout' = layout
  BY DEF RamNode
<1>2. BlockInv
  BY DEF MmInv
<1>3. /\ new.offset = s /\ End(new) = e /\ new.type = r.type
      /\ \A x \in Range(nodes') : x \in Range(nodes) \/ x = new \/ x.type = NONE
  BY AllocNodes
<1>4. ASSUME NEW x \in Range(nodes), IsUsed(x), x.type # r.type
      PROVE  /\ x.offset < s => (End(x) - 1) \div b < s \div b
             /\ s < x.offset => (e - 1) \div b < x.offset \div b
  <2>1. /\ x.offset < s => (End(x) - 1) \div b < s \div b
        /\ s <= x.offset => (e - 1) \div b < x.offset \div b
    BY <1>1, <1>4, AllocBlocks
  <2>2. s \in Nat /\ x.offset \in Nat
    BY <1>1, TurnIs, Indices, NodeIs DEF MmInv, NodesInv
  <2>. HIDE DEF s, e, r, b
  <2>3. s < x.offset => s <= x.offset
    BY <2>2
  <2>. QED  BY <2>1, <2>3
<1>. HIDE DEF new, s, e, r, b
<1>5. SUFFICES ASSUME NEW n \in Range(nodes'), NEW o \in Range(nodes'), IsUsed(n), IsUsed(o),
                      n.type # o.type, n.offset < o.offset
               PROVE  (End(n) - 1) \div b < o.offset \div b
  BY <1>1 DEF BlockInv, b
<1>6. (n \in Range(nodes) \/ n = new) /\ (o \in Range(nodes) \/ o = new)
  BY <1>3, <1>5 DEF IsUsed
<1>7. CASE n \in Range(nodes) /\ o \in Range(nodes)
  BY <1>2, <1>5, <1>7 DEF BlockInv, b
<1>8. CASE n = new /\ o \in Range(nodes)
  BY <1>3, <1>4, <1>5, <1>8
<1>9. CASE n \in Range(nodes) /\ o = new
  BY <1>3, <1>4, <1>5, <1>9
<1>. QED  BY <1>5, <1>6, <1>7, <1>8, <1>9

\* What the memory is made of after a turn.
LEMMA TurnPage ==
  ASSUME MmInv, NEW m \in Mems, RamNode(m)
  PROVE  PageOf(m)'
<1>. DEFINE r == mem[m].req
            max == mem[m].left
            i == At(free[Fit(m)])
            t == Take(i, r, max)
            s == t.s
            size == t.size
            left == max - size
            new == Piece(s, s + size, nodes[i].heap, r.type)
            c == mem[m].mn
<1>1. mem[m].st = "get" /\ Fit(m) # 0
  BY DEF RamNode
<1>2. NodesInv /\ FreeInv /\ MemInv /\ HeldInv /\ PageOf(m) /\ Asked(r, max)
  BY <1>1, AskedIs DEF MmInv, PageInv
<1>3. i \in 1 .. Len(nodes) /\ Fits(i, r, max) /\ s \in Nat
  BY <1>1, TurnIs
<1>4. /\ size \in Nat \ {0} /\ size <= max /\ s % r.align = 0 /\ size % r.align = 0
      /\ (r.min = r.size => size = max) /\ r.heap \in {ANY, nodes[i].heap}
  BY <1>2, <1>3, TakeIs
<1>5. max \in Nat \ {0} /\ max % r.align = 0 /\ r.align \in Nat \ {0} /\ r.size \in Nat
  BY <1>2 DEF Asked, Reqs
<1>6. /\ NodesInv' /\ new \in Range(nodes') /\ new.offset = s /\ End(new) = s + size
      /\ new.type = r.type /\ new.heap = nodes[i].heap
      /\ \A x \in Range(nodes) : x \in Range(nodes') \/ x.type = NONE
  BY AllocNodes
<1>7. /\ MemInv' /\ mem'[m].mn = Append(c, s) /\ mem'[m].req = r /\ mem'[m].left = left /\ left \in Nat
      /\ mem'[m].st = (IF left = 0 THEN "live" ELSE "get")
  BY TurnMem
<1>8. Held(m)' = Held(m) \cup {s}
  BY TurnHeld
<1>9. Total(m) \in Nat /\ Total(m) + max = r.size /\ (r.min = r.size => c = <<>>)
  <2>1. Total(m) + max = r.size /\ (r.min = r.size => c = <<>>)
    BY <1>1, <1>2 DEF PageOf
  <2>2. \A o \in Held(m) : \E n \in Range(nodes) : n.offset = o /\ n.type # HOLE /\ n \in NodeSet
    BY <1>2, HeldIs
  <2>3. Total(m) \in Nat
    BY <1>2, <2>2, IndexNow, LengthsIs, MemIs
  <2>. QED  BY <2>1, <2>3
<1>10. r.type # HOLE
  BY <1>1, <1>2, ReqOf
<1>. HIDE DEF r, max, i, t, s, size, new, c
<1>11. new \in NodeSet
  BY <1>6, Indices DEF NodesInv
<1>12. new.length = size
  <2>. DEFINE x == new.length
  <2>1. x \in Nat /\ new.offset + x = s + size
    BY <1>6, <1>11 DEF NodeSet, End
  <2>. HIDE DEF x
  <2>2. x = size
    BY <1>3, <1>4, <1>6, <2>1
  <2>. QED  BY <2>2 DEF x
<1>13. Total(m)' = Total(m) + size
  <2>1. /\ new.type # HOLE /\ new.offset \in Nat /\ new.length \in Nat /\ c \in Seq(Nat)
        /\ mem'[m].mn = Append(c, new.offset)
    BY <1>2, <1>3, <1>4, <1>6, <1>7, <1>10, <1>12, MemIs DEF c
  <2>2. \A o \in Held(m) :
           \E n \in Range(nodes) : /\ n.offset = o /\ n.type # HOLE /\ n \in NodeSet
                                   /\ n \in Range(nodes')
    <3>. SUFFICES ASSUME NEW o \in Held(m)
                  PROVE  \E n \in Range(nodes) : /\ n.offset = o /\ n.type # HOLE /\ n \in NodeSet
                                                 /\ n \in Range(nodes')
      OBVIOUS
    <3>1. PICK n \in Range(nodes) : n.offset = o
      BY <1>2, HeldIs
    <3>2. IsUsed(n) /\ n \in NodeSet
      BY <1>2, <3>1, HeldIs
    <3>. QED  BY <1>6, <3>1, <3>2 DEF IsUsed
  <2>3. IndexInv /\ IndexInv'
    BY <1>2, <1>6, <1>7, IndexNow, IndexNext
  <2>4. Total(m)' = Total(m) + new.length
    BY <1>6, <2>1, <2>2, <2>3, TotalAppend DEF c
  <2>. QED  BY <1>12, <2>4
<1>14. Total(m)' + left = r.size
  BY <1>4, <1>5, <1>9, <1>13
<1>15. left % r.align = 0
  <2>. DEFINE a == r.align
  <2>1. a \in Nat \ {0} /\ max % a = 0 /\ size % a = 0
    BY <1>4, <1>5
  <2>. HIDE DEF a
  <2>2. left % a = 0
    BY <1>4, <1>5, <2>1, MultipleBetween
  <2>. QED  BY <2>2 DEF a
<1>16. r.min = r.size => left = 0
  BY <1>4, <1>5
<1>17. r.min = r.size => Len(mem'[m].mn) <= 1
  <2>. SUFFICES ASSUME r.min = r.size PROVE Len(mem'[m].mn) <= 1
    OBVIOUS
  <2>1. c = <<>> /\ <<>> \in Seq(Nat) /\ Len(<<>>) = 0
    BY <1>9, EmptySeq
  <2>2. Len(Append(<<>>, s)) = 0 + 1
    BY <1>3, <2>1, AppendProperties
  <2>3. mem'[m].mn = Append(<<>>, s)
    BY <1>7, <2>1
  <2>. QED  BY <2>2, <2>3
<1>18. ASSUME NEW n \in Range(nodes'), n.offset \in Held(m)'
       PROVE  n.offset % r.align = 0 /\ n.length % r.align = 0 /\ r.heap \in {ANY, n.heap}
  <2>1. CASE n.offset = s
    <3>1. n = new
      BY <1>6, <2>1, NodesApart DEF NodesInv
    <3>. QED  BY <1>4, <1>6, <1>12, <3>1
  <2>2. CASE n.offset \in Held(m)
    <3>1. PICK x \in Range(nodes) : x.offset = n.offset
      BY <1>2, <2>2, HeldIs
    <3>2. IsUsed(x)
      BY <1>2, <2>2, <3>1, HeldIs
    <3>3. x \in Range(nodes')
      BY <1>6, <3>2 DEF IsUsed
    <3>4. x = n
      BY <1>6, <3>1, <3>3, NodesApart DEF NodesInv
    <3>. QED  BY <1>1, <1>2, <2>2, <3>4 DEF PageOf, r
  <2>. QED  BY <1>8, <1>18, <2>1, <2>2
<1>. HIDE DEF left
<1>19. CASE left = 0
  <2>1. Total(m) + size = r.size
    BY <1>4, <1>5, <1>9, <1>19 DEF left
  <2>2. mem'[m].st = "live" /\ Total(m)' = r.size
    BY <1>7, <1>13, <1>19, <2>1
  <2>. QED  BY <1>7, <1>17, <1>18, <2>2 DEF PageOf
<1>20. CASE left # 0
  <2>1. mem'[m].st = "get" /\ left > 0 /\ r.min # r.size
    BY <1>7, <1>16, <1>20
  <2>. QED  BY <1>7, <1>14, <1>15, <1>17, <1>18, <2>1 DEF PageOf
<1>. QED  BY <1>19, <1>20

LEMMA RamNodeStep ==
  ASSUME MmInv, NEW m \in Mems, RamNode(m)
  PROVE  MmInv'
<1>1. NodesInv' /\ FreeInv' /\ ApartInv'
  BY AllocNodes
<1>2. MemInv' /\ \A l \in Mems : l # m => mem'[l] = mem[l]
  BY TurnMem
<1>3. HeldInv' /\ BlockInv' /\ PageOf(m)'
  BY TurnHeld, TurnBlocks, TurnPage
<1>4. ASSUME NEW l \in Mems, l # m PROVE PageOf(l)'
  <2>1. \A x \in Range(nodes) : x \in Range(nodes') \/ x.type = NONE
    BY AllocNodes
  <2>2. \A n \in Range(nodes) : n.offset \in Held(l) => IsUsed(n)
    BY HeldIs DEF MmInv
  <2>3. \A n \in Range(nodes) : n.offset \in Held(l) => n \in Range(nodes')
    BY <2>1, <2>2 DEF IsUsed
  <2>. QED  BY <1>1, <1>2, <1>4, <2>3, Bystander
<1>5. PageInv'
  BY <1>3, <1>4 DEF PageInv
<1>. QED  BY <1>1, <1>2, <1>3, <1>5 DEF MmInv

-----------------------------------------------------------------------------
(* nvkm_mm_free.                                                           *)

FirstOf(i) == IF IsFree(i - 1) THEN i - 1 ELSE i
LastOf(i) == IF IsFree(i + 1) THEN i + 1 ELSE i
HeapOf(i) == nodes[IF LastOf(i) = i THEN FirstOf(i) ELSE LastOf(i)].heap
Merged(i) == Piece(nodes[FirstOf(i)].offset, End(nodes[LastOf(i)]), HeapOf(i), NONE)

\* Node i and its free neighbours.
LEMMA FirstIs ==
  ASSUME NodesInv, NEW i \in 1 .. Len(nodes), IsUsed(nodes[i])
  PROVE  /\ FirstOf(i) \in 1 .. i /\ LastOf(i) \in i .. Len(nodes)
         /\ FirstOf(i) # i =>
              /\ FirstOf(i) = i - 1 /\ nodes[FirstOf(i)].type = NONE
              /\ End(nodes[FirstOf(i)]) = nodes[i].offset
         /\ LastOf(i) # i =>
              /\ LastOf(i) = i + 1 /\ nodes[LastOf(i)].type = NONE
              /\ End(nodes[i]) = nodes[LastOf(i)].offset
         /\ FirstOf(i) = i /\ i > 1 => nodes[i - 1].type # NONE
         /\ LastOf(i) = i /\ i < Len(nodes) => nodes[i + 1].type # NONE
<1>1. Len(nodes) \in Nat /\ DOMAIN nodes = 1 .. Len(nodes)
  BY Indices DEF NodesInv
<1>2. \A j \in 1 .. Len(nodes) - 1 : End(nodes[j]) = nodes[j + 1].offset
  BY DEF NodesInv, Tiles
<1>3. IsFree(i - 1) <=> i > 1 /\ nodes[i - 1].type = NONE
  BY <1>1 DEF IsFree
<1>4. IsFree(i + 1) <=> i < Len(nodes) /\ nodes[i + 1].type = NONE
  BY <1>1 DEF IsFree
<1>5. i > 1 => End(nodes[i - 1]) = nodes[i].offset
  <2>. SUFFICES ASSUME i > 1 PROVE End(nodes[i - 1]) = nodes[i].offset
    OBVIOUS
  <2>1. i - 1 \in 1 .. Len(nodes) - 1 /\ (i - 1) + 1 = i
    BY <1>1
  <2>. QED  BY <1>2, <2>1
<1>6. i < Len(nodes) => End(nodes[i]) = nodes[i + 1].offset
  BY <1>1, <1>2
<1>. QED  BY <1>1, <1>3, <1>4, <1>5, <1>6 DEF FirstOf, LastOf

\* What becomes of them.
LEMMA MergedIs ==
  ASSUME NodesInv, NEW i \in 1 .. Len(nodes), IsUsed(nodes[i])
  PROVE  /\ Merged(i) \in NodeSet /\ InRegion(Merged(i)) /\ Merged(i).type = NONE
         /\ Merged(i).offset = nodes[FirstOf(i)].offset
         /\ End(Merged(i)) = End(nodes[LastOf(i)])
<1>. DEFINE f == FirstOf(i)
            l == LastOf(i)
            a == nodes[f]
            c == nodes[i]
            z == nodes[l]
            h == HeapOf(i)
            n == Merged(i)
<1>1. /\ f \in 1 .. i /\ l \in i .. Len(nodes)
      /\ f # i => f = i - 1 /\ a.type = NONE /\ End(a) = c.offset
      /\ l # i => l = i + 1 /\ z.type = NONE /\ End(c) = z.offset
  BY FirstIs
<1>2. \A j \in 1 .. Len(nodes) : nodes[j] \in NodeSet /\ InRegion(nodes[j])
  BY Indices DEF NodesInv
<1>3. f \in 1 .. Len(nodes) /\ l \in 1 .. Len(nodes) /\ Len(nodes) \in Nat
  BY <1>1, Indices DEF NodesInv
<1>4. /\ a \in NodeSet /\ c \in NodeSet /\ z \in NodeSet
      /\ InRegion(a) /\ InRegion(c) /\ InRegion(z) /\ c.type # HOLE
  BY <1>2, <1>3 DEF IsUsed
<1>5. n = Piece(a.offset, End(z), h, NONE)
  BY DEF Merged
<1>6. h = IF l = i THEN a.heap ELSE z.heap
  BY DEF HeapOf
<1>7. layout \in Layouts
  BY DEF NodesInv
<1>8. /\ a.offset \in Nat /\ End(a) \in Nat /\ a.offset < End(a)
      /\ c.offset \in Nat /\ End(c) \in Nat /\ c.offset < End(c)
      /\ z.offset \in Nat /\ End(z) \in Nat /\ z.offset < End(z)
  BY <1>4, NodeIs
<1>9. (f = i => a = c) /\ (l = i => z = c)
  OBVIOUS
<1>10. NONE # HOLE /\ NONE \in Bytes /\ a.heap \in Bytes /\ c.heap \in Bytes /\ z.heap \in Bytes
  BY <1>4 DEF NONE, HOLE, Bytes, NodeSet
<1>. HIDE DEF f, l, a, c, z, h, n
<1>. DEFINE y == Piece(a.offset, End(c), a.heap, NONE)
<1>11. a.offset < End(c) /\ a.offset < End(z) /\ h \in Bytes
  BY <1>1, <1>6, <1>8, <1>9, <1>10
<1>12. y \in NodeSet /\ y.offset = a.offset /\ End(y) = End(c) /\ y.type = NONE /\ y.heap = a.heap
  <2>1. PICK p \in Nat, q \in Nat : p = a.offset /\ q = End(c)
    BY <1>8
  <2>. DEFINE g == a.heap
              t == NONE
  <2>2. p < q /\ g \in Bytes /\ t \in Bytes
    BY <1>10, <1>11, <2>1
  <2>. HIDE DEF g, t
  <2>3. /\ Piece(p, q, g, t) \in NodeSet /\ Piece(p, q, g, t).offset = p /\ End(Piece(p, q, g, t)) = q
        /\ Piece(p, q, g, t).type = t /\ Piece(p, q, g, t).heap = g
    BY <2>2, NodeOf
  <2>4. y = Piece(p, q, g, t)
    BY <2>1 DEF y, g, t
  <2>. QED  BY <2>1, <2>3, <2>4 DEF g, t
<1>13. n \in NodeSet /\ n.offset = a.offset /\ End(n) = End(z) /\ n.type = NONE /\ n.heap = h
  <2>1. PICK p \in Nat, q \in Nat : p = a.offset /\ q = End(z)
    BY <1>8
  <2>. DEFINE t == NONE
  <2>2. p < q /\ h \in Bytes /\ t \in Bytes
    BY <1>10, <1>11, <2>1
  <2>. HIDE DEF t
  <2>3. /\ Piece(p, q, h, t) \in NodeSet /\ Piece(p, q, h, t).offset = p /\ End(Piece(p, q, h, t)) = q
        /\ Piece(p, q, h, t).type = t /\ Piece(p, q, h, t).heap = h
    BY <2>2, NodeOf
  <2>4. n = Piece(p, q, h, t)
    BY <1>5, <2>1 DEF t
  <2>. QED  BY <2>1, <2>3, <2>4 DEF t
<1>. HIDE DEF y
<1>14. InRegion(y)
  <2>1. CASE f = i
    BY <1>4, <1>9, <1>10, <1>12, <2>1 DEF InRegion
  <2>2. CASE f # i
    <3>1. a.type # HOLE /\ End(a) = c.offset
      BY <1>1, <1>10, <2>2
    <3>. QED  BY <1>4, <1>7, <1>10, <1>12, <3>1, Neighbours
  <2>. QED  BY <2>1, <2>2
<1>15. InRegion(n)
  <2>1. CASE l = i
    BY <1>6, <1>9, <1>12, <1>13, <1>14, <2>1 DEF InRegion
  <2>2. CASE l # i
    <3>1. z.type # HOLE /\ End(y) = z.offset /\ y.type # HOLE
      BY <1>1, <1>10, <1>12, <2>2
    <3>2. y.heap = z.heap
      BY <1>4, <1>7, <1>12, <1>14, <3>1, Neighbours
    <3>3. n.offset = y.offset /\ End(n) = End(z) /\ n.heap = y.heap /\ n.type # HOLE
      BY <1>6, <1>10, <1>12, <1>13, <2>2, <3>2
    <3>. QED  BY <1>4, <1>7, <1>12, <1>14, <3>1, <3>3, Neighbours
  <2>. QED  BY <2>1, <2>2
<1>. QED  BY <1>13, <1>15 DEF n, a, z, f, l

\* What nvkm_mm_free makes of the nodes.
LEMMA FreeNodes ==
  ASSUME NodesInv, ApartInv, FreeInv, UNCHANGED <<layout, failed>>,
         NEW i \in 1 .. Len(nodes), IsUsed(nodes[i]), MmFree(i)
  PROVE  /\ NodesInv' /\ ApartInv'
         /\ \A x \in Range(nodes') : IsUsed(x) => x \in Range(nodes) /\ x.offset # nodes[i].offset
         /\ \A x \in Range(nodes) : IsUsed(x) /\ x.offset # nodes[i].offset => x \in Range(nodes')
         /\ {x.offset : x \in {x \in Range(nodes') : x.type = NONE}} =
              (Range(free) \ {nodes[LastOf(i)].offset}) \cup {nodes[FirstOf(i)].offset}
<1>. DEFINE f == FirstOf(i)
            l == LastOf(i)
            c == nodes[i]
            n == Merged(i)
            one == <<n>>
            a == Ends[1].offset
            b == End(Ends[Len(Ends)])
<1>1. layout \in Layouts /\ Tiles(nodes, a, b) /\ Ends' = Ends
  BY DEF NodesInv, Ends
<1>2. /\ f \in 1 .. i /\ l \in i .. Len(nodes) /\ Len(nodes) \in Nat
      /\ f # i => f = i - 1 /\ nodes[f].type = NONE
      /\ l # i => l = i + 1 /\ nodes[l].type = NONE
      /\ f = i /\ i > 1 => nodes[i - 1].type # NONE
      /\ l = i /\ i < Len(nodes) => nodes[i + 1].type # NONE
  BY <1>1, FirstIs, Indices
<1>3. /\ n \in NodeSet /\ InRegion(n) /\ n.type = NONE
      /\ n.offset = nodes[f].offset /\ End(n) = End(nodes[l])
  BY MergedIs
<1>4. nodes' = Before(nodes, f) \o one \o Behind(nodes, l)
  BY DEF MmFree, FirstOf, LastOf, HeapOf, Merged, Piece, Before, Behind
<1>. HIDE DEF f, l, c, n, a, b
<1>5. Tiles(one, nodes[f].offset, End(nodes[l])) /\ Apart(one) /\ Range(one) = {n}
  <2>1. Tiles(<<n>>, n.offset, End(n)) /\ Apart(<<n>>)
    BY <1>3, TilesOne
  <2>. QED  BY <1>3, <2>1, OneIs
<1>6. one[1] = n /\ one[Len(one)] = n /\ one # <<>>
  BY <1>3, OneIs
<1>. HIDE DEF one
<1>7. f \in 1 .. Len(nodes) /\ l \in f .. Len(nodes) /\ l \in 1 .. Len(nodes) /\ i \in f .. l
  BY <1>2
<1>8. /\ Tiles(nodes', a, b)
      /\ Range(nodes') = {nodes[j] : j \in (1 .. Len(nodes)) \ (f .. l)} \cup {n}
  <2>1. PICK p \in 1 .. Len(nodes) : p = f
    BY <1>7
  <2>2. PICK q \in p .. Len(nodes) : q = l
    BY <1>7, <2>1
  <2>3. p = f /\ q = l
    BY <2>1, <2>2
  <2>4. Tiles(one, nodes[p].offset, End(nodes[q]))
    BY <1>5, <2>3
  <2>5. LET x == Before(nodes, p) \o one \o Behind(nodes, q)
        IN  /\ Tiles(x, a, b)
            /\ Range(x) = {nodes[j] : j \in (1 .. Len(nodes)) \ (p .. q)} \cup Range(one)
    BY <1>1, <2>4, Exchange
  <2>. QED  BY <1>4, <1>5, <2>3, <2>5
<1>9. /\ \A j \in 1 .. Len(nodes) : nodes[j] \in NodeSet /\ nodes[j] \in Range(nodes)
      /\ \A x \in Range(nodes) : x \in NodeSet /\ \E j \in 1 .. Len(nodes) : nodes[j] = x
  BY <1>1, Indices
<1>10. \A x, y \in Range(nodes) : x.offset = y.offset => x = y
  BY <1>1, NodesApart
<1>11. \A j, k \in 1 .. Len(nodes) : nodes[j] = nodes[k] => j = k
  <2>. SUFFICES ASSUME NEW j \in 1 .. Len(nodes), NEW k \in 1 .. Len(nodes), nodes[j] = nodes[k]
                PROVE  j = k
    OBVIOUS
  <2>1. nodes[j].offset < End(nodes[k]) /\ nodes[k].offset < End(nodes[j])
    BY <1>9, NodeIs
  <2>. QED  BY <1>1, <2>1, TilesUnique
<1>12. \A j \in f .. l : j = f \/ j = i \/ j = l
  BY <1>2
<1>13. c \in Range(nodes) /\ c.type # NONE /\ c = nodes[i]
  BY <1>9 DEF c, IsUsed
<1>14. NodesInv'
  <2>1. \A x \in Range(nodes') : InRegion(x) /\ (x.type = HOLE => x \in Range(Ends))
    <3>1. n.type # HOLE
      BY <1>3 DEF NONE, HOLE
    <3>2. \A x \in Range(nodes') : x \in Range(nodes) \/ x = n
      BY <1>8, <1>9
    <3>. QED  BY <1>3, <3>1, <3>2 DEF NodesInv
  <2>2. \A x : InRegion(x)' <=> InRegion(x)
    BY <1>1 DEF InRegion
  <2>. QED  BY <1>1, <1>8, <2>1, <2>2 DEF NodesInv, a, b
<1>15. ApartInv'
  <2>. SUFFICES ASSUME ~failed PROVE Apart(nodes')
    BY DEF ApartInv
  <2>1. Apart(nodes)
    BY DEF ApartInv
  <2>2. f > 1 => nodes[f - 1].type # NONE
    <3>. SUFFICES ASSUME f > 1 PROVE nodes[f - 1].type # NONE
      OBVIOUS
    <3>1. CASE f = i
      BY <1>2, <3>1
    <3>2. CASE f # i
      <4>. DEFINE j == f - 1
      <4>1. j \in 1 .. Len(nodes) - 1 /\ j + 1 = f
        BY <1>7
      <4>. HIDE DEF j
      <4>2. nodes[j].type # NONE
        BY <1>2, <2>1, <3>2, <4>1 DEF Apart
      <4>. QED  BY <4>2 DEF j
    <3>. QED  BY <3>1, <3>2
  <2>3. l < Len(nodes) => nodes[l + 1].type # NONE
    <3>. SUFFICES ASSUME l < Len(nodes) PROVE nodes[l + 1].type # NONE
      OBVIOUS
    <3>1. CASE l = i
      BY <1>2, <3>1
    <3>2. CASE l # i
      <4>1. l \in 1 .. Len(nodes) - 1
        BY <1>2, <1>7
      <4>. QED  BY <1>2, <2>1, <3>2, <4>1 DEF Apart
    <3>. QED  BY <3>1, <3>2
  <2>. QED  BY <1>1, <1>4, <1>5, <1>6, <1>7, <2>1, <2>2, <2>3, ExchangeApart
<1>16. ASSUME NEW x \in Range(nodes'), IsUsed(x)
       PROVE  x \in Range(nodes) /\ x.offset # c.offset
  <2>1. x # n
    BY <1>3, <1>16 DEF IsUsed
  <2>2. PICK j \in (1 .. Len(nodes)) \ (f .. l) : nodes[j] = x
    BY <1>8, <2>1
  <2>3. x \in Range(nodes) /\ x # c
    BY <1>7, <1>9, <1>11, <1>13, <2>2
  <2>. QED  BY <1>10, <1>13, <2>3
<1>17. ASSUME NEW x \in Range(nodes), x \notin {nodes[f], c, nodes[l]}
       PROVE  x \in Range(nodes')
  <2>1. PICK j \in 1 .. Len(nodes) : nodes[j] = x
    BY <1>9
  <2>2. j \notin f .. l
    BY <1>12, <1>13, <1>17, <2>1
  <2>. QED  BY <1>8, <2>1, <2>2
<1>18. nodes[f] = c \/ nodes[f].type = NONE
  BY <1>2, <1>13
<1>19. nodes[l] = c \/ nodes[l].type = NONE
  BY <1>2, <1>13
<1>20. ASSUME NEW x \in Range(nodes), IsUsed(x), x.offset # c.offset
       PROVE  x \in Range(nodes')
  BY <1>17, <1>18, <1>19, <1>20 DEF IsUsed
<1>21. {x.offset : x \in {x \in Range(nodes') : x.type = NONE}} =
         (Range(free) \ {nodes[l].offset}) \cup {nodes[f].offset}
  <2>1. Range(free) = {x.offset : x \in {x \in Range(nodes) : x.type = NONE}}
    BY DEF FreeInv
  <2>2. ASSUME NEW x \in Range(nodes'), x.type = NONE
        PROVE  x.offset \in (Range(free) \ {nodes[l].offset}) \cup {nodes[f].offset}
    <3>1. CASE x = n
      BY <1>3, <3>1
    <3>2. CASE x # n
      <4>1. PICK j \in (1 .. Len(nodes)) \ (f .. l) : nodes[j] = x
        BY <1>8, <3>2
      <4>2. x \in Range(nodes) /\ x # nodes[l]
        BY <1>7, <1>9, <1>11, <4>1
      <4>3. x.offset # nodes[l].offset
        BY <1>7, <1>9, <1>10, <4>2
      <4>. QED  BY <2>1, <2>2, <4>2, <4>3
    <3>. QED  BY <3>1, <3>2
  <2>3. ASSUME NEW x \in Range(nodes), x.type = NONE, x.offset # nodes[l].offset
        PROVE  \E y \in Range(nodes') : y.type = NONE /\ y.offset = x.offset
    <3>1. CASE x = nodes[f]
      BY <1>3, <1>8, <3>1
    <3>2. CASE x # nodes[f]
      BY <1>13, <1>17, <2>3, <3>2
    <3>. QED  BY <3>1, <3>2
  <2>4. n \in Range(nodes') /\ n.type = NONE /\ n.offset = nodes[f].offset
    BY <1>3, <1>8
  <2>. QED  BY <2>1, <2>2, <2>3, <2>4
<1>. QED  BY <1>14, <1>15, <1>16, <1>20, <1>21 DEF f, l, c

\* Where a node is put on the free list.
LEMMA WhereIs ==
  ASSUME FreeInv, NEW i
  PROVE  LET w == Where(i)
         IN  /\ w \in 1 .. Len(free) + 1 /\ \A j \in 1 .. w - 1 : ~(nodes[i].offset < free[j])
             /\ w <= Len(free) => nodes[i].offset < free[w]
<1>. DEFINE I == {j \in 1 .. Len(free) : nodes[i].offset < free[j]}
            w == Where(i)
<1>1. Len(free) \in Nat
  BY LenProperties DEF FreeInv
<1>2. w = IF I # {} THEN IF Min(I) = 0 THEN Len(free) + 1 ELSE Min(I) ELSE Len(free) + 1
  BY DEF Where, SelectInSeq
<1>3. CASE I = {}
  <2>1. w = Len(free) + 1
    BY <1>2, <1>3
  <2>. QED  BY <1>1, <1>3, <2>1
<1>4. CASE I # {}
  <2>. DEFINE x == Min(I)
  <2>1. I \in SUBSET (1 .. Len(free))
    OBVIOUS
  <2>. HIDE DEF I
  <2>2. x \in I /\ \A j \in I : x <= j
    BY <1>1, <1>4, <2>1, LeastEntry
  <2>3. x \in 1 .. Len(free)
    BY <2>1, <2>2
  <2>4. w = x
    BY <1>2, <1>4, <2>3
  <2>. HIDE DEF x, w
  <2>5. \A j \in 1 .. x - 1 : j \notin I /\ j \in 1 .. Len(free)
    BY <1>1, <2>2, <2>3
  <2>. QED  BY <1>1, <2>2, <2>3, <2>4, <2>5 DEF I, w
<1>. QED  BY <1>3, <1>4

\* What it makes of the free list.
LEMMA FreeList ==
  ASSUME NodesInv, NodesInv', ApartInv, FreeInv, UNCHANGED <<layout, failed>>,
         NEW i \in 1 .. Len(nodes), IsUsed(nodes[i]), MmFree(i)
  PROVE  FreeInv'
<1>. DEFINE f == FirstOf(i)
            l == LastOf(i)
            x == nodes[f].offset
            c == nodes[i].offset
            z == nodes[l].offset
            F == Range(free)
<1>1. /\ f \in 1 .. i /\ l \in i .. Len(nodes) /\ Len(nodes) \in Nat
      /\ f # i => f = i - 1 /\ nodes[f].type = NONE /\ End(nodes[f]) = c
      /\ l # i => l = i + 1 /\ nodes[l].type = NONE /\ End(nodes[i]) = z
  BY FirstIs, Indices DEF NodesInv
<1>2. {y.offset : y \in {y \in Range(nodes') : y.type = NONE}} = (F \ {z}) \cup {x}
  BY FreeNodes
<1>3. free \in Seq(Nat) /\ Rising(free) /\ F = {y.offset : y \in {y \in Range(nodes) : y.type = NONE}}
  BY DEF FreeInv
<1>4. \A j \in 1 .. Len(nodes) : nodes[j] \in NodeSet /\ nodes[j] \in Range(nodes)
  BY Indices DEF NodesInv
<1>5. f \in 1 .. Len(nodes) /\ l \in 1 .. Len(nodes)
  BY <1>1
<1>6. x \in Nat /\ c \in Nat /\ z \in Nat /\ End(nodes[f]) \in Nat /\ End(nodes[i]) \in Nat
      /\ x < End(nodes[f]) /\ c < End(nodes[i])
  BY <1>4, <1>5, NodeIs
<1>7. c \notin F
  <2>1. \A y \in Range(nodes) : y.offset = c => y = nodes[i]
    BY <1>4, NodesApart DEF NodesInv
  <2>. QED  BY <1>3, <2>1 DEF IsUsed
<1>8. /\ f # i => x \in F /\ x < c
      /\ l # i => z \in F /\ c < z
      /\ (f = i => x = c) /\ (l = i => z = c)
  BY <1>1, <1>3, <1>4, <1>5, <1>6
<1>9. ASSUME NEW y \in F PROVE y \in Nat /\ (y < c => y <= x) /\ (y > c => z <= y)
  <2>1. PICK k \in 1 .. Len(nodes) : nodes[k].offset = y
    BY <1>3, Indices DEF NodesInv
  <2>2. y \in Nat /\ End(nodes[k]) \in Nat /\ y < End(nodes[k])
    BY <1>4, <2>1, NodeIs
  <2>3. y < c => k < i
    BY <2>1, TilesUnique DEF NodesInv
  <2>4. c < y => i < k
    BY <2>1, TilesUnique DEF NodesInv
  <2>5. k < i => y <= x
    <3>. SUFFICES ASSUME k < i PROVE y <= x
      OBVIOUS
    <3>1. CASE f # i
      <4>1. k = f \/ k < f
        BY <1>1, <3>1
      <4>2. k < f => End(nodes[k]) <= nodes[f].offset
        BY <1>5, TilesUnique DEF NodesInv
      <4>. QED  BY <1>6, <2>1, <2>2, <4>1, <4>2
    <3>2. CASE f = i
      <4>1. End(nodes[k]) <= nodes[i].offset
        BY TilesUnique DEF NodesInv
      <4>. QED  BY <1>6, <1>8, <2>1, <2>2, <3>2, <4>1
    <3>. QED  BY <3>1, <3>2
  <2>6. i < k => z <= y
    <3>. SUFFICES ASSUME i < k PROVE z <= y
      OBVIOUS
    <3>1. k = l \/ l < k
      BY <1>1
    <3>2. l < k => End(nodes[l]) <= nodes[k].offset
      BY <1>5, TilesUnique DEF NodesInv
    <3>3. End(nodes[l]) \in Nat /\ z < End(nodes[l])
      BY <1>4, <1>5, NodeIs
    <3>. QED  BY <1>6, <2>1, <2>2, <3>1, <3>2, <3>3
  <2>. QED  BY <1>6, <2>2, <2>3, <2>4, <2>5, <2>6
<1>10. free' = IF l # i
               THEN LET rest == IF f = i THEN free ELSE RemoveFirst(free, x)
                    IN  ReplaceAll(rest, z, x)
               ELSE IF f # i THEN free
               ELSE InsertAt(free, Where(i), x)
  BY DEF MmFree, FirstOf, LastOf, Node
<1>. HIDE DEF f, l, x, c, z, F
<1>11. SUFFICES free' \in Seq(Nat) /\ Rising(free') /\ Range(free') = (F \ {z}) \cup {x}
  BY <1>2 DEF FreeInv
<1>12. CASE l # i
  <2>. DEFINE rest == IF f = i THEN free ELSE RemoveFirst(free, x)
  <2>1. rest \in Seq(Nat) /\ Rising(rest) /\ Range(rest) = F \ {x}
    <3>1. CASE f = i
      BY <1>3, <1>7, <1>8, <3>1 DEF F
    <3>2. CASE f # i
      <4>1. x \in Range(free)
        BY <1>8, <3>2 DEF F
      <4>2. LET r == RemoveFirst(free, x)
            IN  r \in Seq(Nat) /\ Rising(r) /\ Range(r) = Range(free) \ {x}
        BY <1>3, <4>1, RisingRemove
      <4>. QED  BY <3>2, <4>2 DEF F
    <3>. QED  BY <3>1, <3>2
  <2>. HIDE DEF rest
  <2>2. z \in Range(rest) /\ x <= z
    BY <1>6, <1>8, <1>12, <2>1
  <2>3. \A y \in Range(rest) : y < z => y < x
    <3>. SUFFICES ASSUME NEW y \in Range(rest), y < z PROVE y < x
      OBVIOUS
    <3>1. y \in F /\ y # x /\ y # c
      BY <1>7, <2>1
    <3>2. y \in Nat /\ (y < c => y <= x) /\ (y > c => z <= y)
      BY <1>9, <3>1
    <3>. QED  BY <1>6, <3>1, <3>2
  <2>4. LET r == ReplaceAll(rest, z, x)
        IN  r \in Seq(Nat) /\ Rising(r) /\ Range(r) = (Range(rest) \ {z}) \cup {x}
    BY <1>6, <2>1, <2>2, <2>3, RisingReplace
  <2>5. free' = ReplaceAll(rest, z, x)
    BY <1>10, <1>12 DEF rest
  <2>. QED  BY <2>1, <2>4, <2>5
<1>13. CASE l = i /\ f # i
  BY <1>3, <1>7, <1>8, <1>10, <1>13 DEF F
<1>14. CASE l = i /\ f = i
  <2>. DEFINE w == Where(i)
  <2>1. /\ w \in 1 .. Len(free) + 1 /\ \A j \in 1 .. w - 1 : ~(c < free[j])
        /\ w <= Len(free) => c < free[w]
    BY WhereIs DEF c
  <2>2. free' = InsertAt(free, w, c)
    BY <1>8, <1>10, <1>14
  <2>. HIDE DEF w
  <2>3. LET r == InsertAt(free, w, c)
        IN  r \in Seq(Nat) /\ Rising(r) /\ Range(r) = Range(free) \cup {c}
    BY <1>3, <1>6, <1>7, <2>1, RisingInsert DEF F
  <2>. QED  BY <1>7, <1>8, <1>14, <2>2, <2>3 DEF F
<1>. QED  BY <1>12, <1>13, <1>14

\* The node that is freed, the first of the memory.
LEMMA FirstHeld ==
  ASSUME MmInv, NEW m \in Mems, mem[m].st = "put", mem[m].mn # <<>>
  PROVE  LET c == mem[m].mn
             i == At(c[1])
             d == Behind(c, 1)
         IN  /\ i \in 1 .. Len(nodes) /\ IsUsed(nodes[i]) /\ nodes[i].offset = c[1]
             /\ d \in Seq(Nat) /\ Range(d) = Held(m) \ {c[1]} /\ c[1] \in Held(m)
             /\ \A j, k \in DOMAIN d : d[j] = d[k] => j = k
<1>. DEFINE c == mem[m].mn
            d == Behind(c, 1)
            n == Len(c)
            o == c[1]
            i == At(o)
<1>1. NodesInv /\ MemInv /\ HeldInv /\ Found
  BY FoundNow DEF MmInv
<1>2. c \in Seq(Nat) /\ n \in Nat /\ DOMAIN c = 1 .. n /\ \A j, k \in 1 .. n : c[j] = c[k] => j = k
  BY <1>1, MemIs DEF HeldInv
<1>3. n # 0
  BY <1>2, EmptySeq
<1>4. 1 \in 1 .. n /\ o \in Held(m) /\ Held(m) = {c[j] : j \in 1 .. n}
  <2>1. 1 \in 1 .. n
    BY <1>2, <1>3
  <2>2. Range(c) = {c[j] : j \in 1 .. n}
    BY <1>2, RangeEquality
  <2>3. Held(m) = Range(c)
    BY DEF Held
  <2>. HIDE DEF c
  <2>. QED  BY <2>1, <2>2, <2>3
<1>. HIDE DEF c, n, o, i
<1>5. PICK x \in Range(nodes) : x.offset = o /\ IsUsed(x) /\ x.type # HOLE
  <2>1. PICK x \in Range(nodes) : x.offset = o
    BY <1>1, <1>4, HeldIs
  <2>2. IsUsed(x) /\ x.type # HOLE
    BY <1>1, <1>4, <2>1, HeldIs
  <2>. QED  BY <2>1, <2>2
<1>6. i \in 1 .. Len(nodes) /\ nodes[i] = x
  BY <1>1, <1>5 DEF Found, i
<1>7. /\ d \in Seq(Nat) /\ Len(d) = n - 1 /\ \A j \in 1 .. n - 1 : d[j] = c[1 + j]
      /\ Range(d) = {c[j] : j \in 2 .. n}
  <2>1. PICK k \in 1 .. n : k = 1
    BY <1>4
  <2>. DEFINE e == Behind(c, k)
  <2>2. /\ e \in Seq(Nat) /\ Len(e) = n - k /\ \A j \in 1 .. n - k : e[j] = c[k + j]
        /\ Range(e) = {c[j] : j \in k + 1 .. n}
    <3>1. c \in Seq(Nat) /\ k \in 1 .. Len(c)
      BY <1>2 DEF n
    <3>. QED  BY <3>1, BehindIs DEF n
  <2>3. d = e
    BY <2>1
  <2>. HIDE DEF d, e
  <2>4. k + 1 .. n = 2 .. n /\ 1 .. n - k = 1 .. n - 1 /\ n - k = n - 1
    BY <1>2, <2>1
  <2>5. Range(e) = {c[j] : j \in 2 .. n}
    BY <2>2, <2>4
  <2>6. \A j \in 1 .. n - 1 : e[j] = c[1 + j]
    BY <2>1, <2>2
  <2>. QED  BY <2>2, <2>3, <2>4, <2>5, <2>6
<1>8. DOMAIN d = 1 .. n - 1
  BY <1>7, LenProperties
<1>. HIDE DEF d
<1>9. Range(d) = Held(m) \ {o}
  <2>1. \A j \in 2 .. n : j \in 1 .. n /\ j # 1
    BY <1>2
  <2>2. \A j \in 1 .. n : j = 1 \/ j \in 2 .. n
    BY <1>2
  <2>. QED  BY <1>2, <1>4, <1>7, <2>1, <2>2 DEF o
<1>10. \A j, k \in DOMAIN d : d[j] = d[k] => j = k
  <2>. SUFFICES ASSUME NEW j \in 1 .. n - 1, NEW k \in 1 .. n - 1, d[j] = d[k] PROVE j = k
    BY <1>8
  <2>1. 1 + j \in 1 .. n /\ 1 + k \in 1 .. n
    BY <1>2
  <2>2. 1 + j = 1 + k
    BY <1>2, <1>7, <2>1
  <2>. QED  BY <2>2
<1>11. /\ i \in 1 .. Len(nodes) /\ IsUsed(nodes[i]) /\ nodes[i].offset = o
       /\ d \in Seq(Nat) /\ Range(d) = Held(m) \ {o} /\ o \in Held(m)
       /\ \A j, k \in DOMAIN d : d[j] = d[k] => j = k
  BY <1>4, <1>5, <1>6, <1>7, <1>9, <1>10
<1>. QED  BY <1>11, Zenon DEF c, d, o, i

LEMMA DtorNodeStep ==
  ASSUME MmInv, NEW m \in Mems, DtorNode(m)
  PROVE  MmInv'
<1>. DEFINE c == mem[m].mn
            d == Behind(c, 1)
            o == c[1]
            i == At(o)
            x == [mem[m] EXCEPT !.mn = d]
<1>1. /\ mem[m].st = "put" /\ c # <<>> /\ MmFree(i)
      /\ mem' = [mem EXCEPT ![m].mn = SubSeq(@, 2, Len(@))]
      /\ UNCHANGED <<layout, mutex, failed>>
  BY DEF DtorNode
<1>2. NodesInv /\ FreeInv /\ MemInv /\ HeldInv /\ BlockInv /\ ApartInv /\ mutex = m /\
      failed \in BOOLEAN
  BY <1>1 DEF MmInv, MemInv
<1>3. /\ i \in 1 .. Len(nodes) /\ IsUsed(nodes[i]) /\ nodes[i].offset = o
      /\ d \in Seq(Nat) /\ Range(d) = Held(m) \ {o} /\ o \in Held(m)
      /\ \A j, k \in DOMAIN d : d[j] = d[k] => j = k
  BY <1>1, FirstHeld
<1>4. d = SubSeq(c, 2, Len(c))
  <2>1. 1 + 1 = 2
    OBVIOUS
  <2>. QED  BY <2>1 DEF Behind
<1>. HIDE DEF d, i
<1>5. mem \in [Mems -> Memory]
  BY <1>2 DEF MemInv, Memory
<1>6. mem[m] \in Memory /\ mem' = [mem EXCEPT ![m] = x]
  BY <1>1, <1>4, <1>5
<1>7. x \in Memory /\ x.mn = d /\ x.st = "put" /\ x.req = mem[m].req
  BY <1>1, <1>3, <1>6 DEF Memory
<1>8. LET r == mem[m].req
      IN  /\ r \in Reqs /\ r.size % r.align = 0 /\ r.min \in {r.size, r.align}
          /\ (r.back => r.min = r.size)
  BY <1>1, <1>2, ReqOf
<1>. HIDE DEF x, c, o
<1>9. MemInv' /\ mem'[m] = x /\ \A l \in Mems : l # m => mem'[l] = mem[l]
  <2>1. mutex \in {None, m} /\ mutex' = m /\ x.st \in {"get", "put"} /\ failed' \in BOOLEAN
    BY <1>1, <1>2, <1>7
  <2>2. x.req \in Reqs /\ x.req.size % x.req.align = 0 /\ x.st # "none"
    BY <1>7, <1>8
  <2>3. x.req.min \in {x.req.size, x.req.align} /\ (x.req.back => x.req.min = x.req.size)
    BY <1>7, <1>8
  <2>. QED  BY <1>2, <1>6, <1>7, <2>1, <2>2, <2>3, MemStep
<1>10. /\ NodesInv' /\ ApartInv'
       /\ \A y \in Range(nodes') : IsUsed(y) => y \in Range(nodes) /\ y.offset # o
       /\ \A y \in Range(nodes) : IsUsed(y) /\ y.offset # o => y \in Range(nodes')
  BY <1>1, <1>2, <1>3, FreeNodes
<1>11. FreeInv'
  BY <1>1, <1>2, <1>3, <1>10, FreeList
<1>12. /\ Held(m)' = Held(m) \ {o} /\ \A l \in Mems : l # m => Held(l)' = Held(l)
       /\ \A l \in Mems : mem'[l].req = mem[l].req
  BY <1>3, <1>7, <1>9 DEF Held
<1>13. \A l \in Mems : l # m => o \notin Held(l)
  BY <1>2, <1>3 DEF HeldInv
<1>14. HeldInv'
  <2>1. \A l \in Mems : \A j, k \in DOMAIN mem'[l].mn : mem'[l].mn[j] = mem'[l].mn[k] => j = k
    <3>. SUFFICES ASSUME NEW l \in Mems
                  PROVE  \A j, k \in DOMAIN mem'[l].mn : mem'[l].mn[j] = mem'[l].mn[k] => j = k
      OBVIOUS
    <3>1. CASE l = m
      BY <1>3, <1>7, <1>9, <3>1
    <3>2. CASE l # m
      BY <1>2, <1>9, <3>2 DEF HeldInv
    <3>. QED  BY <3>1, <3>2
  <2>2. \A l, n \in Mems : Held(l)' \cap Held(n)' # {} => l = n
    BY <1>2, <1>12 DEF HeldInv
  <2>3. \A l \in Mems : \A y \in Held(l)' :
          \E n \in Range(nodes') : n.offset = y /\ n.type = mem'[l].req.type
    <3>. SUFFICES ASSUME NEW l \in Mems, NEW y \in Held(l)'
                  PROVE  \E n \in Range(nodes') : n.offset = y /\ n.type = mem'[l].req.type
      OBVIOUS
    <3>1. y \in Held(l) /\ y # o
      BY <1>12, <1>13
    <3>2. PICK n \in Range(nodes) : n.offset = y
      BY <1>2, <3>1, HeldIs
    <3>3. n.type = mem[l].req.type /\ IsUsed(n)
      BY <1>2, <3>1, <3>2, HeldIs
    <3>4. n \in Range(nodes')
      BY <1>10, <3>1, <3>2, <3>3
    <3>. QED  BY <1>12, <3>2, <3>3, <3>4
  <2>4. \A n \in Range(nodes') : IsUsed(n) => \E l \in Mems : n.offset \in Held(l)'
    <3>. SUFFICES ASSUME NEW n \in Range(nodes'), IsUsed(n) PROVE \E l \in Mems : n.offset \in Held(l)'
      OBVIOUS
    <3>1. n \in Range(nodes) /\ n.offset # o
      BY <1>10
    <3>2. PICK l \in Mems : n.offset \in Held(l)
      BY <1>2, <3>1 DEF HeldInv
    <3>. QED  BY <1>12, <3>1, <3>2
  <2>. QED  BY <2>1, <2>2, <2>3, <2>4 DEF HeldInv
<1>15. ASSUME NEW l \in Mems PROVE PageOf(l)'
  <2>1. CASE l = m
    BY <1>7, <1>9, <2>1 DEF PageOf
  <2>2. CASE l # m
    <3>1. \A n \in Range(nodes) : n.offset \in Held(l) => IsUsed(n) /\ n.offset # o
      BY <1>2, <1>13, <2>2, HeldIs
    <3>2. \A n \in Range(nodes) : n.offset \in Held(l) => n \in Range(nodes')
      BY <1>10, <3>1
    <3>3. mem'[l] = mem[l]
      BY <1>9, <2>2
    <3>. QED  BY <1>9, <1>10, <3>2, <3>3, Bystander
  <2>. QED  BY <2>1, <2>2
<1>16. BlockInv'
  BY <1>1, <1>2, <1>10, FewerUsed
<1>. QED  BY <1>9, <1>10, <1>11, <1>14, <1>15, <1>16 DEF MmInv, PageInv

-----------------------------------------------------------------------------
(* What nvkm_mm_init makes.                                                *)

\* The offsets of the regions are those of the free nodes.
LEMMA StartsAre ==
  ASSUME layout \in Layouts, nodes = Ends,
         free = [i \in DOMAIN layout.regions |-> Start(layout.regions[i], layout.block)]
  PROVE  FreeInv
<1>. DEFINE c == Len(layout.regions)
            e == Ends
            a == RegionNode(layout, 1)
            b == RegionNode(layout, 2)
            start(i) == Start(layout.regions[i], layout.block)
<1>1. /\ (Len(e) = 1 /\ c = 1) \/ (Len(e) = 3 /\ c = 2)
      /\ e[1] = a /\ (Len(e) = 3 => e[2].type = HOLE /\ e[3] = b)
  BY CtorIs DEF Ends
<1>2. c \in {1, 2} /\ DOMAIN layout.regions = 1 .. c
  BY LayoutIs
<1>3. \A i \in 1 .. c : start(i) \in Nat
  BY RegionIs
<1>4. \A x \in Range(e) : \E i \in 1 .. Len(e) : e[i] = x
  BY EndsIs, Indices
<1>5. \A i \in 1 .. Len(e) : e[i] \in Range(e)
  BY EndsIs, Indices
<1>6. a.offset = start(1) /\ a.type = NONE
  <2>1. 1 \in 1 .. c
    BY <1>2
  <2>. QED  BY <2>1, RegionNodeIs
<1>7. c = 2 => b.offset = start(2) /\ b.type = NONE /\ start(1) < start(2)
  <2>. SUFFICES ASSUME c = 2 PROVE b.offset = start(2) /\ b.type = NONE /\ start(1) < start(2)
    OBVIOUS
  <2>1. 1 \in 1 .. c /\ 2 \in 1 .. c
    OBVIOUS
  <2>2. b.offset = start(2) /\ b.type = NONE
    BY <2>1, RegionNodeIs
  <2>. DEFINE x == start(1)
              y == start(2)
              z == Stop(layout.regions[1], layout.block)
  <2>3. x \in Nat /\ y \in Nat /\ z \in Nat /\ x < z
    BY <2>1, RegionIs
  <2>4. z < y
    BY SecondRegion
  <2>. HIDE DEF x, y, z
  <2>5. x < y
    BY <2>3, <2>4
  <2>. QED  BY <2>2, <2>5 DEF x, y
<1>8. free = [i \in 1 .. c |-> start(i)]
  BY <1>2
<1>. HIDE DEF c, e, a, b, start
<1>9. free \in Seq(Nat) /\ Len(free) = c /\ \A i \in 1 .. c : free[i] = start(i)
  BY <1>2, <1>3, <1>8, SeqDef, LenProperties
<1>10. Range(free) = {free[i] : i \in 1 .. c}
  BY <1>9, RangeEquality
<1>11. NONE # HOLE
  BY DEF NONE, HOLE
<1>12. nodes = e
  BY DEF e
<1>13. CASE c = 1
  <2>1. Len(e) = 1 /\ 1 .. 1 = {1}
    BY <1>1, <1>13
  <2>2. Range(e) = {a}
    BY <1>1, <1>4, <1>5, <2>1
  <2>3. Range(free) = {start(1)}
    BY <1>9, <1>10, <1>13, <2>1
  <2>4. Rising(free)
    BY <1>9, <1>13 DEF Rising
  <2>. QED  BY <1>6, <1>9, <1>12, <2>2, <2>3, <2>4 DEF FreeInv
<1>14. CASE c = 2
  <2>1. Len(e) = 3 /\ 1 .. 3 = {1, 2, 3} /\ 1 .. 2 = {1, 2}
    BY <1>1, <1>14
  <2>2. Range(e) = {a, e[2], b} /\ e[2].type = HOLE
    BY <1>1, <1>4, <1>5, <2>1
  <2>3. Range(free) = {start(1), start(2)}
    BY <1>9, <1>10, <1>14, <2>1
  <2>4. \A j, k \in 1 .. 2 : j < k => j = 1 /\ k = 2
    OBVIOUS
  <2>5. free[1] < free[2]
    BY <1>7, <1>9, <1>14, <2>1
  <2>6. Rising(free)
    BY <1>9, <1>14, <2>4, <2>5 DEF Rising
  <2>7. {x \in Range(e) : x.type = NONE} = {a, b}
    BY <1>6, <1>7, <1>11, <1>14, <2>2
  <2>8. {x.offset : x \in {a, b}} = {start(1), start(2)}
    BY <1>6, <1>7, <1>14
  <2>. QED  BY <1>9, <1>12, <2>3, <2>6, <2>7, <2>8 DEF FreeInv
<1>. QED  BY <1>2, <1>13, <1>14

LEMMA InvInit == Init => MmInv
<1>. SUFFICES ASSUME Init PROVE MmInv
  OBVIOUS
<1>1. /\ layout \in Layouts /\ nodes = Ends /\ mutex = None /\ mem = [m \in Mems |-> NoMem]
      /\ free = [i \in DOMAIN layout.regions |-> Start(layout.regions[i], layout.block)]
      /\ failed = FALSE
  BY DEF Init, Ends
<1>2. FreeInv
  BY <1>1, StartsAre
<1>3. /\ Tiles(Ends, Ends[1].offset, End(Ends[Len(Ends)])) /\ Apart(Ends)
      /\ DOMAIN Ends = 1 .. Len(Ends) /\ Len(Ends) \in {1, 3}
      /\ Len(Ends) = 1 => Ends[1].type = NONE
      /\ Len(Ends) = 3 => Ends[1].type = NONE /\ Ends[2].type = HOLE /\ Ends[3].type = NONE
  BY <1>1, EndsIs
<1>4. \A n \in Range(nodes) : n \in NodeSet /\ \E j \in 1 .. Len(Ends) : Ends[j] = n
  BY <1>1, <1>3, Indices
<1>5. NodesInv
  <2>1. ASSUME NEW n \in Range(nodes) PROVE InRegion(n)
    <3>1. PICK j \in 1 .. Len(Ends) : Ends[j] = n
      BY <1>4
    <3>2. n.offset \in Nat /\ End(n) \in Nat
      BY <1>4, NodeIs
    <3>3. n.offset <= n.offset /\ End(n) <= End(n)
      BY <3>2
    <3>. QED  BY <1>3, <3>1, <3>3 DEF InRegion
  <2>. QED  BY <1>1, <1>3, <2>1 DEF NodesInv
<1>6. \A n \in Range(nodes) : ~IsUsed(n)
  <2>1. \A j \in 1 .. Len(Ends) : Ends[j].type \in {NONE, HOLE}
    <3>1. Len(Ends) = 1 => \A j \in 1 .. Len(Ends) : j = 1
      OBVIOUS
    <3>2. Len(Ends) = 3 => \A j \in 1 .. Len(Ends) : j = 1 \/ j = 2 \/ j = 3
      OBVIOUS
    <3>. QED  BY <1>3, <3>1, <3>2
  <2>. QED  BY <1>4, <2>1 DEF IsUsed
<1>7. \A m \in Mems : mem[m] = NoMem
  BY <1>1
<1>8. NoMem \in Memory /\ NoMem.st = "none" /\ NoMem.mn = <<>>
  BY EmptySeq DEF NoMem, Memory, States
<1>9. MemInv
  <2>1. mem \in [Mems -> Memory] /\ mutex \notin Mems /\ mutex = None /\ failed \in BOOLEAN
    BY <1>1, <1>8, MmAssumption
  <2>. QED  BY <1>7, <1>8, <2>1 DEF MemInv, Memory
<1>10. \A m \in Mems : Held(m) = {}
  BY <1>7, <1>8, RisingNone DEF Held
<1>11. HeldInv
  <2>1. \A m \in Mems : DOMAIN (mem[m].mn) = {}
    BY <1>7, <1>8, EmptySeq
  <2>. QED  BY <1>6, <1>10, <2>1 DEF HeldInv
<1>12. PageInv
  BY <1>7, <1>8 DEF PageInv, PageOf
<1>13. BlockInv /\ ApartInv
  BY <1>1, <1>3, <1>6 DEF BlockInv, ApartInv
<1>. QED  BY <1>2, <1>5, <1>9, <1>11, <1>12, <1>13 DEF MmInv

-----------------------------------------------------------------------------
(* What the invariant says of the properties.                              *)

LEMMA InvTiling == MmInv => Tiling
<1>. SUFFICES ASSUME MmInv PROVE Tiling
  OBVIOUS
<1>. DEFINE a == Ends[1].offset
            b == End(Ends[Len(Ends)])
<1>1. /\ layout \in Layouts /\ Tiles(nodes, a, b) /\ FreeInv
      /\ \A n \in Range(nodes) : InRegion(n)
  BY DEF MmInv, NodesInv
<1>2. a < b /\ Ends = RamCtor(layout)
  BY <1>1, EndsIs DEF Ends
<1>3. /\ Len(nodes) \in Nat /\ DOMAIN nodes = 1 .. Len(nodes)
      /\ \A i \in 1 .. Len(nodes) : nodes[i] \in NodeSet /\ nodes[i] \in Range(nodes)
      /\ \A n \in Range(nodes) : \E i \in 1 .. Len(nodes) : nodes[i] = n
  BY <1>1, Indices
<1>4. nodes # <<>> /\ nodes[1].offset = a /\ End(nodes[Len(nodes)]) = b
      /\ \A i \in 1 .. Len(nodes) - 1 : End(nodes[i]) = nodes[i + 1].offset
  <2>1. a \in Nat /\ b \in Nat
    BY <1>1 DEF Tiles
  <2>2. a # b
    BY <1>2, <2>1
  <2>. QED  BY <1>1, <2>2 DEF Tiles
<1>5. ASSUME NEW i \in DOMAIN nodes
      PROVE  \E j \in DOMAIN Ends :
               /\ Ends[j].heap = nodes[i].heap /\ (Ends[j].type = HOLE <=> nodes[i].type = HOLE)
               /\ Ends[j].offset <= nodes[i].offset /\ End(nodes[i]) <= End(Ends[j])
               /\ nodes[i].length > 0
  <2>1. nodes[i] \in NodeSet /\ InRegion(nodes[i])
    BY <1>1, <1>3
  <2>2. nodes[i].length > 0
    BY <2>1 DEF NodeSet
  <2>. QED  BY <2>1, <2>2 DEF InRegion
<1>6. Covered
  BY <1>2, <1>4, <1>5 DEF Covered, Ends
<1>7. FreeListExact
  <2>1. free \in Seq(Nat) /\ Rising(free) /\
        Range(free) = {n.offset : n \in {n \in Range(nodes) : n.type = NONE}}
    BY <1>1 DEF FreeInv
  <2>2. \A k \in 1 .. Len(free) - 1 : free[k] < free[k + 1]
    <3>1. Len(free) \in Nat
      BY <2>1, LenProperties
    <3>2. \A k \in 1 .. Len(free) - 1 : k \in 1 .. Len(free) /\ k + 1 \in 1 .. Len(free) /\ k < k + 1
      BY <3>1
    <3>. QED  BY <2>1, <3>2 DEF Rising
  <2>3. Range(free) = {nodes[i].offset : i \in {i \in DOMAIN nodes : nodes[i].type = NONE}}
    BY <1>3, <2>1
  <2>. QED  BY <2>2, <2>3 DEF FreeListExact
<1>. QED  BY <1>6, <1>7 DEF Tiling

LEMMA InvOwned == MmInv => Owned
<1>. SUFFICES ASSUME MmInv PROVE Owned
  OBVIOUS
<1>1. NodesInv /\ MemInv /\ HeldInv /\ Found
  BY FoundNow DEF MmInv
<1>2. /\ DOMAIN nodes = 1 .. Len(nodes)
      /\ \A i \in 1 .. Len(nodes) : nodes[i] \in Range(nodes)
      /\ \A n \in Range(nodes) : \E i \in 1 .. Len(nodes) : nodes[i] = n
  BY <1>1, Indices DEF NodesInv
<1>3. \A m \in Mems : /\ DOMAIN mem[m].mn = 1 .. Len(mem[m].mn)
                      /\ \A o \in Held(m) : \E j \in 1 .. Len(mem[m].mn) : mem[m].mn[j] = o
                      /\ \A j \in 1 .. Len(mem[m].mn) : mem[m].mn[j] \in Held(m)
  BY <1>1, MemIs
<1>. DEFINE held == UNION {{m} \X DOMAIN mem[m].mn : m \in Mems}
            offset(h) == mem[h[1]].mn[h[2]]
<1>4. \A h \in held : h[1] \in Mems /\ h[2] \in DOMAIN mem[h[1]].mn /\ h = <<h[1], h[2]>>
  OBVIOUS
<1>5. \A m \in Mems : \A j \in DOMAIN mem[m].mn : <<m, j>> \in held /\ offset(<<m, j>>) = mem[m].mn[j]
  OBVIOUS
<1>6. \A h \in held : offset(h) \in Held(h[1])
  BY <1>3, <1>4
<1>. HIDE DEF held
<1>7. ASSUME NEW h \in held
             PROVE  \E i \in DOMAIN nodes : IsUsed(nodes[i]) /\ nodes[i].offset = offset(h)
  <2>1. PICK n \in Range(nodes) : n.offset = offset(h)
    BY <1>1, <1>4, <1>6, HeldIs
  <2>2. IsUsed(n)
    BY <1>1, <1>4, <1>6, <2>1, HeldIs
  <2>. QED  BY <1>2, <2>1, <2>2
<1>8. ASSUME NEW i \in DOMAIN nodes, IsUsed(nodes[i]) PROVE \E h \in held : offset(h) = nodes[i].offset
  <2>1. PICK m \in Mems : nodes[i].offset \in Held(m)
    BY <1>1, <1>2, <1>8 DEF HeldInv
  <2>2. PICK j \in DOMAIN mem[m].mn : mem[m].mn[j] = nodes[i].offset
    BY <1>3, <2>1
  <2>. QED  BY <1>5, <2>2
<1>9. {offset(h) : h \in held} = {nodes[i].offset : i \in {i \in DOMAIN nodes : IsUsed(nodes[i])}}
  BY <1>7, <1>8
<1>10. ASSUME NEW g \in held, NEW h \in held, offset(g) = offset(h) PROVE g = h
  <2>1. g[1] = h[1]
    <3>1. Held(g[1]) \cap Held(h[1]) # {}
      BY <1>6, <1>10
    <3>. QED  BY <1>1, <1>4, <3>1 DEF HeldInv
  <2>2. g[2] = h[2]
    BY <1>1, <1>4, <1>10, <2>1 DEF HeldInv
  <2>. QED  BY <1>4, <2>1, <2>2
<1>11. ASSUME NEW h \in held PROVE nodes[At(offset(h))].type = mem[h[1]].req.type
  <2>. DEFINE o == offset(h)
  <2>1. PICK n \in Range(nodes) : n.offset = o
    BY <1>1, <1>4, <1>6, HeldIs
  <2>2. n.type = mem[h[1]].req.type /\ n.type # HOLE
    BY <1>1, <1>4, <1>6, <2>1, HeldIs
  <2>. HIDE DEF o
  <2>3. nodes[At(o)] = n
    BY <1>1, <2>1, <2>2 DEF Found
  <2>. QED  BY <2>2, <2>3 DEF o
<1>12. \A m \in Mems : mutex = m <=> mem[m].st \in {"get", "put"}
  BY <1>1 DEF MemInv
<1>. QED  BY <1>9, <1>10, <1>11, <1>12 DEF Owned, held

LEMMA InvPageSound == MmInv => PageSound
<1>. SUFFICES ASSUME MmInv PROVE PageSound
  OBVIOUS
<1>1. NodesInv /\ MemInv /\ HeldInv /\ PageInv /\ BlockInv /\ Found
  BY FoundNow DEF MmInv
<1>2. /\ DOMAIN nodes = 1 .. Len(nodes)
      /\ \A i \in 1 .. Len(nodes) : nodes[i] \in Range(nodes) /\ nodes[i] \in NodeSet
  BY <1>1, Indices DEF NodesInv
<1>3. BlockTypes
  <2>. SUFFICES ASSUME NEW i \in DOMAIN nodes, NEW j \in DOMAIN nodes, i < j,
                       IsUsed(nodes[i]), IsUsed(nodes[j]), nodes[i].type # nodes[j].type
                PROVE  (End(nodes[i]) - 1) \div layout.block < nodes[j].offset \div layout.block
    BY DEF BlockTypes
  <2>1. End(nodes[i]) <= nodes[j].offset
    BY <1>1, <1>2, TilesUnique DEF NodesInv
  <2>2. nodes[i].offset < nodes[j].offset
    BY <1>2, <2>1, NodeIs
  <2>. QED  BY <1>1, <1>2, <2>2 DEF BlockInv
<1>4. ASSUME NEW m \in Mems
      PROVE  LET r == mem[m].req IN
             /\ mem[m].st = "live" => Total(m) = r.size
             /\ mem[m].st = "get" => mem[m].left > 0 /\ Total(m) + mem[m].left = r.size
             /\ mem[m].st \in {"get", "live"} =>
                  /\ r.min = r.size => Len(mem[m].mn) <= 1
                  /\ \A j \in DOMAIN mem[m].mn :
                       LET n == nodes[At(mem[m].mn[j])]
                       IN  n.offset % r.align = 0 /\ n.length % r.align = 0 /\ r.heap \in {ANY, n.heap}
  <2>. DEFINE r == mem[m].req
              c == mem[m].mn
  <2>1. PageOf(m)
    BY <1>1 DEF PageInv
  <2>2. ASSUME NEW j \in DOMAIN c, mem[m].st \in {"get", "live"}
        PROVE  LET n == nodes[At(c[j])]
               IN  n.offset % r.align = 0 /\ n.length % r.align = 0 /\ r.heap \in {ANY, n.heap}
    <3>. DEFINE o == c[j]
    <3>1. o \in Held(m)
      BY <1>1, MemIs
    <3>. HIDE DEF o
    <3>2. PICK n \in Range(nodes) : n.offset = o
      BY <1>1, <3>1, HeldIs
    <3>3. n.type # HOLE
      BY <1>1, <3>1, <3>2, HeldIs
    <3>4. nodes[At(o)] = n
      BY <1>1, <3>2, <3>3 DEF Found
    <3>5. n.offset % r.align = 0 /\ n.length % r.align = 0 /\ r.heap \in {ANY, n.heap}
      BY <2>1, <2>2, <3>1, <3>2 DEF PageOf
    <3>. QED  BY <3>4, <3>5 DEF o
  <2>. QED  BY <2>1, <2>2 DEF PageOf
<1>. QED  BY <1>3, <1>4 DEF PageSound

LEMMA InvCleanFini == MmInv => CleanFini
<1>. SUFFICES ASSUME MmInv, \A m \in Mems : mem[m].mn = <<>>, ~failed
              PROVE  Len(nodes) = Len(RamCtor(layout))
  BY DEF CleanFini
<1>. DEFINE a == Ends[1].offset
            b == End(Ends[Len(Ends)])
            N == Len(nodes)
<1>1. /\ layout \in Layouts /\ Tiles(nodes, a, b) /\ Apart(nodes) /\ HeldInv /\ MemInv
      /\ \A n \in Range(nodes) : InRegion(n) /\ (n.type = HOLE => n \in Range(Ends))
  BY DEF MmInv, NodesInv, ApartInv
<1>2. /\ Tiles(Ends, a, b) /\ a < b /\ Len(Ends) \in {1, 3}
      /\ (\A j \in 1 .. Len(Ends) : Ends[j] \in NodeSet) /\ DOMAIN Ends = 1 .. Len(Ends)
      /\ Len(Ends) = 1 => Ends[1].type = NONE
      /\ Len(Ends) = 3 =>
           /\ Ends[1].type = NONE /\ Ends[2].type = HOLE /\ Ends[3].type = NONE
           /\ End(Ends[1]) = Ends[2].offset /\ End(Ends[2]) = Ends[3].offset
  BY <1>1, EndsIs
<1>3. N \in Nat /\ \A i \in 1 .. N : nodes[i] \in NodeSet /\ nodes[i] \in Range(nodes)
  BY <1>1, Indices
<1>4. \A i \in 1 .. N : nodes[i].type \in {NONE, HOLE}
  <2>1. \A m \in Mems : Held(m) = {}
    BY <1>1, MemIs
  <2>2. \A n \in Range(nodes) : ~IsUsed(n)
    BY <1>1, <2>1 DEF HeldInv
  <2>. QED  BY <1>3, <2>2 DEF IsUsed
<1>5. nodes # <<>> /\ nodes[1].offset = a /\ End(nodes[N]) = b
  <2>1. a \in Nat /\ b \in Nat
    BY <1>1 DEF Tiles
  <2>2. a # b
    BY <1>2, <2>1
  <2>. QED  BY <1>1, <2>2 DEF Tiles
<1>6. N # 0
  BY <1>1, <1>5, EmptySeq DEF Tiles
<1>7. \A i \in 1 .. N - 1 : ~(nodes[i].type = NONE /\ nodes[i + 1].type = NONE)
  BY <1>1 DEF Apart
<1>8. \A n \in Range(Ends) : \E j \in 1 .. Len(Ends) : Ends[j] = n
  BY <1>2, Indices
<1>9. NONE # HOLE
  BY DEF NONE, HOLE
<1>. HIDE DEF a, b, N
<1>10. CASE Len(Ends) = 1
  <2>1. \A i \in 1 .. N : nodes[i].type = NONE
    <3>. SUFFICES ASSUME NEW i \in 1 .. N, nodes[i].type = HOLE PROVE FALSE
      BY <1>4
    <3>1. PICK j \in 1 .. Len(Ends) : Ends[j] = nodes[i]
      BY <1>1, <1>3, <1>8
    <3>2. j = 1
      BY <1>10
    <3>. QED  BY <1>2, <1>9, <1>10, <3>1, <3>2
  <2>2. ~(N > 1)
    <3>. SUFFICES ASSUME N > 1 PROVE FALSE
      OBVIOUS
    <3>1. 1 \in 1 .. N - 1 /\ 1 \in 1 .. N /\ 1 + 1 \in 1 .. N
      BY <1>3
    <3>. QED  BY <1>7, <2>1, <3>1
  <2>3. N = Len(Ends)
    BY <1>3, <1>6, <1>10, <2>2
  <2>. QED  BY <2>3 DEF N, Ends
<1>11. CASE Len(Ends) = 3
  <2>. DEFINE e == Ends[1]
              h == Ends[2]
              z == Ends[3]
  <2>1. /\ e \in NodeSet /\ h \in NodeSet /\ z \in NodeSet /\ h.type = HOLE
        /\ e.type = NONE /\ z.type = NONE /\ End(e) = h.offset /\ End(h) = z.offset
        /\ e.offset = a /\ End(z) = b
    BY <1>2, <1>11 DEF a, b
  <2>2. /\ e.offset \in Nat /\ End(e) \in Nat /\ e.offset < End(e)
        /\ h.offset \in Nat /\ End(h) \in Nat /\ h.offset < End(h)
        /\ z.offset \in Nat /\ End(z) \in Nat /\ z.offset < End(z)
    BY <2>1, NodeIs
  <2>3. \A i \in 1 .. N : nodes[i].type = HOLE => nodes[i] = h
    <3>. SUFFICES ASSUME NEW i \in 1 .. N, nodes[i].type = HOLE PROVE nodes[i] = h
      OBVIOUS
    <3>1. PICK j \in 1 .. Len(Ends) : Ends[j] = nodes[i]
      BY <1>1, <1>3, <1>8
    <3>2. j = 1 \/ j = 2 \/ j = 3
      BY <1>11
    <3>. QED  BY <1>9, <2>1, <3>1, <3>2
  <2>. HIDE DEF e, h, z
  <2>4. 1 \in 1 .. N /\ nodes[1].type = NONE
    <3>1. 1 \in 1 .. N
      BY <1>3, <1>6
    <3>2. nodes[1] # h
      BY <1>5, <2>1, <2>2
    <3>. QED  BY <1>4, <2>3, <3>1, <3>2
  <2>5. End(nodes[1]) <= End(e)
    <3>1. nodes[1] \in NodeSet /\ InRegion(nodes[1]) /\ nodes[1].offset = e.offset
      BY <1>1, <1>3, <1>5, <2>1, <2>4
    <3>2. PICK j \in DOMAIN Ends :
            /\ Ends[j].type # HOLE /\ Ends[j].offset <= nodes[1].offset /\ End(nodes[1]) <= End(Ends[j])
      BY <1>9, <2>4, <3>1 DEF InRegion
    <3>3. j = 1 \/ j = 2 \/ j = 3
      BY <1>2, <1>11
    <3>4. j # 2
      BY <2>1, <3>2 DEF h
    <3>5. j # 3
      <4>1. ~(z.offset <= nodes[1].offset)
        BY <2>1, <2>2, <3>1
      <4>. QED  BY <3>2, <4>1 DEF z
    <3>. QED  BY <3>2, <3>3, <3>4, <3>5 DEF e
  <2>6. N > 1
    <3>. SUFFICES ASSUME N = 1 PROVE FALSE
      BY <1>3, <1>6
    <3>1. End(nodes[1]) = End(z)
      BY <1>5, <2>1
    <3>. QED  BY <2>1, <2>2, <2>5, <3>1
  <2>7. 2 \in 1 .. N /\ nodes[2] = h
    <3>1. 1 \in 1 .. N - 1 /\ 1 + 1 = 2 /\ 2 \in 1 .. N
      BY <1>3, <2>6
    <3>2. nodes[2].type # NONE
      BY <1>7, <2>4, <3>1
    <3>. QED  BY <1>4, <2>3, <3>1, <3>2
  <2>8. N > 2
    <3>. SUFFICES ASSUME N = 2 PROVE FALSE
      BY <1>3, <2>6
    <3>1. End(h) = End(z)
      BY <1>5, <2>1, <2>7
    <3>. QED  BY <2>1, <2>2, <3>1
  <2>9. \A i \in 1 .. N : i # 2 => nodes[i].type = NONE
    <3>. SUFFICES ASSUME NEW i \in 1 .. N, i # 2, nodes[i].type = HOLE PROVE FALSE
      BY <1>4
    <3>1. nodes[i] = nodes[2]
      BY <2>3, <2>7
    <3>2. nodes[i].offset < End(nodes[2]) /\ nodes[2].offset < End(nodes[i])
      BY <2>2, <2>7, <3>1
    <3>. QED  BY <1>1, <2>7, <3>2, TilesUnique DEF N
  <2>10. ~(N > 3)
    <3>. SUFFICES ASSUME N > 3 PROVE FALSE
      OBVIOUS
    <3>1. 3 \in 1 .. N - 1 /\ 3 \in 1 .. N /\ 3 + 1 \in 1 .. N /\ 3 + 1 # 2 /\ 3 # 2
      BY <1>3
    <3>2. nodes[3].type = NONE /\ nodes[3 + 1].type = NONE
      BY <2>9, <3>1
    <3>. QED  BY <1>7, <3>1, <3>2
  <2>11. N = Len(Ends)
    BY <1>3, <1>11, <2>8, <2>10
  <2>. QED  BY <2>11 DEF N, Ends
<1>. QED  BY <1>2, <1>10, <1>11

-----------------------------------------------------------------------------
(* VRAM: the theorems.                                                     *)

LEMMA InvNext == MmInv /\ [Next]_vars => MmInv'
<1>. SUFFICES ASSUME MmInv, [Next]_vars PROVE MmInv'
  OBVIOUS
<1>1. CASE UNCHANGED vars
  BY <1>1, IdleStep
<1>2. ASSUME NEW m \in Mems, NEW r \in Requests, RamGet(m, r) PROVE MmInv'
  BY <1>2, RamGetStep
<1>3. ASSUME NEW m \in Mems, Unref(m) PROVE MmInv'
  BY <1>3, UnrefStep
<1>4. ASSUME NEW m \in Mems, RamNode(m) PROVE MmInv'
  BY <1>4, RamNodeStep
<1>5. ASSUME NEW m \in Mems, RamNodeFails(m) PROVE MmInv'
  BY <1>5, RamNodeFailsStep
<1>6. ASSUME NEW m \in Mems, DtorStart(m) PROVE MmInv'
  BY <1>6, DtorStartStep
<1>7. ASSUME NEW m \in Mems, DtorNode(m) PROVE MmInv'
  BY <1>7, DtorNodeStep
<1>8. ASSUME NEW m \in Mems, DtorEnd(m) PROVE MmInv'
  BY <1>8, DtorEndStep
<1>. QED  BY <1>1, <1>2, <1>3, <1>4, <1>5, <1>6, <1>7, <1>8 DEF Next, Step

\* The invariant holds, whatever VRAM a GPU has, and however many memories are
\* gathered, given up halfway or freed, in whatever order.
THEOREM MmCorrect == Spec => []MmInv
<1>1. Init => MmInv
  BY InvInit
<1>2. MmInv /\ [Next]_vars => MmInv'
  BY InvNext
<1>. QED  BY <1>1, <1>2, PTL DEF Spec

\* The splits of nvkm_mm_head and nvkm_mm_tail and the merges of nvkm_mm_free
\* lose no memory, count none twice and move none to another heap, and mm->free
\* lists just the free nodes, by offset.
THEOREM Tiled == Spec => []Tiling
  BY MmCorrect, InvTiling, PTL

\* A node in use is of one memory, of its type, even when nvkm_ram_get has failed
\* halfway: none is leaked, and none is given out twice.
THEOREM OwnedOnce == Spec => []Owned
  BY MmCorrect, InvOwned, PTL

\* A memory that nvkm_ram_get returns has the size that was asked for, in whole
\* aligned pages of its heap, in one piece if asked to, and shares no block with a
\* memory of another type; and the loop never takes more than is missing.
THEOREM Pages == Spec => []PageSound
  BY MmCorrect, InvPageSound, PTL

\* Once every memory is freed, nvkm_mm_fini finds the nodes that nvkm_mm_init made,
\* unless a kmalloc failed between the two cuts of a node.
THEOREM Clean == Spec => []CleanFini
  BY MmCorrect, InvCleanFini, PTL

-----------------------------------------------------------------------------
(* Instance memory: the inductive invariant.                               *)

PCs == {"idle", "acquire", "get", "evict", "put", "map", "end", "drop", "finish", "held",
        "release", "free"}
InstThread == [pc : PCs, op : {"use", "pin", "boot", "save", "load"}, o : AllObjs,
               slot : Slots \cup {NoSlot}]

TypeObjs ==
  /\ objs \in SUBSET AllObjs /\ Pt \in objs /\ boot \in SUBSET objs
  /\ maps \in [AllObjs -> Nat]
  /\ bar \in [AllObjs -> Slots \cup {NoSlot}]
  /\ lru \in Seq(AllObjs)
  /\ evictable \in [AllObjs -> BOOLEAN]
  /\ ptrs \in [AllObjs -> {"null", "fast", "slow"}]

TypeVram ==
  /\ slots \in SUBSET Slots
  /\ {pte, savedPte} \subseteq [Slots -> AllObjs \cup {NoSlot}]
  /\ {addr, win} \subseteq AllObjs \cup {NoSlot}
  /\ {lost, saved, todo} \subseteq SUBSET objs
  /\ bar2 \in BOOLEAN
  /\ power \in {"boot", "run", "savelist", "saveboot", "off", "loadboot", "loadlist"}

TypeThr == thr \in [InstThreads -> InstThread]

\* Users run while the device is up, and the thread of init, suspend and resume
\* while it is not, with an operation that fits.
Busy(t) == thr[t].pc # "idle"

Roles ==
  /\ \A t \in Users : Busy(t) => power = "run" /\ thr[t].op \in {"use", "pin"}
  /\ Busy(Pm) =>
       /\ power \notin {"run", "off"} /\ thr[Pm].pc # "free"
       /\ power = "boot" <=> thr[Pm].op = "boot"
       /\ power \in {"savelist", "saveboot"} <=> thr[Pm].op = "save"
       /\ power \in {"loadboot", "loadlist"} <=> thr[Pm].op = "load"
       /\ power = "boot" => /\ thr[Pm].o = Pt /\ ~evictable[Pt]
                            /\ thr[Pm].pc \in {"get", "evict", "map", "end", "finish"}
  /\ \A t \in InstThreads : Busy(t) => thr[t].o \in objs
  /\ power \in {"run", "savelist", "loadlist"} => bar2
  /\ power \in {"boot", "saveboot", "off"} => ~bar2
  /\ power \in {"boot", "run", "off"} => todo = {}
  /\ power # "boot" => Pt \in boot
  /\ power = "boot" => \A o \in AllObjs : bar[o] = NoSlot

\* The slots of BAR2, and who has which.
Owning == {"put", "map", "end", "drop", "free"}
Holding == {"held", "release"}
Owner(t) == thr[t].pc \in Owning

SlotsOwned ==
  /\ \A t \in InstThreads :
       /\ Owner(t) => thr[t].slot \in Slots \ slots
       /\ ~Owner(t) /\ thr[t].pc \notin Holding => thr[t].slot = NoSlot
       /\ thr[t].pc \in Owning \cup {"get", "evict"} => bar2 \/ power = "boot" 
  /\ \A t, u \in InstThreads : Owner(t) /\ Owner(u) /\ thr[t].slot = thr[u].slot => t = u
  /\ \A o \in AllObjs : bar[o] \in Slots => bar[o] \notin slots
  /\ \A o, p \in AllObjs : bar[o] = bar[p] /\ bar[o] \in Slots => o = p
  /\ \A o \in AllObjs, t \in InstThreads : Owner(t) => bar[o] # thr[t].slot
  /\ \A s \in Slots \ slots : \/ \E o \in AllObjs : bar[o] = s
                              \/ \E t \in InstThreads : Owner(t) /\ thr[t].slot = s
  /\ \A o \in AllObjs \ objs : bar[o] = NoSlot

\* The threads that hold an object, and what they were given.
Holders(o) == {t \in InstThreads : thr[t].pc \in Holding /\ thr[t].o = o}

HeldMaps ==
  /\ \A o \in AllObjs : /\ maps[o] = Cardinality(Holders(o))
                        /\ ptrs[o] = "null" <=> maps[o] = 0
                        /\ ptrs[o] = "fast" => bar2 /\ bar[o] # NoSlot
  /\ \A t \in InstThreads :
       thr[t].pc \in Holding /\ thr[t].slot # NoSlot => bar2 /\ thr[t].slot = bar[thr[t].o]

\* imem->lru.
InList(q, o) == \E i \in DOMAIN q : q[i] = o
Once(q) == \A i, j \in DOMAIN q : q[i] = q[j] => i = j

Lru ==
  /\ Once(lru)
  /\ \A o \in AllObjs : InList(lru, o) <=> bar[o] # NoSlot /\ maps[o] = 0 /\ evictable[o]

\* The page table of BAR2 is right, unless its contents are lost, when the copy
\* is; and the window is where it is said to be.
Tables ==
  /\ Pt \notin lost =>
       /\ \A o \in AllObjs : bar[o] # NoSlot => pte[bar[o]] = o
       /\ \A t \in InstThreads : thr[t].pc = "end" => pte[thr[t].slot] = thr[t].o
  /\ Pt \in saved =>
       ~bar2 /\ \A o \in AllObjs : bar[o] # NoSlot => savedPte[bar[o]] = o
  /\ bar2 => Pt \notin lost
  /\ addr # NoSlot => win = addr
  /\ power = "off" => addr = NoSlot

\* How far suspend and resume are with each object.
Current == IF thr[Pm].pc \in {"idle", "release"} THEN {} ELSE {thr[Pm].o}

Progress ==
  /\ lost \subseteq saved /\ Current \cap todo = {}
  /\ power \in {"boot", "run", "savelist", "saveboot", "off"} => lost = {}
  /\ power \in {"boot", "run"} => saved = {}
  /\ power = "savelist" =>
       /\ saved \cap boot = {} /\ (todo \cup Current) \cap boot = {}
       /\ objs \ boot \subseteq saved \cup todo \cup Current
  /\ power = "saveboot" => objs \subseteq saved \cup todo \cup Current
  /\ power = "off" => objs \subseteq saved
  /\ power = "loadboot" =>
       /\ saved \cap boot \subseteq todo \cup Current
       /\ bar2 => todo = {} /\ ~Busy(Pm)
  /\ power = "loadlist" => saved \subseteq todo \cup Current
  /\ power = "loadlist" => Pt \notin saved
  /\ power \in {"loadboot", "loadlist"} => todo \cup Current \subseteq saved

InstInv ==
  TypeObjs /\ TypeVram /\ TypeThr /\ Roles /\ SlotsOwned /\ HeldMaps /\ Lru /\ Tables /\ Progress

-----------------------------------------------------------------------------
(* Lists without repetition.                                               *)

\* The first entry is taken off a list.
LEMMA TailList ==
  ASSUME NEW S, NEW q \in Seq(S), q # <<>>, Once(q)
  PROVE  /\ Head(q) \in S /\ InList(q, Head(q)) /\ Tail(q) \in Seq(S) /\ Once(Tail(q))
         /\ \A o : InList(Tail(q), o) <=> InList(q, o) /\ o # Head(q)
<1>1. Len(q) \in Nat \ {0} /\ DOMAIN q = 1 .. Len(q) /\ Head(q) = q[1] /\ q[1] \in S
  BY EmptySeq
<1>2. /\ Tail(q) \in Seq(S) /\ DOMAIN Tail(q) = 1 .. Len(q) - 1
      /\ \A i \in 1 .. Len(q) - 1 : Tail(q)[i] = q[i + 1]
  BY <1>1, HeadTailProperties
<1>3. Once(Tail(q))
  BY <1>1, <1>2 DEF Once
<1>4. ASSUME NEW o
      PROVE  InList(Tail(q), o) <=> InList(q, o) /\ o # Head(q)
  <2>1. ASSUME InList(Tail(q), o)
        PROVE  InList(q, o) /\ o # Head(q)
    BY <1>1, <1>2, <2>1 DEF Once, InList
  <2>2. ASSUME InList(q, o), o # Head(q)
        PROVE  InList(Tail(q), o)
    <3>1. PICK i \in 2 .. Len(q) : q[i] = o
      BY <1>1, <2>2 DEF InList
    <3>2. i - 1 \in 1 .. Len(q) - 1 /\ Tail(q)[i - 1] = o
      BY <1>1, <1>2, <3>1
    <3>. QED  BY <1>2, <3>2 DEF InList
  <2>. QED  BY <2>1, <2>2
<1>5. InList(q, Head(q))
  BY <1>1 DEF InList
<1>. QED  BY <1>1, <1>2, <1>3, <1>4, <1>5

\* An entry is put at the end of a list.
LEMMA AppendList ==
  ASSUME NEW S, NEW q \in Seq(S), Once(q), NEW e \in S, ~InList(q, e)
  PROVE  /\ Append(q, e) \in Seq(S) /\ Once(Append(q, e))
         /\ \A o : InList(Append(q, e), o) <=> InList(q, o) \/ o = e
<1>1. Len(q) \in Nat /\ DOMAIN q = 1 .. Len(q)
  OBVIOUS
<1>2. /\ Append(q, e) \in Seq(S) /\ DOMAIN Append(q, e) = 1 .. Len(q) + 1
      /\ \A i \in 1 .. Len(q) : Append(q, e)[i] = q[i]
      /\ Append(q, e)[Len(q) + 1] = e
  BY AppendProperties
<1>3. Once(Append(q, e))
  BY <1>1, <1>2 DEF Once, InList
<1>4. ASSUME NEW o
      PROVE  InList(Append(q, e), o) <=> InList(q, o) \/ o = e
  <2>. Len(q) + 1 \in 1 .. Len(q) + 1 /\ 1 .. Len(q) \subseteq 1 .. Len(q) + 1
    BY <1>1
  <2>. QED  BY <1>1, <1>2 DEF InList
<1>. QED  BY <1>2, <1>3, <1>4

\* An entry is taken off a list.
LEMMA RemoveList ==
  ASSUME NEW S, NEW q \in Seq(S), Once(q), NEW k \in DOMAIN q
  PROVE  /\ RemoveAt(q, k) \in Seq(S) /\ Once(RemoveAt(q, k))
         /\ \A o : InList(RemoveAt(q, k), o) <=> InList(q, o) /\ o # q[k]
<1>. DEFINE a == SubSeq(q, 1, k - 1)
            b == SubSeq(q, k + 1, Len(q))
            r == RemoveAt(q, k)
<1>1. Len(q) \in Nat /\ DOMAIN q = 1 .. Len(q) /\ k \in 1 .. Len(q)
  OBVIOUS
<1>2. /\ a \in Seq(S) /\ Len(a) = k - 1
      /\ \A j \in 1 .. k - 1 : a[j] = q[j]
  BY <1>1, SubSeqProperties
<1>3. /\ b \in Seq(S) /\ Len(b) = Len(q) - k
      /\ \A j \in 1 .. Len(q) - k : b[j] = q[k + j]
  BY <1>1, SubSeqProperties, SMTT(20)
<1>4. r = a \o b
  BY DEF RemoveAt
<1>. HIDE DEF a, b, r
<1>5. /\ r \in Seq(S) /\ DOMAIN r = 1 .. Len(q) - 1
      /\ \A j \in 1 .. Len(q) - 1 : r[j] = IF j <= k - 1 THEN a[j] ELSE b[j - (k - 1)]
  <2>1. Len(a) + Len(b) = Len(q) - 1
    BY <1>1, <1>2, <1>3
  <2>2. /\ r \in Seq(S) /\ Len(r) = Len(a) + Len(b)
        /\ \A j \in 1 .. Len(a) + Len(b) : r[j] = IF j <= Len(a) THEN a[j] ELSE b[j - Len(a)]
    BY <1>2, <1>3, <1>4, ConcatProperties
  <2>. QED  BY <1>2, <2>1, <2>2
<1>6. ASSUME NEW j \in 1 .. Len(q) - 1
      PROVE  r[j] = IF j < k THEN q[j] ELSE q[j + 1]
  <2>1. CASE j < k
    BY <1>1, <1>2, <1>5, <2>1
  <2>2. CASE ~(j < k)
    <3>1. ~(j <= k - 1) /\ j - (k - 1) \in 1 .. Len(q) - k /\ k + (j - (k - 1)) = j + 1
      BY <1>1, <2>2
    <3>. QED  BY <1>3, <1>5, <2>2, <3>1
  <2>. QED  BY <2>1, <2>2
<1>7. Once(r)
  <2>. DEFINE at(j) == IF j < k THEN j ELSE j + 1
  <2>1. \A j \in 1 .. Len(q) - 1 : at(j) \in DOMAIN q /\ r[j] = q[at(j)]
    BY <1>1, <1>6
  <2>2. \A i, j \in 1 .. Len(q) - 1 : at(i) = at(j) => i = j
    BY <1>1
  <2>. HIDE DEF at
  <2>. QED  BY <1>5, <2>1, <2>2 DEF Once
<1>8. ASSUME NEW o
      PROVE  InList(r, o) <=> InList(q, o) /\ o # q[k]
  <2>1. ASSUME InList(r, o)
        PROVE  InList(q, o) /\ o # q[k]
    <3>1. PICK j \in 1 .. Len(q) - 1 : r[j] = o
      BY <1>5, <2>1 DEF InList
    <3>2. PICK i \in DOMAIN q : i # k /\ q[i] = o
      BY <1>1, <1>6, <3>1
    <3>. QED  BY <3>2 DEF InList, Once
  <2>2. ASSUME InList(q, o), o # q[k]
        PROVE  InList(r, o)
    <3>1. PICK i \in 1 .. Len(q) : q[i] = o /\ i # k
      BY <1>1, <2>2 DEF InList
    <3>2. CASE i < k
      BY <1>1, <1>5, <1>6, <3>1, <3>2 DEF InList
    <3>3. CASE i > k
      <4>1. i - 1 \in 1 .. Len(q) - 1 /\ r[i - 1] = o
        BY <1>1, <1>6, <3>1, <3>3
      <4>. QED  BY <1>5, <4>1 DEF InList
    <3>. QED  BY <1>1, <3>1, <3>2, <3>3
  <2>. QED  BY <2>1, <2>2
<1>. QED  BY <1>5, <1>7, <1>8 DEF r

\* list_del_init(&iobj->lru).
LEMMA OffLruList ==
  ASSUME NEW o \in AllObjs, lru \in Seq(AllObjs), Once(lru)
  PROVE  /\ OffLru(o) \in Seq(AllObjs) /\ Once(OffLru(o))
         /\ \A p : InList(OffLru(o), p) <=> InList(lru, p) /\ p # o
<1>1. CASE InList(lru, o)
  <2>. DEFINE k == CHOOSE i \in DOMAIN lru : lru[i] = o
  <2>1. k \in DOMAIN lru /\ lru[k] = o
    BY <1>1 DEF InList
  <2>2. OffLru(o) = RemoveAt(lru, k)
    BY <1>1 DEF OffLru, InList
  <2>. HIDE DEF k
  <2>. QED  BY <2>1, <2>2, RemoveList
<1>2. CASE ~InList(lru, o)
  BY <1>2 DEF OffLru, InList
<1>. QED  BY <1>1, <1>2

-----------------------------------------------------------------------------
(* The threads that hold an object.                                        *)

\* Thread t goes on to r.
Moved(t, r) == r \in InstThread /\ thr' = [thr EXCEPT ![t] = r]
HoldsIn(r, o) == r.pc \in Holding /\ r.o = o

\* A thread that moves leaves the others where they are.
LEMMA MovedFacts ==
  ASSUME TypeThr, NEW t \in InstThreads, NEW r, Moved(t, r)
  PROVE  TypeThr' /\ thr'[t] = r /\ \A u \in InstThreads : u # t => thr'[u] = thr[u]
BY DEF TypeThr, Moved

\* There are finitely many holders of an object.
LEMMA HoldersFinite ==
  ASSUME NEW o
  PROVE  /\ IsFiniteSet(Holders(o)) /\ Cardinality(Holders(o)) \in Nat
         /\ Cardinality(Holders(o)) = 0 <=> Holders(o) = {}
<1>1. IsFiniteSet(InstThreads)
  BY InstAssumption, FS_AddElement DEF InstThreads
<1>2. IsFiniteSet(Holders(o))
  BY <1>1, FS_Subset DEF Holders
<1>. QED  BY <1>2, FS_CardinalityType, FS_EmptySet

\* One holder is gained or lost when a thread comes to hold the object or lets it go.
LEMMA HoldersChange ==
  ASSUME TypeThr, NEW t \in InstThreads, NEW r, Moved(t, r), NEW o
  PROVE  /\ (HoldsIn(r, o) <=> HoldsIn(thr[t], o)) => Holders(o)' = Holders(o)
         /\ HoldsIn(r, o) /\ ~HoldsIn(thr[t], o) =>
              Cardinality(Holders(o)') = Cardinality(Holders(o)) + 1
         /\ ~HoldsIn(r, o) /\ HoldsIn(thr[t], o) =>
              Cardinality(Holders(o)') = Cardinality(Holders(o)) - 1
<1>1. (HoldsIn(r, o) <=> HoldsIn(thr[t], o)) => Holders(o)' = Holders(o)
  BY MovedFacts DEF Holders, HoldsIn
<1>2. ASSUME HoldsIn(r, o), ~HoldsIn(thr[t], o)
      PROVE  Cardinality(Holders(o)') = Cardinality(Holders(o)) + 1
  <2>1. Holders(o)' = Holders(o) \cup {t} /\ t \notin Holders(o)
    BY <1>2, MovedFacts DEF Holders, HoldsIn
  <2>. QED  BY <2>1, HoldersFinite, FS_AddElement
<1>3. ASSUME ~HoldsIn(r, o), HoldsIn(thr[t], o)
      PROVE  Cardinality(Holders(o)') = Cardinality(Holders(o)) - 1
  <2>1. Holders(o)' = Holders(o) \ {t} /\ t \in Holders(o)
    BY <1>3, MovedFacts DEF Holders, HoldsIn
  <2>. QED  BY <2>1, HoldersFinite, FS_RemoveElement
<1>. QED  BY <1>1, <1>2, <1>3

-----------------------------------------------------------------------------
(* A thread goes on with what it is at.                                    *)

Stays(t, r) == Moved(t, r) /\ r.op = thr[t].op /\ r.o = thr[t].o /\ Busy(t)
BootPCs == {"get", "evict", "map", "end", "finish"}

\* A step of a busy thread leaves each thread in the part it plays.
LEMMA RolesStay ==
  ASSUME InstInv, NEW t \in InstThreads, NEW r, Stays(t, r),
         r.pc = "free" => thr[t].pc = "free",
         thr[t].pc \in BootPCs /\ power = "boot" => r.pc \in BootPCs,
         UNCHANGED <<objs, boot, bar2, power, todo>>,
         power = "boot" => UNCHANGED <<bar, evictable>>
  PROVE  Roles'
<1>1. Pm \notin Users /\ Pm \in InstThreads
  BY InstAssumption DEF InstThreads
<1>2. \A u \in InstThreads : thr'[u].op = thr[u].op /\ thr'[u].o = thr[u].o /\ (Busy(u)' => Busy(u))
  BY MovedFacts DEF Stays, InstInv, Busy
<1>3. thr'[Pm].pc = "free" => thr[Pm].pc = "free"
  BY <1>1, MovedFacts DEF Stays, InstInv
<1>4. power = "boot" /\ thr[Pm].pc \in BootPCs => thr'[Pm].pc \in BootPCs
  BY <1>1, MovedFacts DEF Stays, InstInv
<1>5. /\ \A u \in Users : Busy(u)' => power' = "run" /\ thr'[u].op \in {"use", "pin"}
      /\ \A u \in InstThreads : Busy(u)' => thr'[u].o \in objs'
  BY <1>2 DEF InstInv, Roles, InstThreads
<1>6. Busy(Pm)' =>
       /\ power' \notin {"run", "off"} /\ thr'[Pm].pc # "free"
       /\ power' = "boot" <=> thr'[Pm].op = "boot"
       /\ power' \in {"savelist", "saveboot"} <=> thr'[Pm].op = "save"
       /\ power' \in {"loadboot", "loadlist"} <=> thr'[Pm].op = "load"
       /\ power' = "boot" => /\ thr'[Pm].o = Pt /\ ~evictable'[Pt]
                             /\ thr'[Pm].pc \in BootPCs
  BY <1>1, <1>2, <1>3, <1>4 DEF InstInv, Roles, BootPCs
<1>. QED  BY <1>5, <1>6 DEF InstInv, Roles, BootPCs, Busy

\* A step of a busy thread leaves suspend and resume where they are.
LEMMA ProgressStay ==
  ASSUME InstInv, NEW t \in InstThreads, NEW r, Moved(t, r), r.pc # "idle" => Busy(t),
         t = Pm => /\ r.pc \in {"idle", "release"} <=> thr[t].pc \in {"idle", "release"}
                   /\ r.pc \notin {"idle", "release"} => r.o = thr[t].o,
         UNCHANGED <<objs, boot, bar2, power, todo, lost, saved>>
  PROVE  Progress'
<1>1. Current' = Current /\ (Busy(Pm)' => Busy(Pm))
  BY MovedFacts DEF InstInv, Current, Busy, InstThreads
<1>. QED  BY <1>1 DEF InstInv, Progress

\* nvkm_vmm_get.
LEMMA GetSlotKeeps ==
  ASSUME InstInv, NEW t \in InstThreads, GetSlot(t)
  PROVE  InstInv'
<1>. USE DEF InstInv
<1>1. PICK r : /\ Stays(t, r) /\ thr[t].pc = "get"
               /\ \/ r.pc = "map" /\ r.slot \in slots /\ slots' = slots \ {r.slot}
                  \/ r.pc = "evict" /\ r.slot = thr[t].slot /\ slots' = slots
  <2>1. CASE \E s \in slots : /\ slots' = slots \ {s}
                               /\ thr' = [thr EXCEPT ![t].pc = "map", ![t].slot = s]
    <3>1. PICK s \in slots : /\ slots' = slots \ {s}
                             /\ thr' = [thr EXCEPT ![t].pc = "map", ![t].slot = s]
      BY <2>1
    <3>. DEFINE r == [thr[t] EXCEPT !.pc = "map", !.slot = s]
    <3>2. Stays(t, r)
      BY <3>1, ZenonT(30) DEF Stays, Moved, TypeThr, TypeVram, InstThread, PCs, GetSlot, InstAt, Busy
    <3>. QED  BY <3>1, <3>2, ZenonT(30) DEF GetSlot, InstAt, TypeThr, InstThread
  <2>2. CASE InstGoto(t, "evict") /\ UNCHANGED slots
    <3>. DEFINE r == [thr[t] EXCEPT !.pc = "evict"]
    <3>1. Stays(t, r)
      BY <2>2 DEF Stays, Moved, TypeThr, InstThread, PCs, GetSlot, InstAt, InstGoto, Busy
    <3>. QED  BY <2>2, <3>1 DEF GetSlot, InstAt, TypeThr, InstThread
  <2>. QED  BY <2>1, <2>2 DEF GetSlot
<1>2. UNCHANGED <<objVars, vramVars, pmVars>>
  BY DEF GetSlot
<1>3. TypeThr' /\ thr'[t] = r /\ \A u \in InstThreads : u # t => thr'[u] = thr[u]
  BY <1>1, MovedFacts DEF Stays
<1>4. TypeObjs' /\ TypeVram'
  BY <1>1, <1>2 DEF TypeObjs, TypeVram, objVars, vramVars, pmVars
<1>5. Roles'
  BY <1>1, <1>2, RolesStay DEF objVars, vramVars, pmVars, BootPCs
<1>6. SlotsOwned'
  BY <1>1, <1>2, <1>3 DEF SlotsOwned, Owner, Owning, Holding, TypeVram, objVars, pmVars
<1>7. HeldMaps'
  <2>1. \A o : Holders(o)' = Holders(o)
    BY <1>1, HoldersChange DEF Stays, HoldsIn, Holding
  <2>. QED  BY <1>1, <1>2, <1>3, <2>1 DEF HeldMaps, Holding, objVars, pmVars
<1>8. Lru'
  BY <1>2 DEF Lru, objVars
<1>9. Tables'
  BY <1>1, <1>2, <1>3 DEF Tables, objVars, vramVars, pmVars
<1>10. Progress'
  BY <1>1, <1>2, ProgressStay DEF Stays, objVars, vramVars, pmVars
<1>. QED  BY <1>3, <1>4, <1>5, <1>6, <1>7, <1>8, <1>9, <1>10

\* The eviction of the first object of the LRU.
LEMMA EvictKeeps ==
  ASSUME InstInv, NEW t \in InstThreads, Evict(t)
  PROVE  InstInv'
<1>. USE DEF InstInv
<1>1. CASE lru = <<>>
  <2>. DEFINE r == [thr[t] EXCEPT !.pc = "finish"]
  <2>1. /\ Stays(t, r) /\ thr[t].pc = "evict" /\ r.pc = "finish" /\ r.slot = thr[t].slot
        /\ UNCHANGED <<objVars, slots, vramVars, pmVars>>
    BY <1>1 DEF Evict, InstGoto, Stays, Moved, TypeThr, InstThread, PCs, InstAt, Busy, objVars
  <2>. HIDE DEF r
  <2>2. TypeThr' /\ thr'[t] = r /\ \A u \in InstThreads : u # t => thr'[u] = thr[u]
    BY <2>1, MovedFacts DEF Stays
  <2>3. TypeObjs' /\ TypeVram'
    BY <2>1 DEF TypeObjs, TypeVram, objVars, vramVars, pmVars
  <2>4. Roles'
    BY <2>1, RolesStay DEF objVars, vramVars, pmVars, BootPCs
  <2>5. SlotsOwned'
    BY <2>1, <2>2 DEF SlotsOwned, Owner, Owning, Holding, objVars, pmVars
  <2>6. \A o : Holders(o)' = Holders(o)
    BY <2>1, HoldersChange DEF Stays, HoldsIn, Holding
  <2>7. HeldMaps'
    BY <2>1, <2>2, <2>6 DEF HeldMaps, Holding, objVars, pmVars
  <2>8. Lru' /\ Tables'
    BY <2>1, <2>2 DEF Lru, Tables, objVars, vramVars, pmVars
  <2>9. Progress'
    BY <2>1, ProgressStay DEF Stays, objVars, vramVars, pmVars
  <2>. QED  BY <2>2, <2>3, <2>4, <2>5, <2>7, <2>8, <2>9
<1>2. CASE lru # <<>>
  <2>. DEFINE e == Head(lru)
              r == [thr[t] EXCEPT !.pc = "put", !.slot = bar[e]]
  <2>1. /\ e \in AllObjs /\ bar[e] \in Slots /\ maps[e] = 0 /\ evictable[e]
        /\ Tail(lru) \in Seq(AllObjs) /\ Once(Tail(lru))
        /\ \A o : InList(Tail(lru), o) <=> InList(lru, o) /\ o # e
    BY <1>2, TailList DEF TypeObjs, Lru
  <2>2. /\ Stays(t, r) /\ thr[t].pc = "evict" /\ r.pc = "put" /\ r.slot = bar[e]
        /\ lru' = Tail(lru) /\ bar' = [bar EXCEPT ![e] = NoSlot]
        /\ UNCHANGED <<objs, maps, evictable, ptrs, boot, slots, vramVars, pmVars>>
    BY <1>2, <2>1 DEF Evict, Stays, Moved, TypeThr, InstThread, PCs, InstAt, Busy
  <2>. HIDE DEF e, r
  <2>3. TypeThr' /\ thr'[t] = r /\ \A u \in InstThreads : u # t => thr'[u] = thr[u]
    BY <2>2, MovedFacts DEF Stays
  <2>4. power # "boot" /\ NoSlot \notin Slots
    BY <2>1, InstAssumption DEF Roles
  <2>5. TypeObjs' /\ TypeVram'
    BY <2>1, <2>2 DEF TypeObjs, TypeVram, vramVars, pmVars
  <2>6. Roles'
    BY <2>2, <2>4, RolesStay DEF vramVars, pmVars, BootPCs
  <2>7. SlotsOwned'
    <3>1. \A o \in AllObjs : bar'[o] = IF o = e THEN NoSlot ELSE bar[o]
      BY <2>1, <2>2 DEF TypeObjs
    <3>2. /\ Owner(t)' /\ ~Owner(t) /\ thr'[t].slot = bar[e] /\ slots' = slots /\ bar2' = bar2
          /\ \A u \in InstThreads : u # t => (Owner(u)' <=> Owner(u)) /\ thr'[u] = thr[u]
      BY <2>2, <2>3 DEF Owner, Owning, pmVars
    <3>3. \A u \in InstThreads :
            /\ Owner(u)' => thr'[u].slot \in Slots \ slots
            /\ ~Owner(u)' /\ thr'[u].pc \notin Holding => thr'[u].slot = NoSlot
            /\ thr'[u].pc \in Owning \cup {"get", "evict"} => bar2 \/ power' = "boot"
      BY <2>1, <2>2, <2>3, <3>2 DEF SlotsOwned, Owning, pmVars
    <3>4. \A u, v \in InstThreads : Owner(u)' /\ Owner(v)' /\ thr'[u].slot = thr'[v].slot => u = v
      BY <2>1, <3>2 DEF SlotsOwned
    <3>5. \A o \in AllObjs, u \in InstThreads : Owner(u)' => bar'[o] # thr'[u].slot
      BY <2>1, <2>4, <3>1, <3>2 DEF SlotsOwned
    <3>6. \A x \in Slots \ slots : \/ \E o \in AllObjs : bar'[o] = x
                                   \/ \E u \in InstThreads : Owner(u)' /\ thr'[u].slot = x
      BY <2>1, <3>1, <3>2 DEF SlotsOwned
    <3>. QED  BY <2>1, <2>2, <2>4, <3>1, <3>2, <3>3, <3>4, <3>5, <3>6 DEF SlotsOwned
  <2>8. \A o : Holders(o)' = Holders(o)
    BY <2>2, HoldersChange DEF Stays, HoldsIn, Holding
  <2>9. HeldMaps'
    <3>1. ASSUME NEW u \in InstThreads, thr[u].pc \in Holding
          PROVE  thr[u].o # e
      <4>1. Holders(e) = {}
        BY <2>1, HoldersFinite DEF HeldMaps
      <4>. QED  BY <3>1, <4>1 DEF Holders
    <3>2. \A u \in InstThreads : thr'[u].pc \in Holding => thr'[u] = thr[u] /\ thr[u].o \in AllObjs
      BY <2>2, <2>3 DEF Holding, TypeThr, InstThread
    <3>3. \A o \in AllObjs : bar'[o] = IF o = e THEN NoSlot ELSE bar[o]
      BY <2>1, <2>2 DEF TypeObjs
    <3>4. ptrs[e] = "null"
      BY <2>1 DEF HeldMaps
    <3>. QED  BY <2>2, <2>8, <3>1, <3>2, <3>3, <3>4 DEF HeldMaps, pmVars
  <2>10. Lru'
    BY <2>1, <2>2 DEF Lru, TypeObjs
  <2>11. Tables'
    <3>1. \A o \in AllObjs : bar'[o] # NoSlot => bar'[o] = bar[o] /\ bar[o] # NoSlot
      BY <2>2 DEF TypeObjs
    <3>2. \A u \in InstThreads : thr'[u].pc = "end" => thr'[u] = thr[u]
      BY <2>2, <2>3
    <3>. QED  BY <2>2, <3>1, <3>2 DEF Tables, vramVars, pmVars
  <2>12. Progress'
    BY <2>2, ProgressStay DEF Stays, vramVars, pmVars
  <2>. QED  BY <2>3, <2>5, <2>6, <2>7, <2>9, <2>10, <2>11, <2>12
<1>. QED  BY <1>1, <1>2

\* nvkm_vmm_put.
LEMMA PutSlotKeeps ==
  ASSUME InstInv, NEW t \in InstThreads, PutSlot(t)
  PROVE  InstInv'
<1>. USE DEF InstInv
<1>. DEFINE s == thr[t].slot
            r == thr'[t]
<1>1. /\ thr[t].pc \in {"put", "drop", "free"} /\ s \in Slots /\ NoSlot \notin Slots
      /\ slots' = slots \cup {s} /\ pte' = [pte EXCEPT ![s] = NoSlot]
      /\ UNCHANGED <<objVars, pmVars, addr, win, lost, saved, savedPte>>
  BY InstAssumption DEF PutSlot, SlotsOwned, Owner, Owning
<1>2. /\ Stays(t, r) /\ r.slot = NoSlot
      /\ r.pc = CASE thr[t].pc = "put" -> "get" [] thr[t].pc = "drop" -> "finish" [] OTHER -> "idle"
  <2>. DEFINE pc == CASE thr[t].pc = "put" -> "get" [] thr[t].pc = "drop" -> "finish" [] OTHER -> "idle"
  <2>1. thr' = [thr EXCEPT ![t] = [thr[t] EXCEPT !.slot = NoSlot, !.pc = pc]]
    BY DEF PutSlot, TypeThr, InstThread
  <2>2. pc \in PCs
    BY DEF PCs
  <2>. HIDE DEF pc
  <2>3. /\ r = [thr[t] EXCEPT !.slot = NoSlot, !.pc = pc] /\ r \in InstThread
        /\ thr' = [thr EXCEPT ![t] = r]
    BY <2>1, <2>2 DEF TypeThr, InstThread
  <2>4. r.slot = NoSlot /\ r.pc = pc /\ Stays(t, r)
    BY <1>1, <2>3 DEF TypeThr, InstThread, Stays, Moved, Busy
  <2>. QED  BY <2>4 DEF pc
<1>. HIDE DEF r
<1>3. TypeThr' /\ thr'[t] = r /\ \A u \in InstThreads : u # t => thr'[u] = thr[u]
  BY <1>2, MovedFacts DEF Stays
<1>4. /\ r.pc \in {"get", "finish", "idle"}
      /\ r.pc = "idle" <=> thr[t].pc = "free"
      /\ t = Pm => thr[t].pc # "free"
  BY <1>1, <1>2 DEF Roles, Busy
<1>5. TypeObjs' /\ TypeVram'
  BY <1>1 DEF TypeObjs, TypeVram, objVars, pmVars
<1>6. Roles'
  BY <1>1, <1>2, <1>4, RolesStay DEF objVars, pmVars, BootPCs
<1>7. SlotsOwned'
  <2>1. /\ ~Owner(t)' /\ Owner(t) /\ thr'[t].slot = NoSlot /\ bar' = bar /\ bar2' = bar2
        /\ \A u \in InstThreads : u # t => (Owner(u)' <=> Owner(u)) /\ thr'[u] = thr[u]
    BY <1>1, <1>2, <1>3, <1>4 DEF Owner, Owning, objVars, pmVars
  <2>2. \A u \in InstThreads : u # t /\ Owner(u) => thr[u].slot # s
    BY <2>1 DEF SlotsOwned
  <2>3. \A u \in InstThreads :
          /\ Owner(u)' => thr'[u].slot \in Slots \ slots'
          /\ ~Owner(u)' /\ thr'[u].pc \notin Holding => thr'[u].slot = NoSlot
          /\ thr'[u].pc \in Owning \cup {"get", "evict"} => bar2 \/ power' = "boot"
    BY <1>1, <1>2, <1>3, <1>4, <2>1, <2>2 DEF SlotsOwned, Owning, pmVars
  <2>4. \A o \in AllObjs : bar'[o] \in Slots => bar'[o] \notin slots'
    BY <1>1, <2>1 DEF SlotsOwned
  <2>5. \A x \in Slots \ slots' : \/ \E o \in AllObjs : bar'[o] = x
                                  \/ \E u \in InstThreads : Owner(u)' /\ thr'[u].slot = x
    BY <1>1, <2>1 DEF SlotsOwned
  <2>. QED  BY <1>1, <2>1, <2>3, <2>4, <2>5 DEF SlotsOwned, objVars
<1>8. \A o : Holders(o)' = Holders(o)
  BY <1>1, <1>2, <1>4, HoldersChange DEF Stays, HoldsIn, Holding
<1>9. HeldMaps'
  BY <1>1, <1>3, <1>4, <1>8 DEF HeldMaps, Holding, objVars, pmVars
<1>10. Lru'
  BY <1>1 DEF Lru, objVars
<1>11. Tables'
  <2>1. \A o \in AllObjs : bar[o] # NoSlot => bar[o] \in Slots /\ bar[o] # s
    BY <1>1 DEF SlotsOwned, Owner, Owning, TypeObjs
  <2>2. \A u \in InstThreads : thr'[u].pc = "end" =>
          thr[u] = thr'[u] /\ thr[u].slot \in Slots /\ thr[u].slot # s
    BY <1>1, <1>3, <1>4 DEF SlotsOwned, Owner, Owning
  <2>3. \A x \in Slots : x # s => pte'[x] = pte[x]
    BY <1>1 DEF TypeVram
  <2>. QED  BY <1>1, <2>1, <2>2, <2>3 DEF Tables, objVars, pmVars
<1>12. Progress'
  BY <1>1, <1>2, <1>4, ProgressStay DEF Stays, objVars, pmVars
<1>. QED  BY <1>3, <1>5, <1>6, <1>7, <1>9, <1>10, <1>11, <1>12

\* nvkm_memory_map.
LEMMA MapSlotKeeps ==
  ASSUME InstInv, NEW t \in InstThreads, MapSlot(t)
  PROVE  InstInv'
<1>. USE DEF InstInv
<1>. DEFINE s == thr[t].slot
            r == thr'[t]
<1>1. /\ thr[t].pc = "map" /\ s \in Slots /\ NoSlot \notin Slots
      /\ UNCHANGED <<objVars, slots, pmVars, addr, win, lost, saved, savedPte>>
  BY InstAssumption DEF MapSlot, InstAt, SlotsOwned, Owner, Owning
<1>2. /\ Stays(t, r) /\ r.slot = s
      /\ \/ r.pc = "end" /\ pte' = [pte EXCEPT ![s] = thr[t].o]
         \/ r.pc = "drop" /\ thr[t].op # "boot" /\ pte' = pte
  BY <1>1 DEF MapSlot, InstGoto, Stays, Moved, TypeThr, InstThread, PCs, Busy
<1>. HIDE DEF r
<1>3. TypeThr' /\ thr'[t] = r /\ \A u \in InstThreads : u # t => thr'[u] = thr[u]
  BY <1>2, MovedFacts DEF Stays
<1>4. TypeObjs' /\ TypeVram'
  <2>1. thr[t].o \in AllObjs
    BY DEF TypeThr, InstThread
  <2>2. pte' \in [Slots -> AllObjs \cup {NoSlot}]
    BY <1>2, <2>1 DEF TypeVram
  <2>. QED  BY <1>1, <2>2 DEF TypeObjs, TypeVram, objVars, pmVars
<1>5. Roles'
  <2>1. power = "boot" => thr[t].op = "boot"
    BY <1>1 DEF Roles, InstThreads, Busy
  <2>. QED  BY <1>1, <1>2, <2>1, RolesStay DEF objVars, pmVars, BootPCs
<1>6. SlotsOwned'
  BY <1>1, <1>2, <1>3 DEF SlotsOwned, Owner, Owning, Holding, objVars, pmVars
<1>7. \A o : Holders(o)' = Holders(o)
  BY <1>1, <1>2, HoldersChange DEF Stays, HoldsIn, Holding
<1>8. HeldMaps'
  BY <1>1, <1>2, <1>3, <1>7 DEF HeldMaps, Holding, objVars, pmVars
<1>9. Lru'
  BY <1>1 DEF Lru, objVars
<1>10. Tables'
  <2>1. \A o \in AllObjs : bar[o] # NoSlot => bar[o] \in Slots /\ bar[o] # s
    BY <1>1 DEF SlotsOwned, Owner, Owning, TypeObjs
  <2>2. \A u \in InstThreads : u # t /\ thr'[u].pc = "end" =>
          thr[u] = thr'[u] /\ thr[u].slot \in Slots /\ thr[u].slot # s
    BY <1>1, <1>3 DEF SlotsOwned, Owner, Owning
  <2>3. \A x \in Slots : x # s => pte'[x] = pte[x]
    BY <1>1, <1>2 DEF TypeVram
  <2>4. r.pc = "end" => pte'[r.slot] = r.o
    BY <1>1, <1>2 DEF TypeVram, Stays
  <2>. QED  BY <1>1, <1>3, <2>1, <2>2, <2>3, <2>4 DEF Tables, objVars, pmVars
<1>11. Progress'
  BY <1>1, <1>2, ProgressStay DEF Stays, Busy, objVars, pmVars
<1>. QED  BY <1>3, <1>4, <1>5, <1>6, <1>8, <1>9, <1>10, <1>11

-----------------------------------------------------------------------------
(* An object is acquired.                                                  *)

\* What the callers of Finish do beside it: b is what bar becomes, and a mapping
\* that is not kept is put.
Kept(t, b) ==
  LET o == thr[t].o
      s == thr[t].slot
  IN  /\ thr[t].pc \in {"acquire", "end", "finish"}
      /\ \/ thr[t].pc # "end" /\ b = bar /\ UNCHANGED <<slots, pte>>
         \/ /\ thr[t].pc = "end" /\ bar[o] = NoSlot /\ b = [bar EXCEPT ![o] = s]
            /\ UNCHANGED <<slots, pte>>
         \/ /\ thr[t].pc = "end" /\ thr[t].op # "boot" /\ b = bar
            /\ slots' = slots \cup {s} /\ pte' = [pte EXCEPT ![s] = NoSlot]
      /\ UNCHANGED <<addr, win, lost, saved, savedPte>>

\* What the slots need of it, whatever the thread goes on to.
LEMMA KeptSlots ==
  ASSUME InstInv, NEW t \in InstThreads, NEW b, Kept(t, b), bar' = b,
         UNCHANGED <<objs, bar2>>, power = "boot" \/ power' = power, NEW r, Moved(t, r),
         r.pc \in {"held", "idle"}, r.pc = "idle" => r.slot = NoSlot
  PROVE  /\ SlotsOwned'
         /\ bar' \in [AllObjs -> Slots \cup {NoSlot}] /\ slots' \in SUBSET Slots
         /\ {pte', savedPte'} \subseteq [Slots -> AllObjs \cup {NoSlot}]
         /\ \A o \in AllObjs : bar[o] # NoSlot => bar'[o] = bar[o] /\ pte'[bar[o]] = pte[bar[o]]
         /\ \A o \in AllObjs : bar'[o] # bar[o] =>
              /\ thr[t].pc = "end" /\ o = thr[t].o /\ bar[o] = NoSlot
              /\ bar'[o] = thr[t].slot /\ pte' = pte
         /\ \A u \in InstThreads : thr'[u].pc = "end" =>
              thr'[u] = thr[u] /\ pte'[thr[u].slot] = pte[thr[u].slot]
<1>. USE DEF InstInv
<1>. DEFINE o == thr[t].o
            s == thr[t].slot
<1>1. TypeThr' /\ thr'[t] = r /\ \A u \in InstThreads : u # t => thr'[u] = thr[u]
  BY MovedFacts
<1>2. o \in AllObjs /\ o \in objs /\ NoSlot \notin Slots
  BY InstAssumption DEF Kept, TypeThr, InstThread, Roles, Busy
<1>3. /\ Owner(t) <=> thr[t].pc = "end"
      /\ Owner(t) => s \in Slots \ slots
      /\ ~Owner(t)'
      /\ \A u \in InstThreads : u # t => (Owner(u)' <=> Owner(u))
      /\ \A u \in InstThreads : u # t /\ Owner(u) /\ Owner(t) => thr[u].slot # s
      /\ \A p \in AllObjs : Owner(t) => bar[p] # s
  BY <1>1 DEF Kept, Owner, Owning, SlotsOwned
<1>4. \A u \in InstThreads : Owner(u)' =>
        u # t /\ thr'[u] = thr[u] /\ Owner(u) /\ thr[u].slot \in Slots \ slots
  BY <1>1, <1>3 DEF SlotsOwned
<1>5. \A u \in InstThreads :
        /\ ~Owner(u)' /\ thr'[u].pc \notin Holding => thr'[u].slot = NoSlot
        /\ thr'[u].pc \in Owning \cup {"get", "evict"} => bar2 \/ power' = "boot"
  <2>1. r.pc \notin Owning \cup {"get", "evict"}
    BY DEF Owning
  <2>2. \A u \in InstThreads \ {t} : thr'[u].pc \in Owning \cup {"get", "evict"} => power # "boot" \/ bar2
    BY <1>1, InstAssumption DEF Roles, InstThreads, Busy, Owning, Kept
  <2>. QED  BY <1>1, <1>3, <2>1, <2>2 DEF SlotsOwned, Holding, Owner
<1>6. CASE bar' = bar /\ thr[t].pc # "end" /\ UNCHANGED <<slots, pte>>
  <2>1. SlotsOwned'
    BY <1>1, <1>3, <1>4, <1>5, <1>6 DEF SlotsOwned
  <2>. QED  BY <1>1, <1>6, <2>1 DEF TypeObjs, TypeVram, Kept
<1>7. CASE /\ thr[t].pc = "end" /\ bar[o] = NoSlot /\ bar' = [bar EXCEPT ![o] = s]
           /\ UNCHANGED <<slots, pte>>
  <2>1. \A p \in AllObjs : bar'[p] = IF p = o THEN s ELSE bar[p]
    BY <1>2, <1>7 DEF TypeObjs
  <2>2. \A p, q \in AllObjs : bar'[p] = bar'[q] /\ bar'[p] \in Slots => p = q
    BY <1>3, <1>7, <2>1 DEF SlotsOwned
  <2>3. \A x \in Slots \ slots : \/ \E p \in AllObjs : bar'[p] = x
                                 \/ \E u \in InstThreads : Owner(u)' /\ thr'[u].slot = x
    BY <1>1, <1>2, <1>3, <1>7, <2>1 DEF SlotsOwned
  <2>4. SlotsOwned'
    BY <1>1, <1>2, <1>3, <1>4, <1>5, <1>7, <2>1, <2>2, <2>3 DEF SlotsOwned
  <2>5. bar' \in [AllObjs -> Slots \cup {NoSlot}]
    BY <1>2, <1>3, <1>7 DEF TypeObjs
  <2>. QED  BY <1>1, <1>2, <1>3, <1>7, <2>1, <2>4, <2>5 DEF TypeVram, Kept
<1>8. CASE /\ thr[t].pc = "end" /\ bar' = bar
           /\ slots' = slots \cup {s} /\ pte' = [pte EXCEPT ![s] = NoSlot]
  <2>1. \A x \in Slots \ slots' : \/ \E p \in AllObjs : bar'[p] = x
                                 \/ \E u \in InstThreads : Owner(u)' /\ thr'[u].slot = x
    BY <1>1, <1>3, <1>8 DEF SlotsOwned
  <2>2. \A u \in InstThreads : Owner(u)' => thr'[u].slot \in Slots \ slots'
    BY <1>3, <1>4, <1>8
  <2>3. \A p \in AllObjs : bar'[p] \in Slots => bar'[p] \notin slots'
    BY <1>3, <1>8 DEF SlotsOwned
  <2>4. SlotsOwned'
    BY <1>1, <1>3, <1>4, <1>5, <1>8, <2>1, <2>2, <2>3 DEF SlotsOwned
  <2>5. \A x \in Slots : x # s => pte'[x] = pte[x]
    BY <1>8 DEF TypeVram
  <2>6. /\ slots' \in SUBSET Slots
        /\ {pte', savedPte'} \subseteq [Slots -> AllObjs \cup {NoSlot}]
    BY <1>3, <1>8 DEF TypeVram, Kept
  <2>7. \A u \in InstThreads : thr'[u].pc = "end" => Owner(u)'
    BY DEF Owner, Owning
  <2>8. \A p \in AllObjs : bar[p] # NoSlot => bar[p] \in Slots /\ bar[p] # s
    BY <1>3, <1>8 DEF TypeObjs
  <2>. QED  BY <1>1, <1>3, <1>4, <1>8, <2>4, <2>5, <2>6, <2>7, <2>8 DEF TypeObjs
<1>. QED  BY <1>6, <1>7, <1>8 DEF Kept

\* The page table of BAR2 is booted, with the mapping or without.
LEMMA FinishBoot ==
  ASSUME InstInv, NEW t \in InstThreads, NEW b, Kept(t, b), Finish(t, b), thr[t].op = "boot"
  PROVE  InstInv'
<1>. USE DEF InstInv
<1>1. t = Pm /\ power = "boot" /\ thr[t].o = Pt /\ ~evictable[Pt] /\ Busy(t)
  BY DEF Roles, Kept, Busy, InstThreads
<1>2. /\ Moved(t, InstIdle) /\ bar' = b /\ boot' = objs /\ power' = "loadboot"
      /\ UNCHANGED <<maps, lru, ptrs, objs, evictable, bar2, todo, addr, win, lost, saved, savedPte>>
  BY <1>1, InstAssumption DEF Finish, Kept, Moved, InstIdle, InstThread, PCs, AllObjs
<1>3. TypeThr' /\ thr'[t] = InstIdle /\ \A u \in InstThreads : u # t => thr'[u] = thr[u]
  BY <1>2, MovedFacts
<1>4. /\ SlotsOwned'
      /\ bar' \in [AllObjs -> Slots \cup {NoSlot}] /\ slots' \in SUBSET Slots
      /\ {pte', savedPte'} \subseteq [Slots -> AllObjs \cup {NoSlot}]
      /\ \A o \in AllObjs : bar'[o] # bar[o] =>
           /\ thr[t].pc = "end" /\ o = Pt /\ bar[o] = NoSlot
           /\ bar'[o] = thr[t].slot /\ pte' = pte
  BY <1>1, <1>2, KeptSlots DEF InstIdle
<1>5. /\ Pt \notin lost /\ todo = {} /\ lost = {} /\ saved = {} /\ ~bar2
      /\ \A o \in AllObjs : bar[o] = NoSlot
  BY <1>1 DEF Roles, Progress
<1>6. TypeObjs' /\ TypeVram'
  BY <1>2, <1>4 DEF TypeObjs, TypeVram
<1>7. \A u \in InstThreads : ~Busy(u)'
  BY <1>1, <1>3 DEF Busy, InstIdle, Roles, InstThreads
<1>8. Roles'
  BY <1>2, <1>5, <1>7, InstAssumption DEF Roles, TypeObjs, InstThreads
<1>9. \A o : Holders(o)' = Holders(o)
  BY <1>1, <1>2, HoldersChange DEF HoldsIn, Holding, InstIdle, Roles
<1>10. HeldMaps'
  BY <1>2, <1>5, <1>7, <1>9 DEF HeldMaps, Holding, Busy
<1>11. Lru'
  BY <1>1, <1>2, <1>4 DEF Lru
<1>12. Tables'
  <2>1. \A o \in AllObjs : bar'[o] # NoSlot => pte'[bar'[o]] = o
    BY <1>1, <1>4, <1>5 DEF Tables
  <2>. QED  BY <1>1, <1>2, <1>5, <1>7, <2>1 DEF Tables, Busy
<1>13. Progress'
  BY <1>1, <1>2, <1>3, <1>5, <1>7 DEF Progress, Current, InstIdle, Busy
<1>. QED  BY <1>3, <1>4, <1>6, <1>8, <1>10, <1>11, <1>12, <1>13

\* The end of nv50_instobj_acquire.
LEMMA FinishHeld ==
  ASSUME InstInv, NEW t \in InstThreads, NEW b, Kept(t, b), Finish(t, b), thr[t].op # "boot"
  PROVE  InstInv'
<1>. USE DEF InstInv
<1>. DEFINE o == thr[t].o
            direct == bar2 /\ b[o] # NoSlot
            r == [thr[t] EXCEPT !.pc = "held", !.slot = IF direct THEN b[o] ELSE NoSlot]
<1>1. /\ thr[t].pc \in {"acquire", "end", "finish"} /\ o \in AllObjs /\ o \in objs /\ power # "boot"
      /\ Busy(t)
  BY DEF Kept, TypeThr, InstThread, Roles, Busy, InstThreads
<1>2. b \in [AllObjs -> Slots \cup {NoSlot}]
  BY <1>1, ZenonT(30) DEF Kept, TypeObjs, SlotsOwned, Owner, Owning
<1>3. /\ Stays(t, r) /\ bar' = b /\ maps' = [maps EXCEPT ![o] = @ + 1]
      /\ maps[o] > 0 => UNCHANGED <<lru, ptrs>>
      /\ ~(maps[o] > 0) =>
           /\ lru' = IF evictable[o] THEN OffLru(o) ELSE lru
           /\ ptrs' = [ptrs EXCEPT ![o] = IF direct THEN "fast" ELSE "slow"]
      /\ UNCHANGED <<boot, power, objs, evictable, bar2, todo, addr, win, lost, saved, savedPte>>
  <2>1. r \in InstThread /\ r.op = thr[t].op /\ r.o = o
    BY <1>2 DEF TypeThr, InstThread, PCs, TypeObjs
  <2>2. thr' = [thr EXCEPT ![t].pc = "held", ![t].slot = IF direct THEN b[o] ELSE NoSlot]
    BY DEF Finish
  <2>3. thr' = [thr EXCEPT ![t] = r]
    BY <2>2 DEF TypeThr, InstThread
  <2>4. Stays(t, r)
    BY <1>1, <2>1, <2>3 DEF Stays, Moved
  <2>. HIDE DEF r
  <2>. QED  BY <2>4 DEF Finish, Kept
<1>4. /\ r.pc = "held" /\ r.o = o
      /\ r.slot = IF direct THEN b[o] ELSE NoSlot
  BY DEF TypeThr, InstThread
<1>. HIDE DEF r
<1>5. TypeThr' /\ thr'[t] = r /\ \A u \in InstThreads : u # t => thr'[u] = thr[u]
  BY <1>3, MovedFacts DEF Stays
<1>6. /\ SlotsOwned'
      /\ bar' \in [AllObjs -> Slots \cup {NoSlot}] /\ slots' \in SUBSET Slots
      /\ {pte', savedPte'} \subseteq [Slots -> AllObjs \cup {NoSlot}]
      /\ \A p \in AllObjs : bar[p] # NoSlot => bar'[p] = bar[p] /\ pte'[bar[p]] = pte[bar[p]]
      /\ \A p \in AllObjs : bar'[p] # bar[p] =>
           /\ thr[t].pc = "end" /\ p = o /\ bar[p] = NoSlot
           /\ bar'[p] = thr[t].slot /\ pte' = pte
      /\ \A u \in InstThreads : thr'[u].pc = "end" =>
           thr'[u] = thr[u] /\ pte'[thr[u].slot] = pte[thr[u].slot]
  BY <1>3, <1>4, KeptSlots DEF Stays
<1>7. maps[o] \in Nat /\ \A p \in AllObjs : maps'[p] = IF p = o THEN maps[p] + 1 ELSE maps[p]
  BY <1>1, <1>3 DEF TypeObjs
<1>8. /\ lru' \in Seq(AllObjs) /\ Once(lru')
      /\ \A p \in AllObjs : InList(lru', p) <=> InList(lru, p) /\ p # o
  <2>1. CASE lru' = lru /\ (maps[o] > 0 \/ ~evictable[o])
    <3>1. ~InList(lru, o)
      BY <1>1, <1>7, <2>1 DEF Lru
    <3>. QED  BY <2>1, <3>1 DEF Lru, TypeObjs
  <2>2. CASE lru' = OffLru(o)
    BY <1>1, <2>2, OffLruList DEF Lru, TypeObjs
  <2>. QED  BY <1>3, <2>1, <2>2
<1>9. TypeObjs'
  <2>1. maps' \in [AllObjs -> Nat]
    BY <1>1, <1>3, <1>7 DEF TypeObjs
  <2>2. ptrs' \in [AllObjs -> {"null", "fast", "slow"}]
    BY <1>3 DEF TypeObjs
  <2>. QED  BY <1>3, <1>6, <1>8, <2>1, <2>2 DEF TypeObjs
<1>10. TypeVram'
  BY <1>3, <1>6 DEF TypeVram
<1>11. Roles'
  BY <1>1, <1>3, <1>4, RolesStay DEF BootPCs
<1>12. HeldMaps'
  <2>1. \A p \in AllObjs : maps'[p] = Cardinality(Holders(p)')
    <3>1. ~HoldsIn(thr[t], o) /\ HoldsIn(r, o)
      BY <1>1, <1>4 DEF HoldsIn, Holding
    <3>2. \A p : p # o => (HoldsIn(r, p) <=> HoldsIn(thr[t], p))
      BY <1>4 DEF HoldsIn
    <3>. QED  BY <1>1, <1>3, <1>7, <3>1, <3>2, HoldersChange DEF HeldMaps, Stays
  <2>2. \A p \in AllObjs : ptrs'[p] = "null" <=> maps'[p] = 0
    BY <1>3, <1>7 DEF HeldMaps, TypeObjs
  <2>3. \A p \in AllObjs : ptrs'[p] = "fast" => bar2' /\ bar'[p] # NoSlot
    BY <1>3, <1>6 DEF HeldMaps, TypeObjs
  <2>4. ASSUME NEW u \in InstThreads, thr'[u].pc \in Holding, thr'[u].slot # NoSlot
        PROVE  bar2' /\ thr'[u].slot = bar'[thr'[u].o]
    <3>1. CASE u = t
      BY <1>3, <1>4, <1>5, <2>4, <3>1
    <3>2. CASE u # t
      <4>1. thr[u].o \in AllObjs /\ bar2 /\ thr[u].slot = bar[thr[u].o] /\ thr[u].slot # NoSlot
        BY <1>5, <2>4, <3>2 DEF HeldMaps, TypeThr, InstThread
      <4>. QED  BY <1>3, <1>5, <1>6, <3>2, <4>1
    <3>. QED  BY <3>1, <3>2
  <2>. QED  BY <2>1, <2>2, <2>3, <2>4 DEF HeldMaps
<1>13. Lru'
  <2>1. \A p \in AllObjs : p # o => bar'[p] = bar[p]
    BY <1>6
  <2>. QED  BY <1>3, <1>7, <1>8, <2>1 DEF Lru
<1>14. Tables'
  <2>1. ASSUME NEW p \in AllObjs, bar'[p] # bar[p]
        PROVE  Pt \notin saved /\ (Pt \notin lost => pte'[bar'[p]] = p)
    <3>1. thr[t].pc = "end" /\ p = o /\ bar'[p] = thr[t].slot /\ pte' = pte
      BY <1>6, <2>1
    <3>2. bar2
      BY <1>1, <3>1 DEF SlotsOwned, Owning
    <3>. QED  BY <3>1, <3>2 DEF Tables
  <2>2. \A p \in AllObjs : bar'[p] = bar[p] => (bar[p] # NoSlot => pte'[bar'[p]] = pte[bar[p]])
    BY <1>6
  <2>. QED  BY <1>3, <1>6, <2>1, <2>2 DEF Tables
<1>15. Progress'
  BY <1>1, <1>3, <1>4, ProgressStay DEF Stays
<1>. QED  BY <1>5, <1>6, <1>9, <1>10, <1>11, <1>12, <1>13, <1>14, <1>15

\* nv50_instobj_acquire: the object is mapped already, or a slot is asked for.
LEMMA AcquireKeeps ==
  ASSUME InstInv, NEW t \in InstThreads, Acquire(t)
  PROVE  InstInv'
<1>. USE DEF InstInv
<1>1. thr[t].pc = "acquire" /\ UNCHANGED <<slots, vramVars>>
  BY DEF Acquire, InstAt
<1>2. CASE Finish(t, bar)
  BY <1>1, <1>2, FinishHeld, FinishBoot DEF Kept, vramVars
<1>3. CASE bar2 /\ InstGoto(t, "get") /\ UNCHANGED <<objVars, pmVars>>
  <2>. DEFINE r == [thr[t] EXCEPT !.pc = "get"]
  <2>1. Stays(t, r) /\ r.pc = "get" /\ r.slot = thr[t].slot
    BY <1>1, <1>3 DEF InstGoto, Stays, Moved, TypeThr, InstThread, PCs, Busy
  <2>. HIDE DEF r
  <2>2. TypeThr' /\ thr'[t] = r /\ \A u \in InstThreads : u # t => thr'[u] = thr[u]
    BY <2>1, MovedFacts DEF Stays
  <2>3. TypeObjs' /\ TypeVram'
    BY <1>1, <1>3 DEF TypeObjs, TypeVram, objVars, vramVars, pmVars
  <2>4. Roles'
    BY <1>1, <1>3, <2>1, RolesStay DEF objVars, pmVars, BootPCs
  <2>5. SlotsOwned'
    BY <1>1, <1>3, <2>1, <2>2 DEF SlotsOwned, Owner, Owning, Holding, objVars, pmVars
  <2>6. \A o : Holders(o)' = Holders(o)
    BY <1>1, <2>1, HoldersChange DEF Stays, HoldsIn, Holding
  <2>7. HeldMaps'
    BY <1>3, <2>1, <2>2, <2>6 DEF HeldMaps, Holding, objVars, pmVars
  <2>8. Lru' /\ Tables'
    BY <1>1, <1>3, <2>1, <2>2 DEF Lru, Tables, objVars, vramVars, pmVars
  <2>9. Progress'
    BY <1>1, <1>3, <2>1, ProgressStay DEF Stays, Busy, objVars, vramVars, pmVars
  <2>. QED  BY <2>2, <2>3, <2>4, <2>5, <2>7, <2>8, <2>9
<1>. QED  BY <1>2, <1>3 DEF Acquire

\* The lock is taken again, and the mapping is kept unless another thread was faster.
LEMMA KmapKeeps ==
  ASSUME InstInv, NEW t \in InstThreads, KmapEnd(t) \/ KmapFinish(t)
  PROVE  InstInv'
<1>. USE DEF InstInv
<1>. DEFINE o == thr[t].o
            s == thr[t].slot
            b == [bar EXCEPT ![o] = s]
<1>1. CASE KmapFinish(t)
  <2>1. Kept(t, bar) /\ Finish(t, bar)
    BY <1>1 DEF KmapFinish, Kept, InstAt, vramVars
  <2>. QED  BY <2>1, FinishHeld, FinishBoot
<1>2. CASE KmapEnd(t) /\ bar[o] = NoSlot /\ Finish(t, b) /\ UNCHANGED <<slots, pte>>
  <2>1. Kept(t, b) /\ Finish(t, b)
    BY <1>2 DEF KmapEnd, Kept, InstAt
  <2>. QED  BY <2>1, FinishHeld, FinishBoot
<1>3. CASE /\ KmapEnd(t) /\ thr[t].op # "boot" /\ Finish(t, bar)
           /\ slots' = slots \cup {s} /\ pte' = [pte EXCEPT ![s] = NoSlot]
  <2>1. Kept(t, bar)
    BY <1>3 DEF KmapEnd, Kept, InstAt
  <2>. QED  BY <1>3, <2>1, FinishHeld
<1>4. CASE /\ KmapEnd(t) /\ bar[o] # NoSlot /\ InstGoto(t, "drop")
           /\ UNCHANGED <<objVars, slots, pmVars, pte>>
  <2>. DEFINE r == [thr[t] EXCEPT !.pc = "drop"]
  <2>1. thr[t].pc = "end" /\ UNCHANGED <<objVars, slots, pmVars, vramVars>>
    BY <1>4 DEF KmapEnd, InstAt, vramVars
  <2>2. Stays(t, r) /\ r.pc = "drop" /\ r.slot = s
    BY <1>4, <2>1 DEF InstGoto, Stays, Moved, TypeThr, InstThread, PCs, Busy
  <2>. HIDE DEF r
  <2>3. TypeThr' /\ thr'[t] = r /\ \A u \in InstThreads : u # t => thr'[u] = thr[u]
    BY <2>2, MovedFacts DEF Stays
  <2>4. o \in AllObjs /\ power # "boot"
    BY <1>4 DEF TypeThr, InstThread, Roles
  <2>5. TypeObjs' /\ TypeVram'
    BY <2>1 DEF TypeObjs, TypeVram, objVars, vramVars, pmVars
  <2>6. Roles'
    BY <2>1, <2>2, <2>4, RolesStay DEF objVars, pmVars
  <2>7. SlotsOwned'
    BY <2>1, <2>2, <2>3 DEF SlotsOwned, Owner, Owning, Holding, objVars, pmVars
  <2>8. \A p : Holders(p)' = Holders(p)
    BY <2>1, <2>2, HoldersChange DEF Stays, HoldsIn, Holding
  <2>9. HeldMaps'
    BY <2>1, <2>2, <2>3, <2>8 DEF HeldMaps, Holding, objVars, pmVars
  <2>10. Lru' /\ Tables'
    BY <2>1, <2>2, <2>3 DEF Lru, Tables, objVars, vramVars, pmVars
  <2>11. Progress'
    BY <2>1, <2>2, ProgressStay DEF Stays, Busy, objVars, vramVars, pmVars
  <2>. QED  BY <2>3, <2>5, <2>6, <2>7, <2>9, <2>10, <2>11
<1>. QED  BY <1>1, <1>2, <1>3, <1>4 DEF KmapEnd

-----------------------------------------------------------------------------
(* An object is used and released.                                         *)

\* A thread that holds an object reaches it, by BAR2 or by the window.
LEMMA InvHits ==
  ASSUME InstInv, NEW t \in InstThreads, InstAt(t, "held")
  PROVE  /\ maps[thr[t].o] > 0 /\ Reached(thr[t].o) = thr[t].o
         /\ thr[t].slot # NoSlot => Via(thr[t].slot) = thr[t].o
<1>. USE DEF InstInv
<1>. DEFINE o == thr[t].o
<1>1. o \in AllObjs /\ o # NoSlot
  BY InstAssumption DEF TypeThr, InstThread
<1>2. maps[o] # 0 /\ maps[o] \in Nat
  <2>1. t \in Holders(o)
    BY DEF Holders, InstAt, Holding
  <2>. QED  BY <1>1, <2>1, HoldersFinite DEF HeldMaps, TypeObjs
<1>3. bar2 /\ bar[o] # NoSlot => Via(bar[o]) = o
  BY <1>1 DEF Via, Tables
<1>4. Reached(o) = o
  <2>1. ptrs[o] \in {"fast", "slow"}
    BY <1>1, <1>2 DEF HeldMaps, TypeObjs
  <2>2. ptrs[o] = "fast" => Via(bar[o]) = o
    BY <1>1, <1>3 DEF HeldMaps
  <2>3. addr = o => win = o
    BY <1>1 DEF Tables
  <2>. QED  BY <2>1, <2>2, <2>3 DEF Reached
<1>5. thr[t].slot # NoSlot => Via(thr[t].slot) = o
  BY <1>3 DEF HeldMaps, InstAt, Holding
<1>. QED  BY <1>2, <1>4, <1>5

\* What is done with the object.
LEMMA AccessKeeps ==
  ASSUME InstInv, NEW t \in InstThreads, Access(t)
  PROVE  InstInv'
<1>. USE DEF InstInv
<1>. DEFINE o == thr[t].o
            op == thr[t].op
            r == [thr[t] EXCEPT !.pc = "release"]
<1>1. /\ thr[t].pc = "held" /\ o \in AllObjs /\ o \in objs /\ o # NoSlot /\ Pt # NoSlot
      /\ power \notin {"boot", "off"} /\ maps[o] > 0
      /\ op \in {"save", "load"} => t = Pm
      /\ op = "load" <=> power \in {"loadboot", "loadlist"}
      /\ op = "save" <=> power \in {"savelist", "saveboot"}
  BY InvHits, InstAssumption DEF Access, InstAt, TypeThr, InstThread, InstThreads, Roles, Busy, AllObjs
<1>2. (IF thr[t].slot # NoSlot THEN Via(thr[t].slot) ELSE Reached(o)) = o
  BY InvHits DEF Access
<1>3. /\ Stays(t, r) /\ r.pc = "release" /\ r.slot = thr[t].slot /\ r.o = o
      /\ (addr' = o /\ win' = o) \/ UNCHANGED <<addr, win>>
      /\ saved' = CASE op = "save" -> saved \cup {o} [] op = "load" -> saved \ {o} [] OTHER -> saved
      /\ savedPte' = CASE o = Pt /\ op = "save" -> pte [] o = Pt /\ op = "load" -> NoPte
                       [] OTHER -> savedPte
      /\ lost' = IF op # "load" THEN lost ELSE lost \ {o}
      /\ pte' = IF op = "load" /\ o = Pt THEN savedPte ELSE pte
      /\ evictable' = [evictable EXCEPT ![o] = FALSE] \/ UNCHANGED evictable
      /\ UNCHANGED <<objs, maps, bar, lru, ptrs, boot, slots, pmVars>>
  <2>1. Stays(t, r) /\ r.pc = "release" /\ r.slot = thr[t].slot /\ r.o = o
    BY <1>1 DEF Access, InstGoto, Stays, Moved, TypeThr, InstThread, PCs, Busy
  <2>. HIDE DEF r
  <2>. QED  BY <1>1, <1>2, <2>1 DEF Access
<1>. HIDE DEF r
<1>4. TypeThr' /\ thr'[t] = r /\ \A u \in InstThreads : u # t => thr'[u] = thr[u]
  BY <1>3, MovedFacts DEF Stays
<1>5. \A p \in AllObjs : evictable'[p] \in BOOLEAN /\ (p # o => evictable'[p] = evictable[p])
  BY <1>3 DEF TypeObjs
<1>6. TypeObjs'
  <2>1. evictable' \in [AllObjs -> BOOLEAN]
    BY <1>3 DEF TypeObjs
  <2>. QED  BY <1>3, <2>1 DEF TypeObjs
<1>7. TypeVram'
  <2>1. NoPte \in [Slots -> AllObjs \cup {NoSlot}]
    BY DEF NoPte
  <2>2. {pte', savedPte'} \subseteq [Slots -> AllObjs \cup {NoSlot}]
    BY <1>3, <2>1 DEF TypeVram
  <2>3. {lost', saved'} \subseteq SUBSET objs'
    BY <1>1, <1>3 DEF TypeVram
  <2>. QED  BY <1>1, <1>3, <2>2, <2>3 DEF TypeVram, pmVars
<1>8. Roles'
  BY <1>1, <1>3, RolesStay DEF pmVars, BootPCs
<1>9. SlotsOwned'
  BY <1>1, <1>3, <1>4 DEF SlotsOwned, Owner, Owning, Holding, pmVars
<1>10. \A p : Holders(p)' = Holders(p)
  BY <1>1, <1>3, HoldersChange DEF Stays, HoldsIn, Holding
<1>11. HeldMaps'
  BY <1>1, <1>3, <1>4, <1>10 DEF HeldMaps, Holding, pmVars
<1>12. Lru'
  BY <1>1, <1>3, <1>5 DEF Lru
<1>13. /\ op = "load" => o \in saved /\ (power = "loadboot" => ~bar2)
       /\ op = "load" /\ o = Pt => power = "loadboot"
       /\ op = "save" => lost = {}
       /\ op = "save" /\ o = Pt => ~bar2
  <2>1. op \in {"save", "load"} => Current = {o} /\ Busy(Pm)
    BY <1>1 DEF Current, Busy
  <2>2. Pt \in boot
    BY <1>1 DEF Roles
  <2>. QED  BY <1>1, <2>1, <2>2 DEF Progress, Roles
<1>14. Tables'
  <2>1. /\ addr' # NoSlot => win' = addr'
        /\ power' = "off" => addr' = NoSlot
    BY <1>1, <1>3 DEF Tables, pmVars
  <2>2. CASE o = Pt /\ op = "load"
    <3>1. \A u \in InstThreads : thr'[u].pc # "end"
      <4>1. ~bar2 /\ power = "loadboot"
        BY <1>13, <2>2
      <4>. QED  BY <1>3, <1>4, <4>1 DEF SlotsOwned, Owning
    <3>2. \A p \in AllObjs : bar[p] # NoSlot => savedPte[bar[p]] = p
      BY <1>13, <2>2 DEF Tables
    <3>3. pte' = savedPte /\ Pt \notin saved' /\ Pt \notin lost' /\ bar' = bar /\ bar2' = bar2
      BY <1>3, <2>2 DEF pmVars
    <3>. QED  BY <2>1, <3>1, <3>2, <3>3 DEF Tables
  <2>3. CASE ~(o = Pt /\ op = "load")
    <3>1. pte' = pte /\ bar' = bar /\ bar2' = bar2 /\ (Pt \in lost' <=> Pt \in lost)
      BY <1>3, <2>3 DEF pmVars
    <3>2. \A u \in InstThreads : thr'[u].pc = "end" => thr'[u] = thr[u]
      BY <1>3, <1>4
    <3>3. CASE o = Pt /\ op = "save"
      BY <1>3, <1>13, <2>1, <3>1, <3>2, <3>3 DEF Tables
    <3>4. CASE ~(o = Pt /\ op = "save")
      <4>1. savedPte' = savedPte /\ (Pt \in saved' => Pt \in saved)
        BY <1>3, <2>3, <3>4
      <4>. QED  BY <2>1, <3>1, <3>2, <4>1 DEF Tables
    <3>. QED  BY <3>3, <3>4
  <2>. QED  BY <2>2, <2>3
<1>15. Progress'
  <2>1. CASE op \notin {"save", "load"}
    <3>1. t # Pm
      BY <1>1, <2>1 DEF TypeVram, Roles, Busy
    <3>. QED  BY <1>1, <1>3, <2>1, <3>1, ProgressStay DEF Stays, Busy, pmVars
  <2>2. CASE op = "save"
    <3>1. Current = {o} /\ Current' = {} /\ t = Pm
      BY <1>1, <1>3, <1>4, <2>2 DEF Current
    <3>2. lost' = lost /\ saved' = saved \cup {o}
      BY <1>3, <2>2
    <3>. QED  BY <1>1, <1>3, <2>2, <3>1, <3>2 DEF Progress, pmVars
  <2>3. CASE op = "load"
    <3>1. Current = {o} /\ Current' = {} /\ t = Pm /\ Busy(Pm)
      BY <1>1, <1>3, <1>4, <2>3 DEF Current, Busy
    <3>2. lost' = lost \ {o} /\ saved' = saved \ {o} /\ o \notin todo'
      BY <1>3, <2>3, <3>1 DEF Progress, pmVars
    <3>. QED  BY <1>1, <1>3, <2>3, <3>1, <3>2 DEF Progress, pmVars
  <2>. QED  BY <2>1, <2>2, <2>3
<1>. QED  BY <1>4, <1>6, <1>7, <1>8, <1>9, <1>11, <1>12, <1>14, <1>15

\* nv50_instobj_release.
LEMMA ReleaseKeeps ==
  ASSUME InstInv, NEW t \in InstThreads, Release(t)
  PROVE  InstInv'
<1>. USE DEF InstInv
<1>. DEFINE o == thr[t].o
<1>1. /\ thr[t].pc = "release" /\ o \in AllObjs /\ t \in Holders(o)
      /\ UNCHANGED <<objs, bar, evictable, boot, slots, vramVars, pmVars>>
  BY DEF Release, InstAt, TypeThr, InstThread, Holders, Holding
<1>2. /\ maps' = [maps EXCEPT ![o] = @ - 1]
      /\ maps[o] > 1 => UNCHANGED <<lru, ptrs>>
      /\ ~(maps[o] > 1) =>
           /\ lru' = IF evictable[o] /\ bar[o] # NoSlot THEN Append(lru, o) ELSE lru
           /\ ptrs' = [ptrs EXCEPT ![o] = "null"]
  BY DEF Release
<1>3. Moved(t, InstIdle)
  BY DEF Release, Moved, InstIdle, InstThread, PCs, AllObjs
<1>4. TypeThr' /\ thr'[t] = InstIdle /\ \A u \in InstThreads : u # t => thr'[u] = thr[u]
  BY <1>3, MovedFacts
<1>5. /\ maps[o] \in Nat /\ maps[o] > 0
      /\ \A p \in AllObjs : maps'[p] = IF p = o THEN maps[p] - 1 ELSE maps[p]
  BY <1>1, <1>2, HoldersFinite DEF TypeObjs, HeldMaps
<1>6. /\ lru' \in Seq(AllObjs) /\ Once(lru')
      /\ \A p \in AllObjs : InList(lru', p) <=>
           InList(lru, p) \/ (p = o /\ maps[o] = 1 /\ evictable[o] /\ bar[o] # NoSlot)
  <2>1. ~InList(lru, o)
    BY <1>1, <1>5 DEF Lru
  <2>2. CASE maps[o] = 1 /\ evictable[o] /\ bar[o] # NoSlot
    <3>1. lru' = Append(lru, o)
      BY <1>2, <2>2
    <3>. QED  BY <1>1, <2>1, <2>2, <3>1, AppendList DEF Lru, TypeObjs
  <2>3. CASE ~(maps[o] = 1 /\ evictable[o] /\ bar[o] # NoSlot)
    <3>1. lru' = lru
      BY <1>2, <1>5, <2>3
    <3>. QED  BY <2>3, <3>1 DEF Lru, TypeObjs
  <2>. QED  BY <2>2, <2>3
<1>7. TypeObjs' /\ TypeVram'
  <2>1. maps' \in [AllObjs -> Nat]
    BY <1>1, <1>2, <1>5 DEF TypeObjs
  <2>2. ptrs' \in [AllObjs -> {"null", "fast", "slow"}]
    BY <1>2 DEF TypeObjs
  <2>. QED  BY <1>1, <1>6, <2>1, <2>2 DEF TypeObjs, TypeVram, vramVars, pmVars
<1>8. Roles'
  <2>1. \A u \in InstThreads : Busy(u)' => thr'[u] = thr[u] /\ Busy(u)
    BY <1>4 DEF Busy, InstIdle
  <2>. QED  BY <1>1, <2>1 DEF Roles, InstThreads, pmVars
<1>9. SlotsOwned'
  BY <1>1, <1>4 DEF SlotsOwned, Owner, Owning, Holding, InstIdle, pmVars
<1>10. HeldMaps'
  <2>1. \A p \in AllObjs : maps'[p] = Cardinality(Holders(p)')
    <3>1. HoldsIn(thr[t], o) /\ \A p : ~HoldsIn(InstIdle, p) /\ (p # o => ~HoldsIn(thr[t], p))
      BY <1>1 DEF HoldsIn, Holding, InstIdle
    <3>. QED  BY <1>1, <1>3, <1>5, <3>1, HoldersChange DEF HeldMaps
  <2>2. \A p \in AllObjs : ptrs'[p] = "null" <=> maps'[p] = 0
    BY <1>2, <1>5 DEF HeldMaps, TypeObjs
  <2>3. \A p \in AllObjs : ptrs'[p] = "fast" => ptrs[p] = "fast"
    BY <1>2 DEF TypeObjs
  <2>4. \A u \in InstThreads : thr'[u].pc \in Holding => thr'[u] = thr[u]
    BY <1>4 DEF Holding, InstIdle
  <2>. QED  BY <1>1, <2>1, <2>2, <2>3, <2>4 DEF HeldMaps, pmVars
<1>11. Lru'
  BY <1>1, <1>5, <1>6 DEF Lru
<1>12. Tables'
  BY <1>1, <1>4 DEF Tables, InstIdle, vramVars, pmVars
<1>13. Progress'
  BY <1>1, <1>3, ProgressStay DEF InstIdle, vramVars, pmVars
<1>. QED  BY <1>4, <1>7, <1>8, <1>9, <1>10, <1>11, <1>12, <1>13

-----------------------------------------------------------------------------
(* Users.                                                                  *)

\* A thread that is idle goes on to r, which holds nothing and no slot.
LEMMA BeginKeeps ==
  ASSUME InstInv, NEW t \in InstThreads, ~Busy(t), NEW r, Moved(t, r),
         r.slot = NoSlot, r.pc \in {"acquire", "get"}, r.pc = "get" => power = "boot",
         UNCHANGED <<objs, maps, bar, ptrs, slots, bar2>>, power' = "boot" <=> power = "boot"
  PROVE  TypeThr' /\ SlotsOwned' /\ HeldMaps'
<1>. USE DEF InstInv
<1>1. TypeThr' /\ thr'[t] = r /\ \A u \in InstThreads : u # t => thr'[u] = thr[u]
  BY MovedFacts
<1>2. SlotsOwned'
  <2>1. /\ ~Owner(t)' /\ ~Owner(t)
        /\ \A u \in InstThreads : u # t => (Owner(u)' <=> Owner(u)) /\ thr'[u] = thr[u]
    BY <1>1 DEF Owner, Owning, Busy
  <2>2. \A u \in InstThreads :
          /\ ~Owner(u)' /\ thr'[u].pc \notin Holding => thr'[u].slot = NoSlot
          /\ thr'[u].pc \in Owning \cup {"get", "evict"} => bar2' \/ power' = "boot"
    BY <1>1, <2>1 DEF SlotsOwned, Owning
  <2>. QED  BY <1>1, <2>1, <2>2 DEF SlotsOwned
<1>3. \A o : Holders(o)' = Holders(o)
  BY HoldersChange DEF HoldsIn, Holding, Busy
<1>4. HeldMaps'
  BY <1>1, <1>3 DEF HeldMaps, Holding
<1>. QED  BY <1>1, <1>2, <1>4

\* A user of an object begins.
LEMMA UseKeeps ==
  ASSUME InstInv, NEW t \in Users, Use(t)
  PROVE  InstInv'
<1>. USE DEF InstInv
<1>1. PICK o \in objs, op \in {"use", "pin"} : Begin(t, op, o, "acquire")
  BY DEF Use
<1>. DEFINE r == [pc |-> "acquire", op |-> op, o |-> o, slot |-> NoSlot]
<1>2. /\ t \in InstThreads /\ t # Pm /\ ~Busy(t) /\ power = "run" /\ Moved(t, r)
      /\ UNCHANGED <<objVars, slots, vramVars, pmVars>>
  BY <1>1, InstAssumption DEF Use, InstAt, Busy, InstThreads, Begin, Moved, InstThread, PCs, TypeObjs
<1>3. TypeThr' /\ thr'[t] = r /\ \A u \in InstThreads : u # t => thr'[u] = thr[u]
  BY <1>2, MovedFacts
<1>4. TypeObjs' /\ TypeVram' /\ Lru'
  BY <1>2 DEF TypeObjs, TypeVram, Lru, objVars, vramVars, pmVars
<1>5. SlotsOwned' /\ HeldMaps'
  BY <1>2, BeginKeeps DEF objVars, pmVars
<1>6. Roles'
  BY <1>2, <1>3 DEF Roles, Busy, InstThreads, objVars, pmVars
<1>7. Tables'
  BY <1>2, <1>3 DEF Tables, objVars, vramVars, pmVars
<1>8. Progress'
  BY <1>2, <1>3 DEF Progress, Current, Busy, InstThreads, objVars, vramVars, pmVars
<1>. QED  BY <1>3, <1>4, <1>5, <1>6, <1>7, <1>8

\* nv50_instobj_new.
LEMMA NewKeeps ==
  ASSUME InstInv, NEW t \in Users, New(t)
  PROVE  InstInv'
<1>. USE DEF InstInv
<1>1. PICK o \in AllObjs \ objs : objs' = objs \cup {o} /\ evictable' = [evictable EXCEPT ![o] = TRUE]
  BY DEF New
<1>2. power = "run" /\ UNCHANGED <<maps, bar, lru, ptrs, boot, slots, vramVars, pmVars, thr>>
  BY DEF New, InstAt
<1>3. bar[o] = NoSlot /\ \A p \in AllObjs : p # o => evictable'[p] = evictable[p]
  BY <1>1 DEF SlotsOwned, TypeObjs
<1>4. TypeThr' /\ TypeObjs' /\ TypeVram'
  BY <1>1, <1>2 DEF TypeThr, TypeObjs, TypeVram, vramVars, pmVars
<1>5. Roles'
  BY <1>1, <1>2 DEF Roles, Busy, pmVars
<1>6. SlotsOwned'
  BY <1>1, <1>2 DEF SlotsOwned, Owner, pmVars
<1>7. HeldMaps'
  BY <1>2 DEF HeldMaps, Holders, pmVars
<1>8. Lru'
  BY <1>2, <1>3 DEF Lru
<1>9. Tables' /\ Progress'
  BY <1>2 DEF Tables, Progress, Current, Busy, vramVars, pmVars
<1>. QED  BY <1>4, <1>5, <1>6, <1>7, <1>8, <1>9

\* nv50_instobj_dtor.
LEMMA DtorKeeps ==
  ASSUME InstInv, NEW t \in Users, Dtor(t)
  PROVE  InstInv'
<1>. USE DEF InstInv
<1>1. PICK o \in objs \ {Pt} :
        /\ \A u \in InstThreads : InstAt(u, "idle") \/ thr[u].o # o
        /\ objs' = objs \ {o} /\ boot' = boot \ {o}
        /\ lru' = IF evictable[o] THEN OffLru(o) ELSE lru
        /\ bar' = [bar EXCEPT ![o] = NoSlot]
        /\ thr' = [thr EXCEPT ![t] = [pc |-> IF bar[o] # NoSlot THEN "free" ELSE "idle",
                                     op |-> "use", o |-> Pt, slot |-> bar[o]]]
  BY DEF Dtor
<1>. DEFINE r == [pc |-> IF bar[o] # NoSlot THEN "free" ELSE "idle",
                  op |-> "use", o |-> Pt, slot |-> bar[o]]
<1>2. /\ t \in InstThreads /\ t # Pm /\ ~Busy(t) /\ power = "run" /\ o \in AllObjs
      /\ UNCHANGED <<maps, evictable, ptrs, slots, vramVars, pmVars>>
  BY InstAssumption DEF Dtor, InstAt, Busy, InstThreads, TypeObjs
<1>3. Moved(t, r)
  <2>1. r \in InstThread
    BY <1>2 DEF InstThread, PCs, TypeObjs, AllObjs
  <2>. QED  BY <1>1, <2>1 DEF Moved
<1>4. TypeThr' /\ thr'[t] = r /\ \A u \in InstThreads : u # t => thr'[u] = thr[u]
  BY <1>2, <1>3, MovedFacts
<1>5. /\ r.slot = bar[o] /\ r.op = "use" /\ r.o = Pt
      /\ r.pc = IF bar[o] # NoSlot THEN "free" ELSE "idle"
  OBVIOUS
<1>. HIDE DEF r
<1>6. /\ todo = {} /\ lost = {} /\ saved = {} /\ bar2 /\ Pt \in boot /\ ~Busy(Pm)
      /\ NoSlot \notin Slots
      /\ \A p \in AllObjs : bar'[p] = IF p = o THEN NoSlot ELSE bar[p]
  BY <1>1, <1>2, InstAssumption DEF Roles, Progress, TypeObjs
<1>7. maps[o] = 0
  <2>1. Holders(o) = {}
    BY <1>1 DEF Holders, InstAt, Holding
  <2>. QED  BY <1>2, <2>1, HoldersFinite DEF HeldMaps
<1>8. /\ lru' \in Seq(AllObjs) /\ Once(lru')
      /\ \A p \in AllObjs : InList(lru', p) <=> InList(lru, p) /\ p # o
  BY <1>1, <1>2, OffLruList DEF Lru, TypeObjs
<1>9. TypeObjs' /\ TypeVram'
  <2>1. TypeObjs'
    BY <1>1, <1>2, <1>8 DEF TypeObjs
  <2>2. TypeVram'
    BY <1>2, <1>6 DEF TypeVram, vramVars, pmVars
  <2>. QED  BY <2>1, <2>2
<1>10. Roles'
  <2>1. \A u \in InstThreads : Busy(u)' => thr'[u].o \in objs'
    BY <1>1, <1>2, <1>4, <1>5, <1>6 DEF Roles, Busy, InstAt, TypeObjs
  <2>2. \A u \in Users : Busy(u)' => thr'[u].op \in {"use", "pin"}
    BY <1>4, <1>5 DEF Roles, Busy, InstThreads
  <2>3. ~Busy(Pm)'
    BY <1>2, <1>4, <1>6 DEF Busy, InstThreads
  <2>. QED  BY <1>1, <1>2, <1>6, <2>1, <2>2, <2>3 DEF Roles, pmVars
<1>11. SlotsOwned'
  <2>1. /\ ~Owner(t) /\ (Owner(t)' <=> bar[o] # NoSlot)
        /\ \A u \in InstThreads : u # t => (Owner(u)' <=> Owner(u)) /\ thr'[u] = thr[u]
    BY <1>2, <1>4, <1>5 DEF Owner, Owning, Busy
  <2>2. bar[o] # NoSlot => bar[o] \in Slots \ slots
    BY <1>2 DEF SlotsOwned, TypeObjs
  <2>3. \A u \in InstThreads :
          /\ Owner(u)' => thr'[u].slot \in Slots \ slots
          /\ ~Owner(u)' /\ thr'[u].pc \notin Holding => thr'[u].slot = NoSlot
          /\ bar2'
    BY <1>2, <1>4, <1>5, <1>6, <2>1, <2>2 DEF SlotsOwned, pmVars
  <2>4. \A u, v \in InstThreads : Owner(u)' /\ Owner(v)' /\ thr'[u].slot = thr'[v].slot => u = v
    BY <1>2, <1>4, <1>5, <2>1, <2>2 DEF SlotsOwned
  <2>5. \A p \in AllObjs, u \in InstThreads : Owner(u)' => bar'[p] # thr'[u].slot
    BY <1>2, <1>4, <1>5, <1>6, <2>1, <2>2, <2>3 DEF SlotsOwned
  <2>6. \A x \in Slots \ slots : \/ \E p \in AllObjs : bar'[p] = x
                                 \/ \E u \in InstThreads : Owner(u)' /\ thr'[u].slot = x
    BY <1>2, <1>4, <1>5, <1>6, <2>1 DEF SlotsOwned
  <2>7. \A p \in AllObjs \ objs' : bar'[p] = NoSlot
    BY <1>1, <1>6 DEF SlotsOwned
  <2>. QED  BY <1>2, <1>6, <2>3, <2>4, <2>5, <2>6, <2>7 DEF SlotsOwned
<1>12. HeldMaps'
  <2>1. \A p : Holders(p)' = Holders(p)
    BY <1>2, <1>3, <1>5, HoldersChange DEF HoldsIn, Holding, Busy
  <2>2. \A u \in InstThreads : thr'[u].pc \in Holding => thr'[u] = thr[u] /\ thr[u].o \in AllObjs \ {o}
    BY <1>1, <1>4, <1>5 DEF Holding, InstAt, TypeThr, InstThread
  <2>. QED  BY <1>2, <1>6, <1>7, <2>1, <2>2 DEF HeldMaps, pmVars
<1>13. Lru'
  BY <1>2, <1>6, <1>8 DEF Lru
<1>14. Tables'
  <2>1. \A u \in InstThreads : thr'[u].pc = "end" => thr'[u] = thr[u]
    BY <1>4, <1>5
  <2>. QED  BY <1>2, <1>6, <2>1 DEF Tables, vramVars, pmVars
<1>15. Progress'
  BY <1>2, <1>6 DEF Progress, vramVars, pmVars
<1>. QED  BY <1>4, <1>9, <1>10, <1>11, <1>12, <1>13, <1>14, <1>15

-----------------------------------------------------------------------------
(* Init, suspend and resume.                                               *)

\* nv50_instobj_boot.
LEMMA BootKeeps ==
  ASSUME InstInv, Boot
  PROVE  InstInv'
<1>. USE DEF InstInv
<1>. DEFINE r == [pc |-> "get", op |-> "boot", o |-> Pt, slot |-> NoSlot]
<1>1. /\ power = "boot" /\ ~Busy(Pm) /\ Moved(Pm, r) /\ Pm \in InstThreads /\ Pm \notin Users
      /\ evictable' = [evictable EXCEPT ![Pt] = FALSE]
      /\ UNCHANGED <<objs, maps, bar, lru, ptrs, boot, slots, vramVars, pmVars>>
  BY InstAssumption DEF Boot, InstAt, Busy, InstThreads, Begin, Moved, InstThread, PCs, AllObjs
<1>2. TypeThr' /\ thr'[Pm] = r /\ \A u \in InstThreads : u # Pm => thr'[u] = thr[u]
  BY <1>1, MovedFacts
<1>3. TypeObjs' /\ TypeVram'
  BY <1>1 DEF TypeObjs, TypeVram, vramVars, pmVars
<1>4. SlotsOwned' /\ HeldMaps'
  BY <1>1, BeginKeeps DEF pmVars
<1>5. Roles'
  <2>1. ~evictable'[Pt]
    BY <1>1 DEF TypeObjs, AllObjs
  <2>2. thr'[Pm].pc = "get" /\ thr'[Pm].op = "boot" /\ thr'[Pm].o = Pt
    BY <1>2
  <2>3. \A u \in Users : ~Busy(u)'
    BY <1>1, <1>2 DEF Roles, Busy, InstThreads
  <2>4. Pt \in objs' /\ \A u \in InstThreads : Busy(u)' => thr'[u].o \in objs'
    BY <1>1, <2>2, <2>3 DEF TypeObjs, InstThreads
  <2>. QED  BY <1>1, <2>1, <2>2, <2>3, <2>4 DEF Roles, InstThreads, pmVars
<1>6. Lru'
  BY <1>1 DEF Lru, Roles
<1>7. Tables'
  BY <1>1, <1>2 DEF Tables, vramVars, pmVars
<1>8. Progress'
  BY <1>1 DEF Progress, Current, Roles, vramVars, pmVars
<1>. QED  BY <1>2, <1>3, <1>4, <1>5, <1>6, <1>7, <1>8

\* nvkm_instmem_fini starts, for suspend.
LEMMA SuspendKeeps ==
  ASSUME InstInv, Suspend
  PROVE  InstInv'
<1>. USE DEF InstInv
<1>1. /\ power = "run" /\ power' = "savelist" /\ todo' = objs \ boot
      /\ \A t \in InstThreads : ~Busy(t)
      /\ UNCHANGED <<objVars, slots, vramVars, bar2, thr>>
  BY DEF Suspend, InstAt, Busy
<1>2. TypeThr' /\ TypeObjs' /\ TypeVram'
  BY <1>1 DEF TypeThr, TypeObjs, TypeVram, objVars, vramVars
<1>3. Roles'
  BY <1>1, InstAssumption DEF Roles, Busy, InstThreads, objVars
<1>4. SlotsOwned' /\ Lru'
  BY <1>1 DEF SlotsOwned, Lru, Owner, objVars
<1>5. HeldMaps'
  BY <1>1 DEF HeldMaps, Holders, objVars
<1>6. Tables'
  BY <1>1 DEF Tables, objVars, vramVars
<1>7. Current' = {}
  BY <1>1, InstAssumption DEF Current, Busy, InstThreads
<1>8. Progress'
  BY <1>1, <1>7 DEF Progress, objVars, vramVars
<1>. QED  BY <1>2, <1>3, <1>4, <1>5, <1>6, <1>8

\* The next object of the list, or the suspend is given up.
LEMMA PmNextKeeps ==
  ASSUME InstInv, PmNext
  PROVE  InstInv'
<1>. USE DEF InstInv
<1>1. /\ power \notin {"boot", "run"} /\ ~Busy(Pm) /\ Pm \in InstThreads /\ Pm \notin Users
      /\ UNCHANGED <<objVars, slots, vramVars>> /\ Current = {}
      /\ \A u \in Users : ~Busy(u)
  BY InstAssumption DEF PmNext, InstAt, Busy, InstThreads, Current, Roles
<1>2. CASE \E o \in todo : /\ todo' = todo \ {o}
                            /\ Begin(Pm, IF power \in {"savelist", "saveboot"} THEN "save" ELSE "load",
                                     o, "acquire")
                            /\ UNCHANGED <<power, bar2>>
  <2>1. PICK o \in todo : /\ todo' = todo \ {o}
                          /\ Begin(Pm, IF power \in {"savelist", "saveboot"} THEN "save" ELSE "load",
                                   o, "acquire")
                          /\ UNCHANGED <<power, bar2>>
    BY <1>2
  <2>. DEFINE op == IF power \in {"savelist", "saveboot"} THEN "save" ELSE "load"
              r == [pc |-> "acquire", op |-> op, o |-> o, slot |-> NoSlot]
  <2>2. /\ o \in objs /\ o \in AllObjs /\ power # "off"
        /\ power \in {"savelist", "saveboot", "loadboot", "loadlist"}
    BY <1>1, <2>1 DEF TypeVram, TypeObjs, Roles
  <2>3. Moved(Pm, r)
    BY <2>1, <2>2 DEF Begin, Moved, InstThread, PCs
  <2>4. TypeThr' /\ thr'[Pm] = r /\ \A u \in InstThreads : u # Pm => thr'[u] = thr[u]
    BY <1>1, <2>3, MovedFacts
  <2>5. TypeObjs' /\ TypeVram' /\ Lru'
    BY <1>1, <2>1 DEF TypeObjs, TypeVram, Lru, objVars, vramVars
  <2>6. SlotsOwned' /\ HeldMaps'
    BY <1>1, <2>1, <2>3, BeginKeeps DEF objVars
  <2>7. Roles'
    <3>1. \A u \in Users : ~Busy(u)'
      BY <1>1, <2>4 DEF Busy, InstThreads
    <3>. QED  BY <1>1, <2>1, <2>2, <2>4, <3>1 DEF Roles, Busy, InstThreads, objVars
  <2>8. Tables'
    BY <1>1, <2>1, <2>4 DEF Tables, objVars, vramVars
  <2>9. Progress'
    <3>1. Current' = {o} /\ todo' = todo \ {o} /\ UNCHANGED <<power, bar2, objs, boot, lost, saved>>
      BY <1>1, <2>1, <2>4 DEF Current, objVars, vramVars
    <3>2. power = "loadboot" => ~bar2
      BY <2>1 DEF Progress
    <3>. QED  BY <1>1, <2>1, <3>1, <3>2 DEF Progress
  <2>. QED  BY <2>4, <2>5, <2>6, <2>7, <2>8, <2>9
<1>3. CASE power \in {"savelist", "saveboot"} /\ Resume /\ UNCHANGED thr
  <2>1. power' = "loadboot" /\ bar2' = bar2 /\ todo' = saved \cap boot
    BY <1>3 DEF Resume
  <2>2. TypeThr' /\ TypeObjs' /\ TypeVram' /\ Lru'
    BY <1>1, <1>3, <2>1 DEF TypeThr, TypeObjs, TypeVram, Lru, objVars, vramVars
  <2>3. \A u \in InstThreads : ~Busy(u) /\ ~Busy(u)'
    BY <1>1, <1>3 DEF Busy, InstThreads
  <2>4. Roles'
    BY <1>1, <1>3, <2>1, <2>3 DEF Roles, InstThreads, objVars
  <2>5. SlotsOwned'
    BY <1>1, <1>3, <2>1, <2>3 DEF SlotsOwned, Owner, Owning, Busy, objVars
  <2>6. HeldMaps'
    BY <1>1, <1>3, <2>1 DEF HeldMaps, Holders, objVars
  <2>7. Tables'
    BY <1>1, <1>3, <2>1 DEF Tables, objVars, vramVars
  <2>8. Progress'
    BY <1>1, <1>3, <2>1, <2>3 DEF Progress, Current, Roles, objVars, vramVars
  <2>. QED  BY <2>2, <2>4, <2>5, <2>6, <2>7, <2>8
<1>. QED  BY <1>2, <1>3 DEF PmNext

\* A list is done.
LEMMA PmTurnKeeps ==
  ASSUME InstInv, PmTurn
  PROVE  InstInv'
<1>. USE DEF InstInv
<1>1. /\ todo = {} /\ ~Busy(Pm) /\ Pm \in InstThreads /\ Pm \notin Users /\ Current = {}
      /\ UNCHANGED <<objVars, slots, thr>> /\ Current' = {}
      /\ power \in {"savelist", "saveboot", "off", "loadboot", "loadlist"}
  BY InstAssumption DEF PmTurn, InstAt, Busy, InstThreads, Current
<1>2. \A u \in InstThreads : ~Busy(u) /\ ~Busy(u)'
  BY <1>1 DEF Roles, Busy, InstThreads
<1>3. /\ TypeThr' /\ TypeObjs' /\ Lru'
      /\ \A o \in AllObjs : maps[o] = 0 /\ ptrs[o] = "null"
  <2>1. \A o : Holders(o) = {}
    BY <1>2 DEF Holders, Holding, Busy
  <2>. QED  BY <1>1, <2>1, HoldersFinite DEF TypeThr, TypeObjs, Lru, HeldMaps, objVars
<1>4. HeldMaps' /\ SlotsOwned'
  <2>1. HeldMaps'
    BY <1>1, <1>2, <1>3 DEF HeldMaps, Holders, Holding, Busy, objVars
  <2>2. SlotsOwned'
    BY <1>1, <1>2 DEF SlotsOwned, Owner, Owning, Busy, objVars
  <2>. QED  BY <2>1, <2>2
<1>5. SUFFICES TypeVram' /\ Roles' /\ Tables' /\ Progress'
  BY <1>3, <1>4
<1>6. CASE /\ power = "savelist"
           /\ bar2' = FALSE /\ power' = "saveboot" /\ todo' = boot
           /\ UNCHANGED <<vramVars>>
  <2>1. TypeVram' /\ Roles'
    BY <1>1, <1>2, <1>6 DEF TypeObjs, TypeVram, Roles, InstThreads, objVars, vramVars
  <2>2. Tables'
    BY <1>1, <1>2, <1>6 DEF Tables, Progress, Roles, Busy, objVars, vramVars
  <2>3. Progress'
    BY <1>1, <1>2, <1>6 DEF Progress, objVars, vramVars
  <2>. QED  BY <2>1, <2>2, <2>3
<1>7. CASE /\ power = "saveboot" /\ Fini
           /\ power' = "off" /\ UNCHANGED <<bar2, todo, pte, win, lost, saved, savedPte>>
  <2>1. TypeVram' /\ Roles'
    BY <1>1, <1>2, <1>7 DEF TypeVram, Roles, InstThreads, Fini, objVars
  <2>2. Tables'
    BY <1>1, <1>2, <1>7 DEF Tables, Fini, Busy, objVars
  <2>3. Progress'
    BY <1>1, <1>2, <1>7 DEF Progress, objVars
  <2>. QED  BY <2>1, <2>2, <2>3
<1>8. CASE power = "off" /\ Resume /\ UNCHANGED vramVars
  <2>1. TypeVram' /\ Roles'
    BY <1>1, <1>2, <1>8 DEF TypeVram, Roles, InstThreads, Resume, objVars, vramVars
  <2>2. Tables'
    BY <1>1, <1>2, <1>8 DEF Tables, Resume, Busy, objVars, vramVars
  <2>3. Progress'
    BY <1>1, <1>2, <1>8 DEF Progress, Resume, Roles, objVars, vramVars
  <2>. QED  BY <2>1, <2>2, <2>3
<1>9. CASE /\ power = "off" /\ Resume /\ pte' = NoPte /\ win' = NoSlot /\ lost' = objs
           /\ UNCHANGED <<addr, saved, savedPte>>
  <2>1. TypeVram' /\ Roles'
    <3>1. pte' \in [Slots -> AllObjs \cup {NoSlot}]
      BY <1>9 DEF NoPte
    <3>. QED  BY <1>1, <1>2, <1>9, <3>1 DEF TypeVram, Roles, InstThreads, Resume, objVars
  <2>2. Tables'
    BY <1>1, <1>2, <1>9 DEF Tables, Resume, Busy, TypeObjs, Roles, objVars
  <2>3. Progress'
    BY <1>1, <1>2, <1>9 DEF Progress, Resume, Roles, TypeObjs, objVars
  <2>. QED  BY <2>1, <2>2, <2>3
<1>10. CASE /\ power = "loadboot"
            /\ bar2' = TRUE /\ power' = "loadlist" /\ todo' = saved \ boot
            /\ UNCHANGED vramVars
  <2>1. Pt \notin saved /\ Pt \notin lost
    BY <1>1, <1>10 DEF Progress, Roles
  <2>2. TypeVram' /\ Roles'
    BY <1>1, <1>2, <1>10 DEF TypeVram, Roles, InstThreads, objVars, vramVars
  <2>3. Tables'
    BY <1>1, <1>2, <1>10, <2>1 DEF Tables, Busy, objVars, vramVars
  <2>4. Progress'
    BY <1>1, <1>2, <1>10, <2>1 DEF Progress, objVars, vramVars
  <2>. QED  BY <2>2, <2>3, <2>4
<1>11. CASE power = "loadlist" /\ power' = "run" /\ UNCHANGED <<vramVars, bar2, todo>>
  <2>1. TypeVram' /\ Roles'
    BY <1>1, <1>2, <1>11 DEF TypeVram, Roles, InstThreads, objVars, vramVars
  <2>2. Tables'
    BY <1>1, <1>2, <1>11 DEF Tables, Busy, objVars, vramVars
  <2>3. Progress'
    BY <1>1, <1>2, <1>11 DEF Progress, objVars, vramVars
  <2>. QED  BY <2>1, <2>2, <2>3
<1>. QED  BY <1>6, <1>7, <1>8, <1>9, <1>10, <1>11 DEF PmTurn

-----------------------------------------------------------------------------
(* Instance memory: the theorems.                                          *)

\* Nothing is mapped at first.
LEMMA InitInv == InstInit => InstInv
<1>. SUFFICES ASSUME InstInit
              PROVE  InstInv
  OBVIOUS
<1>. USE InstAssumption DEF InstInit
<1>1. TypeObjs
  BY DEF TypeObjs, AllObjs
<1>2. TypeVram /\ TypeThr
  BY DEF TypeVram, TypeThr, NoPte, InstIdle, InstThread, PCs, AllObjs
<1>3. \A t \in InstThreads : thr[t] = InstIdle /\ ~Busy(t) /\ ~Owner(t)
  BY DEF Busy, InstIdle, Owner, Owning
<1>4. Roles
  BY <1>3 DEF Roles, InstThreads
<1>5. SlotsOwned
  BY <1>3 DEF SlotsOwned, Owning, InstIdle
<1>6. HeldMaps
  <2>1. \A o : Holders(o) = {}
    BY <1>3 DEF Holders, Holding, InstIdle
  <2>. QED  BY <1>3, <2>1, HoldersFinite DEF HeldMaps, Holding, InstIdle
<1>7. Lru
  BY DEF Lru, Once, InList
<1>8. Tables
  BY <1>3 DEF Tables, InstIdle
<1>9. Progress
  BY <1>3 DEF Progress, Current, InstIdle, InstThreads
<1>. QED  BY <1>1, <1>2, <1>4, <1>5, <1>6, <1>7, <1>8, <1>9 DEF InstInv

\* Every step keeps the invariant.
LEMMA NextInv == InstInv /\ [InstNext]_instVars => InstInv'
<1>. SUFFICES ASSUME InstInv, [InstNext]_instVars
              PROVE  InstInv'
  OBVIOUS
<1>1. ASSUME NEW t \in InstThreads, InstStep(t)
      PROVE  InstInv'
  BY <1>1, AcquireKeeps, GetSlotKeeps, EvictKeeps, PutSlotKeeps, MapSlotKeeps, KmapKeeps, AccessKeeps,
     ReleaseKeeps DEF InstStep
<1>2. ASSUME NEW t \in Users, Use(t) \/ New(t) \/ Dtor(t)
      PROVE  InstInv'
  BY <1>2, UseKeeps, NewKeeps, DtorKeeps
<1>3. CASE UNCHANGED instVars
  <2>. USE <1>3 DEF instVars, objVars, vramVars, pmVars
  <2>1. TypeObjs' /\ TypeVram' /\ TypeThr'
    BY DEF InstInv, TypeObjs, TypeVram, TypeThr
  <2>2. Roles' /\ SlotsOwned'
    BY DEF InstInv, Roles, SlotsOwned, Busy, Owner
  <2>3. HeldMaps' /\ Lru'
    BY DEF InstInv, HeldMaps, Holders, Lru
  <2>4. Tables' /\ Progress'
    BY DEF InstInv, Tables, Progress, Current, Busy
  <2>. QED  BY <2>1, <2>2, <2>3, <2>4 DEF InstInv
<1>. QED  BY <1>1, <1>2, <1>3, BootKeeps, SuspendKeeps, PmNextKeeps, PmTurnKeeps DEF InstNext

\* The types, what the threads are at, and who has which slot, object and place on
\* the LRU, in every state of instance memory.
THEOREM InstCorrect == InstSpec => []InstInv
BY InitInv, NextInv, PTL DEF InstSpec

\* Whoever holds an object reaches that object, whatever other threads, suspend and
\* resume do to BAR2, its page table and the window meanwhile.
THEOREM Hits == InstSpec => []AccessHits
<1>1. InstInv => AccessHits
  BY InvHits DEF AccessHits
<1>. QED  BY <1>1, InstCorrect, PTL

\* After resume, and after a suspend that was given up, nothing is lost.
THEOREM Restored == InstSpec => []ContentsRestored
<1>1. InstInv => ContentsRestored
  BY DEF InstInv, Progress, ContentsRestored
<1>. QED  BY <1>1, InstCorrect, PTL

\* A slot of BAR2 is free, or it belongs to one object, or to one thread under way,
\* and the LRU holds, once, each object whose mapping can be evicted.
THEOREM SlotsSafe == InstSpec => []SlotsAccounted
<1>1. ASSUME InstInv, NEW s \in Slots
      PROVE  Cardinality({o \in AllObjs : bar[o] = s})
               + Cardinality({t \in InstThreads : thr[t].slot = s /\ thr[t].pc \notin {"held", "release"}})
               + (IF s \in slots THEN 1 ELSE 0) = 1
  <2>. DEFINE os == {o \in AllObjs : bar[o] = s}
              ts == {t \in InstThreads : thr[t].slot = s /\ thr[t].pc \notin {"held", "release"}}
              HowMany == Cardinality(os) + Cardinality(ts) + (IF s \in slots THEN 1 ELSE 0)
  <2>1. \A t \in InstThreads :
          thr[t].slot = s /\ thr[t].pc \notin {"held", "release"} <=> Owner(t) /\ thr[t].slot = s
    BY <1>1, InstAssumption DEF InstInv, SlotsOwned, Holding, Owner, Owning
  <2>2. ASSUME s \in slots
        PROVE  HowMany = 1
    <3>1. \A o \in AllObjs : bar[o] # s
      BY <1>1, <2>2 DEF InstInv, SlotsOwned
    <3>2. \A t \in InstThreads : Owner(t) => thr[t].slot # s
      BY <1>1, <2>2 DEF InstInv, SlotsOwned
    <3>3. os = {} /\ ts = {}
      BY <2>1, <3>1, <3>2
    <3>4. Cardinality(os) = 0 /\ Cardinality(ts) = 0
      BY <3>3, FS_EmptySet
    <3>. HIDE DEF os, ts
    <3>. QED  BY <2>2, <3>4
  <2>3. ASSUME NEW o \in AllObjs, bar[o] = s
        PROVE  HowMany = 1
    <3>1. s \notin slots /\ \A p \in AllObjs : bar[p] = s => p = o
      BY <1>1, <2>3 DEF InstInv, SlotsOwned
    <3>2. \A t \in InstThreads : Owner(t) => thr[t].slot # s
      BY <1>1, <2>3 DEF InstInv, SlotsOwned
    <3>3. os = {o} /\ ts = {}
      BY <2>1, <2>3, <3>1, <3>2
    <3>4. Cardinality(os) = 1 /\ Cardinality(ts) = 0
      BY <3>3, FS_EmptySet, FS_Singleton
    <3>. HIDE DEF os, ts
    <3>. QED  BY <3>1, <3>4
  <2>4. ASSUME NEW t \in InstThreads, Owner(t), thr[t].slot = s
        PROVE  HowMany = 1
    <3>1. s \notin slots /\ \A o \in AllObjs : bar[o] # s
      BY <1>1, <2>4 DEF InstInv, SlotsOwned
    <3>2. \A u \in InstThreads : Owner(u) /\ thr[u].slot = s => u = t
      BY <1>1, <2>4 DEF InstInv, SlotsOwned
    <3>3. os = {} /\ ts = {t}
      BY <2>1, <2>4, <3>1, <3>2
    <3>4. Cardinality(os) = 0 /\ Cardinality(ts) = 1
      BY <3>3, FS_EmptySet, FS_Singleton
    <3>. HIDE DEF os, ts
    <3>. QED  BY <3>1, <3>4
  <2>5. \/ s \in slots
        \/ \E o \in AllObjs : bar[o] = s
        \/ \E t \in InstThreads : Owner(t) /\ thr[t].slot = s
    BY <1>1 DEF InstInv, SlotsOwned
  <2>. HIDE DEF HowMany
  <2>6. HowMany = 1
    BY <2>2, <2>3, <2>4, <2>5
  <2>. QED  BY <2>6 DEF HowMany
<1>2. ASSUME InstInv, NEW o \in AllObjs
      PROVE  Cardinality({i \in DOMAIN lru : lru[i] = o})
               = IF bar[o] # NoSlot /\ maps[o] = 0 /\ evictable[o] THEN 1 ELSE 0
  <2>. DEFINE is == {i \in DOMAIN lru : lru[i] = o}
  <2>1. CASE InList(lru, o)
    <3>1. PICK i \in DOMAIN lru : lru[i] = o
      BY <2>1 DEF InList
    <3>2. is = {i}
      BY <1>2, <3>1 DEF InstInv, Lru, Once
    <3>. QED  BY <1>2, <2>1, <3>2, FS_Singleton DEF InstInv, Lru
  <2>2. CASE ~InList(lru, o)
    <3>1. is = {}
      BY <2>2 DEF InList
    <3>. QED  BY <1>2, <2>2, <3>1, FS_EmptySet DEF InstInv, Lru
  <2>. QED  BY <2>1, <2>2
<1>3. ASSUME InstInv
      PROVE  \A o \in objs : bar[o] # NoSlot /\ bar2 => pte[bar[o]] = o
  BY <1>3 DEF InstInv, Tables, TypeObjs
<1>4. InstInv => SlotsAccounted
  BY <1>1, <1>2, <1>3 DEF SlotsAccounted
<1>. QED  BY <1>4, InstCorrect, PTL

\* The address that nv50_instobj_bar2 returned stays that of the object.
THEOREM Pinned == InstSpec => PinnedStays
<1>1. ASSUME InstInv, [InstNext]_instVars, NEW o \in AllObjs, ~evictable[o], bar[o] # NoSlot, o \in objs'
      PROVE  bar'[o] = bar[o]
  <2>. USE <1>1
  <2>2. ASSUME NEW t \in InstThreads, Acquire(t)
        PROVE  bar' = bar
    BY <2>2 DEF Acquire, Finish, objVars
  <2>3. ASSUME NEW t \in InstThreads, KmapEnd(t) \/ KmapFinish(t)
        PROVE  bar'[o] = bar[o]
    <3>1. \/ bar' = bar
          \/ bar[thr[t].o] = NoSlot /\ bar' = [bar EXCEPT ![thr[t].o] = thr[t].slot]
      BY <2>3 DEF KmapEnd, KmapFinish, Finish, objVars
    <3>. QED  BY <3>1 DEF InstInv, TypeObjs
  <2>4. ASSUME NEW t \in InstThreads, Evict(t)
        PROVE  bar'[o] = bar[o]
    <3>1. CASE lru = <<>>
      BY <2>4, <3>1 DEF Evict
    <3>2. CASE lru # <<>>
      <4>1. Head(lru) \in AllObjs /\ evictable[Head(lru)]
        BY <3>2, TailList DEF InstInv, Lru, TypeObjs
      <4>. QED  BY <2>4, <3>2, <4>1 DEF Evict, InstInv, TypeObjs
    <3>. QED  BY <3>1, <3>2
  <2>5. ASSUME NEW t \in InstThreads, GetSlot(t) \/ PutSlot(t) \/ MapSlot(t) \/ Access(t) \/ Release(t)
        PROVE  bar' = bar
    BY <2>5 DEF GetSlot, PutSlot, MapSlot, Access, Release, objVars
  <2>6. ASSUME NEW t \in Users, Use(t) \/ New(t) \/ Dtor(t)
        PROVE  bar'[o] = bar[o]
    BY <2>6 DEF Use, New, Dtor, InstInv, TypeObjs, objVars
  <2>7. CASE Boot \/ Suspend \/ PmNext \/ PmTurn \/ UNCHANGED instVars
    BY <2>7 DEF Boot, Suspend, PmNext, PmTurn, instVars, objVars
  <2>. QED  BY <2>2, <2>3, <2>4, <2>5, <2>6, <2>7 DEF InstNext, InstStep
<1>2. InstInv /\ [InstNext]_instVars =>
        [\A o \in AllObjs : ~evictable[o] /\ bar[o] # NoSlot /\ o \in objs' => bar'[o] = bar[o]]_instVars
  BY <1>1
<1>. QED  BY <1>2, InstCorrect, PTL DEF InstSpec, PinnedStays

=============================================================================
