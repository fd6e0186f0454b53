--------------------------- MODULE NvkmVmmProofs ---------------------------
(***************************************************************************)
(* Proofs about NvkmVmm: for any sizes of pages and of address spaces, any *)
(* kinds of allocations and any calls, the nodes cover the space, are      *)
(* split and merged back as they should, and what the page tables hold and *)
(* how often they are referenced is what the nodes say.                    *)
(***************************************************************************)
EXTENDS NvkmVmm, SequenceTheorems, WellFoundedInduction, NaturalsInduction, TLAPS

-----------------------------------------------------------------------------
(* Arithmetic.                                                             *)

LEMMA Division ==
  ASSUME NEW x \in Nat, NEW b \in Nat \ {0}
  PROVE  /\ x \div b \in Nat /\ x % b \in 0 .. b - 1
         /\ x = b * (x \div b) + (x % b)
  BY SMTT(30)

LEMMA Quotient ==
  ASSUME NEW x \in Nat, NEW b \in Nat \ {0}, NEW q \in Nat
  PROVE  /\ x < b * q => x \div b < q
         /\ b * q <= x => q <= x \div b
<1>. DEFINE d == x \div b
            m == x % b
<1>1. d \in Nat /\ m \in 0 .. b - 1 /\ x = b * d + m
  BY Division
<1>. HIDE DEF d, m
<1>2. ASSUME x < b * q, q <= d PROVE FALSE
  <2>1. b * q <= b * d
    BY <1>1, <1>2, SMTT(30)
  <2>2. b * q \in Nat /\ b * d \in Nat
    BY <1>1, SMTT(30)
  <2>. QED  BY <1>1, <1>2, <2>1, <2>2
<1>3. ASSUME b * q <= x, d < q PROVE FALSE
  <2>1. d + 1 <= q
    BY <1>1, <1>3
  <2>2. b * (d + 1) <= b * q
    BY <1>1, <2>1, SMTT(30)
  <2>3. b * (d + 1) = b * d + b
    BY <1>1, SMTT(30)
  <2>4. b * q \in Nat /\ b * d \in Nat
    BY <1>1, SMTT(30)
  <2>. QED  BY <1>1, <1>3, <2>2, <2>3, <2>4
<1>4. d < q \/ q <= d
  BY <1>1
<1>. QED  BY <1>2, <1>3, <1>4 DEF d

\* Multiples.
LEMMA Multiple ==
  ASSUME NEW q \in Nat, NEW b \in Nat \ {0}
  PROVE  (q * b) % b = 0 /\ (q * b) \div b = q /\ q * b = b * q /\ q * b \in Nat
<1>1. q * b = b * q /\ q * b \in Nat
  BY SMTT(30)
<1>. DEFINE x == q * b
            d == x \div b
            m == x % b
<1>2. x \in Nat /\ x = b * q
  BY <1>1
<1>3. d \in Nat /\ m \in 0 .. b - 1 /\ x = b * d + m
  BY <1>2, Division
<1>4. q <= d
  BY <1>2, Quotient
<1>5. d <= q
  <2>1. b * (q + 1) = b * q + b
    BY SMTT(30)
  <2>2. x < b * (q + 1)
    BY <1>2, <2>1
  <2>3. d < q + 1
    BY <1>2, <2>2, Quotient
  <2>. HIDE DEF x, d
  <2>. QED  BY <1>3, <2>3
<1>. HIDE DEF x, d, m
<1>6. d = q /\ m = 0
  BY <1>2, <1>3, <1>4, <1>5
<1>. QED  BY <1>1, <1>6 DEF x, d, m

LEMMA MultipleIs ==
  ASSUME NEW x \in Nat, NEW b \in Nat \ {0}, x % b = 0
  PROVE  x \div b \in Nat /\ x = (x \div b) * b
<1>. DEFINE d == x \div b
<1>1. d \in Nat /\ x = b * d + 0
  BY Division
<1>. HIDE DEF d
<1>2. d * b = b * d /\ b * d \in Nat
  BY <1>1, SMTT(30)
<1>3. x = d * b
  BY <1>1, <1>2
<1>. QED  BY <1>1, <1>3 DEF d

LEMMA UpIs ==
  ASSUME NEW x \in Nat, NEW b \in Nat \ {0}
  PROVE  Up(x, b) \in Nat /\ x <= Up(x, b) /\ Up(x, b) % b = 0
<1>. DEFINE y == x + b - 1
            d == y \div b
            m == y % b
<1>1. y \in Nat
  OBVIOUS
<1>. HIDE DEF y
<1>2. d \in Nat /\ m \in 0 .. b - 1 /\ y = b * d + m
  BY <1>1, Division
<1>. HIDE DEF d, m
<1>3. (d * b) % b = 0 /\ d * b = b * d /\ d * b \in Nat
  BY <1>2, Multiple
<1>4. x <= d * b
  BY <1>2, <1>3 DEF y
<1>5. Up(x, b) = d * b
  BY DEF Up, d, y
<1>. QED  BY <1>3, <1>4, <1>5

LEMMA DownIs ==
  ASSUME NEW x \in Nat, NEW b \in Nat \ {0}
  PROVE  /\ Down(x, b) \in Nat /\ Down(x, b) <= x /\ Down(x, b) % b = 0
         /\ \A y \in Nat : y % b = 0 /\ y <= x => y <= Down(x, b)
<1>. DEFINE d == x \div b
            m == x % b
<1>1. d \in Nat /\ m \in 0 .. b - 1 /\ x = b * d + m
  BY Division
<1>. HIDE DEF d, m
<1>2. (d * b) % b = 0 /\ d * b = b * d /\ d * b \in Nat
  BY <1>1, Multiple
<1>3. d * b <= x
  BY <1>1, <1>2
<1>4. ASSUME NEW y \in Nat, y % b = 0, y <= x PROVE y <= d * b
  <2>1. PICK q \in Nat : y = q * b
    BY <1>4, MultipleIs
  <2>2. q * b = b * q
    BY Multiple
  <2>3. q <= d
    BY <1>4, <2>1, <2>2, Quotient DEF d
  <2>4. q * b <= d * b
    BY <1>1, <2>3, SMTT(30)
  <2>. QED  BY <2>1, <2>4
<1>5. Down(x, b) = d * b
  BY DEF Down, d
<1>. QED  BY <1>2, <1>3, <1>4, <1>5

\* Blocks follow each other.
LEMMA Blocks ==
  ASSUME NEW b \in Nat \ {0}, NEW x \in Nat, NEW y \in Nat
  PROVE  /\ x <= y => x \div b <= y \div b
         /\ x < y /\ y % b = 0 => x \div b < y \div b
         /\ x \div b \in Nat
<1>1. x \div b \in Nat /\ y \div b \in Nat
  BY Division
<1>2. ASSUME x <= y PROVE x \div b <= y \div b
  <2>. DEFINE d == x \div b
  <2>1. d \in Nat /\ x = b * d + (x % b) /\ x % b \in 0 .. b - 1
    BY Division
  <2>. HIDE DEF d
  <2>2. b * d \in Nat
    BY <2>1, SMTT(30)
  <2>3. b * d <= y
    BY <1>2, <2>1, <2>2
  <2>4. d <= y \div b
    BY <2>1, <2>3, Quotient
  <2>. QED  BY <2>4 DEF d
<1>3. ASSUME x < y, y % b = 0 PROVE x \div b < y \div b
  <2>. DEFINE q == y \div b
  <2>1. q \in Nat /\ y = q * b
    BY <1>3, MultipleIs
  <2>. HIDE DEF q
  <2>2. x < b * q
    BY <1>3, <2>1, Multiple
  <2>. QED  BY <2>1, <2>2, Quotient DEF q
<1>. QED  BY <1>1, <1>2, <1>3

-----------------------------------------------------------------------------
(* Lists.                                                                  *)

LEMMA LeastNat ==
  ASSUME NEW S \in SUBSET Nat, S # {}
  PROVE  \E x \in S : \A y \in S : x <= y
<1>. DEFINE R == OpToRel(<, Nat)
<1>1. IsWellFoundedOn(R, Nat)
  BY NatLessThanWellFounded
<1>2. \A a, b \in Nat : a < b => <<a, b>> \in R
  BY DEF OpToRel
<1>. HIDE DEF R
<1>3. PICK x \in S : \A y \in S : ~(<<y, x>> \in R)
  BY <1>1, WFMin
<1>4. \A y \in S : ~(y < x)
  BY <1>2, <1>3
<1>. QED  BY <1>4

LEMMA SetInduction ==
  ASSUME NEW S, 0 \in S, \A n \in Nat : n \in S => n + 1 \in S
  PROVE  Nat \subseteq S
<1>. SUFFICES ASSUME ~(Nat \subseteq S) PROVE FALSE
  OBVIOUS
<1>. DEFINE T == Nat \ S
<1>1. PICK x \in T : \A y \in T : x <= y
  BY LeastNat
<1>2. x # 0 /\ x - 1 \in Nat /\ x - 1 \notin T
  BY <1>1
<1>3. x - 1 + 1 = x
  BY <1>1
<1>. QED  BY <1>1, <1>2, <1>3

\* The lists before and behind an entry.
Before(s, i) == SubSeq(s, 1, i - 1)
Behind(s, i) == SubSeq(s, i + 1, Len(s))

LEMMA BeforeIs ==
  ASSUME NEW T, NEW s \in Seq(T), NEW i \in 1 .. Len(s)
  PROVE  /\ Before(s, i) \in Seq(T) /\ Len(Before(s, i)) = i - 1
         /\ \A j \in 1 .. i - 1 : Before(s, i)[j] = s[j]
         /\ Range(Before(s, i)) = {s[j] : j \in 1 .. i - 1}
<1>1. Len(s) \in Nat /\ \A j \in 1 .. i - 1 : s[j] \in T
  BY LenProperties, ElementOfSeq
<1>. DEFINE u == Before(s, i)
<1>2. u \in Seq(T) /\ Len(u) = i - 1 /\ \A j \in 1 .. i - 1 : u[j] = s[j]
  <2>1. /\ u \in Seq(T) /\ Len(u) = IF 1 <= i - 1 THEN i - 1 - 1 + 1 ELSE 0
        /\ \A j \in 1 .. i - 1 - 1 + 1 : u[j] = s[1 + j - 1]
    BY <1>1, SubSeqProperties DEF Before
  <2>. HIDE DEF u
  <2>2. i - 1 - 1 + 1 = i - 1 /\ \A j \in 1 .. i - 1 : 1 + j - 1 = j
    BY <1>1
  <2>. QED  BY <1>1, <2>1, <2>2
<1>. HIDE DEF u
<1>3. Range(u) = {u[j] : j \in 1 .. i - 1}
  BY <1>2, RangeEquality
<1>4. Range(u) = {s[j] : j \in 1 .. i - 1}
  BY <1>2, <1>3
<1>. QED  BY <1>2, <1>4 DEF u

LEMMA BehindIs ==
  ASSUME NEW T, NEW s \in Seq(T), NEW i \in 1 .. Len(s)
  PROVE  /\ Behind(s, i) \in Seq(T) /\ Len(Behind(s, i)) = Len(s) - i
         /\ \A j \in 1 .. Len(s) - i : Behind(s, i)[j] = s[i + j]
         /\ Range(Behind(s, i)) = {s[j] : j \in i + 1 .. Len(s)}
<1>1. Len(s) \in Nat /\ \A j \in i + 1 .. Len(s) : s[j] \in T
  BY LenProperties, ElementOfSeq
<1>. DEFINE u == Behind(s, i)
<1>2. u \in Seq(T) /\ Len(u) = Len(s) - i /\ \A j \in 1 .. Len(s) - i : u[j] = s[i + j]
  <2>1. /\ u \in Seq(T) /\ Len(u) = IF i + 1 <= Len(s) THEN Len(s) - (i + 1) + 1 ELSE 0
        /\ \A j \in 1 .. Len(s) - (i + 1) + 1 : u[j] = s[i + 1 + j - 1]
    BY <1>1, SubSeqProperties DEF Behind
  <2>. HIDE DEF u
  <2>2. Len(s) - (i + 1) + 1 = Len(s) - i /\ \A j \in 1 .. Len(s) - i : i + 1 + j - 1 = i + j
    BY <1>1
  <2>3. Len(u) = Len(s) - i
    BY <1>1, <2>1
  <2>4. \A j \in 1 .. Len(s) - i : u[j] = s[i + j]
    BY <2>1, <2>2
  <2>. QED  BY <2>1, <2>3, <2>4
<1>. HIDE DEF u
<1>3. Range(u) = {u[j] : j \in 1 .. Len(s) - i}
  BY <1>2, RangeEquality
<1>4. Range(u) = {s[j] : j \in i + 1 .. Len(s)}
  <2>1. Range(u) = {s[i + j] : j \in 1 .. Len(s) - i}
    BY <1>2, <1>3
  <2>2. ASSUME NEW j \in i + 1 .. Len(s) PROVE \E k \in 1 .. Len(s) - i : s[j] = s[i + k]
    <3>1. j - i \in 1 .. Len(s) - i /\ j = i + (j - i)
      BY <1>1
    <3>. QED  BY <3>1
  <2>3. \A k \in 1 .. Len(s) - i : i + k \in i + 1 .. Len(s)
    BY <1>1
  <2>. QED  BY <2>1, <2>2, <2>3
<1>. QED  BY <1>2, <1>4 DEF u

\* The entries from f to l are replaced by new.
LEMMA SubstIs ==
  ASSUME NEW T, NEW s \in Seq(T), NEW new \in Seq(T), NEW f \in 1 .. Len(s), NEW l \in f .. Len(s)
  PROVE  LET r == Subst(s, f, l, new)
             n == Len(new)
             d == l - f + 1
         IN  /\ r \in Seq(T) /\ Len(r) = Len(s) - d + n
             /\ \A k \in 1 .. f - 1 : r[k] = s[k]
             /\ \A k \in 1 .. n : r[f - 1 + k] = new[k]
             /\ \A k \in l + 1 .. Len(s) : r[k - d + n] = s[k]
<1>. DEFINE u == Before(s, f)
            v == Behind(s, l)
            w == u \o new
            r == w \o v
            n == Len(new)
            d == l - f + 1
            m == Len(s)
<1>1. m \in Nat /\ n \in Nat /\ l \in 1 .. m
  BY LenProperties
<1>2. u \in Seq(T) /\ Len(u) = f - 1 /\ \A j \in 1 .. f - 1 : u[j] = s[j]
  BY BeforeIs
<1>3. v \in Seq(T) /\ Len(v) = m - l /\ \A j \in 1 .. m - l : v[j] = s[l + j]
  <2>1. l \in 1 .. Len(s)
    BY <1>1
  <2>. QED  BY <2>1, BehindIs
<1>. HIDE DEF u, v
<1>4. /\ w \in Seq(T) /\ Len(w) = f - 1 + n
      /\ \A i \in 1 .. f - 1 + n : w[i] = IF i <= f - 1 THEN u[i] ELSE new[i - (f - 1)]
  <2>1. /\ w \in Seq(T) /\ Len(w) = Len(u) + n
        /\ \A i \in 1 .. Len(u) + n : w[i] = IF i <= Len(u) THEN u[i] ELSE new[i - Len(u)]
    BY <1>2, ConcatProperties
  <2>. HIDE DEF w, n
  <2>. QED  BY <1>2, <2>1
<1>. HIDE DEF w
<1>5. /\ r \in Seq(T) /\ Len(r) = f - 1 + n + (m - l)
      /\ \A i \in 1 .. f - 1 + n + (m - l) :
           r[i] = IF i <= f - 1 + n THEN w[i] ELSE v[i - (f - 1 + n)]
  <2>1. /\ r \in Seq(T) /\ Len(r) = Len(w) + Len(v)
        /\ \A i \in 1 .. Len(w) + Len(v) : r[i] = IF i <= Len(w) THEN w[i] ELSE v[i - Len(w)]
    BY <1>3, <1>4, ConcatProperties
  <2>. HIDE DEF r, n, m
  <2>. QED  BY <1>3, <1>4, <2>1
<1>6. Subst(s, f, l, new) = r
  BY DEF Subst, r, w, u, v, Before, Behind
<1>. HIDE DEF r, m, n
<1>7. Len(r) = m - d + n
  BY <1>1, <1>5
<1>8. ASSUME NEW k \in 1 .. f - 1 PROVE r[k] = s[k]
  <2>1. k \in 1 .. f - 1 + n + (m - l) /\ k <= f - 1 + n /\ k \in 1 .. f - 1 + n /\ k <= f - 1
    BY <1>1
  <2>. QED  BY <1>2, <1>4, <1>5, <2>1
<1>9. ASSUME NEW k \in 1 .. n PROVE r[f - 1 + k] = new[k]
  <2>. DEFINE j == f - 1 + k
  <2>1. j \in 1 .. f - 1 + n + (m - l) /\ j <= f - 1 + n /\ j \in 1 .. f - 1 + n /\ ~(j <= f - 1)
        /\ j - (f - 1) = k
    BY <1>1
  <2>. HIDE DEF j
  <2>2. r[j] = new[k]
    BY <1>4, <1>5, <2>1
  <2>. QED  BY <2>2 DEF j
<1>10. ASSUME NEW k \in l + 1 .. m PROVE r[k - d + n] = s[k]
  <2>. DEFINE j == k - d + n
  <2>1. j \in 1 .. f - 1 + n + (m - l) /\ ~(j <= f - 1 + n) /\ j - (f - 1 + n) = k - l
        /\ k - l \in 1 .. m - l /\ l + (k - l) = k
    BY <1>1
  <2>. HIDE DEF j
  <2>2. r[j] = v[k - l]
    BY <1>5, <2>1
  <2>3. r[j] = s[k]
    BY <1>3, <2>1, <2>2
  <2>. QED  BY <2>3 DEF j
<1>. QED  BY <1>5, <1>6, <1>7, <1>8, <1>9, <1>10 DEF m, n

LEMMA OneIs ==
  ASSUME NEW T, NEW n \in T
  PROVE  <<n>> \in Seq(T) /\ <<n>> # <<>> /\ Len(<<n>>) = 1 /\ <<n>>[1] = n /\ Range(<<n>>) = {n}
<1>1. <<n>> \in Seq(T) /\ Len(<<n>>) = 1 /\ <<n>>[1] = n
  OBVIOUS
<1>2. Range(<<n>>) = {<<n>>[j] : j \in 1 .. 1}
  BY <1>1, RangeEquality
<1>3. 1 .. 1 = {1} /\ <<n>> # <<>>
  OBVIOUS
<1>. QED  BY <1>1, <1>2, <1>3

-----------------------------------------------------------------------------
(* Lists of nodes.                                                         *)

Idx == 0 .. Len(PageSize)
VmaSet ==
  [addr : Nat, size : Nat \ {0}, used : BOOLEAN, mapref : BOOLEAN, sparse : BOOLEAN, page : Idx,
   refd : Idx, part : BOOLEAN, mapped : BOOLEAN, memory : BOOLEAN]

\* Which nodes v and w may be neighbours: one of them is used, and if w is a part,
\* it is of the allocation of v, and they are not both unmapped.
Meets(v, w) ==
  /\ v.used \/ w.used
  /\ w.part =>
       /\ v.used /\ w.used /\ v.mapref = w.mapref /\ v.sparse = w.sparse /\ v.page = w.page
       /\ v.mapped \/ w.mapped
       /\ ~v.mapref => v.refd = w.refd /\ v.refd # NoPage

\* The nodes of s follow each other from a to b.
Tiles(s, a, b) ==
  /\ s \in Seq(VmaSet) /\ a \in Nat /\ b \in Nat
  /\ \A i \in 1 .. Len(s) - 1 : VmaEnd(s[i]) = s[i + 1].addr /\ Meets(s[i], s[i + 1])
  /\ IF s = <<>> THEN a = b ELSE s[1].addr = a /\ VmaEnd(s[Len(s)]) = b

Has(v, x) == v.addr <= x /\ x < VmaEnd(v)
NodeAt(s, x) == s[Search(s, x)]

LEMMA VmaIs ==
  ASSUME NEW v \in VmaSet
  PROVE  v.addr \in Nat /\ VmaEnd(v) \in Nat /\ v.addr < VmaEnd(v)
  BY DEF VmaSet, VmaEnd

LEMMA TilesOrder ==
  ASSUME NEW s, NEW a, NEW b, Tiles(s, a, b)
  PROVE  /\ \A i \in 1 .. Len(s) : \A j \in i + 1 .. Len(s) : VmaEnd(s[i]) <= s[j].addr
         /\ \A i \in 1 .. Len(s) : a <= s[i].addr /\ VmaEnd(s[i]) <= b
<1>. DEFINE m == Len(s)
<1>1. m \in Nat /\ \A i \in 1 .. m : s[i] \in VmaSet
  BY LenProperties, ElementOfSeq DEF Tiles
<1>2. \A i \in 1 .. m - 1 : VmaEnd(s[i]) = s[i + 1].addr
  BY DEF Tiles
<1>3. m # 0 => s[1].addr = a /\ VmaEnd(s[m]) = b
  BY EmptySeq DEF Tiles
<1>. HIDE DEF m
<1>4. \A i \in 1 .. m : s[i].addr \in Nat /\ VmaEnd(s[i]) \in Nat /\ s[i].addr < VmaEnd(s[i])
  BY <1>1, VmaIs
<1>5. ASSUME NEW i \in 1 .. m
      PROVE  \A j \in i + 1 .. m : VmaEnd(s[i]) <= s[j].addr
  <2>. DEFINE S == {k \in Nat : i + 1 + k <= m => VmaEnd(s[i]) <= s[i + 1 + k].addr}
  <2>1. 0 \in S
    <3>. SUFFICES ASSUME i + 1 <= m PROVE VmaEnd(s[i]) <= s[i + 1].addr
      BY <1>1
    <3>1. i \in 1 .. m - 1 /\ i + 1 \in 1 .. m
      BY <1>1
    <3>. QED  BY <1>2, <1>4, <3>1
  <2>2. ASSUME NEW k \in Nat, k \in S PROVE k + 1 \in S
    <3>. SUFFICES ASSUME i + 1 + (k + 1) <= m PROVE VmaEnd(s[i]) <= s[i + 1 + (k + 1)].addr
      OBVIOUS
    <3>. DEFINE j == i + 1 + k
    <3>1. j \in 1 .. m - 1 /\ j + 1 \in 1 .. m /\ j \in 1 .. m /\ i + 1 + (k + 1) = j + 1 /\
          i + 1 + k <= m
      BY <1>1
    <3>2. VmaEnd(s[i]) <= s[j].addr
      BY <2>2, <3>1
    <3>. HIDE DEF j
    <3>3. VmaEnd(s[j]) = s[j + 1].addr
      BY <1>2, <3>1
    <3>4. VmaEnd(s[i]) <= s[j + 1].addr
      BY <1>4, <3>1, <3>2, <3>3
    <3>. QED  BY <3>1, <3>4
  <2>3. Nat \subseteq S
    <3>. HIDE DEF S
    <3>. QED  BY <2>1, <2>2, SetInduction
  <2>4. ASSUME NEW j \in i + 1 .. m PROVE VmaEnd(s[i]) <= s[j].addr
    <3>1. j - (i + 1) \in Nat /\ i + 1 + (j - (i + 1)) = j /\ j <= m
      BY <1>1
    <3>. QED  BY <2>3, <3>1
  <2>. QED  BY <2>4
<1>6. ASSUME NEW i \in 1 .. m PROVE a <= s[i].addr /\ VmaEnd(s[i]) <= b
  <2>1. 1 \in 1 .. m /\ m \in 1 .. m /\ m # 0
    BY <1>1
  <2>2. a <= s[i].addr
    <3>1. CASE i = 1
      BY <1>3, <1>4, <2>1, <3>1
    <3>2. CASE i # 1
      <4>1. i \in 1 + 1 .. m
        BY <1>1, <3>2
      <4>2. VmaEnd(s[1]) <= s[i].addr
        BY <1>5, <2>1, <4>1
      <4>. QED  BY <1>3, <1>4, <2>1, <4>2
    <3>. QED  BY <3>1, <3>2
  <2>3. VmaEnd(s[i]) <= b
    <3>1. CASE i = m
      BY <1>3, <1>4, <2>1, <3>1
    <3>2. CASE i # m
      <4>1. m \in i + 1 .. m
        BY <1>1, <3>2
      <4>2. VmaEnd(s[i]) <= s[m].addr
        BY <1>5, <4>1
      <4>. QED  BY <1>3, <1>4, <2>1, <4>2
    <3>. QED  BY <3>1, <3>2
  <2>. QED  BY <2>2, <2>3
<1>. QED  BY <1>5, <1>6 DEF m

LEMMA TilesUnique ==
  ASSUME NEW s, NEW a, NEW b, Tiles(s, a, b), NEW i \in 1 .. Len(s), NEW j \in 1 .. Len(s)
  PROVE  /\ s[i].addr < VmaEnd(s[j]) /\ s[j].addr < VmaEnd(s[i]) => i = j
         /\ s[i].addr < s[j].addr => i < j
         /\ i < j => VmaEnd(s[i]) <= s[j].addr
<1>1. Len(s) \in Nat /\ s[i] \in VmaSet /\ s[j] \in VmaSet
  BY LenProperties, ElementOfSeq DEF Tiles
<1>2. /\ s[i].addr \in Nat /\ VmaEnd(s[i]) \in Nat /\ s[i].addr < VmaEnd(s[i])
      /\ s[j].addr \in Nat /\ VmaEnd(s[j]) \in Nat /\ s[j].addr < VmaEnd(s[j])
  BY <1>1, VmaIs
<1>3. i < j => VmaEnd(s[i]) <= s[j].addr
  <2>. SUFFICES ASSUME i < j PROVE VmaEnd(s[i]) <= s[j].addr
    OBVIOUS
  <2>1. j \in i + 1 .. Len(s)
    BY <1>1
  <2>. QED  BY <2>1, TilesOrder
<1>4. j < i => VmaEnd(s[j]) <= s[i].addr
  <2>. SUFFICES ASSUME j < i PROVE VmaEnd(s[j]) <= s[i].addr
    OBVIOUS
  <2>1. i \in j + 1 .. Len(s)
    BY <1>1
  <2>. QED  BY <2>1, TilesOrder
<1>5. i < j \/ j < i \/ i = j
  BY <1>1
<1>6. ASSUME s[i].addr < VmaEnd(s[j]), s[j].addr < VmaEnd(s[i]) PROVE i = j
  BY <1>2, <1>3, <1>4, <1>5, <1>6
<1>7. ASSUME s[i].addr < s[j].addr PROVE i < j
  BY <1>2, <1>4, <1>5, <1>7
<1>. QED  BY <1>3, <1>6, <1>7

\* A list of nodes by its nodes.
LEMMA Indices ==
  ASSUME NEW s, NEW a, NEW b, Tiles(s, a, b)
  PROVE  /\ Len(s) \in Nat /\ DOMAIN s = 1 .. Len(s)
         /\ \A i \in 1 .. Len(s) : s[i] \in VmaSet /\ s[i] \in Range(s)
         /\ \A n \in Range(s) : n \in VmaSet /\ \E i \in 1 .. Len(s) : s[i] = n
<1>1. s \in Seq(VmaSet)
  BY DEF Tiles
<1>2. Len(s) \in Nat /\ DOMAIN s = 1 .. Len(s) /\ \A i \in 1 .. Len(s) : s[i] \in VmaSet
  BY <1>1, LenProperties, ElementOfSeq
<1>3. Range(s) = {s[i] : i \in 1 .. Len(s)}
  BY <1>1, RangeEquality
<1>. QED  BY <1>2, <1>3

LEMMA SearchIs ==
  ASSUME NEW s, NEW a, NEW b, Tiles(s, a, b), NEW k \in 1 .. Len(s), NEW x \in Nat, Has(s[k], x)
  PROVE  Search(s, x) = k
<1>1. DOMAIN s = 1 .. Len(s) /\ \A i \in 1 .. Len(s) : s[i] \in VmaSet
  BY Indices
<1>2. s[k].addr <= x /\ x < VmaEnd(s[k])
  BY DEF Has
<1>. DEFINE i == Search(s, x)
<1>3. i \in DOMAIN s /\ s[i].addr <= x /\ x < VmaEnd(s[i])
  BY <1>1, <1>2 DEF Search
<1>. HIDE DEF i
<1>4. /\ s[i].addr \in Nat /\ VmaEnd(s[i]) \in Nat
      /\ s[k].addr \in Nat /\ VmaEnd(s[k]) \in Nat
  BY <1>1, <1>3, VmaIs
<1>5. s[i].addr < VmaEnd(s[k]) /\ s[k].addr < VmaEnd(s[i])
  BY <1>2, <1>3, <1>4
<1>6. i = k
  BY <1>1, <1>3, <1>5, TilesUnique
<1>. QED  BY <1>6 DEF i

\* Each page has a node.
LEMMA SearchFound ==
  ASSUME NEW s, NEW a, NEW b, Tiles(s, a, b), NEW x \in a .. b - 1
  PROVE  /\ Search(s, x) \in 1 .. Len(s) /\ NodeAt(s, x) \in Range(s)
         /\ NodeAt(s, x) \in VmaSet /\ Has(NodeAt(s, x), x)
<1>1. /\ Len(s) \in Nat /\ s \in Seq(VmaSet)
      /\ \A i \in 1 .. Len(s) : s[i] \in VmaSet /\ s[i] \in Range(s)
  BY Indices DEF Tiles
<1>2. /\ a \in Nat /\ b \in Nat /\ (s # <<>> => s[1].addr = a /\ VmaEnd(s[Len(s)]) = b)
      /\ s = <<>> => a = b
      /\ \A i \in 1 .. Len(s) - 1 : VmaEnd(s[i]) = s[i + 1].addr
  BY DEF Tiles
<1>3. x \in Nat /\ s # <<>>
  BY <1>2
<1>4. Len(s) \in 1 .. Len(s) /\ 1 \in 1 .. Len(s)
  BY <1>1, <1>3, EmptySeq
<1>. DEFINE S == {i \in 1 .. Len(s) : x < VmaEnd(s[i])}
<1>5. Len(s) \in S
  BY <1>2, <1>3, <1>4
<1>6. PICK k \in S : \A i \in S : k <= i
  <2>1. S \in SUBSET Nat /\ S # {}
    BY <1>5
  <2>. HIDE DEF S
  <2>. QED  BY <2>1, LeastNat
<1>7. s[k].addr <= x
  <2>1. CASE k = 1
    BY <1>2, <1>3, <2>1
  <2>2. CASE k # 1
    <3>1. k - 1 \in 1 .. Len(s) /\ k - 1 \in 1 .. Len(s) - 1 /\ ~(k <= k - 1) /\ k - 1 + 1 = k
      BY <1>1, <1>6, <2>2
    <3>2. ~(x < VmaEnd(s[k - 1]))
      BY <1>6, <3>1
    <3>3. VmaEnd(s[k - 1]) = s[k].addr /\ s[k].addr \in Nat
      BY <1>1, <1>2, <1>6, <3>1, VmaIs
    <3>. QED  BY <1>3, <3>2, <3>3
  <2>. QED  BY <2>1, <2>2
<1>8. Search(s, x) = k /\ Has(s[k], x)
  BY <1>3, <1>6, <1>7, SearchIs DEF Has
<1>. QED  BY <1>1, <1>6, <1>8 DEF NodeAt

\* Which node has a page.
LEMMA Within ==
  ASSUME NEW s, NEW a, NEW b, Tiles(s, a, b), NEW f \in 1 .. Len(s), NEW l \in f .. Len(s),
         NEW x \in a .. b - 1
  PROVE  (s[f].addr <= x /\ x < VmaEnd(s[l])) <=> Search(s, x) \in f .. l
<1>. DEFINE j == Search(s, x)
<1>0. /\ Len(s) \in Nat /\ l \in 1 .. Len(s) /\ x \in Nat
      /\ \A i \in 1 .. Len(s) : s[i] \in VmaSet /\ s[i].addr \in Nat /\ VmaEnd(s[i]) \in Nat
                                /\ s[i].addr < VmaEnd(s[i])
  <2>1. a \in Nat /\ b \in Nat
    BY DEF Tiles
  <2>. QED  BY <2>1, Indices, VmaIs
<1>1. j \in 1 .. Len(s) /\ s[j].addr <= x /\ x < VmaEnd(s[j])
  BY SearchFound DEF NodeAt, Has
<1>. HIDE DEF j
<1>2. ASSUME j < f PROVE ~(s[f].addr <= x)
  <2>1. VmaEnd(s[j]) <= s[f].addr
    BY <1>1, <1>2, TilesUnique
  <2>. QED  BY <1>0, <1>1, <2>1
<1>3. ASSUME l < j PROVE ~(x < VmaEnd(s[l]))
  <2>1. VmaEnd(s[l]) <= s[j].addr
    BY <1>0, <1>1, <1>3, TilesUnique
  <2>. QED  BY <1>0, <1>1, <2>1
<1>4. ASSUME f <= j, j <= l PROVE s[f].addr <= x /\ x < VmaEnd(s[l])
  <2>1. s[f].addr <= x
    <3>1. CASE f = j
      BY <1>1, <3>1
    <3>2. CASE f < j
      <4>1. VmaEnd(s[f]) <= s[j].addr
        BY <1>1, <3>2, TilesUnique
      <4>. QED  BY <1>0, <1>1, <4>1
    <3>. QED  BY <1>1, <1>4, <3>1, <3>2
  <2>2. x < VmaEnd(s[l])
    <3>1. CASE l = j
      BY <1>1, <3>1
    <3>2. CASE j < l
      <4>1. VmaEnd(s[j]) <= s[l].addr
        BY <1>0, <1>1, <3>2, TilesUnique
      <4>. QED  BY <1>0, <1>1, <4>1
    <3>. QED  BY <1>0, <1>1, <1>4, <3>1, <3>2
  <2>. QED  BY <2>1, <2>2
<1>5. j < f \/ l < j \/ (f <= j /\ j <= l)
  BY <1>0, <1>1
<1>6. j \in f .. l <=> (f <= j /\ j <= l)
  BY <1>0, <1>1
<1>7. ~(j < f /\ f <= j) /\ ~(l < j /\ j <= l)
  BY <1>0, <1>1
<1>8. (s[f].addr <= x /\ x < VmaEnd(s[l])) <=> j \in f .. l
  BY <1>2, <1>3, <1>4, <1>5, <1>6, <1>7
<1>. QED  BY <1>8 DEF j

-----------------------------------------------------------------------------
(* Replacement of nodes.                                                   *)

\* r is s with the nodes from f to l replaced by new.
Replaced(s, r, f, l, new) ==
  /\ r \in Seq(VmaSet) /\ Len(r) = Len(s) - (l - f + 1) + Len(new)
  /\ \A k \in 1 .. f - 1 : r[k] = s[k]
  /\ \A k \in 1 .. Len(new) : r[f - 1 + k] = new[k]
  /\ \A k \in l + 1 .. Len(s) : r[k - (l - f + 1) + Len(new)] = s[k]

\* What takes the place of nodes must cover their pages and go with its
\* neighbours; each page then has its node from it, or the node it had.
LEMMA Exchange ==
  ASSUME NEW s, NEW a, NEW b, Tiles(s, a, b), NEW f \in 1 .. Len(s), NEW l \in f .. Len(s),
         NEW new, new # <<>>, Tiles(new, s[f].addr, VmaEnd(s[l])),
         NEW r, Replaced(s, r, f, l, new),
         f > 1 => Meets(s[f - 1], new[1]),
         l < Len(s) => Meets(new[Len(new)], s[l + 1])
  PROVE  /\ Tiles(r, a, b)
         /\ \A w \in Range(r) : w \in Range(new) \/ \E j \in (1 .. Len(s)) \ (f .. l) : w = s[j]
         /\ \A x \in a .. b - 1 : NodeAt(r, x) =
              IF s[f].addr <= x /\ x < VmaEnd(s[l]) THEN NodeAt(new, x) ELSE NodeAt(s, x)
<1>. DEFINE m == Len(s)
            n == Len(new)
            d == l - f + 1
<1>1. /\ m \in Nat /\ n \in Nat \ {0} /\ f \in 1 .. m /\ l \in f .. m /\ l \in 1 .. m
      /\ \A i \in 1 .. m : s[i] \in VmaSet /\ s[i].addr \in Nat /\ VmaEnd(s[i]) \in Nat
                           /\ s[i].addr < VmaEnd(s[i])
      /\ \A i \in 1 .. n : new[i] \in VmaSet /\ new[i] \in Range(new)
  <2>1. n \in Nat /\ m \in Nat /\ new \in Seq(VmaSet)
    BY Indices DEF Tiles
  <2>2. n # 0
    BY <2>1, EmptySeq
  <2>. QED  BY <2>1, <2>2, Indices, VmaIs
<1>0. m \in Nat /\ n \in Nat \ {0} /\ f \in 1 .. m /\ l \in f .. m /\ l \in 1 .. m /\ d = l - f + 1
  BY <1>1
<1>2. /\ s \in Seq(VmaSet) /\ a \in Nat /\ b \in Nat /\ s # <<>>
      /\ \A i \in 1 .. m - 1 : VmaEnd(s[i]) = s[i + 1].addr /\ Meets(s[i], s[i + 1])
      /\ s[1].addr = a /\ VmaEnd(s[m]) = b
  BY EmptySeq, <1>1 DEF Tiles
<1>3. /\ \A i \in 1 .. n - 1 : VmaEnd(new[i]) = new[i + 1].addr /\ Meets(new[i], new[i + 1])
      /\ new[1].addr = s[f].addr /\ VmaEnd(new[n]) = VmaEnd(s[l])
  BY DEF Tiles
<1>4. /\ r \in Seq(VmaSet) /\ Len(r) = m - d + n
      /\ \A k \in 1 .. f - 1 : r[k] = s[k]
      /\ \A k \in 1 .. n : r[f - 1 + k] = new[k]
      /\ \A k \in l + 1 .. m : r[k - d + n] = s[k]
  BY DEF Replaced
<1>5. f > 1 => Meets(s[f - 1], new[1])
  OBVIOUS
<1>6. l < m => Meets(new[n], s[l + 1])
  OBVIOUS
<1>. HIDE DEF m, n
<1>7. \A k \in f .. f - 1 + n : r[k] = new[k - (f - 1)] /\ k - (f - 1) \in 1 .. n
  <2>. TAKE k \in f .. f - 1 + n
  <2>. DEFINE j == k - (f - 1)
  <2>1. j \in 1 .. n /\ f - 1 + j = k
    BY <1>1
  <2>. HIDE DEF j
  <2>2. r[k] = new[j] /\ j \in 1 .. n
    BY <1>4, <2>1
  <2>. QED  BY <2>2 DEF j
<1>8. \A k \in f + n .. m - d + n : r[k] = s[k + d - n] /\ k + d - n \in l + 1 .. m
  <2>. TAKE k \in f + n .. m - d + n
  <2>. DEFINE j == k + d - n
  <2>1. j \in l + 1 .. m /\ j - d + n = k
    BY <1>1
  <2>. HIDE DEF j
  <2>2. r[k] = s[j] /\ j \in l + 1 .. m
    BY <1>4, <2>1
  <2>. QED  BY <2>2 DEF j
<1>9. Tiles(r, a, b)
  <2>1. ASSUME NEW i \in 1 .. Len(r) - 1
        PROVE  VmaEnd(r[i]) = r[i + 1].addr /\ Meets(r[i], r[i + 1])
    <3>1. i \in 1 .. m - d + n - 1 /\ i \in Nat \ {0}
      BY <1>1, <1>4
    <3>2. CASE i < f - 1
      <4>1. i \in 1 .. f - 1 /\ i + 1 \in 1 .. f - 1 /\ i \in 1 .. m - 1
        BY ONLY <1>0, <3>1, <3>2
      <4>. QED  BY <1>2, <1>4, <4>1
    <3>3. CASE i = f - 1
      <4>1. i \in 1 .. f - 1 /\ i + 1 \in f .. f - 1 + n /\ i + 1 - (f - 1) = 1 /\ f > 1
            /\ i \in 1 .. m - 1 /\ i + 1 = f
        BY ONLY <1>0, <3>1, <3>3
      <4>2. r[i] = s[f - 1] /\ r[i + 1] = new[1]
        BY <1>4, <1>7, <3>3, <4>1
      <4>3. VmaEnd(s[f - 1]) = s[f].addr
        BY <1>2, <3>3, <4>1
      <4>. QED  BY <1>3, <1>5, <4>1, <4>2, <4>3
    <3>4. CASE f <= i /\ i < f - 1 + n
      <4>. DEFINE j == i - (f - 1)
      <4>1. i \in f .. f - 1 + n /\ i + 1 \in f .. f - 1 + n /\ j \in 1 .. n - 1
            /\ i + 1 - (f - 1) = j + 1
        BY <1>1, <3>1, <3>4
      <4>2. r[i] = new[j] /\ r[i + 1] = new[j + 1]
        BY <1>7, <4>1
      <4>. HIDE DEF j
      <4>. QED  BY <1>3, <4>1, <4>2
    <3>5. CASE i = f - 1 + n
      <4>1. i \in f .. f - 1 + n /\ i - (f - 1) = n /\ i + 1 \in f + n .. m - d + n
            /\ i + 1 + d - n = l + 1 /\ l < m /\ l \in 1 .. m - 1
        BY ONLY <1>0, <3>1, <3>5
      <4>2. r[i] = new[n] /\ r[i + 1] = s[l + 1]
        BY <1>7, <1>8, <4>1
      <4>3. VmaEnd(s[l]) = s[l + 1].addr
        BY <1>2, <4>1
      <4>. QED  BY <1>3, <1>6, <4>1, <4>2, <4>3
    <3>6. CASE i > f - 1 + n
      <4>. DEFINE j == i + d - n
      <4>1. i \in f + n .. m - d + n /\ i + 1 \in f + n .. m - d + n /\ i + 1 + d - n = j + 1
            /\ j \in 1 .. m - 1
        BY <1>1, <3>1, <3>6
      <4>2. r[i] = s[j] /\ r[i + 1] = s[j + 1]
        BY <1>8, <4>1
      <4>. HIDE DEF j
      <4>. QED  BY <1>2, <4>1, <4>2
    <3>7. i < f - 1 \/ i = f - 1 \/ (f <= i /\ i < f - 1 + n) \/ i = f - 1 + n \/ i > f - 1 + n
      BY ONLY <1>0, <3>1
    <3>. QED  BY <3>2, <3>3, <3>4, <3>5, <3>6, <3>7
  <2>2. r # <<>>
    <3>1. Len(r) # 0
      BY <1>1, <1>4
    <3>. QED  BY <3>1, <1>4, EmptySeq
  <2>3. r[1].addr = a
    <3>1. CASE f = 1
      <4>1. 1 \in f .. f - 1 + n /\ 1 - (f - 1) = 1
        BY <1>1, <3>1
      <4>. QED  BY <1>2, <1>3, <1>7, <3>1, <4>1
    <3>2. CASE f > 1
      <4>1. 1 \in 1 .. f - 1
        BY <3>2
      <4>. QED  BY <1>2, <1>4, <4>1
    <3>. QED  BY <3>1, <3>2
  <2>4. VmaEnd(r[Len(r)]) = b
    <3>1. CASE l = m
      <4>1. Len(r) \in f .. f - 1 + n /\ Len(r) - (f - 1) = n
        BY <1>1, <1>4, <3>1
      <4>2. r[Len(r)] = new[n]
        BY <1>7, <4>1
      <4>. QED  BY <1>2, <1>3, <3>1, <4>2
    <3>2. CASE l < m
      <4>1. Len(r) \in f + n .. m - d + n /\ Len(r) + d - n = m
        BY <1>1, <1>4, <3>2
      <4>2. r[Len(r)] = s[m]
        BY <1>8, <4>1
      <4>. QED  BY <1>2, <4>2
    <3>. QED  BY <1>1, <3>1, <3>2
  <2>. QED  BY <1>2, <1>4, <2>1, <2>2, <2>3, <2>4 DEF Tiles
<1>10. ASSUME NEW w \in Range(r)
       PROVE  w \in Range(new) \/ \E j \in (1 .. m) \ (f .. l) : w = s[j]
  <2>1. PICK i \in 1 .. m - d + n : w = r[i]
    BY <1>4, <1>9, Indices
  <2>2. CASE i < f
    <3>1. i \in 1 .. f - 1 /\ i \in (1 .. m) \ (f .. l)
      BY <1>1, <2>2
    <3>. QED  BY <1>4, <2>1, <3>1
  <2>3. CASE f <= i /\ i <= f - 1 + n
    <3>1. i \in f .. f - 1 + n
      BY <1>1, <2>3
    <3>2. w = new[i - (f - 1)] /\ i - (f - 1) \in 1 .. n
      BY <1>7, <2>1, <3>1
    <3>. QED  BY <1>1, <3>2
  <2>4. CASE i > f - 1 + n
    <3>1. i \in f + n .. m - d + n
      BY <1>1, <2>4
    <3>2. w = s[i + d - n] /\ i + d - n \in l + 1 .. m
      BY <1>8, <2>1, <3>1
    <3>3. i + d - n \in (1 .. m) \ (f .. l)
      BY <1>1, <3>2
    <3>. QED  BY <3>2, <3>3
  <2>. QED  BY <1>1, <2>1, <2>2, <2>3, <2>4
<1>11. ASSUME NEW x \in a .. b - 1
       PROVE  NodeAt(r, x) =
                IF s[f].addr <= x /\ x < VmaEnd(s[l]) THEN NodeAt(new, x) ELSE NodeAt(s, x)
  <2>0. x \in Nat /\ Len(r) \in Nat
    BY <1>1, <1>2, <1>4
  <2>1. CASE s[f].addr <= x /\ x < VmaEnd(s[l])
    <3>. DEFINE j == Search(new, x)
                k == f - 1 + j
    <3>1. s[f].addr \in Nat /\ VmaEnd(s[l]) \in Nat
      BY <1>1
    <3>2. x \in s[f].addr .. VmaEnd(s[l]) - 1
      BY <2>0, <2>1, <3>1
    <3>3. j \in 1 .. n /\ Has(new[j], x)
      BY <3>2, SearchFound DEF n, NodeAt
    <3>. HIDE DEF j
    <3>4. k \in 1 .. Len(r) /\ r[k] = new[j]
      BY <1>1, <1>4, <3>3
    <3>. HIDE DEF k
    <3>5. Search(r, x) = k
      BY <1>9, <2>0, <3>3, <3>4, SearchIs
    <3>. QED  BY <2>1, <3>4, <3>5 DEF NodeAt, j
  <2>2. CASE ~(s[f].addr <= x /\ x < VmaEnd(s[l]))
    <3>. DEFINE j == Search(s, x)
    <3>1. j \in 1 .. m /\ s[j].addr <= x /\ x < VmaEnd(s[j])
      BY SearchFound DEF m, NodeAt, Has
    <3>. HIDE DEF j
    <3>3. j < f \/ l < j
      <4>1. j \notin f .. l
        BY <2>2, Within DEF j, m
      <4>. QED  BY <1>1, <3>1, <4>1
    <3>4. \E k \in 1 .. Len(r) : r[k] = s[j]
      <4>1. CASE j < f
        <5>1. j \in 1 .. f - 1 /\ j \in 1 .. Len(r)
          BY <1>1, <1>4, <3>1, <4>1
        <5>. QED  BY <1>4, <5>1
      <4>2. CASE l < j
        <5>1. j \in l + 1 .. m /\ j - d + n \in 1 .. Len(r)
          BY <1>1, <1>4, <3>1, <4>2
        <5>. QED  BY <1>4, <5>1
      <4>. QED  BY <3>3, <4>1, <4>2
    <3>5. PICK k \in 1 .. Len(r) : r[k] = s[j]
      BY <3>4
    <3>6. Search(r, x) = k
      BY <1>9, <2>0, <3>1, <3>5, SearchIs DEF Has
    <3>. QED  BY <2>2, <3>5, <3>6 DEF NodeAt, j
  <2>. QED  BY <2>1, <2>2
<1>. QED  BY <1>9, <1>10, <1>11 DEF m, n

\* A single node, and two.
LEMMA OneTiles ==
  ASSUME NEW v \in VmaSet
  PROVE  /\ Tiles(<<v>>, v.addr, VmaEnd(v)) /\ <<v>> # <<>> /\ Len(<<v>>) = 1 /\ <<v>>[1] = v
         /\ Range(<<v>>) = {v}
         /\ \A x \in v.addr .. VmaEnd(v) - 1 : NodeAt(<<v>>, x) = v
<1>1. /\ <<v>> \in Seq(VmaSet) /\ Len(<<v>>) = 1 /\ <<v>>[1] = v /\ <<v>> # <<>>
      /\ Range(<<v>>) = {v}
  BY OneIs
<1>2. v.addr \in Nat /\ VmaEnd(v) \in Nat
  BY VmaIs
<1>3. Tiles(<<v>>, v.addr, VmaEnd(v))
  BY <1>1, <1>2 DEF Tiles
<1>4. ASSUME NEW x \in v.addr .. VmaEnd(v) - 1 PROVE NodeAt(<<v>>, x) = v
  <2>1. NodeAt(<<v>>, x) \in Range(<<v>>)
    BY <1>3, SearchFound
  <2>. QED  BY <1>1, <2>1
<1>. QED  BY <1>1, <1>3, <1>4

LEMMA TwoTiles ==
  ASSUME NEW v \in VmaSet, NEW w \in VmaSet, VmaEnd(v) = w.addr, Meets(v, w)
  PROVE  LET s == <<v, w>>
         IN  /\ Tiles(s, v.addr, VmaEnd(w)) /\ s # <<>> /\ Len(s) = 2 /\ s[1] = v /\ s[2] = w
             /\ Range(s) = {v, w}
             /\ \A x \in v.addr .. VmaEnd(w) - 1 :
                  NodeAt(s, x) = IF x < w.addr THEN v ELSE w
<1>. DEFINE s == <<v, w>>
<1>1. s \in Seq(VmaSet) /\ Len(s) = 2 /\ s[1] = v /\ s[2] = w /\ s # <<>>
  OBVIOUS
<1>2. Range(s) = {v, w}
  <2>1. Range(s) = {s[j] : j \in 1 .. 2}
    BY <1>1, RangeEquality
  <2>2. 1 .. 2 = {1, 2}
    OBVIOUS
  <2>. QED  BY <1>1, <2>1, <2>2
<1>3. /\ v.addr \in Nat /\ VmaEnd(v) \in Nat /\ w.addr \in Nat /\ VmaEnd(w) \in Nat
      /\ v.addr < w.addr /\ w.addr < VmaEnd(w)
  BY VmaIs
<1>. HIDE DEF s
<1>4. Tiles(s, v.addr, VmaEnd(w))
  BY <1>1, <1>3 DEF Tiles
<1>5. ASSUME NEW x \in v.addr .. VmaEnd(w) - 1
      PROVE  NodeAt(s, x) = IF x < w.addr THEN v ELSE w
  <2>1. NodeAt(s, x) \in Range(s) /\ Has(NodeAt(s, x), x)
    BY <1>4, SearchFound
  <2>. QED  BY <1>2, <1>3, <2>1 DEF Has
<1>. QED  BY <1>1, <1>2, <1>4, <1>5 DEF s

LEMMA ReplacedIs ==
  ASSUME NEW s \in Seq(VmaSet), NEW f \in 1 .. Len(s), NEW l \in f .. Len(s),
         NEW new \in Seq(VmaSet), NEW t \in Seq(VmaSet), Len(t) = Len(s),
         \A k \in (1 .. Len(s)) \ (f .. l) : t[k] = s[k]
  PROVE  Replaced(s, Subst(t, f, l, new), f, l, new)
<1>. DEFINE r == Subst(t, f, l, new)
            n == Len(new)
            d == l - f + 1
            m == Len(s)
<1>0. m \in Nat /\ f \in 1 .. Len(t) /\ l \in f .. Len(t)
  BY LenProperties
<1>1. /\ r \in Seq(VmaSet) /\ Len(r) = m - d + n
      /\ \A k \in 1 .. f - 1 : r[k] = t[k]
      /\ \A k \in 1 .. n : r[f - 1 + k] = new[k]
      /\ \A k \in l + 1 .. m : r[k - d + n] = t[k]
  <2>1. /\ r \in Seq(VmaSet) /\ Len(r) = Len(t) - d + n
        /\ \A k \in 1 .. f - 1 : r[k] = t[k]
        /\ \A k \in 1 .. n : r[f - 1 + k] = new[k]
        /\ \A k \in l + 1 .. Len(t) : r[k - d + n] = t[k]
    BY <1>0, SubstIs
  <2>. QED  BY <2>1
<1>2. /\ \A k \in 1 .. f - 1 : k \in 1 .. m /\ k \notin f .. l
      /\ \A k \in l + 1 .. m : k \in 1 .. m /\ k \notin f .. l
  BY <1>0
<1>3. \A k \in 1 .. m : k \notin f .. l => t[k] = s[k]
  OBVIOUS
<1>. HIDE DEF r, n
<1>4. \A k \in 1 .. f - 1 : r[k] = s[k]
  BY <1>1, <1>2, <1>3
<1>5. \A k \in l + 1 .. m : r[k - d + n] = s[k]
  BY <1>1, <1>2, <1>3
<1>. QED  BY <1>1, <1>4, <1>5 DEF Replaced, r, n

LEMMA Updated ==
  ASSUME NEW T, NEW s \in Seq(T), NEW i \in 1 .. Len(s), NEW y \in T
  PROVE  LET t == [s EXCEPT ![i] = y]
         IN  /\ t \in Seq(T) /\ Len(t) = Len(s) /\ t[i] = y
             /\ \A k \in 1 .. Len(s) : k # i => t[k] = s[k]
<1>1. DOMAIN s = 1 .. Len(s) /\ Len(s) \in Nat
  BY LenProperties
<1>. QED  BY <1>1, ExceptSeq

\* An entry of what has been put there may still be changed.
LEMMA ReplacedUpdated ==
  ASSUME NEW s \in Seq(VmaSet), NEW f \in 1 .. Len(s), NEW l \in f .. Len(s), NEW r,
         NEW new \in Seq(VmaSet), Replaced(s, r, f, l, new), NEW k \in 1 .. Len(new),
         NEW y \in VmaSet
  PROVE  Replaced(s, [r EXCEPT ![f - 1 + k] = y], f, l, [new EXCEPT ![k] = y])
<1>. DEFINE n == Len(new)
            d == l - f + 1
            m == Len(s)
            j == f - 1 + k
            r2 == [r EXCEPT ![j] = y]
            new2 == [new EXCEPT ![k] = y]
<1>0. m \in Nat /\ n \in Nat /\ f \in 1 .. m /\ l \in f .. m /\ k \in 1 .. n
  BY LenProperties
<1>1. /\ r \in Seq(VmaSet) /\ Len(r) = m - d + n
      /\ \A h \in 1 .. f - 1 : r[h] = s[h]
      /\ \A h \in 1 .. n : r[f - 1 + h] = new[h]
      /\ \A h \in l + 1 .. m : r[h - d + n] = s[h]
  BY DEF Replaced
<1>. HIDE DEF n, m
<1>2. j \in 1 .. Len(r)
  BY <1>0, <1>1
<1>. HIDE DEF j
<1>3. r2 \in Seq(VmaSet) /\ Len(r2) = Len(r) /\ r2[j] = y /\ \A h \in 1 .. Len(r) : h # j => r2[h] = r[h]
  BY <1>1, <1>2, Updated
<1>4. new2 \in Seq(VmaSet) /\ Len(new2) = n /\ new2[k] = y /\ \A h \in 1 .. n : h # k => new2[h] = new[h]
  BY Updated DEF n
<1>. HIDE DEF r2, new2
<1>5. ASSUME NEW h \in 1 .. f - 1 PROVE r2[h] = s[h]
  <2>1. h \in 1 .. Len(r) /\ h # j
    BY <1>0, <1>1 DEF j
  <2>. QED  BY <1>1, <1>3, <2>1
<1>6. ASSUME NEW h \in 1 .. n PROVE r2[f - 1 + h] = new2[h]
  <2>1. f - 1 + h \in 1 .. Len(r) /\ (h # k => f - 1 + h # j) /\ (h = k => f - 1 + h = j)
    BY <1>0, <1>1 DEF j
  <2>2. CASE h = k
    BY <1>3, <1>4, <2>1, <2>2
  <2>3. CASE h # k
    BY <1>1, <1>3, <1>4, <2>1, <2>3
  <2>. QED  BY <2>2, <2>3
<1>7. ASSUME NEW h \in l + 1 .. m PROVE r2[h - d + n] = s[h]
  <2>1. h - d + n \in 1 .. Len(r) /\ h - d + n # j
    BY <1>0, <1>1 DEF j
  <2>. QED  BY <1>1, <1>3, <2>1
<1>8. Len(r2) = m - d + Len(new2)
  BY <1>1, <1>3, <1>4
<1>9. Replaced(s, r2, f, l, new2)
  BY <1>3, <1>4, <1>5, <1>6, <1>7, <1>8 DEF Replaced, m
<1>. QED  BY <1>9 DEF r2, new2, j

-----------------------------------------------------------------------------
(* Regions that are unmapped.                                              *)

\* Of the same allocation.
Same(v, w) == v.used = w.used /\ v.mapref = w.mapref /\ v.sparse = w.sparse /\ v.page = w.page

\* What is alike of two nodes that a page is looked up in.
Like(v, w) == Same(v, w) /\ v.refd = w.refd /\ v.mapped = w.mapped /\ v.memory = w.memory

LEMMA GrowIs ==
  ASSUME NEW v \in VmaSet, NEW n \in Int, v.size + n > 0
  PROVE  LET g == Grow(v, n)
         IN  g \in VmaSet /\ g.addr = v.addr /\ VmaEnd(g) = VmaEnd(v) + n /\ Like(g, v) /\ g.part = v.part
<1>. DEFINE g == [v EXCEPT !.size = @ + n]
<1>1. v.addr \in Nat /\ v.size \in Nat /\ v.size + n \in Nat \ {0}
  BY DEF VmaSet
<1>2. Grow(v, n) = g
  BY DEF Grow
<1>3. g \in VmaSet /\ g.addr = v.addr /\ g.size = v.size + n /\ Like(g, v) /\ g.part = v.part
  BY <1>1 DEF VmaSet, Like, Same
<1>. HIDE DEF g
<1>4. VmaEnd(g) = VmaEnd(v) + n
  BY <1>1, <1>3 DEF VmaEnd
<1>. QED  BY <1>2, <1>3, <1>4

\* x covers the pages from where v begins to b, for the allocation of v.
Spans(x, v, b) == x \in VmaSet /\ x.addr = v.addr /\ x.part = v.part /\ VmaEnd(x) = b /\ Same(x, v)

\* Region i joins the unmapped regions next to it: nodes f to l become x.
UnmapsTo(s, i, q, f, l, x) ==
  /\ f \in {i - 1, i} /\ l \in {i, i + 1} /\ f \in 1 .. Len(s) /\ l \in f .. Len(s)
  /\ Spans(x, s[f], VmaEnd(s[l])) /\ ~x.mapped /\ ~x.memory
  /\ x.refd = IF f = i THEN q ELSE s[f].refd
  /\ f # i => s[i].part /\ ~s[f].mapped
  /\ f = i /\ i > 1 /\ s[i].part => s[i - 1].mapped
  /\ l # i => s[l].part /\ ~s[l].mapped
  /\ l = i /\ i < Len(s) /\ s[i + 1].part => s[i + 1].mapped

Refd(v, q) == [v EXCEPT !.refd = q]
Unmapping(s, i, z) == UnmapRegion([s EXCEPT ![i] = z], i)

LEMMA UnmapShape ==
  ASSUME NEW s, NEW a, NEW b, Tiles(s, a, b), NEW i \in 1 .. Len(s), NEW q \in Idx,
         \A k \in 1 .. Len(s) : s[k].memory => s[k].mapped,
         NEW z \in VmaSet, z = Refd(s[i], q), NEW r, r = Unmapping(s, i, z)
  PROVE  \E f \in {i - 1, i}, l \in {i, i + 1}, x \in VmaSet :
           UnmapsTo(s, i, q, f, l, x) /\ Replaced(s, r, f, l, <<x>>)
<1>. DEFINE t == [s EXCEPT ![i] = z]
            y == [z EXCEPT !.memory = FALSE, !.mapped = FALSE]
            u == [s EXCEPT ![i] = y]
            prev == s[i].part /\ i > 1 /\ ~s[i - 1].mapped
            next == i < Len(s) /\ s[i + 1].part /\ ~s[i + 1].mapped
<1>1. /\ Len(s) \in Nat /\ s \in Seq(VmaSet) /\ DOMAIN s = 1 .. Len(s)
      /\ \A k \in 1 .. Len(s) : s[k] \in VmaSet
      /\ \A k \in 1 .. Len(s) - 1 : VmaEnd(s[k]) = s[k + 1].addr /\ Meets(s[k], s[k + 1])
  BY Indices DEF Tiles
<1>2. /\ y \in VmaSet /\ y.addr = s[i].addr /\ y.size = s[i].size /\ y.part = s[i].part
      /\ Same(y, s[i]) /\ y.refd = q /\ ~y.mapped /\ ~y.memory
      /\ z.part = s[i].part /\ z.size = s[i].size
  <2>1. s[i] \in VmaSet
    BY <1>1
  <2>. QED  BY <2>1 DEF VmaSet, Same, Refd
<1>3. t \in Seq(VmaSet) /\ Len(t) = Len(s) /\ t[i] = z /\ \A k \in 1 .. Len(s) : k # i => t[k] = s[k]
  BY <1>1, Updated
<1>4. [t EXCEPT ![i].memory = FALSE, ![i].mapped = FALSE] = u /\ r = UnmapRegion(t, i)
  BY <1>1 DEF Unmapping
<1>. HIDE DEF y
<1>5. u \in Seq(VmaSet) /\ Len(u) = Len(s) /\ u[i] = y /\ \A k \in 1 .. Len(s) : k # i => u[k] = s[k]
  BY <1>1, <1>2, Updated
<1>. HIDE DEF t, u
<1>6. r = NodeMerge(u, i, prev, next, y.size).ns
  <2>1. (t[i].part /\ i > 1 /\ ~t[i - 1].mapped) = prev
    <3>1. i > 1 => i - 1 \in 1 .. Len(s) /\ i - 1 # i
      OBVIOUS
    <3>. QED  BY <1>2, <1>3, <3>1
  <2>2. (i < Len(t) /\ t[i + 1].part /\ ~t[i + 1].mapped) = next
    <3>1. i < Len(s) => i + 1 \in 1 .. Len(s) /\ i + 1 # i
      BY <1>1
    <3>. QED  BY <1>2, <1>3, <3>1
  <2>3. t[i].size = y.size
    BY <1>2, <1>3
  <2>. HIDE DEF prev, next
  <2>. QED  BY <1>4, <2>1, <2>2, <2>3 DEF UnmapRegion
<1>7. prev => i - 1 \in 1 .. Len(s) /\ i \in i - 1 .. Len(s) /\ i - 1 # i /\ i - 1 \in 1 .. Len(s) - 1
  BY <1>1
<1>8. next => i + 1 \in 1 .. Len(s) /\ i + 1 \in i .. Len(s) /\ i + 1 # i /\ i \in 1 .. Len(s) - 1
  BY <1>1
<1>9. ASSUME NEW v \in VmaSet, NEW n \in Nat, ~v.mapped, ~v.memory, NEW e, e = v.addr + v.size + n
      PROVE  /\ Spans(Grow(v, n), v, e) /\ Grow(v, n).refd = v.refd
             /\ ~Grow(v, n).mapped /\ ~Grow(v, n).memory
  <2>1. v.size + n > 0 /\ VmaEnd(v) = v.addr + v.size
    BY DEF VmaSet, VmaEnd
  <2>. DEFINE g == Grow(v, n)
  <2>2. g \in VmaSet /\ g.addr = v.addr /\ VmaEnd(g) = VmaEnd(v) + n /\ Like(g, v) /\ g.part = v.part
    BY <2>1, GrowIs
  <2>. HIDE DEF g
  <2>3. Spans(g, v, e) /\ g.refd = v.refd /\ ~g.mapped /\ ~g.memory
    BY <1>9, <2>1, <2>2 DEF Spans, Like
  <2>. QED  BY <2>3 DEF g
<1>10. y.size \in Nat /\ \A k \in 1 .. Len(s) : s[k].size \in Nat /\ s[k].addr \in Nat
  BY <1>1, <1>2 DEF VmaSet
<1>11. /\ \A k \in 1 .. Len(s) : s[k].memory => s[k].mapped
       /\ \A k \in 1 .. Len(s) : VmaEnd(s[k]) = s[k].addr + s[k].size
  BY DEF VmaEnd
<1>12. CASE prev /\ next
  <2>. DEFINE x == Grow(s[i - 1], y.size + s[i + 1].size)
  <2>1. r = Subst(u, i - 1, i + 1, <<x>>)
    <3>1. u[i - 1] = s[i - 1] /\ u[i + 1] = s[i + 1]
      BY <1>5, <1>7, <1>8, <1>12
    <3>. HIDE DEF prev, next
    <3>. QED  BY <1>5, <1>6, <1>12, <3>1 DEF NodeMerge
  <2>2. Spans(x, s[i - 1], VmaEnd(s[i + 1])) /\ x.refd = s[i - 1].refd /\ ~x.mapped /\ ~x.memory
    <3>1. VmaEnd(s[i + 1]) = s[i - 1].addr + s[i - 1].size + (y.size + s[i + 1].size)
      <4>1. VmaEnd(s[i - 1]) = s[i].addr /\ VmaEnd(s[i]) = s[i + 1].addr
        <5>1. i - 1 + 1 = i
          OBVIOUS
        <5>. QED  BY <1>1, <1>7, <1>8, <1>12, <5>1
      <4>2. i - 1 \in 1 .. Len(s) /\ i \in 1 .. Len(s) /\ i + 1 \in 1 .. Len(s)
        BY <1>7, <1>8, <1>12
      <4>3. /\ VmaEnd(s[i - 1]) = s[i - 1].addr + s[i - 1].size /\ VmaEnd(s[i]) = s[i].addr + s[i].size
            /\ VmaEnd(s[i + 1]) = s[i + 1].addr + s[i + 1].size
        BY ONLY <1>11, <4>2
      <4>4. /\ s[i - 1].addr \in Nat /\ s[i - 1].size \in Nat /\ s[i + 1].size \in Nat /\ y.size \in Nat
            /\ s[i].size = y.size /\ s[i].addr \in Nat /\ s[i + 1].addr \in Nat
        BY ONLY <1>2, <1>10, <4>2
      <4>5. s[i].addr = s[i - 1].addr + s[i - 1].size /\ s[i + 1].addr = s[i].addr + y.size
        BY ONLY <4>1, <4>3, <4>4
      <4>6. PICK d, e, f, g, h, k \in Nat : /\ d = s[i - 1].addr /\ e = s[i - 1].size /\ f = s[i].addr
                                            /\ g = y.size /\ h = s[i + 1].addr /\ k = s[i + 1].size
        BY ONLY <4>4
      <4>7. f = d + e /\ h = f + g
        BY ONLY <4>5, <4>6
      <4>8. h + k = d + e + (g + k)
        BY ONLY <4>7
      <4>. QED  BY ONLY <4>3, <4>6, <4>8
    <3>2. s[i - 1] \in VmaSet /\ ~s[i - 1].mapped /\ ~s[i - 1].memory /\ y.size + s[i + 1].size \in Nat
      BY <1>1, <1>7, <1>8, <1>10, <1>11, <1>12
    <3>. QED  BY <1>9, <3>1, <3>2
  <2>. HIDE DEF x
  <2>3. Replaced(s, r, i - 1, i + 1, <<x>>)
    <3>1. x \in VmaSet /\ <<x>> \in Seq(VmaSet)
      BY <2>2 DEF Spans
    <3>2. i + 1 \in i - 1 .. Len(s) /\ \A k \in (1 .. Len(s)) \ (i - 1 .. i + 1) : u[k] = s[k]
      BY <1>1, <1>5, <1>8, <1>12
    <3>. QED  BY <1>1, <1>5, <1>7, <1>12, <2>1, <3>1, <3>2, ReplacedIs
  <2>4. UnmapsTo(s, i, q, i - 1, i + 1, x)
    <3>1. i + 1 \in i - 1 .. Len(s)
      BY <1>8, <1>12
    <3>. QED  BY <1>1, <1>7, <1>8, <1>12, <2>2, <3>1 DEF UnmapsTo
  <2>. QED  BY <2>2, <2>3, <2>4 DEF Spans, t
<1>13. CASE ~prev /\ next
  <2>. DEFINE x == Grow(y, s[i + 1].size)
  <2>1. r = Subst(u, i, i + 1, <<x>>)
    <3>1. u[i + 1] = s[i + 1]
      BY <1>5, <1>8, <1>13
    <3>. HIDE DEF prev, next
    <3>. QED  BY <1>5, <1>6, <1>13, <3>1 DEF NodeMerge
  <2>2. Spans(x, s[i], VmaEnd(s[i + 1])) /\ x.refd = q /\ ~x.mapped /\ ~x.memory
    <3>1. VmaEnd(s[i + 1]) = y.addr + y.size + s[i + 1].size
      <4>1. VmaEnd(s[i]) = s[i + 1].addr
        BY <1>1, <1>8, <1>13
      <4>. QED  BY <1>2, <1>8, <1>10, <1>11, <1>13, <4>1
    <3>2. s[i + 1].size \in Nat
      BY <1>8, <1>10, <1>13
    <3>3. Spans(x, y, VmaEnd(s[i + 1])) /\ x.refd = y.refd /\ ~x.mapped /\ ~x.memory
      BY <1>2, <1>9, <3>1, <3>2
    <3>. HIDE DEF x
    <3>. QED  BY <1>2, <3>3 DEF Spans, Same
  <2>. HIDE DEF x
  <2>3. Replaced(s, r, i, i + 1, <<x>>)
    <3>1. x \in VmaSet /\ <<x>> \in Seq(VmaSet)
      BY <2>2 DEF Spans
    <3>2. \A k \in (1 .. Len(s)) \ (i .. i + 1) : u[k] = s[k]
      BY <1>1, <1>5
    <3>. QED  BY <1>1, <1>5, <1>8, <1>13, <2>1, <3>1, <3>2, ReplacedIs
  <2>4. UnmapsTo(s, i, q, i, i + 1, x)
    BY <1>1, <1>8, <1>13, <2>2 DEF UnmapsTo
  <2>. QED  BY <2>2, <2>3, <2>4 DEF Spans, t
<1>14. CASE prev /\ ~next
  <2>. DEFINE x == Grow(s[i - 1], y.size)
  <2>1. r = Subst(u, i - 1, i, <<x>>)
    <3>1. u[i - 1] = s[i - 1]
      BY <1>5, <1>7, <1>14
    <3>2. <<x>> \o <<>> = <<x>>
      OBVIOUS
    <3>. HIDE DEF prev, next
    <3>. QED  BY <1>5, <1>6, <1>14, <3>1, <3>2 DEF NodeMerge
  <2>2. Spans(x, s[i - 1], VmaEnd(s[i])) /\ x.refd = s[i - 1].refd /\ ~x.mapped /\ ~x.memory
    <3>1. VmaEnd(s[i]) = s[i - 1].addr + s[i - 1].size + y.size
      <4>1. VmaEnd(s[i - 1]) = s[i].addr
        <5>1. i - 1 + 1 = i
          OBVIOUS
        <5>. QED  BY <1>1, <1>7, <1>14, <5>1
      <4>. QED  BY <1>2, <1>7, <1>10, <1>11, <1>14, <4>1
    <3>2. s[i - 1] \in VmaSet /\ ~s[i - 1].mapped /\ ~s[i - 1].memory
      BY <1>1, <1>7, <1>11, <1>14
    <3>. QED  BY <1>9, <1>10, <3>1, <3>2
  <2>. HIDE DEF x
  <2>3. Replaced(s, r, i - 1, i, <<x>>)
    <3>1. x \in VmaSet /\ <<x>> \in Seq(VmaSet)
      BY <2>2 DEF Spans
    <3>2. \A k \in (1 .. Len(s)) \ (i - 1 .. i) : u[k] = s[k]
      BY <1>1, <1>5
    <3>. QED  BY <1>1, <1>5, <1>7, <1>14, <2>1, <3>1, <3>2, ReplacedIs
  <2>4. UnmapsTo(s, i, q, i - 1, i, x)
    BY <1>1, <1>7, <1>14, <2>2 DEF UnmapsTo
  <2>. QED  BY <2>2, <2>3, <2>4 DEF Spans, t
<1>15. CASE ~prev /\ ~next
  <2>1. r = u
    <3>. HIDE DEF prev, next
    <3>. QED  BY <1>6, <1>15 DEF NodeMerge
  <2>2. Spans(y, s[i], VmaEnd(s[i]))
    BY <1>2 DEF Spans, VmaEnd
  <2>3. Replaced(s, u, i, i, <<y>>)
    <3>1. <<y>> \in Seq(VmaSet) /\ Len(<<y>>) = 1 /\ <<y>>[1] = y
      BY <1>2
    <3>2. Len(u) = Len(s) - (i - i + 1) + 1
      BY <1>1, <1>5
    <3>3. \A k \in 1 .. i - 1 : k \in 1 .. Len(s) /\ k # i
      BY <1>1
    <3>4. \A k \in i + 1 .. Len(s) : k \in 1 .. Len(s) /\ k # i /\ k - (i - i + 1) + 1 = k
      BY <1>1
    <3>5. \A k \in 1 .. 1 : i - 1 + k = i /\ k = 1
      OBVIOUS
    <3>6. \A k \in 1 .. i - 1 : u[k] = s[k]
      BY <1>5, <3>3
    <3>7. \A k \in i + 1 .. Len(s) : u[k - (i - i + 1) + 1] = s[k]
      BY <1>5, <3>4
    <3>8. \A k \in 1 .. 1 : u[i - 1 + k] = <<y>>[k]
      BY <1>5, <3>1, <3>5
    <3>. QED  BY <1>5, <3>1, <3>2, <3>6, <3>7, <3>8 DEF Replaced
  <2>4. UnmapsTo(s, i, q, i, i, y)
    BY <1>1, <1>2, <1>15, <2>2 DEF UnmapsTo
  <2>. QED  BY <1>2, <2>1, <2>3, <2>4 DEF t
<1>. HIDE DEF prev, next
<1>. QED  BY <1>12, <1>13, <1>14, <1>15 DEF t

\* A node and the parts that follow it are of one allocation.
LEMMA Allocation ==
  ASSUME NEW s, NEW a, NEW b, Tiles(s, a, b), NEW f \in 1 .. Len(s), NEW l \in f .. Len(s),
         \A k \in f + 1 .. l : s[k].part
  PROVE  \A k \in f .. l :
           /\ Same(s[k], s[f]) /\ (k # f => s[f].used)
           /\ ~s[f].mapref => s[k].refd = s[f].refd
<1>. DEFINE P(k) == /\ Same(s[k], s[f]) /\ (k # f => s[f].used)
                    /\ ~s[f].mapref => s[k].refd = s[f].refd
            S == {n \in Nat : f + n <= l => P(f + n)}
<1>1. Len(s) \in Nat /\ \A k \in 1 .. Len(s) - 1 : Meets(s[k], s[k + 1])
  BY Indices DEF Tiles
<1>2. 0 \in S
  BY DEF Same
<1>3. ASSUME NEW n \in Nat, n \in S PROVE n + 1 \in S
  <2>. SUFFICES ASSUME f + (n + 1) <= l PROVE P(f + (n + 1))
    OBVIOUS
  <2>. DEFINE k == f + n
  <2>1. k \in 1 .. Len(s) - 1 /\ k + 1 \in f + 1 .. l /\ f + (n + 1) = k + 1 /\ f + n <= l /\ k + 1 # f
    BY <1>1
  <2>2. P(k)
    BY <1>3, <2>1
  <2>. HIDE DEF k
  <2>3. Meets(s[k], s[k + 1]) /\ s[k + 1].part
    BY <1>1, <2>1
  <2>4. P(k + 1)
    BY <2>1, <2>2, <2>3 DEF Meets, Same
  <2>. QED  BY <2>1, <2>4
<1>4. Nat \subseteq S
  <2>. HIDE DEF S
  <2>. QED  BY <1>2, <1>3, SetInduction
<1>5. ASSUME NEW k \in f .. l PROVE P(k)
  <2>1. k - f \in Nat /\ f + (k - f) = k /\ k <= l
    BY <1>1
  <2>. HIDE DEF P
  <2>. QED  BY <1>4, <2>1
<1>. QED  BY <1>5

\* An allocation begins at page x.
Begins(s, x) == NodeAt(s, x).addr = x /\ ~NodeAt(s, x).part

\* A node that takes the place of some, of which all but the first are parts.
LEMMA HeadsJoined ==
  ASSUME NEW s, NEW a, NEW b, Tiles(s, a, b), NEW f \in 1 .. Len(s), NEW l \in f .. Len(s),
         \A k \in f + 1 .. l : s[k].part,
         NEW x, x.addr = s[f].addr, x.part = s[f].part, NEW r,
         \A y \in a .. b - 1 : NodeAt(r, y) =
           IF s[f].addr <= y /\ y < VmaEnd(s[l]) THEN x ELSE NodeAt(s, y)
  PROVE  \A y \in a .. b - 1 : Begins(r, y) = Begins(s, y)
<1>. SUFFICES ASSUME NEW y \in a .. b - 1 PROVE Begins(r, y) = Begins(s, y)
  OBVIOUS
<1>. DEFINE j == Search(s, y)
<1>1. j \in 1 .. Len(s) /\ s[j].addr <= y /\ y < VmaEnd(s[j]) /\ NodeAt(s, y) = s[j]
  BY SearchFound DEF NodeAt, Has
<1>2. (s[f].addr <= y /\ y < VmaEnd(s[l])) <=> j \in f .. l
  BY Within
<1>. HIDE DEF j
<1>3. CASE j \notin f .. l
  <2>1. NodeAt(r, y) = NodeAt(s, y)
    BY <1>2, <1>3
  <2>. QED  BY <2>1 DEF Begins
<1>4. CASE j \in f .. l
  <2>1. NodeAt(r, y) = x
    BY <1>2, <1>4
  <2>2. CASE j = f
    BY <1>1, <2>1, <2>2 DEF Begins
  <2>3. CASE j # f
    <3>1. j \in f + 1 .. l /\ f < j
      BY <1>4, <2>3
    <3>2. VmaEnd(s[f]) <= s[j].addr
      BY <1>1, <3>1, TilesUnique
    <3>3. /\ s[f].addr \in Nat /\ VmaEnd(s[f]) \in Nat /\ s[j].addr \in Nat
          /\ s[f].addr < VmaEnd(s[f])
      BY <1>1, Indices, VmaIs
    <3>4. y \in Nat
      BY DEF Tiles
    <3>5. y # s[f].addr
      BY <1>1, <3>2, <3>3, <3>4
    <3>. QED  BY <1>1, <2>1, <3>1, <3>5 DEF Begins
  <2>. QED  BY <2>2, <2>3
<1>. QED  BY <1>3, <1>4

\* Pages keep their allocations; those of region i are no longer mapped.
LEMMA UnmapStep ==
  ASSUME NEW s, NEW a, NEW b, Tiles(s, a, b), NEW i \in 1 .. Len(s), NEW q \in Idx,
         s[i].mapped, s[i].used, ~s[i].mapref => q = s[i].refd,
         NEW f, NEW l, NEW x, UnmapsTo(s, i, q, f, l, x), NEW r, Replaced(s, r, f, l, <<x>>)
  PROVE  /\ Tiles(r, a, b)
         /\ \A w \in Range(r) : w = x \/ w \in Range(s)
         /\ \A y \in a .. b - 1 :
              LET v == NodeAt(s, y)
              IN  IF s[f].addr <= y /\ y < VmaEnd(s[l])
                  THEN /\ NodeAt(r, y) = x /\ Same(x, v) /\ (~v.mapref => x.refd = v.refd)
                       /\ Search(s, y) \in f .. l /\ (v = s[i] \/ ~v.mapped)
                  ELSE NodeAt(r, y) = v
         /\ \A y \in a .. b - 1 : Begins(r, y) = Begins(s, y)
         /\ x.used
         /\ \A k \in f + 1 .. l : s[k].part
         /\ \A k \in f .. l : Same(x, s[k]) /\ (~s[k].mapref => x.refd = s[k].refd)
<1>1. /\ Len(s) \in Nat /\ f \in 1 .. Len(s) /\ l \in f .. Len(s) /\ f \in {i - 1, i}
      /\ l \in {i, i + 1} /\ x \in VmaSet /\ x.addr = s[f].addr /\ x.part = s[f].part
      /\ VmaEnd(x) = VmaEnd(s[l]) /\ Same(x, s[f]) /\ ~x.mapped
      /\ x.refd = IF f = i THEN q ELSE s[f].refd
  BY Indices DEF UnmapsTo, Spans
<1>2. /\ f # i => s[i].part /\ ~s[f].mapped
      /\ f = i /\ i > 1 /\ s[i].part => s[i - 1].mapped
      /\ l # i => s[l].part /\ ~s[l].mapped
      /\ l = i /\ i < Len(s) /\ s[i + 1].part => s[i + 1].mapped
  BY DEF UnmapsTo
<1>3. \A k \in f + 1 .. l : s[k].part
  BY <1>1, <1>2
<1>4. \A k \in f .. l : /\ Same(s[k], s[f]) /\ (k # f => s[f].used)
                        /\ ~s[f].mapref => s[k].refd = s[f].refd
  BY <1>1, <1>3, Allocation
<1>5. i \in f .. l /\ l \in f .. l /\ f \in f .. l
  BY <1>1
<1>6. s[f].used /\ s[l].used /\ x.used
  BY <1>1, <1>4, <1>5 DEF Same
<1>7. \A k \in f .. l : Same(x, s[k]) /\ (~s[k].mapref => x.refd = s[k].refd)
  <2>. TAKE k \in f .. l
  <2>1. Same(x, s[k]) /\ Same(s[k], s[f]) /\ Same(s[i], s[f])
    BY <1>1, <1>4, <1>5 DEF Same
  <2>2. ASSUME ~s[k].mapref PROVE x.refd = s[k].refd
    <3>1. ~s[f].mapref /\ ~s[i].mapref
      BY <2>1, <2>2 DEF Same
    <3>2. s[k].refd = s[f].refd /\ s[i].refd = s[f].refd
      BY <1>4, <1>5, <3>1
    <3>3. q = s[i].refd
      BY <3>1
    <3>. QED  BY <1>1, <3>2, <3>3
  <2>. QED  BY <2>1, <2>2
<1>8. \A k \in 1 .. Len(s) - 1 : Meets(s[k], s[k + 1])
  BY DEF Tiles
<1>9. f > 1 => Meets(s[f - 1], x)
  <2>. SUFFICES ASSUME f > 1 PROVE Meets(s[f - 1], x)
    OBVIOUS
  <2>1. Meets(s[f - 1], s[f])
    <3>1. f - 1 \in 1 .. Len(s) - 1 /\ f - 1 + 1 = f
      BY <1>1
    <3>. QED  BY <1>8, <3>1
  <2>2. s[f].part => s[f - 1].mapped
    BY <1>1, <1>2, <2>1 DEF Meets
  <2>3. ~s[f].mapref => x.refd = s[f].refd
    BY <1>5, <1>7
  <2>. QED  BY <1>1, <1>6, <2>1, <2>2, <2>3 DEF Meets, Same
<1>10. l < Len(s) => Meets(x, s[l + 1])
  <2>. SUFFICES ASSUME l < Len(s) PROVE Meets(x, s[l + 1])
    OBVIOUS
  <2>1. Meets(s[l], s[l + 1])
    <3>1. l \in 1 .. Len(s) - 1
      BY <1>1
    <3>. QED  BY <1>8, <3>1
  <2>2. s[l + 1].part => s[l + 1].mapped
    BY <1>1, <1>2, <2>1 DEF Meets
  <2>3. Same(x, s[l]) /\ (~s[l].mapref => x.refd = s[l].refd)
    BY <1>5, <1>7
  <2>. QED  BY <1>6, <2>1, <2>2, <2>3 DEF Meets, Same
<1>. DEFINE new == <<x>>
<1>11. /\ Tiles(new, s[f].addr, VmaEnd(s[l])) /\ new # <<>> /\ Len(new) = 1 /\ new[1] = x
       /\ Range(new) = {x} /\ Replaced(s, r, f, l, new)
       /\ \A y \in x.addr .. VmaEnd(x) - 1 : NodeAt(new, y) = x
  <2>1. /\ Tiles(new, x.addr, VmaEnd(x)) /\ new # <<>> /\ Len(new) = 1 /\ new[1] = x
        /\ Range(new) = {x}
        /\ \A y \in x.addr .. VmaEnd(x) - 1 : NodeAt(new, y) = x
    BY <1>1, OneTiles
  <2>. QED  BY <1>1, <2>1
<1>. HIDE DEF new
<1>12. /\ Tiles(r, a, b)
       /\ \A w \in Range(r) : w \in Range(new) \/ \E j \in (1 .. Len(s)) \ (f .. l) : w = s[j]
       /\ \A y \in a .. b - 1 : NodeAt(r, y) =
            IF s[f].addr <= y /\ y < VmaEnd(s[l]) THEN NodeAt(new, y) ELSE NodeAt(s, y)
  <2>1. f > 1 => Meets(s[f - 1], new[1])
    BY <1>9, <1>11
  <2>2. l < Len(s) => Meets(new[Len(new)], s[l + 1])
    BY <1>10, <1>11
  <2>3. f \in 1 .. Len(s) /\ l \in f .. Len(s)
    BY <1>1
  <2>4. Tiles(new, s[f].addr, VmaEnd(s[l])) /\ new # <<>> /\ Replaced(s, r, f, l, new)
    BY <1>11
  <2>. QED  BY <2>1, <2>2, <2>3, <2>4, Exchange
<1>13. \A w \in Range(r) : w = x \/ w \in Range(s)
  <2>1. \A j \in 1 .. Len(s) : s[j] \in Range(s)
    BY Indices
  <2>. QED  BY <1>11, <1>12, <2>1
<1>14. ASSUME NEW y \in a .. b - 1
       PROVE  NodeAt(r, y) = IF s[f].addr <= y /\ y < VmaEnd(s[l]) THEN x ELSE NodeAt(s, y)
  <2>1. y \in Nat /\ x.addr \in Nat /\ VmaEnd(x) \in Nat
    BY <1>1, VmaIs DEF Tiles
  <2>2. s[f].addr <= y /\ y < VmaEnd(s[l]) => y \in x.addr .. VmaEnd(x) - 1
    BY <1>1, <2>1
  <2>. QED  BY <1>11, <1>12, <2>2
<1>15. \A y \in a .. b - 1 : Begins(r, y) = Begins(s, y)
  <2>1. /\ Tiles(s, a, b) /\ f \in 1 .. Len(s) /\ l \in f .. Len(s) /\ \A k \in f + 1 .. l : s[k].part
        /\ x.addr = s[f].addr /\ x.part = s[f].part
        /\ \A y \in a .. b - 1 :
             NodeAt(r, y) = IF s[f].addr <= y /\ y < VmaEnd(s[l]) THEN x ELSE NodeAt(s, y)
    BY <1>1, <1>3, <1>14
  <2>. QED  BY ONLY <2>1, HeadsJoined
<1>16. ASSUME NEW y \in a .. b - 1, s[f].addr <= y, y < VmaEnd(s[l])
       PROVE  LET v == NodeAt(s, y)
              IN  /\ Same(x, v) /\ (~v.mapref => x.refd = v.refd)
                  /\ Search(s, y) \in f .. l /\ (v = s[i] \/ ~v.mapped)
  <2>. DEFINE j == Search(s, y)
  <2>1. j \in f .. l
    BY <1>1, <1>16, Within
  <2>2. NodeAt(s, y) = s[j]
    BY DEF NodeAt
  <2>. HIDE DEF j
  <2>3. s[j] = s[i] \/ ~s[j].mapped
    BY <1>1, <1>2, <2>1
  <2>. QED  BY <1>7, <2>1, <2>2, <2>3 DEF j
<1>. QED  BY <1>3, <1>6, <1>7, <1>12, <1>13, <1>14, <1>15, <1>16

-----------------------------------------------------------------------------
(* Nodes that are cut.                                                     *)

LEMMA ThreeTiles ==
  ASSUME NEW v \in VmaSet, NEW w \in VmaSet, NEW x \in VmaSet, VmaEnd(v) = w.addr, Meets(v, w),
         VmaEnd(w) = x.addr, Meets(w, x)
  PROVE  LET s == <<v, w, x>>
         IN  /\ Tiles(s, v.addr, VmaEnd(x)) /\ s # <<>>
             /\ Len(s) = 3 /\ s[1] = v /\ s[2] = w /\ s[3] = x
             /\ Range(s) = {v, w, x}
             /\ \A y \in v.addr .. VmaEnd(x) - 1 :
                  NodeAt(s, y) = IF y < w.addr THEN v ELSE IF y < x.addr THEN w ELSE x
<1>. DEFINE s == <<v, w, x>>
<1>1. s \in Seq(VmaSet) /\ Len(s) = 3 /\ s[1] = v /\ s[2] = w /\ s[3] = x /\ s # <<>>
  OBVIOUS
<1>2. Range(s) = {v, w, x}
  <2>1. Range(s) = {s[j] : j \in 1 .. 3}
    BY <1>1, RangeEquality
  <2>2. 1 .. 3 = {1, 2, 3}
    OBVIOUS
  <2>. QED  BY <1>1, <2>1, <2>2
<1>3. /\ v.addr \in Nat /\ VmaEnd(v) \in Nat /\ w.addr \in Nat /\ VmaEnd(w) \in Nat
      /\ x.addr \in Nat /\ VmaEnd(x) \in Nat
      /\ v.addr < w.addr /\ w.addr < x.addr /\ x.addr < VmaEnd(x)
  BY VmaIs
<1>. HIDE DEF s
<1>4. Tiles(s, v.addr, VmaEnd(x))
  <2>1. ASSUME NEW i \in 1 .. Len(s) - 1
        PROVE  VmaEnd(s[i]) = s[i + 1].addr /\ Meets(s[i], s[i + 1])
    <3>1. i = 1 \/ i = 2
      BY <1>1
    <3>. QED  BY <1>1, <3>1
  <2>. QED  BY <1>1, <1>3, <2>1 DEF Tiles
<1>5. ASSUME NEW y \in v.addr .. VmaEnd(x) - 1
      PROVE  NodeAt(s, y) = IF y < w.addr THEN v ELSE IF y < x.addr THEN w ELSE x
  <2>1. NodeAt(s, y) \in Range(s) /\ Has(NodeAt(s, y), y)
    BY <1>4, SearchFound
  <2>. QED  BY <1>2, <1>3, <2>1 DEF Has
<1>. QED  BY <1>1, <1>2, <1>4, <1>5 DEF s

\* x cut out of v, between u and w.
Cut(v, x, u, w) ==
  (IF v.addr = x.addr THEN <<>> ELSE <<u>>) \o <<x>> \o (IF VmaEnd(v) = VmaEnd(x) THEN <<>> ELSE <<w>>)

CutAt(v, x) == IF v.addr = x.addr THEN 1 ELSE 2

LEMMA PairIs ==
  ASSUME NEW v, NEW w
  PROVE  <<v>> \o <<w>> = <<v, w>>
<1>. DEFINE T == {v, w}
            r == <<v>> \o <<w>>
            new == <<v, w>>
<1>1. /\ <<v>> \in Seq(T) /\ <<w>> \in Seq(T) /\ new \in Seq(T)
      /\ Len(<<v>>) = 1 /\ Len(<<w>>) = 1 /\ Len(new) = 2
  OBVIOUS
<1>2. r \in Seq(T) /\ Len(r) = 2
      /\ \A i \in 1 .. 2 : r[i] = IF i <= 1 THEN <<v>>[i] ELSE <<w>>[i - 1]
  BY <1>1, ConcatProperties
<1>. HIDE DEF r
<1>3. \A i \in 1 .. 2 : r[i] = new[i]
  BY <1>2
<1>. QED  BY <1>1, <1>2, <1>3, SeqEqual DEF r

LEMMA CutCases ==
  ASSUME NEW v, NEW x, NEW u, NEW w
  PROVE  LET new == Cut(v, x, u, w)
             n == CutAt(v, x)
             l == v.addr = x.addr
             h == VmaEnd(v) = VmaEnd(x)
         IN  /\ l /\ h => new = <<x>> /\ n = 1
             /\ l /\ ~h => new = <<x, w>> /\ n = 1
             /\ ~l /\ h => new = <<u, x>> /\ n = 2
             /\ ~l /\ ~h => new = <<u, x, w>> /\ n = 2
<1>1. /\ <<>> \o <<x>> \o <<>> = <<x>> /\ <<>> \o <<x>> \o <<w>> = <<x, w>>
      /\ <<u>> \o <<x>> \o <<>> = <<u, x>> /\ <<u>> \o <<x>> \o <<w>> = <<u, x, w>>
  <2>1. <<>> \o <<x>> = <<x>> /\ <<x>> \o <<>> = <<x>>
    <3>1. <<x>> \in Seq({x})
      OBVIOUS
    <3>. QED  BY <3>1, ConcatEmptySeq
  <2>2. <<x>> \o <<w>> = <<x, w>> /\ <<u>> \o <<x>> = <<u, x>>
    BY PairIs
  <2>3. <<u, x>> \o <<>> = <<u, x>>
    <3>1. <<u, x>> \in Seq({u, x})
      OBVIOUS
    <3>. QED  BY <3>1, ConcatEmptySeq
  <2>4. <<u, x>> \o <<w>> = <<u, x, w>>
    <3>. DEFINE T == {u, x, w}
                r == <<u, x>> \o <<w>>
                new == <<u, x, w>>
    <3>1. /\ <<u, x>> \in Seq(T) /\ <<w>> \in Seq(T) /\ new \in Seq(T)
          /\ Len(<<u, x>>) = 2 /\ Len(<<w>>) = 1 /\ Len(new) = 3
      OBVIOUS
    <3>2. r \in Seq(T) /\ Len(r) = 3
          /\ \A i \in 1 .. 3 : r[i] = IF i <= 2 THEN <<u, x>>[i] ELSE <<w>>[i - 2]
      BY <3>1, ConcatProperties
    <3>. HIDE DEF r
    <3>3. \A i \in 1 .. 3 : r[i] = new[i]
      BY <3>2
    <3>. QED  BY <3>1, <3>2, <3>3, SeqEqual DEF r
  <2>. QED  BY <2>1, <2>2, <2>3, <2>4
<1>. QED  BY <1>1 DEF Cut, CutAt

LEMMA CutIs ==
  ASSUME NEW v \in VmaSet, NEW x \in VmaSet, v.addr <= x.addr, VmaEnd(x) <= VmaEnd(v),
         NEW u, NEW w,
         v.addr # x.addr => u \in VmaSet /\ u.addr = v.addr /\ VmaEnd(u) = x.addr /\ Meets(u, x),
         VmaEnd(v) # VmaEnd(x) =>
           w \in VmaSet /\ w.addr = VmaEnd(x) /\ VmaEnd(w) = VmaEnd(v) /\ Meets(x, w)
  PROVE  LET new == Cut(v, x, u, w)
         IN  /\ Tiles(new, v.addr, VmaEnd(v)) /\ new # <<>>
             /\ new[1] = IF v.addr = x.addr THEN x ELSE u
             /\ new[Len(new)] = IF VmaEnd(v) = VmaEnd(x) THEN x ELSE w
             /\ \A z \in Range(new) : \/ z = x
                                      \/ z = u /\ v.addr # x.addr
                                      \/ z = w /\ VmaEnd(v) # VmaEnd(x)
             /\ \A y \in v.addr .. VmaEnd(v) - 1 :
                  NodeAt(new, y) = IF y < x.addr THEN u ELSE IF y < VmaEnd(x) THEN x ELSE w
<1>. DEFINE new == Cut(v, x, u, w)
<1>1. /\ v.addr \in Nat /\ VmaEnd(v) \in Nat /\ x.addr \in Nat /\ VmaEnd(x) \in Nat
      /\ x.addr < VmaEnd(x)
  BY VmaIs
<1>2. CASE v.addr = x.addr /\ VmaEnd(v) = VmaEnd(x)
  <2>1. new = <<x>>
    BY <1>2, CutCases
  <2>. HIDE DEF new
  <2>2. /\ Tiles(new, x.addr, VmaEnd(x)) /\ new # <<>> /\ Len(new) = 1 /\ new[1] = x
        /\ Range(new) = {x} /\ \A y \in x.addr .. VmaEnd(x) - 1 : NodeAt(new, y) = x
    BY <2>1, OneTiles
  <2>3. \A y \in v.addr .. VmaEnd(v) - 1 : ~(y < x.addr) /\ y < VmaEnd(x)
    BY <1>1, <1>2
  <2>. QED  BY <1>2, <2>2, <2>3 DEF new
<1>3. CASE v.addr = x.addr /\ VmaEnd(v) # VmaEnd(x)
  <2>1. new = <<x, w>>
    BY <1>3, CutCases
  <2>. HIDE DEF new
  <2>2. /\ Tiles(new, x.addr, VmaEnd(w)) /\ new # <<>> /\ Len(new) = 2 /\ new[1] = x /\ new[2] = w
        /\ Range(new) = {x, w}
        /\ \A y \in x.addr .. VmaEnd(w) - 1 : NodeAt(new, y) = IF y < w.addr THEN x ELSE w
    BY <1>3, <2>1, TwoTiles
  <2>3. \A y \in v.addr .. VmaEnd(v) - 1 : ~(y < x.addr)
    BY <1>1, <1>3
  <2>. QED  BY <1>3, <2>2, <2>3 DEF new
<1>4. CASE v.addr # x.addr /\ VmaEnd(v) = VmaEnd(x)
  <2>1. new = <<u, x>>
    BY <1>4, CutCases
  <2>. HIDE DEF new
  <2>2. /\ Tiles(new, u.addr, VmaEnd(x)) /\ new # <<>> /\ Len(new) = 2 /\ new[1] = u /\ new[2] = x
        /\ Range(new) = {u, x}
        /\ \A y \in u.addr .. VmaEnd(x) - 1 : NodeAt(new, y) = IF y < x.addr THEN u ELSE x
    BY <1>4, <2>1, TwoTiles
  <2>3. \A y \in v.addr .. VmaEnd(v) - 1 : y < VmaEnd(x)
    BY <1>1, <1>4
  <2>. QED  BY <1>4, <2>2, <2>3 DEF new
<1>5. CASE v.addr # x.addr /\ VmaEnd(v) # VmaEnd(x)
  <2>1. new = <<u, x, w>>
    BY <1>5, CutCases
  <2>. HIDE DEF new
  <2>2. /\ Tiles(new, u.addr, VmaEnd(w)) /\ new # <<>> /\ Len(new) = 3 /\ new[1] = u /\ new[2] = x
        /\ new[3] = w /\ Range(new) = {u, x, w}
        /\ \A y \in u.addr .. VmaEnd(w) - 1 :
             NodeAt(new, y) = IF y < x.addr THEN u ELSE IF y < w.addr THEN x ELSE w
    BY <1>5, <2>1, ThreeTiles
  <2>. QED  BY <1>5, <2>2 DEF new
<1>. QED  BY <1>2, <1>3, <1>4, <1>5

\* The node cut out may still be changed.
LEMMA CutUpdated ==
  ASSUME NEW v, NEW x, NEW u, NEW w, NEW y, y.addr = x.addr, VmaEnd(y) = VmaEnd(x)
  PROVE  LET new == Cut(v, x, u, w)
         IN  /\ CutAt(v, x) \in 1 .. Len(new) /\ new[CutAt(v, x)] = x /\ CutAt(v, y) = CutAt(v, x)
             /\ [new EXCEPT ![CutAt(v, x)] = y] = Cut(v, y, u, w)
<1>1. /\ [<<x>> EXCEPT ![1] = y] = <<y>> /\ [<<x, w>> EXCEPT ![1] = y] = <<y, w>>
      /\ [<<u, x>> EXCEPT ![2] = y] = <<u, y>> /\ [<<u, x, w>> EXCEPT ![2] = y] = <<u, y, w>>
  OBVIOUS
<1>2. /\ 1 \in 1 .. Len(<<x>>) /\ 1 \in 1 .. Len(<<x, w>>)
      /\ 2 \in 1 .. Len(<<u, x>>) /\ 2 \in 1 .. Len(<<u, x, w>>)
  OBVIOUS
<1>3. /\ <<x>>[1] = x /\ <<x, w>>[1] = x /\ <<u, x>>[2] = x /\ <<u, x, w>>[2] = x
  OBVIOUS
<1>. DEFINE new == Cut(v, x, u, w)
            l == v.addr = x.addr
            h == VmaEnd(v) = VmaEnd(x)
            n == CutAt(v, x)
            new2 == Cut(v, y, u, w)
<1>4. /\ l /\ h => new = <<x>> /\ n = 1
      /\ l /\ ~h => new = <<x, w>> /\ n = 1
      /\ ~l /\ h => new = <<u, x>> /\ n = 2
      /\ ~l /\ ~h => new = <<u, x, w>> /\ n = 2
  BY CutCases
<1>5. /\ l /\ h => new2 = <<y>>
      /\ l /\ ~h => new2 = <<y, w>>
      /\ ~l /\ h => new2 = <<u, y>>
      /\ ~l /\ ~h => new2 = <<u, y, w>>
  BY CutCases
<1>6. CutAt(v, y) = n
  BY DEF CutAt
<1>. HIDE DEF new, new2, n, l, h
<1>7. n \in 1 .. Len(new) /\ new[n] = x
  BY <1>2, <1>3, <1>4
<1>8. [new EXCEPT ![n] = y] = new2
  BY <1>1, <1>4, <1>5
<1>. QED  BY <1>6, <1>7, <1>8 DEF new, new2, n

\* nvkm_vma_tail.
LEMMA RestIs ==
  ASSUME NEW v \in VmaSet, NEW d \in Nat \ {0}, d < v.size
  PROVE  LET w == Rest(v, d)
         IN  /\ w \in VmaSet /\ w.addr = v.addr + d /\ VmaEnd(w) = VmaEnd(v)
             /\ Like(w, v) /\ w.part = v.part
<1>. DEFINE w == [v EXCEPT !.addr = @ + d, !.size = @ - d]
<1>1. v.addr \in Nat /\ v.size \in Nat /\ v.size - d \in Nat \ {0} /\ v.addr + d \in Nat
  BY DEF VmaSet
<1>2. Rest(v, d) = w
  BY DEF Rest
<1>3. /\ w \in VmaSet /\ w.addr = v.addr + d /\ w.size = v.size - d
      /\ Like(w, v) /\ w.part = v.part
  BY <1>1 DEF VmaSet, Like, Same
<1>. HIDE DEF w
<1>4. VmaEnd(w) = VmaEnd(v)
  BY <1>1, <1>3 DEF VmaEnd
<1>. QED  BY <1>2, <1>3, <1>4

\* The parts of node v beside x, cut from it.
Left(v, x) == Upto(v, x.addr - v.addr)
RestFrom(v, d, q) == [Rest(v, d) EXCEPT !.part = q]
Right(v, x, q) == RestFrom(v, VmaEnd(x) - v.addr, q)

LEMMA LeftIs ==
  ASSUME NEW v \in VmaSet, NEW x \in VmaSet, v.addr <= x.addr, VmaEnd(x) <= VmaEnd(v),
         v.addr # x.addr
  PROVE  LET u == Left(v, x)
         IN  u \in VmaSet /\ u.addr = v.addr /\ VmaEnd(u) = x.addr /\ Like(u, v) /\ u.part = v.part
<1>. DEFINE d == x.addr - v.addr
            u == [v EXCEPT !.size = d]
<1>1. v.addr \in Nat /\ x.addr \in Nat /\ d \in Nat \ {0} /\ v.addr + d = x.addr
  BY DEF VmaSet
<1>2. Left(v, x) = u
  BY DEF Left, Upto
<1>. HIDE DEF d
<1>3. u \in VmaSet /\ u.addr = v.addr /\ u.size = d /\ Like(u, v) /\ u.part = v.part
  BY <1>1 DEF VmaSet, Like, Same
<1>. HIDE DEF u
<1>4. VmaEnd(u) = x.addr
  BY <1>1, <1>3 DEF VmaEnd
<1>. QED  BY <1>2, <1>3, <1>4

LEMMA RightIs ==
  ASSUME NEW v \in VmaSet, NEW x \in VmaSet, v.addr <= x.addr, VmaEnd(x) <= VmaEnd(v),
         VmaEnd(v) # VmaEnd(x), NEW q \in BOOLEAN
  PROVE  LET w == Right(v, x, q)
         IN  w \in VmaSet /\ w.addr = VmaEnd(x) /\ VmaEnd(w) = VmaEnd(v) /\ Like(w, v) /\ w.part = q
<1>. DEFINE d == VmaEnd(x) - v.addr
            z == Rest(v, d)
            w == [z EXCEPT !.part = q]
<1>1. /\ v.addr \in Nat /\ v.size \in Nat /\ VmaEnd(v) \in Nat /\ VmaEnd(v) = v.addr + v.size
      /\ VmaEnd(x) \in Nat /\ x.addr < VmaEnd(x) /\ x.addr \in Nat
  BY VmaIs DEF VmaSet, VmaEnd
<1>2. d \in Nat \ {0} /\ d < v.size /\ v.addr + d = VmaEnd(x)
  BY <1>1
<1>3. Right(v, x, q) = w
  BY DEF Right, RestFrom
<1>. HIDE DEF d
<1>4. /\ z \in VmaSet /\ z.addr = v.addr + d /\ VmaEnd(z) = VmaEnd(v)
      /\ Like(z, v) /\ z.part = v.part
  BY <1>2, RestIs
<1>. HIDE DEF z
<1>5. /\ w \in VmaSet /\ w.addr = z.addr /\ w.size = z.size /\ Like(w, z) /\ w.part = q
  BY <1>4 DEF VmaSet, Like, Same
<1>. HIDE DEF w
<1>6. VmaEnd(w) = VmaEnd(z)
  BY <1>5 DEF VmaEnd
<1>7. Like(w, v)
  BY <1>4, <1>5 DEF Like, Same
<1>. QED  BY <1>2, <1>3, <1>4, <1>5, <1>6, <1>7

\* Node i is cut, and what is cut out becomes x.
LEMMA CutStep ==
  ASSUME NEW s, NEW a, NEW b, Tiles(s, a, b), NEW i \in 1 .. Len(s),
         NEW x \in VmaSet, NEW q \in BOOLEAN, s[i].addr <= x.addr, VmaEnd(x) <= VmaEnd(s[i]),
         x.addr # s[i].addr => Meets(s[i], x),
         x.addr = s[i].addr /\ i > 1 => Meets(s[i - 1], x),
         VmaEnd(x) # VmaEnd(s[i]) =>
           \A w \in VmaSet : Like(w, s[i]) /\ w.part = q => Meets(x, w),
         VmaEnd(x) = VmaEnd(s[i]) /\ i < Len(s) => Meets(x, s[i + 1]),
         NEW r, Replaced(s, r, i, i, Cut(s[i], x, Left(s[i], x), Right(s[i], x, q)))
  PROVE  /\ Tiles(r, a, b)
         /\ \A z \in Range(r) : \/ z = x \/ z \in Range(s)
                                \/ z.used = s[i].used /\ z.part \in {s[i].part, q}
         /\ \A y \in a .. b - 1 :
              IF x.addr <= y /\ y < VmaEnd(x) THEN NodeAt(r, y) = x ELSE Like(NodeAt(r, y), NodeAt(s, y))
<1>. DEFINE v == s[i]
            u == Left(v, x)
            w == Right(v, x, q)
            new == Cut(v, x, u, w)
<1>1. Len(s) \in Nat /\ v \in VmaSet /\ \A k \in 1 .. Len(s) - 1 : Meets(s[k], s[k + 1])
  BY Indices DEF Tiles
<1>2. /\ v.addr \in Nat /\ VmaEnd(v) \in Nat /\ x.addr \in Nat /\ VmaEnd(x) \in Nat
      /\ x.addr < VmaEnd(x) /\ v.addr < VmaEnd(v) /\ v.addr <= x.addr /\ VmaEnd(x) <= VmaEnd(v)
  BY <1>1, VmaIs
<1>3. ASSUME v.addr # x.addr
      PROVE  /\ u \in VmaSet /\ u.addr = v.addr /\ VmaEnd(u) = x.addr /\ Like(u, v) /\ u.part = v.part
             /\ Meets(u, x)
  <2>1. u \in VmaSet /\ u.addr = v.addr /\ VmaEnd(u) = x.addr /\ Like(u, v) /\ u.part = v.part
    <3>. HIDE DEF v
    <3>. QED  BY <1>1, <1>2, <1>3, LeftIs
  <2>2. Meets(v, x)
    BY <1>3
  <2>. HIDE DEF u, v
  <2>. QED  BY <2>1, <2>2 DEF Meets, Like, Same
<1>4. ASSUME VmaEnd(v) # VmaEnd(x)
      PROVE  /\ w \in VmaSet /\ w.addr = VmaEnd(x) /\ VmaEnd(w) = VmaEnd(v) /\ Like(w, v) /\ w.part = q
             /\ Meets(x, w)
  <2>1. w \in VmaSet /\ w.addr = VmaEnd(x) /\ VmaEnd(w) = VmaEnd(v) /\ Like(w, v) /\ w.part = q
    <3>. HIDE DEF v
    <3>. QED  BY <1>1, <1>2, <1>4, RightIs
  <2>2. \A z \in VmaSet : Like(z, v) /\ z.part = q => Meets(x, z)
    BY <1>4
  <2>. HIDE DEF w, v
  <2>. QED  BY <2>1, <2>2
<1>5. /\ x.addr = v.addr /\ i > 1 => Meets(s[i - 1], x)
      /\ VmaEnd(x) = VmaEnd(v) /\ i < Len(s) => Meets(x, s[i + 1])
      /\ Replaced(s, r, i, i, new)
  OBVIOUS
<1>. HIDE DEF u, w
<1>6. /\ Tiles(new, v.addr, VmaEnd(v)) /\ new # <<>>
      /\ new[1] = IF v.addr = x.addr THEN x ELSE u
      /\ new[Len(new)] = IF VmaEnd(v) = VmaEnd(x) THEN x ELSE w
      /\ \A z \in Range(new) : \/ z = x
                               \/ z = u /\ v.addr # x.addr
                               \/ z = w /\ VmaEnd(v) # VmaEnd(x)
      /\ \A y \in v.addr .. VmaEnd(v) - 1 :
           NodeAt(new, y) = IF y < x.addr THEN u ELSE IF y < VmaEnd(x) THEN x ELSE w
  <2>. HIDE DEF v
  <2>. QED  BY <1>1, <1>2, <1>3, <1>4, CutIs
<1>. HIDE DEF new
<1>7. i > 1 => Meets(s[i - 1], new[1])
  <2>. SUFFICES ASSUME i > 1 PROVE Meets(s[i - 1], new[1])
    OBVIOUS
  <2>1. CASE v.addr = x.addr
    BY <1>5, <1>6, <2>1
  <2>2. CASE v.addr # x.addr
    <3>1. Meets(s[i - 1], v)
      <4>1. i - 1 \in 1 .. Len(s) - 1 /\ i - 1 + 1 = i
        BY <1>1
      <4>. QED  BY <1>1, <4>1
    <3>. HIDE DEF v
    <3>2. Like(u, v) /\ u.part = v.part /\ new[1] = u
      BY <1>3, <1>6, <2>2
    <3>. QED  BY <3>1, <3>2 DEF Meets, Like, Same
  <2>. QED  BY <2>1, <2>2
<1>8. i < Len(s) => Meets(new[Len(new)], s[i + 1])
  <2>. SUFFICES ASSUME i < Len(s) PROVE Meets(new[Len(new)], s[i + 1])
    OBVIOUS
  <2>1. CASE VmaEnd(v) = VmaEnd(x)
    BY <1>5, <1>6, <2>1
  <2>2. CASE VmaEnd(v) # VmaEnd(x)
    <3>1. Meets(v, s[i + 1])
      <4>1. i \in 1 .. Len(s) - 1
        BY <1>1
      <4>. QED  BY <1>1, <4>1
    <3>. HIDE DEF v
    <3>2. Like(w, v) /\ new[Len(new)] = w
      BY <1>4, <1>6, <2>2
    <3>. QED  BY <3>1, <3>2 DEF Meets, Like, Same
  <2>. QED  BY <2>1, <2>2
<1>9. /\ Tiles(r, a, b)
      /\ \A z \in Range(r) : z \in Range(new) \/ \E j \in (1 .. Len(s)) \ (i .. i) : z = s[j]
      /\ \A y \in a .. b - 1 : NodeAt(r, y) =
           IF v.addr <= y /\ y < VmaEnd(v) THEN NodeAt(new, y) ELSE NodeAt(s, y)
  <2>1. i \in i .. Len(s)
    BY <1>1
  <2>2. Tiles(new, v.addr, VmaEnd(v)) /\ new # <<>> /\ Replaced(s, r, i, i, new)
    BY <1>5, <1>6
  <2>. QED  BY <1>7, <1>8, <2>1, <2>2, Exchange
<1>10. ASSUME NEW z \in Range(r)
       PROVE  z = x \/ z \in Range(s) \/ (z.used = v.used /\ z.part \in {v.part, q})
  <2>1. \A j \in 1 .. Len(s) : s[j] \in Range(s)
    BY Indices
  <2>2. CASE z \in Range(new)
    <3>. HIDE DEF v
    <3>1. \/ z = x
          \/ z = u /\ v.addr # x.addr
          \/ z = w /\ VmaEnd(v) # VmaEnd(x)
      BY <1>6, <2>2
    <3>. QED  BY <1>3, <1>4, <3>1 DEF Like, Same
  <2>. QED  BY <1>9, <2>1, <2>2
<1>11. ASSUME NEW y \in a .. b - 1
       PROVE  IF x.addr <= y /\ y < VmaEnd(x) THEN NodeAt(r, y) = x
              ELSE Like(NodeAt(r, y), NodeAt(s, y))
  <2>1. y \in Nat
    BY DEF Tiles
  <2>2. CASE v.addr <= y /\ y < VmaEnd(v)
    <3>1. y \in v.addr .. VmaEnd(v) - 1
      BY <1>2, <2>1, <2>2
    <3>2. NodeAt(r, y) = IF y < x.addr THEN u ELSE IF y < VmaEnd(x) THEN x ELSE w
      BY <1>6, <1>9, <2>2, <3>1
    <3>3. NodeAt(s, y) = v
      BY <2>1, <2>2, SearchIs DEF Has, NodeAt
    <3>. HIDE DEF v
    <3>4. y < x.addr => v.addr # x.addr
      BY <2>2, <1>2, <2>1
    <3>5. ~(y < VmaEnd(x)) => VmaEnd(v) # VmaEnd(x)
      BY <2>2, <1>2, <2>1
    <3>6. x.addr <= y <=> ~(y < x.addr)
      BY <1>2, <2>1
    <3>. QED  BY <1>3, <1>4, <3>2, <3>3, <3>4, <3>5, <3>6
  <2>3. CASE ~(v.addr <= y /\ y < VmaEnd(v))
    <3>1. NodeAt(r, y) = NodeAt(s, y)
      BY <1>9, <2>3
    <3>2. ~(x.addr <= y /\ y < VmaEnd(x))
      BY <1>2, <2>1, <2>3
    <3>. QED  BY <3>1, <3>2 DEF Like, Same
  <2>. QED  BY <2>2, <2>3
<1>. QED  BY <1>9, <1>10, <1>11

LEMMA CutSeq ==
  ASSUME NEW v, NEW x \in VmaSet, NEW u, NEW w, v.addr # x.addr => u \in VmaSet,
         VmaEnd(v) # VmaEnd(x) => w \in VmaSet
  PROVE  Cut(v, x, u, w) \in Seq(VmaSet)
<1>. DEFINE new == Cut(v, x, u, w)
            l == v.addr = x.addr
            h == VmaEnd(v) = VmaEnd(x)
<1>1. /\ l /\ h => new = <<x>>
      /\ l /\ ~h => new = <<x, w>>
      /\ ~l /\ h => new = <<u, x>>
      /\ ~l /\ ~h => new = <<u, x, w>>
  BY CutCases
<1>2. (~l => u \in VmaSet) /\ (~h => w \in VmaSet)
  OBVIOUS
<1>3. /\ <<x>> \in Seq(VmaSet)
      /\ ~h => <<x, w>> \in Seq(VmaSet)
      /\ ~l => <<u, x>> \in Seq(VmaSet)
      /\ ~l /\ ~h => <<u, x, w>> \in Seq(VmaSet)
  <2>. HIDE DEF l, h
  <2>1. ASSUME w \in VmaSet PROVE <<x, w>> \in Seq(VmaSet)
    BY <2>1
  <2>2. ASSUME u \in VmaSet PROVE <<u, x>> \in Seq(VmaSet)
    BY <2>2
  <2>3. ASSUME w \in VmaSet, u \in VmaSet PROVE <<u, x, w>> \in Seq(VmaSet)
    BY <2>3
  <2>. QED  BY <1>2, <2>1, <2>2, <2>3
<1>. HIDE DEF new, l, h
<1>4. new \in Seq(VmaSet)
  BY <1>1, <1>3
<1>. QED  BY <1>4 DEF new

\* nvkm_vmm_node_split cuts node i; at is where.
Middle(v, addr, size) == [v EXCEPT !.addr = addr, !.size = size, !.part = @ \/ v.addr # addr]

SplitOK(s, i, addr, size, cut) ==
  LET v == s[i]
      x == cut.ns[cut.at]
  IN  /\ cut.ns \in Seq(VmaSet) /\ cut.at \in 1 .. Len(cut.ns) /\ cut.at = i - 1 + CutAt(v, x)
      /\ x \in VmaSet /\ x.addr = addr /\ VmaEnd(x) = addr + size /\ Like(x, v)
      /\ x.part <=> (v.part \/ v.addr # addr)
      /\ Replaced(s, cut.ns, i, i, Cut(v, x, Left(v, x), Right(v, x, TRUE)))
      /\ \A y \in VmaSet : y.addr = addr /\ VmaEnd(y) = addr + size =>
           Replaced(s, [cut.ns EXCEPT ![cut.at] = y], i, i, Cut(v, y, Left(v, y), Right(v, y, TRUE)))

\* What is cut out may still be changed.
LEMMA SplitUpdated ==
  ASSUME NEW s, NEW a, NEW b, Tiles(s, a, b), NEW i \in 1 .. Len(s),
         NEW addr \in Nat, NEW size \in Nat \ {0}, s[i].addr <= addr, addr + size <= VmaEnd(s[i])
  PROVE  SplitOK(s, i, addr, size, NodeSplit(s, i, addr, size))
<1>. DEFINE cut == NodeSplit(s, i, addr, size)
            v == s[i]
            mid == Middle(v, addr, size)
            u == Left(v, mid)
            w == Right(v, mid, TRUE)
            new == Cut(v, mid, u, w)
            n == CutAt(v, mid)
            ns == cut.ns
            at == cut.at
<1>1. /\ ns = Subst(s, i, i, new) /\ at = i - 1 + n
      /\ mid \in VmaSet /\ mid.addr = addr /\ VmaEnd(mid) = addr + size /\ Like(mid, v)
      /\ mid.part <=> (v.part \/ v.addr # addr)
  <2>. DEFINE before == IF v.addr = addr THEN <<>> ELSE <<Upto(v, addr - v.addr)>>
              tail == [Rest(v, addr + size - v.addr) EXCEPT !.part = TRUE]
              after == IF VmaEnd(v) = addr + size THEN <<>> ELSE <<tail>>
              split == [ns |-> Subst(s, i, i, before \o <<mid>> \o after), at |-> i + Len(before)]
  <2>1. v \in VmaSet
    BY Indices
  <2>2. cut = split
    BY DEF NodeSplit, Middle
  <2>. HIDE DEF v, cut
  <2>0. tail = RestFrom(v, addr + size - v.addr, TRUE)
    BY DEF RestFrom
  <2>. HIDE DEF tail
  <2>3. /\ mid \in VmaSet /\ mid.addr = addr /\ mid.size = size /\ Like(mid, v)
        /\ mid.part <=> (v.part \/ v.addr # addr)
    BY <2>1 DEF VmaSet, Like, Same, Middle
  <2>. HIDE DEF mid
  <2>4. VmaEnd(mid) = addr + size
    BY <2>3 DEF VmaEnd
  <2>5. before \o <<mid>> \o after = new
    <3>1. before = IF v.addr = mid.addr THEN <<>> ELSE <<Left(v, mid)>>
      <4>1. mid.addr = addr
        BY <2>3
      <4>. QED  BY <4>1 DEF Left
    <3>2. after = IF VmaEnd(v) = VmaEnd(mid) THEN <<>> ELSE <<Right(v, mid, TRUE)>>
      <4>1. Right(v, mid, TRUE) = tail
        <5>1. v.addr \in Nat
          BY <2>1 DEF VmaSet
        <5>2. VmaEnd(mid) - v.addr = addr + size - v.addr
          BY <2>4, <5>1
        <5>. QED  BY <2>0, <5>2 DEF Right
      <4>. QED  BY <2>4, <4>1
    <3>. HIDE DEF before, after
    <3>. QED  BY <3>1, <3>2 DEF Cut
  <2>6. i + Len(before) = i - 1 + n
    <3>1. CASE v.addr = addr
      <4>1. Len(before) = 0 /\ n = 1
        BY <2>3, <3>1 DEF CutAt
      <4>. HIDE DEF before, n
      <4>. QED  BY <4>1
    <3>2. CASE v.addr # addr
      <4>1. Len(before) = 1 /\ n = 2
        BY <2>3, <3>2 DEF CutAt
      <4>. HIDE DEF before, n
      <4>. QED  BY <4>1
    <3>. QED  BY <3>1, <3>2
  <2>. HIDE DEF before, after, new, n
  <2>7. split.ns = Subst(s, i, i, before \o <<mid>> \o after) /\ split.at = i + Len(before)
    OBVIOUS
  <2>. QED  BY <2>2, <2>3, <2>4, <2>5, <2>6, <2>7
<1>2. /\ Len(s) \in Nat /\ s \in Seq(VmaSet) /\ v \in VmaSet
      /\ v.addr \in Nat /\ VmaEnd(v) \in Nat /\ v.addr < VmaEnd(v)
      /\ v.addr <= addr /\ addr + size <= VmaEnd(v)
  BY Indices, VmaIs DEF Tiles
<1>. HIDE DEF v, mid, cut
<1>3. v.addr # mid.addr => u \in VmaSet
  BY <1>1, <1>2, LeftIs
<1>4. VmaEnd(v) # VmaEnd(mid) => w \in VmaSet
  BY <1>1, <1>2, RightIs
<1>5. new \in Seq(VmaSet)
  <2>. HIDE DEF u, w
  <2>. QED  BY <1>1, <1>3, <1>4, CutSeq
<1>6. n \in 1 .. Len(new) /\ new[n] = mid
  <2>. HIDE DEF u, w
  <2>. QED  BY CutUpdated
<1>7. i \in i .. Len(s)
  BY <1>2
<1>. HIDE DEF new, u, w
<1>8. Replaced(s, ns, i, i, new)
  BY <1>1, <1>2, <1>5, <1>7, ReplacedIs
<1>. HIDE DEF ns, at
<1>9. /\ ns \in Seq(VmaSet) /\ Len(ns) = Len(s) - (i - i + 1) + Len(new)
      /\ \A k \in 1 .. Len(new) : ns[i - 1 + k] = new[k]
  BY <1>8 DEF Replaced
<1>10. at \in 1 .. Len(ns) /\ ns[at] = mid
  <2>1. Len(new) \in Nat
    BY <1>5, LenProperties
  <2>. HIDE DEF n
  <2>2. at \in 1 .. Len(ns)
    BY <1>1, <1>2, <1>6, <1>9, <2>1
  <2>. QED  BY <1>1, <1>6, <1>9, <2>2
<1>11. ASSUME NEW y \in VmaSet, y.addr = addr, VmaEnd(y) = addr + size
       PROVE  Replaced(s, [ns EXCEPT ![at] = y], i, i, Cut(v, y, Left(v, y), Right(v, y, TRUE)))
  <2>1. Left(v, y) = u /\ Right(v, y, TRUE) = w
    BY <1>1, <1>11 DEF Left, Right, u, w
  <2>2. [new EXCEPT ![n] = y] = Cut(v, y, u, w)
    BY <1>1, <1>11, CutUpdated DEF new
  <2>. HIDE DEF n
  <2>3. Replaced(s, [ns EXCEPT ![i - 1 + n] = y], i, i, [new EXCEPT ![n] = y])
    BY <1>2, <1>5, <1>6, <1>7, <1>8, ReplacedUpdated
  <2>. QED  BY <1>1, <2>1, <2>2, <2>3
<1>. QED  BY <1>1, <1>8, <1>9, <1>10, <1>11 DEF SplitOK, ns, at, cut, v, new, u, w

\* What was cut is put together again, where a region could not be mapped.
LEMMA SubstBack ==
  ASSUME NEW s \in Seq(VmaSet), NEW i \in 1 .. Len(s), NEW new \in Seq(VmaSet), new # <<>>,
         NEW r, Replaced(s, r, i, i, new)
  PROVE  Subst(r, i, i + Len(new) - 1, <<s[i]>>) = s
<1>. DEFINE n == Len(new)
            m == Len(s)
            l == i + n - 1
            one == <<s[i]>>
            t == Subst(r, i, l, one)
<1>1. m \in Nat /\ n \in Nat \ {0} /\ i \in 1 .. m /\ s[i] \in VmaSet
  <2>1. n \in Nat /\ n # 0
    BY LenProperties, EmptySeq
  <2>. QED  BY <2>1, LenProperties, ElementOfSeq
<1>2. /\ r \in Seq(VmaSet) /\ Len(r) = m - (i - i + 1) + n
      /\ \A k \in 1 .. i - 1 : r[k] = s[k]
      /\ \A k \in i + 1 .. m : r[k - (i - i + 1) + n] = s[k]
  BY DEF Replaced
<1>3. one \in Seq(VmaSet) /\ Len(one) = 1 /\ one[1] = s[i]
  BY <1>1
<1>. HIDE DEF n, m, one
<1>4. i \in 1 .. Len(r) /\ l \in i .. Len(r)
  BY <1>1, <1>2
<1>5. /\ t \in Seq(VmaSet) /\ Len(t) = Len(r) - (l - i + 1) + 1
      /\ \A k \in 1 .. i - 1 : t[k] = r[k]
      /\ \A k \in 1 .. 1 : t[i - 1 + k] = one[k]
      /\ \A k \in l + 1 .. Len(r) : t[k - (l - i + 1) + 1] = r[k]
  <2>. HIDE DEF l
  <2>0. r \in Seq(VmaSet) /\ one \in Seq(VmaSet)
    BY <1>2, <1>3
  <2>1. /\ t \in Seq(VmaSet) /\ Len(t) = Len(r) - (l - i + 1) + Len(one)
        /\ \A k \in 1 .. i - 1 : t[k] = r[k]
        /\ \A k \in 1 .. Len(one) : t[i - 1 + k] = one[k]
        /\ \A k \in l + 1 .. Len(r) : t[k - (l - i + 1) + Len(one)] = r[k]
    BY <1>4, <2>0, SubstIs
  <2>. HIDE DEF t
  <2>. QED  BY <1>3, <2>1
<1>. HIDE DEF t
<1>6. Len(t) = m
  BY <1>1, <1>2, <1>5
<1>7. ASSUME NEW k \in 1 .. m PROVE t[k] = s[k]
  <2>1. CASE k < i
    <3>1. k \in 1 .. i - 1
      BY <1>1, <2>1
    <3>. QED  BY <1>2, <1>5, <3>1
  <2>2. CASE k = i
    <3>1. i - 1 + 1 = i /\ 1 \in 1 .. 1
      BY <1>1
    <3>2. t[i - 1 + 1] = one[1]
      BY <1>5, <3>1
    <3>. QED  BY <1>3, <2>2, <3>1, <3>2
  <2>3. CASE i < k
    <3>. DEFINE h == k - (i - i + 1) + n
    <3>1. k \in i + 1 .. m /\ h \in l + 1 .. Len(r) /\ h - (l - i + 1) + 1 = k
      BY <1>1, <1>2, <2>3
    <3>2. r[h] = s[k]
      BY <1>2, <3>1
    <3>. HIDE DEF h
    <3>3. t[h - (l - i + 1) + 1] = r[h]
      BY <1>5, <3>1
    <3>. QED  BY <3>1, <3>2, <3>3
  <2>. QED  BY <1>1, <2>1, <2>2, <2>3
<1>8. t = s
  BY <1>5, <1>6, <1>7, SeqEqual DEF m
<1>. QED  BY <1>8 DEF t, l, one, n

LEMMA VmaEqual ==
  ASSUME NEW v \in VmaSet, NEW w \in VmaSet, v.addr = w.addr, VmaEnd(v) = VmaEnd(w),
         v.part = w.part, Like(v, w)
  PROVE  v = w
<1>1. v.size = w.size
  BY DEF VmaEnd, VmaSet
<1>. QED  BY <1>1 DEF VmaSet, Like, Same

LEMMA SplitUndone ==
  ASSUME NEW s, NEW a, NEW b, Tiles(s, a, b), NEW i \in 1 .. Len(s), ~s[i].mapped, ~s[i].memory,
         NEW addr \in Nat, NEW size \in Nat \ {0}, s[i].addr <= addr, addr + size <= VmaEnd(s[i])
  PROVE  LET cut == NodeSplit(s, i, addr, size)
         IN  UnmapRegion(cut.ns, cut.at) = s
<1>. DEFINE cut == NodeSplit(s, i, addr, size)
            v == s[i]
            ns == cut.ns
            at == cut.at
            x == ns[at]
            u == Left(v, x)
            w == Right(v, x, TRUE)
            new == Cut(v, x, u, w)
            l == v.addr = x.addr
            h == VmaEnd(v) = VmaEnd(x)
            prev == x.part /\ at > 1 /\ ~ns[at - 1].mapped
            next == at < Len(ns) /\ ns[at + 1].part /\ ~ns[at + 1].mapped
<1>1. /\ ns \in Seq(VmaSet) /\ at \in 1 .. Len(ns) /\ Like(x, v) /\ x \in VmaSet
      /\ x.addr = addr /\ VmaEnd(x) = addr + size /\ (x.part <=> (v.part \/ v.addr # addr))
      /\ Replaced(s, ns, i, i, new) /\ at = i - 1 + CutAt(v, x)
  <2>1. SplitOK(s, i, addr, size, cut)
    BY SplitUpdated
  <2>. HIDE DEF cut
  <2>. QED  BY <2>1 DEF SplitOK
<1>2. /\ Len(s) \in Nat /\ s \in Seq(VmaSet) /\ v \in VmaSet
      /\ v.addr \in Nat /\ VmaEnd(v) \in Nat /\ v.addr < VmaEnd(v)
      /\ v.addr <= addr /\ addr + size <= VmaEnd(v) /\ ~v.mapped /\ ~v.memory
      /\ \A k \in 1 .. Len(s) - 1 : Meets(s[k], s[k + 1])
  BY Indices, VmaIs DEF Tiles
<1>. HIDE DEF v, cut, ns, at, x
<1>3. ~l => u \in VmaSet /\ u.addr = v.addr /\ VmaEnd(u) = x.addr /\ Like(u, v) /\ u.part = v.part
  BY <1>1, <1>2, LeftIs
<1>4. ~h => w \in VmaSet /\ w.addr = VmaEnd(x) /\ VmaEnd(w) = VmaEnd(v) /\ Like(w, v) /\ w.part
  <2>. DEFINE q == TRUE
  <2>1. q \in BOOLEAN
    OBVIOUS
  <2>2. w = Right(v, x, q)
    OBVIOUS
  <2>. HIDE DEF w, q
  <2>3. ~h => w \in VmaSet /\ w.addr = VmaEnd(x) /\ VmaEnd(w) = VmaEnd(v) /\ Like(w, v) /\ w.part = q
    BY <1>1, <1>2, <2>1, <2>2, RightIs
  <2>. QED  BY <2>3 DEF q
<1>. HIDE DEF u, w
<1>5. new \in Seq(VmaSet)
  BY <1>1, <1>3, <1>4, CutSeq
<1>6. /\ l /\ h => new = <<x>> /\ at = i
      /\ l /\ ~h => new = <<x, w>> /\ at = i
      /\ ~l /\ h => new = <<u, x>> /\ at = i + 1
      /\ ~l /\ ~h => new = <<u, x, w>> /\ at = i + 1
  <2>. DEFINE n == CutAt(v, x)
  <2>1. /\ l /\ h => new = <<x>> /\ n = 1
        /\ l /\ ~h => new = <<x, w>> /\ n = 1
        /\ ~l /\ h => new = <<u, x>> /\ n = 2
        /\ ~l /\ ~h => new = <<u, x, w>> /\ n = 2
    BY CutCases
  <2>2. at = i - 1 + n /\ i - 1 + 1 = i /\ i - 1 + 2 = i + 1
    BY <1>1
  <2>. HIDE DEF n, new, l, h
  <2>. QED  BY <2>1, <2>2
<1>0. /\ Len(new) \in Nat \ {0} /\ new # <<>>
      /\ h => at = i - 1 + Len(new)
      /\ ~h => at = i + Len(new) - 2 /\ new[Len(new)] = w
      /\ l => at = i
      /\ ~l => at = i + 1 /\ new[1] = u
  <2>1. /\ Len(<<x>>) = 1 /\ Len(<<x, w>>) = 2 /\ Len(<<u, x>>) = 2 /\ Len(<<u, x, w>>) = 3
        /\ <<x, w>>[2] = w /\ <<u, x>>[1] = u /\ <<u, x, w>>[1] = u /\ <<u, x, w>>[3] = w
        /\ <<x>> # <<>> /\ <<x, w>> # <<>> /\ <<u, x>> # <<>> /\ <<u, x, w>> # <<>>
    OBVIOUS
  <2>. HIDE DEF new, l, h
  <2>2. CASE l /\ h
    <3>1. Len(new) = 1 /\ at = i /\ new # <<>>
      BY <1>6, <2>1, <2>2
    <3>. QED  BY <2>2, <3>1
  <2>3. CASE l /\ ~h
    <3>1. Len(new) = 2 /\ at = i /\ new # <<>> /\ new[2] = w
      BY <1>6, <2>1, <2>3
    <3>. QED  BY <2>3, <3>1
  <2>4. CASE ~l /\ h
    <3>1. Len(new) = 2 /\ at = i + 1 /\ new # <<>> /\ new[1] = u
      BY <1>6, <2>1, <2>4
    <3>. QED  BY <2>4, <3>1
  <2>5. CASE ~l /\ ~h
    <3>1. Len(new) = 3 /\ at = i + 1 /\ new # <<>> /\ new[1] = u /\ new[3] = w
      BY <1>6, <2>1, <2>5
    <3>. QED  BY <2>5, <3>1
  <2>. QED  BY <2>2, <2>3, <2>4, <2>5
<1>7. [ns EXCEPT ![at].memory = FALSE, ![at].mapped = FALSE] = ns
  <2>1. ~x.mapped /\ ~x.memory
    BY <1>1, <1>2 DEF Like
  <2>2. [x EXCEPT !.memory = FALSE] = x /\ [x EXCEPT !.mapped = FALSE] = x
    BY <1>1, <2>1 DEF VmaSet
  <2>3. [ns EXCEPT ![at] = x] = ns
    BY <1>1 DEF x
  <2>4. [ns EXCEPT ![at].memory = FALSE] = ns
    BY <2>2, <2>3 DEF x
  <2>5. [ns EXCEPT ![at].mapped = FALSE] = ns
    BY <2>2, <2>3 DEF x
  <2>. QED  BY <2>4, <2>5
<1>8. UnmapRegion(ns, at) = NodeMerge(ns, at, prev, next, x.size).ns
  BY <1>7 DEF UnmapRegion, x
<1>9. /\ Len(ns) = Len(s) - 1 + Len(new)
      /\ \A k \in 1 .. i - 1 : ns[k] = s[k]
      /\ \A k \in 1 .. Len(new) : ns[i - 1 + k] = new[k]
      /\ \A k \in i + 1 .. Len(s) : ns[k - 1 + Len(new)] = s[k]
  <2>1. i - i + 1 = 1
    OBVIOUS
  <2>. HIDE DEF new
  <2>. QED  BY <1>1, <2>1 DEF Replaced
<1>10. l => ~prev
  <2>. SUFFICES ASSUME l, at > 1, x.part PROVE ns[at - 1].mapped
    OBVIOUS
  <2>1. at = i /\ v.part
    BY <1>1, <1>6
  <2>2. i - 1 \in 1 .. Len(s) - 1 /\ i - 1 + 1 = i /\ i - 1 \in 1 .. i - 1
    BY <1>2, <2>1
  <2>3. Meets(s[i - 1], v)
    BY <1>2, <2>2 DEF v
  <2>. QED  BY <1>2, <1>9, <2>1, <2>2, <2>3 DEF Meets
<1>11. h => ~next
  <2>. SUFFICES ASSUME h, at < Len(ns), ns[at + 1].part PROVE ns[at + 1].mapped
    OBVIOUS
  <2>1. Len(new) \in Nat /\ at = i - 1 + Len(new)
    BY <1>0
  <2>. HIDE DEF new
  <2>2. i \in 1 .. Len(s) - 1 /\ i + 1 \in i + 1 .. Len(s) /\ at + 1 = i + 1 - 1 + Len(new)
    BY <1>2, <1>9, <2>1
  <2>3. ns[at + 1] = s[i + 1] /\ Meets(v, s[i + 1])
    BY <1>2, <1>9, <2>2 DEF v
  <2>. QED  BY <1>2, <2>3 DEF Meets
<1>12. ~l => prev /\ ns[at - 1] = u /\ at - 1 = i
  <2>. SUFFICES ASSUME ~l PROVE prev /\ ns[at - 1] = u /\ at - 1 = i
    OBVIOUS
  <2>1. at = i + 1 /\ 1 \in 1 .. Len(new) /\ new[1] = u /\ i - 1 + 1 = i /\ at - 1 = i /\ at > 1
    BY <1>0
  <2>. HIDE DEF new
  <2>2. ns[at - 1] = u
    BY <1>9, <2>1
  <2>. QED  BY <1>1, <1>2, <1>3, <2>1, <2>2 DEF Like
<1>13. ~h => next /\ ns[at + 1] = w
  <2>. SUFFICES ASSUME ~h PROVE next /\ ns[at + 1] = w
    OBVIOUS
  <2>. DEFINE n == Len(new)
  <2>1. n \in Nat \ {0} /\ new[n] = w /\ at + 1 = i - 1 + n
    BY <1>0
  <2>2. Len(ns) = Len(s) - 1 + n
    BY <1>9
  <2>. HIDE DEF new, n
  <2>4. n \in 1 .. n /\ at < Len(ns)
    BY <1>1, <1>2, <2>1, <2>2
  <2>3. ns[at + 1] = w
    BY <1>9, <2>1, <2>4 DEF n
  <2>. QED  BY <1>2, <1>4, <2>3, <2>4 DEF Like
<1>14. /\ \A z \in VmaSet : z.size \in Nat \ {0} /\ z.addr \in Nat
       /\ \A z \in VmaSet : VmaEnd(z) = z.addr + z.size
  BY DEF VmaSet, VmaEnd
<1>15. ns[at] = x
  BY DEF x
<1>16. Subst(ns, i, i + Len(new) - 1, <<v>>) = s
  <2>1. new # <<>>
    BY <1>0
  <2>. HIDE DEF new
  <2>. QED  BY <1>1, <1>2, <1>5, <2>1, SubstBack DEF v
<1>17. ASSUME NEW z \in VmaSet, NEW n \in Nat, Like(z, v), z.addr = v.addr, z.part = v.part,
              VmaEnd(z) + n = VmaEnd(v)
       PROVE  Grow(z, n) = v
  <2>. DEFINE g == Grow(z, n)
  <2>1. z.size + n > 0
    BY <1>14
  <2>2. g \in VmaSet /\ g.addr = z.addr /\ VmaEnd(g) = VmaEnd(z) + n /\ Like(g, z) /\ g.part = z.part
    BY <2>1, GrowIs
  <2>. HIDE DEF g
  <2>3. Like(g, v) /\ g.addr = v.addr /\ VmaEnd(g) = VmaEnd(v) /\ g.part = v.part
    BY <1>17, <2>2 DEF Like, Same
  <2>4. g = v
    BY <1>2, <2>2, <2>3, VmaEqual
  <2>. QED  BY <2>4 DEF g
<1>18. CASE l /\ h
  <2>1. x = v
    <3>1. x.part = v.part
      BY <1>1, <1>2, <1>18 DEF VmaSet
    <3>. QED  BY <1>1, <1>2, <1>18, <3>1, VmaEqual
  <2>2. UnmapRegion(ns, at) = ns
    <3>. HIDE DEF prev, next
    <3>. QED  BY <1>8, <1>10, <1>11, <1>18 DEF NodeMerge
  <2>3. ns = s
    <3>1. new = <<x>> /\ Len(new) = 1 /\ new[1] = v
      BY <1>6, <1>18, <2>1
    <3>. HIDE DEF new
    <3>2. Len(ns) = Len(s)
      BY <1>2, <1>9, <3>1
    <3>3. ASSUME NEW k \in 1 .. Len(s) PROVE ns[k] = s[k]
      <4>1. CASE k < i
        <5>1. k \in 1 .. i - 1
          BY <4>1
        <5>. QED  BY <1>9, <5>1
      <4>2. CASE k = i
        <5>1. i - 1 + 1 = i /\ 1 \in 1 .. 1
          OBVIOUS
        <5>2. ns[i - 1 + 1] = new[1]
          BY <1>9, <3>1, <5>1
        <5>. QED  BY <3>1, <4>2, <5>1, <5>2 DEF v
      <4>3. CASE i < k
        <5>1. k \in i + 1 .. Len(s) /\ k - 1 + 1 = k
          BY <1>2, <4>3
        <5>. QED  BY <1>9, <3>1, <5>1
      <4>. QED  BY <4>1, <4>2, <4>3
    <3>. QED  BY <1>1, <1>2, <3>2, <3>3, SeqEqual
  <2>. QED  BY <2>2, <2>3 DEF ns, at, cut
<1>19. CASE ~l /\ h
  <2>1. UnmapRegion(ns, at) = Subst(ns, i, at, <<Grow(u, x.size)>>)
    <3>1. <<Grow(u, x.size)>> \o <<>> = <<Grow(u, x.size)>>
      <4>. DEFINE g == Grow(u, x.size)
      <4>. HIDE DEF g
      <4>1. <<g>> \o <<>> = <<g>>
        OBVIOUS
      <4>. QED  BY <4>1 DEF g
    <3>. HIDE DEF prev, next
    <3>. QED  BY <1>8, <1>11, <1>12, <1>15, <1>19, <3>1 DEF NodeMerge
  <2>2. Grow(u, x.size) = v
    <3>1. x.size \in Nat /\ VmaEnd(u) + x.size = VmaEnd(v)
      BY <1>1, <1>3, <1>14, <1>19
    <3>. QED  BY <1>3, <1>17, <1>19, <3>1
  <2>3. i + Len(new) - 1 = at
    BY <1>0, <1>19
  <2>. QED  BY <1>16, <2>1, <2>2, <2>3 DEF ns, at, cut
<1>20. CASE l /\ ~h
  <2>1. UnmapRegion(ns, at) = Subst(ns, at, at + 1, <<Grow(x, w.size)>>)
    <3>. HIDE DEF prev, next
    <3>. QED  BY <1>8, <1>10, <1>13, <1>15, <1>20 DEF NodeMerge
  <2>2. Grow(x, w.size) = v
    <3>1. w.size \in Nat /\ VmaEnd(x) + w.size = VmaEnd(v)
      BY <1>1, <1>4, <1>14, <1>20
    <3>2. x.part = v.part
      BY <1>1, <1>2, <1>20 DEF VmaSet
    <3>. QED  BY <1>1, <1>17, <1>20, <3>1, <3>2
  <2>3. i + Len(new) - 1 = at + 1 /\ at = i
    BY <1>0, <1>20
  <2>. QED  BY <1>16, <2>1, <2>2, <2>3 DEF ns, at, cut
<1>21. CASE ~l /\ ~h
  <2>1. UnmapRegion(ns, at) = Subst(ns, i, at + 1, <<Grow(u, x.size + w.size)>>)
    <3>. HIDE DEF prev, next
    <3>. QED  BY <1>8, <1>12, <1>13, <1>15, <1>21 DEF NodeMerge
  <2>2. Grow(u, x.size + w.size) = v
    <3>1. x.size + w.size \in Nat /\ VmaEnd(u) + (x.size + w.size) = VmaEnd(v)
      <4>1. x.size \in Nat /\ w.size \in Nat /\ x.addr \in Nat
        BY <1>1, <1>4, <1>14, <1>21
      <4>2. VmaEnd(x) = x.addr + x.size /\ VmaEnd(w) = w.addr + w.size
        BY <1>1, <1>4, <1>14, <1>21
      <4>. QED  BY <1>3, <1>4, <1>21, <4>1, <4>2
    <3>. QED  BY <1>3, <1>17, <1>21, <3>1
  <2>3. i + Len(new) - 1 = at + 1
    BY <1>0, <1>21
  <2>. QED  BY <1>16, <2>1, <2>2, <2>3 DEF ns, at, cut
<1>. QED  BY <1>18, <1>19, <1>20, <1>21

-----------------------------------------------------------------------------
(* Frames that are mapped and unmapped.                                    *)

\* The page size that a node for PFNs refers its page tables at.
FramePage(map) == IF map THEN Len(PageSize) ELSE NoPage
Framed(v, map) == [v EXCEPT !.mapped = map, !.refd = FramePage(map)]

\* Node i is one for PFNs, not mapped if they are to be, or else mapped.
FramesOf(s, i, map) ==
  /\ s[i].used /\ s[i].mapref /\ ~s[i].memory /\ (s[i].mapped <=> ~map)
  /\ \A k \in 1 .. Len(s) :
       /\ s[k].memory => s[k].mapped
       /\ s[k].mapref /\ ~s[k].memory => s[k].refd = FramePage(s[k].mapped)

\* r is s with the pages from addr on mapped, or unmapped.
FramesSet(s, a, b, r, addr, size, map) ==
  /\ Tiles(r, a, b)
  /\ \A z \in Range(r) : z \in Range(s) \/ z.used
  /\ \A y \in a .. b - 1 :
       LET v == NodeAt(s, y)
           w == NodeAt(r, y)
       IN  IF addr <= y /\ y < addr + size
           THEN Same(w, v) /\ (w.mapped <=> map) /\ ~w.memory /\ w.refd = FramePage(map)
           ELSE Like(w, v)

LEMMA MeetsSame ==
  ASSUME NEW v, NEW x, Same(x, v), v.mapref
  PROVE  /\ \A w : Meets(w, v) /\ (x.part <=> v.part) /\ (v.part => w.mapped \/ x.mapped) => Meets(w, x)
         /\ \A w : Meets(v, w) /\ (w.part => w.mapped \/ x.mapped) => Meets(x, w)
  BY DEF Meets, Same

\* A node that is like another can stand for it.
LEMMA MeetsLike ==
  ASSUME NEW v, NEW x, Like(x, v)
  PROVE  /\ \A w : Meets(w, v) /\ (x.part <=> v.part) => Meets(w, x)
         /\ \A w : Meets(v, w) => Meets(x, w)
  BY DEF Meets, Same, Like

LEMMA FramedIs ==
  ASSUME NEW v \in VmaSet, NEW map \in BOOLEAN
  PROVE  LET x == Framed(v, map)
         IN  /\ x \in VmaSet /\ x.addr = v.addr /\ VmaEnd(x) = VmaEnd(v) /\ Same(x, v)
             /\ (x.part <=> v.part) /\ x.part = v.part /\ (x.mapped <=> map)
             /\ (x.memory <=> v.memory) /\ x.refd = FramePage(map)
<1>1. Len(PageSize) \in Nat
  BY VmmAssumption
<1>2. FramePage(map) \in Idx
  BY <1>1 DEF FramePage, Idx, NoPage
<1>. QED  BY <1>2 DEF Framed, VmaSet, VmaEnd, Same

\* Region i whole, with the regions beside it that are mapped alike.
LEMMA FramesWhole ==
  ASSUME NEW s, NEW a, NEW b, Tiles(s, a, b), NEW i \in 1 .. Len(s), NEW map \in BOOLEAN,
         FramesOf(s, i, map),
         NEW f \in {i - 1, i}, NEW l \in {i, i + 1}, f \in 1 .. Len(s), l \in 1 .. Len(s),
         NEW x, Spans(x, s[f], VmaEnd(s[l])), x.mapped <=> map, ~x.memory, x.refd = FramePage(map),
         f # i => s[i].part /\ ~s[f].memory /\ (s[f].mapped <=> map),
         f = i /\ i > 1 /\ s[i].part => s[i - 1].mapped \/ map,
         l # i => s[l].part /\ ~s[l].memory /\ (s[l].mapped <=> map),
         l = i /\ i < Len(s) /\ s[i + 1].part => s[i + 1].mapped \/ map,
         NEW r, Replaced(s, r, f, l, <<x>>)
  PROVE  FramesSet(s, a, b, r, s[i].addr, s[i].size, map)
<1>1. /\ Len(s) \in Nat /\ l \in f .. Len(s) /\ f \in 1 .. Len(s) /\ l \in 1 .. Len(s)
      /\ x \in VmaSet /\ x.addr = s[f].addr /\ x.part = s[f].part /\ VmaEnd(x) = VmaEnd(s[l])
      /\ Same(x, s[f])
      /\ \A k \in 1 .. Len(s) : s[k] \in VmaSet
      /\ \A k \in 1 .. Len(s) - 1 : Meets(s[k], s[k + 1])
  BY Indices DEF Spans, Tiles
<1>2. \A k \in f + 1 .. l : s[k].part
  BY <1>1
<1>3. \A k \in f .. l : Same(s[k], s[f]) /\ (k # f => s[f].used)
  BY <1>1, <1>2, Allocation
<1>4. i \in f .. l /\ l \in f .. l /\ f \in f .. l
  BY <1>1
<1>5. \A k \in f .. l : s[k].used /\ s[k].mapref /\ Same(x, s[k])
  BY <1>1, <1>3, <1>4 DEF Same, FramesOf
<1>6. f > 1 => Meets(s[f - 1], x)
  <2>. SUFFICES ASSUME f > 1 PROVE Meets(s[f - 1], x)
    OBVIOUS
  <2>1. Meets(s[f - 1], s[f])
    <3>1. f - 1 \in 1 .. Len(s) - 1 /\ f - 1 + 1 = f
      BY <1>1
    <3>. QED  BY <1>1, <3>1
  <2>2. s[f].part => s[f - 1].mapped \/ x.mapped
    <3>1. s[f].part => s[f - 1].mapped \/ s[f].mapped
      BY <2>1 DEF Meets
    <3>. QED  BY <1>1, <3>1
  <2>. QED  BY <1>1, <1>4, <1>5, <2>1, <2>2, MeetsSame
<1>7. l < Len(s) => Meets(x, s[l + 1])
  <2>. SUFFICES ASSUME l < Len(s) PROVE Meets(x, s[l + 1])
    OBVIOUS
  <2>1. Meets(s[l], s[l + 1])
    <3>1. l \in 1 .. Len(s) - 1
      BY <1>1
    <3>. QED  BY <1>1, <3>1
  <2>2. s[l + 1].part => s[l + 1].mapped \/ x.mapped
    <3>1. s[l + 1].part => s[l].mapped \/ s[l + 1].mapped
      BY <2>1 DEF Meets
    <3>. QED  BY <1>1, <3>1
  <2>. QED  BY <1>4, <1>5, <2>1, <2>2, MeetsSame
<1>. DEFINE new == <<x>>
<1>8. /\ Tiles(new, s[f].addr, VmaEnd(s[l])) /\ new # <<>> /\ Len(new) = 1 /\ new[1] = x
      /\ Range(new) = {x} /\ Replaced(s, r, f, l, new)
      /\ \A y \in x.addr .. VmaEnd(x) - 1 : NodeAt(new, y) = x
  <2>1. /\ Tiles(new, x.addr, VmaEnd(x)) /\ new # <<>> /\ Len(new) = 1 /\ new[1] = x
        /\ Range(new) = {x}
        /\ \A y \in x.addr .. VmaEnd(x) - 1 : NodeAt(new, y) = x
    BY <1>1, OneTiles
  <2>. QED  BY <1>1, <2>1
<1>. HIDE DEF new
<1>9. /\ Tiles(r, a, b)
      /\ \A w \in Range(r) : w \in Range(new) \/ \E j \in (1 .. Len(s)) \ (f .. l) : w = s[j]
      /\ \A y \in a .. b - 1 : NodeAt(r, y) =
           IF s[f].addr <= y /\ y < VmaEnd(s[l]) THEN NodeAt(new, y) ELSE NodeAt(s, y)
  <2>1. f > 1 => Meets(s[f - 1], new[1])
    BY <1>6, <1>8
  <2>2. l < Len(s) => Meets(new[Len(new)], s[l + 1])
    BY <1>7, <1>8
  <2>3. f \in 1 .. Len(s) /\ l \in f .. Len(s)
    BY <1>1
  <2>4. Tiles(new, s[f].addr, VmaEnd(s[l])) /\ new # <<>> /\ Replaced(s, r, f, l, new)
    BY <1>8
  <2>5. Tiles(s, a, b)
    OBVIOUS
  <2>. QED  BY ONLY <2>1, <2>2, <2>3, <2>4, <2>5, Exchange
<1>10. \A z \in Range(r) : z \in Range(s) \/ z.used
  <2>1. \A j \in 1 .. Len(s) : s[j] \in Range(s)
    BY Indices
  <2>2. x.used
    BY <1>4, <1>5 DEF Same
  <2>. QED  BY <1>8, <1>9, <2>1, <2>2
<1>11. ASSUME NEW y \in a .. b - 1
       PROVE  LET v == NodeAt(s, y)
                  w == NodeAt(r, y)
              IN  IF s[i].addr <= y /\ y < s[i].addr + s[i].size
                  THEN Same(w, v) /\ (w.mapped <=> map) /\ ~w.memory /\ w.refd = FramePage(map)
                  ELSE Like(w, v)
  <2>. DEFINE j == Search(s, y)
  <2>1. NodeAt(s, y) = s[j] /\ VmaEnd(s[i]) = s[i].addr + s[i].size
    BY DEF NodeAt, VmaEnd
  <2>2. /\ (s[f].addr <= y /\ y < VmaEnd(s[l])) <=> j \in f .. l
        /\ (s[i].addr <= y /\ y < VmaEnd(s[i])) <=> j \in i .. i
        /\ j \in 1 .. Len(s)
    <3>1. i \in i .. Len(s)
      BY <1>1
    <3>. QED  BY <1>1, <3>1, Within, SearchFound
  <2>. HIDE DEF j
  <2>3. y \in Nat /\ x.addr \in Nat /\ VmaEnd(x) \in Nat
    BY <1>1, VmaIs DEF Tiles
  <2>4. j \in f .. l => NodeAt(r, y) = x
    BY <1>1, <1>8, <1>9, <2>2, <2>3
  <2>5. CASE j = i
    <3>1. j \in f .. l /\ j \in i .. i
      BY <1>4, <2>5
    <3>. QED  BY <1>5, <2>1, <2>2, <2>4, <3>1
  <2>6. CASE j # i /\ j \in f .. l
    <3>1. s[j].refd = FramePage(s[j].mapped) /\ (s[j].mapped <=> map) /\ ~s[j].memory
      BY <1>1, <1>5, <2>2, <2>6 DEF FramesOf
    <3>2. s[j].refd = FramePage(map)
      BY <3>1 DEF FramePage
    <3>3. Like(x, s[j])
      <4>1. x.mapped = s[j].mapped /\ x.memory = s[j].memory
        BY <1>1, <2>2, <3>1 DEF VmaSet
      <4>. QED  BY <1>5, <2>6, <3>2, <4>1 DEF Like
    <3>4. j \notin i .. i
      BY <2>6
    <3>. QED  BY <2>1, <2>2, <2>4, <2>6, <3>3, <3>4
  <2>7. CASE j \notin f .. l
    <3>1. NodeAt(r, y) = s[j] /\ j \notin i .. i
      BY <1>4, <1>9, <2>1, <2>2, <2>7
    <3>. QED  BY <2>1, <2>2, <3>1 DEF Like, Same
  <2>. QED  BY <2>5, <2>6, <2>7
<1>. QED  BY <1>9, <1>10, <1>11 DEF FramesSet

\* The end of region i goes to the next, or its beginning to the one before.
Shifts(s, i, f, o, u, w, addr, size, map) ==
  /\ f \in 1 .. Len(s) /\ f + 1 \in 1 .. Len(s) /\ i \in {f, f + 1} /\ s[f + 1].part
  /\ o \in {f, f + 1} /\ o # i /\ ~s[o].memory /\ (s[o].mapped <=> map)
  /\ u \in VmaSet /\ w \in VmaSet /\ addr \in Nat /\ size \in Nat \ {0}
  /\ u.addr = s[f].addr /\ u.part = s[f].part /\ VmaEnd(u) = w.addr
  /\ w.part = s[f + 1].part /\ VmaEnd(w) = VmaEnd(s[f + 1])
  /\ i = f => /\ Like(u, s[f]) /\ Same(w, s[f + 1]) /\ w.addr < s[f + 1].addr
              /\ ~w.memory /\ (w.mapped <=> map) /\ w.refd = FramePage(map)
  /\ o = f => /\ Like(w, s[f + 1]) /\ Same(u, s[f]) /\ s[f + 1].addr < w.addr
              /\ ~u.memory /\ (u.mapped <=> map) /\ u.refd = FramePage(map)
  /\ addr = (IF i = f THEN w.addr ELSE s[f + 1].addr)
  /\ addr + size = (IF i = f THEN s[f + 1].addr ELSE w.addr)

LEMMA FramesTwo ==
  ASSUME NEW s, NEW a, NEW b, Tiles(s, a, b), NEW i \in 1 .. Len(s), NEW map \in BOOLEAN,
         FramesOf(s, i, map), NEW f, NEW o, NEW u, NEW w, NEW addr, NEW size,
         Shifts(s, i, f, o, u, w, addr, size, map),
         NEW r, Replaced(s, r, f, f + 1, <<u, w>>)
  PROVE  FramesSet(s, a, b, r, addr, size, map)
<1>. USE DEF Shifts
<1>. DEFINE l == f + 1
            x == IF i = f THEN w ELSE u
<1>1. /\ Len(s) \in Nat /\ l \in f .. Len(s) /\ f \in 1 .. Len(s) /\ l \in 1 .. Len(s)
      /\ \A k \in 1 .. Len(s) : s[k] \in VmaSet
      /\ \A k \in 1 .. Len(s) - 1 : VmaEnd(s[k]) = s[k + 1].addr /\ Meets(s[k], s[k + 1])
      /\ f \in 1 .. Len(s) - 1
  BY Indices DEF Tiles
<1>2. Meets(s[f], s[l]) /\ VmaEnd(s[f]) = s[l].addr
  BY <1>1
<1>3. /\ s[f].used /\ s[l].used /\ Same(s[f], s[l]) /\ s[f].mapref /\ s[l].mapref
      /\ Same(u, s[f]) /\ Same(w, s[l])
  BY <1>2 DEF Meets, Same, Like, FramesOf
<1>4. /\ s[o].refd = FramePage(map)
      /\ s[o].mapped = map /\ s[i].mapped = ~map
  <2>1. s[o].mapped = map /\ s[i].mapped = ~map
    BY <1>1 DEF FramesOf, VmaSet
  <2>2. s[o].refd = FramePage(s[o].mapped)
    BY <1>1, <1>3 DEF FramesOf
  <2>. QED  BY <2>1, <2>2
<1>5. x.mapped = map /\ x.memory = FALSE /\ x.refd = FramePage(map)
  BY DEF VmaSet
<1>6. Like(x, s[o])
  <2>1. s[o].memory = FALSE
    BY <1>1 DEF VmaSet
  <2>. QED  BY <1>3, <1>4, <1>5, <2>1 DEF Like
<1>7. IF i = f THEN Like(u, s[f]) /\ x = w /\ o = l ELSE Like(w, s[l]) /\ x = u /\ o = f
  OBVIOUS
<1>8. Like(u, s[f]) /\ Like(w, s[l])
  <2>1. CASE i = f
    BY <1>6, <1>7, <2>1
  <2>2. CASE i # f
    BY <1>6, <1>7, <2>2
  <2>. QED  BY <2>1, <2>2
<1>9. Meets(u, w)
  <2>1. u.mapped \/ w.mapped
    BY <1>2, <1>8 DEF Meets, Like
  <2>. QED  BY <1>3, <2>1 DEF Meets, Same
<1>10. f > 1 => Meets(s[f - 1], u)
  <2>. SUFFICES ASSUME f > 1 PROVE Meets(s[f - 1], u)
    OBVIOUS
  <2>1. f - 1 \in 1 .. Len(s) - 1 /\ f - 1 + 1 = f
    BY <1>1
  <2>2. Meets(s[f - 1], s[f])
    BY <1>1, <2>1
  <2>. QED  BY <1>8, <2>2, MeetsLike
<1>11. l < Len(s) => Meets(w, s[l + 1])
  <2>. SUFFICES ASSUME l < Len(s) PROVE Meets(w, s[l + 1])
    OBVIOUS
  <2>1. l \in 1 .. Len(s) - 1
    BY <1>1
  <2>2. Meets(s[l], s[l + 1])
    BY <1>1, <2>1
  <2>. QED  BY <1>8, <2>2, MeetsLike
<1>. DEFINE new == <<u, w>>
<1>12. /\ Tiles(new, s[f].addr, VmaEnd(s[l])) /\ new # <<>> /\ Len(new) = 2 /\ new[1] = u /\ new[2] = w
       /\ Range(new) = {u, w} /\ Replaced(s, r, f, l, new)
       /\ \A y \in u.addr .. VmaEnd(w) - 1 : NodeAt(new, y) = IF y < w.addr THEN u ELSE w
  <2>1. /\ Tiles(new, u.addr, VmaEnd(w)) /\ new # <<>> /\ Len(new) = 2 /\ new[1] = u /\ new[2] = w
        /\ Range(new) = {u, w}
        /\ \A y \in u.addr .. VmaEnd(w) - 1 : NodeAt(new, y) = IF y < w.addr THEN u ELSE w
    BY <1>9, TwoTiles
  <2>. QED  BY <2>1
<1>. HIDE DEF new
<1>13. /\ Tiles(r, a, b)
       /\ \A z \in Range(r) : z \in Range(new) \/ \E j \in (1 .. Len(s)) \ (f .. l) : z = s[j]
       /\ \A y \in a .. b - 1 : NodeAt(r, y) =
            IF s[f].addr <= y /\ y < VmaEnd(s[l]) THEN NodeAt(new, y) ELSE NodeAt(s, y)
  <2>1. f > 1 => Meets(s[f - 1], new[1])
    BY <1>10, <1>12
  <2>2. l < Len(s) => Meets(new[Len(new)], s[l + 1])
    BY <1>11, <1>12
  <2>3. f \in 1 .. Len(s) /\ l \in f .. Len(s)
    BY <1>1
  <2>4. Tiles(new, s[f].addr, VmaEnd(s[l])) /\ new # <<>> /\ Replaced(s, r, f, l, new)
    BY <1>12
  <2>5. Tiles(s, a, b)
    OBVIOUS
  <2>. HIDE DEF l
  <2>. QED  BY ONLY <2>1, <2>2, <2>3, <2>4, <2>5, Exchange
<1>14. \A z \in Range(r) : z \in Range(s) \/ z.used
  <2>1. \A j \in 1 .. Len(s) : s[j] \in Range(s)
    BY Indices
  <2>2. u.used /\ w.used
    BY <1>3 DEF Same
  <2>. QED  BY <1>12, <1>13, <2>1, <2>2
<1>15. ASSUME NEW y \in a .. b - 1
       PROVE  LET v == NodeAt(s, y)
                  z == NodeAt(r, y)
              IN  IF addr <= y /\ y < addr + size
                  THEN Same(z, v) /\ (z.mapped <=> map) /\ ~z.memory /\ z.refd = FramePage(map)
                  ELSE Like(z, v)
  <2>. DEFINE j == Search(s, y)
  <2>1. NodeAt(s, y) = s[j] /\ j \in 1 .. Len(s) /\ s[j].addr <= y /\ y < VmaEnd(s[j])
    BY SearchFound DEF NodeAt, Has
  <2>2. (s[f].addr <= y /\ y < VmaEnd(s[l])) <=> j \in f .. l
    BY <1>1, Within
  <2>. HIDE DEF j
  <2>7. /\ addr = IF i = f THEN w.addr ELSE s[l].addr
        /\ addr + size = IF i = f THEN s[l].addr ELSE w.addr
        /\ IF i = f THEN w.addr < s[l].addr ELSE s[l].addr < w.addr
        /\ VmaEnd(u) = w.addr /\ VmaEnd(s[f]) = s[l].addr
        /\ IF i = f THEN o = l ELSE o = f
    BY <1>2
  <2>8. \A k \in f .. l : k = f \/ k = l
    BY <1>1
  <2>9. addr \in Nat /\ size \in Nat \ {0}
    OBVIOUS
  <2>0. s[f] \in VmaSet /\ s[l] \in VmaSet /\ s[f].addr = u.addr /\ VmaEnd(s[l]) = VmaEnd(w)
    BY <1>1
  <2>10. f # l
    BY <1>1
  <2>. HIDE DEF l
  <2>3. /\ y \in Nat /\ u.addr \in Nat /\ VmaEnd(u) \in Nat /\ w.addr \in Nat /\ VmaEnd(w) \in Nat
        /\ u.addr < VmaEnd(u) /\ w.addr < VmaEnd(w) /\ VmaEnd(s[f]) \in Nat /\ s[f].addr \in Nat
        /\ s[f].addr < VmaEnd(s[f]) /\ VmaEnd(s[l]) \in Nat /\ s[l].addr < VmaEnd(s[l])
        /\ s[l].addr \in Nat
    <3>1. y \in Nat
      BY DEF Tiles
    <3>. QED  BY <2>0, <3>1, VmaIs
  <2>4. CASE j \notin f .. l
    <3>1. NodeAt(r, y) = s[j]
      BY <1>13, <2>1, <2>2, <2>4
    <3>2. ~(addr <= y /\ y < addr + size)
      <4>1. addr >= s[f].addr /\ addr + size <= VmaEnd(s[l])
        BY ONLY <2>0, <2>3, <2>7, <2>9
      <4>. QED  BY ONLY <2>2, <2>3, <2>4, <2>9, <4>1
    <3>. QED  BY <2>1, <3>1, <3>2 DEF Like, Same
  <2>5. CASE j \in f .. l
    <3>. DEFINE z == IF y < w.addr THEN u ELSE w
    <3>1. NodeAt(r, y) = z
      <4>1. s[f].addr <= y /\ y < VmaEnd(s[l]) /\ y \in u.addr .. VmaEnd(w) - 1
        BY ONLY <2>0, <2>2, <2>3, <2>5
      <4>. QED  BY <1>12, <1>13, <4>1
    <3>2. j = f \/ j = l
      BY <2>5, <2>8
    <3>3. IF y < s[l].addr THEN j = f ELSE j = l
      BY <2>1, <2>3, <2>7, <3>2
    <3>4. Same(z, s[j])
      BY <1>3, <3>2 DEF Same
    <3>5. CASE addr <= y /\ y < addr + size
      <4>1. z = x
        BY <2>3, <2>7, <3>5
      <4>. QED  BY <1>5, <2>1, <3>1, <3>4, <3>5, <4>1
    <3>6. CASE ~(addr <= y /\ y < addr + size)
      <4>1. IF j = f THEN z = u ELSE z = w
        <5>1. y < s[l].addr <=> y < w.addr
          BY ONLY <2>3, <2>7, <2>9, <3>6
        <5>. QED  BY <2>10, <3>3, <5>1
      <4>2. Like(z, s[j])
        BY <1>8, <3>2, <4>1 DEF l
      <4>. QED  BY <2>1, <3>1, <3>6, <4>2
    <3>. QED  BY <3>5, <3>6
  <2>. QED  BY <2>4, <2>5
<1>. QED  BY <1>13, <1>14, <1>15 DEF FramesSet

\* Some of region i, where no region beside it is mapped alike.
LEMMA FramesCut ==
  ASSUME NEW s, NEW a, NEW b, Tiles(s, a, b), NEW i \in 1 .. Len(s), NEW map \in BOOLEAN,
         FramesOf(s, i, map),
         NEW addr \in Nat, NEW size \in Nat \ {0}, s[i].addr <= addr, addr + size <= VmaEnd(s[i]),
         addr = s[i].addr /\ i > 1 /\ s[i].part => s[i - 1].mapped \/ map,
         addr + size = VmaEnd(s[i]) /\ i < Len(s) /\ s[i + 1].part => s[i + 1].mapped \/ map,
         NEW x \in VmaSet, x.addr = addr, VmaEnd(x) = addr + size, Same(x, s[i]),
         x.part <=> (s[i].part \/ s[i].addr # addr),
         ~x.memory, x.mapped <=> map, x.refd = FramePage(map),
         NEW r, Replaced(s, r, i, i, Cut(s[i], x, Left(s[i], x), Right(s[i], x, TRUE)))
  PROVE  FramesSet(s, a, b, r, addr, size, map)
<1>0. PICK q \in BOOLEAN : q = TRUE
  OBVIOUS
<1>1. /\ s[i].used /\ s[i].mapref /\ (s[i].mapped <=> ~map) /\ Len(s) \in Nat
      /\ \A k \in 1 .. Len(s) - 1 : Meets(s[k], s[k + 1])
  BY Indices DEF FramesOf, Tiles
<1>2. x.addr # s[i].addr => Meets(s[i], x)
  BY <1>1 DEF Meets, Same
<1>3. x.addr = s[i].addr /\ i > 1 => Meets(s[i - 1], x)
  <2>. SUFFICES ASSUME x.addr = s[i].addr, i > 1 PROVE Meets(s[i - 1], x)
    OBVIOUS
  <2>1. i - 1 \in 1 .. Len(s) - 1 /\ i - 1 + 1 = i
    BY <1>1
  <2>2. Meets(s[i - 1], s[i]) /\ (x.part <=> s[i].part) /\ (s[i].part => s[i - 1].mapped \/ x.mapped)
    <3>1. s[i].part => s[i - 1].mapped \/ s[i].mapped
      BY <1>1, <2>1 DEF Meets
    <3>. QED  BY <1>1, <2>1, <3>1
  <2>. QED  BY <1>1, <2>2, MeetsSame
<1>4. \A w \in VmaSet : Like(w, s[i]) /\ w.part = q => Meets(x, w)
  BY <1>0, <1>1 DEF Meets, Like, Same
<1>5. VmaEnd(x) = VmaEnd(s[i]) /\ i < Len(s) => Meets(x, s[i + 1])
  <2>. SUFFICES ASSUME VmaEnd(x) = VmaEnd(s[i]), i < Len(s) PROVE Meets(x, s[i + 1])
    OBVIOUS
  <2>1. i \in 1 .. Len(s) - 1
    BY <1>1
  <2>2. Meets(s[i], s[i + 1]) /\ (s[i + 1].part => s[i + 1].mapped \/ x.mapped)
    <3>1. s[i + 1].part => s[i].mapped \/ s[i + 1].mapped
      BY <1>1, <2>1 DEF Meets
    <3>. QED  BY <1>1, <2>1, <3>1
  <2>. QED  BY <1>1, <2>2, MeetsSame
<1>6. Replaced(s, r, i, i, Cut(s[i], x, Left(s[i], x), Right(s[i], x, q)))
  BY <1>0
<1>7. s[i].addr <= x.addr /\ VmaEnd(x) <= VmaEnd(s[i]) /\ Tiles(s, a, b) /\ i \in 1 .. Len(s) /\ x \in VmaSet
  OBVIOUS
<1>8. /\ Tiles(r, a, b)
      /\ \A z \in Range(r) : \/ z = x \/ z \in Range(s)
                             \/ z.used = s[i].used /\ z.part \in {s[i].part, q}
      /\ \A y \in a .. b - 1 :
           IF x.addr <= y /\ y < VmaEnd(x) THEN NodeAt(r, y) = x ELSE Like(NodeAt(r, y), NodeAt(s, y))
  BY <1>2, <1>3, <1>4, <1>5, <1>6, <1>7, CutStep
<1>9. \A z \in Range(r) : z \in Range(s) \/ z.used
  BY <1>1, <1>8 DEF Same
<1>10. ASSUME NEW y \in a .. b - 1, addr <= y, y < addr + size
       PROVE  LET v == NodeAt(s, y)
                  w == NodeAt(r, y)
              IN  Same(w, v) /\ (w.mapped <=> map) /\ ~w.memory /\ w.refd = FramePage(map)
  <2>1. NodeAt(r, y) = x
    BY <1>8, <1>10
  <2>2. NodeAt(s, y) = s[i]
    <3>1. y \in Nat /\ s[i].addr \in Nat /\ VmaEnd(s[i]) \in Nat
      BY Indices, VmaIs DEF Tiles
    <3>2. Has(s[i], y)
      BY <1>10, <3>1 DEF Has
    <3>. QED  BY <3>1, <3>2, SearchIs DEF NodeAt
  <2>. QED  BY <2>1, <2>2
<1>11. \A y \in a .. b - 1 : ~(addr <= y /\ y < addr + size) => Like(NodeAt(r, y), NodeAt(s, y))
  BY <1>8
<1>. QED  BY <1>8, <1>9, <1>10, <1>11 DEF FramesSet

\* Entries f to l of s become new, of which k, at j, is then written to.
FramedAt(s, f, l, new, k, j, map) ==
  LET r == PfnMapped(Subst(s, f, l, new), j, map)
  IN  Replaced(s, r, f, l, [new EXCEPT ![k] = Framed(new[k], map)]) /\ r[j] = Framed(new[k], map)

LEMMA FramedReplaced ==
  ASSUME NEW s \in Seq(VmaSet), NEW f \in 1 .. Len(s), NEW l \in f .. Len(s),
         NEW new \in Seq(VmaSet), NEW k \in 1 .. Len(new), NEW map \in BOOLEAN,
         NEW j, j = f - 1 + k
  PROVE  FramedAt(s, f, l, new, k, j, map)
<1>. DEFINE ns == Subst(s, f, l, new)
            y == Framed(new[k], map)
<1>1. Replaced(s, ns, f, l, new)
  BY ReplacedIs
<1>2. /\ ns \in Seq(VmaSet) /\ ns[j] = new[k] /\ new[k] \in VmaSet /\ j \in 1 .. Len(ns)
      /\ j \in DOMAIN ns
  <2>1. /\ ns \in Seq(VmaSet) /\ Len(ns) = Len(s) - (l - f + 1) + Len(new)
        /\ \A h \in 1 .. Len(new) : ns[f - 1 + h] = new[h]
    BY <1>1 DEF Replaced
  <2>2. Len(s) \in Nat /\ Len(new) \in Nat
    BY LenProperties
  <2>. HIDE DEF ns
  <2>3. j \in 1 .. Len(ns)
    BY <2>1, <2>2
  <2>. QED  BY <2>1, <2>3, LenProperties, ElementOfSeq
<1>3. y \in VmaSet
  BY <1>2, FramedIs
<1>. HIDE DEF ns
<1>4. PfnMapped(ns, j, map) = [ns EXCEPT ![j] = y]
  <2>1. [ns EXCEPT ![j].mapped = map, ![j].refd = FramePage(map)]
          = [ns EXCEPT ![j] = [ns[j] EXCEPT !.mapped = map, !.refd = FramePage(map)]]
    BY <1>2
  <2>. QED  BY <1>2, <2>1 DEF PfnMapped, Framed, FramePage
<1>. HIDE DEF y
<1>5. Replaced(s, [ns EXCEPT ![f - 1 + k] = y], f, l, [new EXCEPT ![k] = y])
  BY <1>1, <1>3, ReplacedUpdated
<1>6. Len([ns EXCEPT ![j] = y]) = Len(ns) /\ [ns EXCEPT ![j] = y][j] = y
  BY <1>2, <1>3, Updated
<1>. QED  BY <1>2, <1>4, <1>5, <1>6 DEF ns, y, FramedAt

LEMMA PfnMappedIs ==
  ASSUME NEW ns \in Seq(VmaSet), NEW j \in 1 .. Len(ns), NEW map \in BOOLEAN
  PROVE  PfnMapped(ns, j, map) = [ns EXCEPT ![j] = Framed(ns[j], map)]
<1>1. j \in DOMAIN ns
  BY LenProperties
<1>2. [ns EXCEPT ![j].mapped = map, ![j].refd = FramePage(map)]
        = [ns EXCEPT ![j] = [ns[j] EXCEPT !.mapped = map, !.refd = FramePage(map)]]
  BY <1>1
<1>. QED  BY <1>2 DEF PfnMapped, Framed, FramePage

LEMMA RestBack ==
  ASSUME NEW v \in VmaSet, NEW d \in Nat \ {0}, d <= v.addr
  PROVE  LET w == Rest(v, -d)
         IN  /\ w \in VmaSet /\ w.addr = v.addr - d /\ VmaEnd(w) = VmaEnd(v)
             /\ Like(w, v) /\ w.part = v.part
<1>. DEFINE w == Rest(v, -d)
            x == [v EXCEPT !.addr = v.addr - d, !.size = v.size + d]
<1>1. v.addr \in Nat /\ v.size \in Nat \ {0} /\ VmaEnd(v) = v.addr + v.size
  BY DEF VmaSet, VmaEnd
<1>2. v.addr + (-d) = v.addr - d /\ v.size - (-d) = v.size + d
  BY <1>1
<1>3. w = x
  BY <1>2 DEF Rest
<1>4. v.addr - d \in Nat /\ v.size + d \in Nat \ {0} /\ (v.addr - d) + (v.size + d) = VmaEnd(v)
  BY <1>1
<1>. HIDE DEF w
<1>5. x \in VmaSet /\ x.addr = v.addr - d /\ x.size = v.size + d /\ Like(x, v) /\ x.part = v.part
  BY <1>4 DEF VmaSet, Like, Same
<1>6. VmaEnd(x) = VmaEnd(v)
  BY <1>4, <1>5 DEF VmaEnd
<1>. QED  BY <1>3, <1>5, <1>6 DEF w

\* A call of nvkm_vmm_pfn_split_merge, and what is then written to the node.
LEMMA FramesStep ==
  ASSUME NEW s, NEW a, NEW b, Tiles(s, a, b), NEW i \in 1 .. Len(s), NEW map \in BOOLEAN,
         FramesOf(s, i, map),
         NEW addr \in Nat, NEW size \in Nat \ {0}, s[i].addr <= addr, addr + size <= VmaEnd(s[i])
  PROVE  LET new == PfnSplitMerge(s, i, addr, size, map)
             r == PfnMapped(new.ns, new.at, map)
         IN  FramesSet(s, a, b, r, addr, size, map) /\ r[new.at] \in VmaSet
<1>. DEFINE v == s[i]
            joins(w) == ~w.memory /\ w.mapped = map
            prev == v.addr = addr /\ v.part /\ i > 1 /\ joins(s[i - 1])
            next == VmaEnd(v) = addr + size /\ i < Len(s) /\ s[i + 1].part /\ joins(s[i + 1])
            whole == v.size = size
            new == PfnSplitMerge(s, i, addr, size, map)
            r == PfnMapped(new.ns, new.at, map)
<1>1. /\ Len(s) \in Nat /\ s \in Seq(VmaSet)
      /\ \A k \in 1 .. Len(s) : s[k] \in VmaSet /\ s[k].addr \in Nat /\ s[k].size \in Nat \ {0}
                                /\ VmaEnd(s[k]) = s[k].addr + s[k].size /\ VmaEnd(s[k]) \in Nat
                                /\ s[k].part \in BOOLEAN /\ s[k].mapped \in BOOLEAN
      /\ \A k \in 1 .. Len(s) - 1 : VmaEnd(s[k]) = s[k + 1].addr
  <2>1. \A w \in VmaSet : /\ w.addr \in Nat /\ w.size \in Nat \ {0} /\ VmaEnd(w) = w.addr + w.size
                          /\ VmaEnd(w) \in Nat /\ w.part \in BOOLEAN /\ w.mapped \in BOOLEAN
    BY DEF VmaSet, VmaEnd
  <2>. QED  BY <2>1, Indices DEF Tiles
<1>2. \A k \in 1 .. Len(s) : (s[k].memory => s[k].mapped)
  BY DEF FramesOf
<1>0. /\ v.addr \in Nat /\ v.size \in Nat \ {0} /\ VmaEnd(v) = v.addr + v.size /\ addr \in Nat
      /\ size \in Nat \ {0} /\ v.addr <= addr /\ addr + size <= VmaEnd(v) /\ i \in Int
  BY <1>1
<1>3. whole <=> (v.addr = addr /\ VmaEnd(v) = addr + size)
  <2>. HIDE DEF v
  <2>. QED  BY ONLY <1>0
<1>4. i > 1 => VmaEnd(s[i - 1]) = v.addr
  <2>1. i > 1 => i - 1 \in 1 .. Len(s) - 1 /\ i - 1 + 1 = i
    BY <1>1
  <2>. QED  BY <1>1, <2>1
<1>5. i < Len(s) => VmaEnd(v) = s[i + 1].addr
  <2>1. i < Len(s) => i \in 1 .. Len(s) - 1
    BY <1>1
  <2>. QED  BY <1>1, <2>1
<1>6. ~prev /\ v.addr = addr /\ v.part /\ i > 1 => s[i - 1].mapped \/ map
  <2>1. i > 1 => i - 1 \in 1 .. Len(s)
    BY <1>1
  <2>. QED  BY <1>1, <1>2, <2>1
<1>7. ~next /\ VmaEnd(v) = addr + size /\ i < Len(s) /\ s[i + 1].part => s[i + 1].mapped \/ map
  <2>1. i < Len(s) => i + 1 \in 1 .. Len(s)
    BY <1>1
  <2>. QED  BY <1>1, <1>2, <2>1
<1>8. new = IF prev \/ next THEN NodeMerge(s, i, prev, next, size) ELSE NodeSplit(s, i, addr, size)
  BY DEF PfnSplitMerge
<1>. SUFFICES FramesSet(s, a, b, r, addr, size, map) /\ r[new.at] \in VmaSet
  OBVIOUS
<1>. HIDE DEF new
\* Nodes f to l become one.
<1>. DEFINE One(f, l, d) ==
              /\ f \in {i - 1, i} /\ l \in {i, i + 1} /\ f \in 1 .. Len(s) /\ l \in 1 .. Len(s)
              /\ (IF prev THEN f = i - 1 ELSE f = i) /\ (IF next THEN l = i + 1 ELSE l = i)
              /\ d \in Nat /\ VmaEnd(s[f]) + d = VmaEnd(s[l])
              /\ new.ns = Subst(s, f, l, <<Grow(s[f], d)>>) /\ new.at = f
<1>9. ASSUME whole, NEW f, NEW l, NEW d, One(f, l, d)
      PROVE  FramesSet(s, a, b, r, addr, size, map) /\ r[new.at] \in VmaSet
  <2>. DEFINE g == Grow(s[f], d)
              x == Framed(g, map)
              one == <<g>>
  <2>1. g \in VmaSet /\ g.addr = s[f].addr /\ VmaEnd(g) = VmaEnd(s[l]) /\ Like(g, s[f]) /\ g.part = s[f].part
    <3>0. s[f] \in VmaSet /\ s[f].size \in Nat \ {0} /\ d \in Nat
      BY <1>1, <1>9
    <3>1. d \in Int /\ s[f].size + d > 0
      BY ONLY <3>0
    <3>. QED  BY <1>9, <3>0, <3>1, GrowIs
  <2>. HIDE DEF g
  <2>2. /\ x \in VmaSet /\ x.addr = g.addr /\ VmaEnd(x) = VmaEnd(g) /\ Same(x, g) /\ x.part = g.part
        /\ (x.mapped <=> map) /\ (x.memory <=> g.memory) /\ x.refd = FramePage(map)
    BY <2>1, FramedIs
  <2>3. ~s[f].memory /\ Same(x, s[f])
    BY <1>9, <2>1, <2>2 DEF FramesOf, Like, Same
  <2>. HIDE DEF x
  <2>4. Spans(x, s[f], VmaEnd(s[l])) /\ ~x.memory
    BY <2>1, <2>2, <2>3 DEF Spans, Like
  <2>0. PICK k : k = 1
    OBVIOUS
  <2>5. one \in Seq(VmaSet) /\ Len(one) = 1 /\ one[k] = g /\ [one EXCEPT ![k] = x] = <<x>> /\ k \in 1 .. Len(one)
    BY <2>0, <2>1
  <2>. HIDE DEF one
  <2>6. f - 1 + k = f /\ l \in f .. Len(s) /\ f \in 1 .. Len(s) /\ map \in BOOLEAN /\ s \in Seq(VmaSet)
    BY <1>1, <1>9, <2>0
  <2>7. Replaced(s, r, f, l, <<x>>) /\ r[f] = x
    <3>0. PICK j : j = f
      OBVIOUS
    <3>3. j = f - 1 + k
      BY ONLY <2>6, <3>0
    <3>4. /\ one \in Seq(VmaSet) /\ k \in 1 .. Len(one) /\ l \in f .. Len(s) /\ f \in 1 .. Len(s)
          /\ map \in BOOLEAN /\ s \in Seq(VmaSet)
      BY ONLY <2>5, <2>6
    <3>1. FramedAt(s, f, l, one, k, f, map)
      <4>1. FramedAt(s, f, l, one, k, j, map)
        BY ONLY <3>3, <3>4, FramedReplaced
      <4>. QED  BY <3>0, <4>1
    <3>2. new.ns = Subst(s, f, l, one)
      BY <1>9 DEF one, g
    <3>. QED  BY <1>9, <2>5, <3>1, <3>2 DEF x, FramedAt
  <2>8. /\ f # i => s[i].part /\ ~s[f].memory /\ (s[f].mapped <=> map)
        /\ f = i /\ i > 1 /\ s[i].part => s[i - 1].mapped \/ map
        /\ l # i => s[l].part /\ ~s[l].memory /\ (s[l].mapped <=> map)
        /\ l = i /\ i < Len(s) /\ s[i + 1].part => s[i + 1].mapped \/ map
    BY <1>3, <1>6, <1>7, <1>9
  <2>9. addr = s[i].addr /\ size = s[i].size
    BY <1>3, <1>9
  <2>10. FramesSet(s, a, b, r, s[i].addr, s[i].size, map)
    <3>1. /\ Tiles(s, a, b) /\ i \in 1 .. Len(s) /\ map \in BOOLEAN /\ FramesOf(s, i, map)
          /\ f \in {i - 1, i} /\ l \in {i, i + 1} /\ f \in 1 .. Len(s) /\ l \in 1 .. Len(s)
      BY <1>9
    <3>. HIDE DEF r
    <3>. QED  BY ONLY <2>2, <2>4, <2>7, <2>8, <3>1, FramesWhole
  <2>. QED  BY <1>9, <2>2, <2>7, <2>9, <2>10
<1>10. i - 1 \in {i - 1, i} /\ i \in {i - 1, i} /\ i \in {i, i + 1} /\ i + 1 \in {i, i + 1}
  OBVIOUS
<1>11. /\ prev => i - 1 \in 1 .. Len(s) /\ VmaEnd(s[i - 1]) = v.addr /\ v.addr = addr
       /\ next => i + 1 \in 1 .. Len(s) /\ VmaEnd(v) = s[i + 1].addr /\ VmaEnd(v) = addr + size
  BY <1>1, <1>4, <1>5
<1>12. CASE next /\ whole /\ prev
  <2>. DEFINE d == v.size + s[i + 1].size
  <2>1. new.ns = Subst(s, i - 1, i + 1, <<Grow(s[i - 1], d)>>) /\ new.at = i - 1
    <3>. HIDE DEF prev, next
    <3>. QED  BY <1>8, <1>12 DEF NodeMerge
  <2>2. d \in Nat /\ VmaEnd(s[i - 1]) + d = VmaEnd(s[i + 1])
    <3>1. /\ i - 1 \in 1 .. Len(s) /\ i + 1 \in 1 .. Len(s)
          /\ VmaEnd(s[i - 1]) = v.addr /\ VmaEnd(v) = s[i + 1].addr
      BY <1>11, <1>12
    <3>2. /\ v.addr \in Nat /\ v.size \in Nat /\ VmaEnd(v) = v.addr + v.size /\ s[i + 1].addr \in Nat
          /\ s[i + 1].size \in Nat /\ VmaEnd(s[i + 1]) = s[i + 1].addr + s[i + 1].size
      BY <1>1, <3>1
    <3>3. PICK e, h, m, n, z : /\ e = VmaEnd(s[i - 1]) /\ h = VmaEnd(s[i + 1]) /\ m = v.size /\ n = s[i + 1].size
                               /\ z = v.addr
      OBVIOUS
    <3>4. z \in Nat /\ m \in Nat /\ n \in Nat /\ e = z /\ h = z + m + n
      <4>1. h = s[i + 1].addr + n /\ s[i + 1].addr = VmaEnd(v) /\ VmaEnd(v) = z + m /\ e = z
        BY <3>1, <3>2, <3>3
      <4>. QED  BY <3>2, <3>3, <4>1
    <3>5. m + n \in Nat /\ e + (m + n) = h
      BY ONLY <3>4
    <3>. QED  BY <3>3, <3>5
  <2>. HIDE DEF prev, next, whole, d, r
  <2>3. One(i - 1, i + 1, d)
    BY <1>10, <1>11, <1>12, <2>1, <2>2
  <2>. HIDE DEF One
  <2>. QED  BY <1>9, <1>12, <2>3
<1>13. CASE next /\ whole /\ ~prev
  <2>. DEFINE d == s[i + 1].size
  <2>1. new.ns = Subst(s, i, i + 1, <<Grow(s[i], d)>>) /\ new.at = i
    <3>. HIDE DEF prev, next
    <3>. QED  BY <1>8, <1>13 DEF NodeMerge
  <2>2. d \in Nat /\ VmaEnd(s[i]) + d = VmaEnd(s[i + 1])
    BY <1>1, <1>11, <1>13
  <2>. HIDE DEF prev, next, whole, d, r
  <2>3. One(i, i + 1, d)
    BY <1>10, <1>11, <1>13, <2>1, <2>2
  <2>. HIDE DEF One
  <2>. QED  BY <1>9, <1>13, <2>3
<1>14. CASE prev /\ ~next /\ whole
  <2>. DEFINE d == size
  <2>1. new.ns = Subst(s, i - 1, i, <<Grow(s[i - 1], d)>>) /\ new.at = i - 1
    <3>1. <<Grow(s[i - 1], d)>> \o <<>> = <<Grow(s[i - 1], d)>>
      <4>. DEFINE g == Grow(s[i - 1], d)
      <4>. HIDE DEF g
      <4>1. <<g>> \o <<>> = <<g>>
        OBVIOUS
      <4>. QED  BY <4>1 DEF g
    <3>. HIDE DEF prev, next
    <3>. QED  BY <1>8, <1>14, <3>1 DEF NodeMerge
  <2>2. d \in Nat /\ VmaEnd(s[i - 1]) + d = VmaEnd(s[i])
    BY <1>1, <1>3, <1>11, <1>14
  <2>. HIDE DEF prev, next, whole, d, r
  <2>3. One(i - 1, i, d)
    BY <1>10, <1>11, <1>14, <2>1, <2>2
  <2>. HIDE DEF One
  <2>. QED  BY <1>9, <1>14, <2>3
\* Nodes f and f + 1 remain two, and the second or the first grows.
<1>. DEFINE Two(f, u, w) ==
              /\ f \in 1 .. Len(s) /\ f + 1 \in 1 .. Len(s) /\ i \in {f, f + 1}
              /\ (IF i = f THEN next ELSE prev)
              /\ u \in VmaSet /\ w \in VmaSet /\ Like(u, s[f]) /\ Like(w, s[f + 1])
              /\ u.addr = s[f].addr /\ u.part = s[f].part /\ VmaEnd(u) = w.addr
              /\ w.part = s[f + 1].part /\ VmaEnd(w) = VmaEnd(s[f + 1])
              /\ w.addr = (IF i = f THEN addr ELSE addr + size)
              /\ new.ns = Subst(s, f, f + 1, <<u, w>>) /\ new.at = (IF i = f THEN f + 1 ELSE f)
<1>15. ASSUME ~whole, NEW f, NEW u, NEW w, Two(f, u, w)
       PROVE  FramesSet(s, a, b, r, addr, size, map) /\ r[new.at] \in VmaSet
  <2>. DEFINE o == IF i = f THEN f + 1 ELSE f
              k == IF i = f THEN 2 ELSE 1
              two == <<u, w>>
              x == Framed(two[k], map)
              u2 == IF i = f THEN u ELSE x
              w2 == IF i = f THEN x ELSE w
  <2>1. /\ two \in Seq(VmaSet) /\ Len(two) = 2 /\ two[1] = u /\ two[2] = w
        /\ k \in 1 .. Len(two) /\ f - 1 + k = new.at /\ two[k] \in VmaSet /\ f + 1 \in f .. Len(s)
    BY <1>1, <1>15
  <2>2. [two EXCEPT ![k] = x] = <<u2, w2>>
    <3>. HIDE DEF x
    <3>1. \A y : [<<u, w>> EXCEPT ![1] = y] = <<y, w>> /\ [<<u, w>> EXCEPT ![2] = y] = <<u, y>>
      OBVIOUS
    <3>. QED  BY <3>1
  <2>. HIDE DEF two, k
  <2>3. LET z == two[k] IN
        /\ x \in VmaSet /\ x.addr = z.addr /\ VmaEnd(x) = VmaEnd(z) /\ Same(x, z) /\ x.part = z.part
        /\ (x.mapped <=> map) /\ (x.memory <=> z.memory) /\ x.refd = FramePage(map)
    BY <2>1, FramedIs
  <2>. HIDE DEF x
  <2>4. Replaced(s, r, f, f + 1, <<u2, w2>>) /\ r[new.at] = x
    <3>1. FramedAt(s, f, f + 1, two, k, new.at, map)
      <4>1. s \in Seq(VmaSet) /\ map \in BOOLEAN /\ f \in 1 .. Len(s)
        BY <1>1, <1>15
      <4>. QED  BY ONLY <2>1, <4>1, FramedReplaced
    <3>2. new.ns = Subst(s, f, f + 1, two)
      BY <1>15 DEF two
    <3>. QED  BY <2>2, <3>1, <3>2 DEF x, FramedAt
  <2>. HIDE DEF r
  <2>5. /\ o \in {f, f + 1} /\ o # i /\ ~s[o].memory /\ (s[o].mapped <=> map) /\ s[f + 1].part
    <3>1. CASE i = f
      BY <1>15, <3>1
    <3>2. CASE i # f
      <4>1. i = f + 1 /\ f = i - 1
        BY <1>15, <3>2
      <4>. QED  BY <1>15, <3>2, <4>1
    <3>. QED  BY <3>1, <3>2
  <2>6. CASE i = f
    <3>1. two[k] = w /\ u2 = u /\ w2 = x /\ o = f + 1 /\ o # f
      BY <2>1, <2>6 DEF k
    <3>2. /\ Like(u, s[f]) /\ Same(x, s[f + 1]) /\ x.addr < s[f + 1].addr /\ ~x.memory
          /\ x.addr = w.addr /\ VmaEnd(x) = VmaEnd(w) /\ x.part = w.part
      <4>1. x.addr < s[f + 1].addr
        BY <1>11, <1>15, <2>3, <2>6, <3>1
      <4>2. ~s[f + 1].memory
        BY <1>15, <2>6
      <4>. QED  BY <1>15, <2>3, <3>1, <4>1, <4>2 DEF Like, Same
    <3>3. addr = x.addr /\ addr + size = s[f + 1].addr
      BY <1>11, <1>15, <2>6, <3>2
    <3>4. Replaced(s, r, f, f + 1, <<u, x>>)
      BY <2>4, <3>1
    <3>5. FramesSet(s, a, b, r, addr, size, map)
      <4>0. PICK g : g = o
        OBVIOUS
      <4>1. g \in {f, f + 1} /\ g # i /\ ~s[g].memory /\ (s[g].mapped <=> map) /\ s[f + 1].part
        BY <2>5, <4>0
      <4>2. /\ Tiles(s, a, b) /\ i \in 1 .. Len(s) /\ map \in BOOLEAN /\ FramesOf(s, i, map)
            /\ f \in 1 .. Len(s) /\ f + 1 \in 1 .. Len(s) /\ i \in {f, f + 1}
            /\ u \in VmaSet /\ w \in VmaSet /\ x \in VmaSet /\ addr \in Nat /\ size \in Nat \ {0}
            /\ u.addr = s[f].addr /\ u.part = s[f].part /\ VmaEnd(u) = w.addr
            /\ w.part = s[f + 1].part /\ VmaEnd(w) = VmaEnd(s[f + 1])
        BY <1>15, <2>3
      <4>3. (x.mapped <=> map) /\ x.refd = FramePage(map)
        BY <2>3
      <4>4. g = f + 1
        BY <3>1, <4>0
      <4>. HIDE DEF o, prev, next, whole, u2, w2
      <4>5. /\ i = f => /\ Like(u, s[f]) /\ Same(x, s[f + 1]) /\ x.addr < s[f + 1].addr
                        /\ ~x.memory /\ (x.mapped <=> map) /\ x.refd = FramePage(map)
            /\ g = f => /\ Like(x, s[f + 1]) /\ Same(u, s[f]) /\ s[f + 1].addr < x.addr
                        /\ ~u.memory /\ (u.mapped <=> map) /\ u.refd = FramePage(map)
            /\ addr = (IF i = f THEN x.addr ELSE s[f + 1].addr)
            /\ addr + size = (IF i = f THEN s[f + 1].addr ELSE x.addr)
        BY <2>6, <3>1, <3>2, <3>3, <4>3, <4>4
      <4>6. /\ u.addr = s[f].addr /\ u.part = s[f].part /\ VmaEnd(u) = x.addr
            /\ x.part = s[f + 1].part /\ VmaEnd(x) = VmaEnd(s[f + 1])
        BY <3>2, <4>2
      <4>7. Shifts(s, i, f, g, u, x, addr, size, map)
        BY ONLY <4>1, <4>2, <4>5, <4>6 DEF Shifts
      <4>. QED  BY ONLY <3>4, <4>2, <4>7, FramesTwo
    <3>. QED  BY <2>3, <2>4, <3>5
  <2>7. CASE i # f
    <3>1. two[k] = u /\ u2 = x /\ w2 = w /\ o = f /\ i = f + 1 /\ f = i - 1
      BY <1>15, <2>1, <2>7 DEF k
    <3>2. /\ Like(w, s[f + 1]) /\ Same(x, s[f]) /\ s[f + 1].addr < w.addr /\ ~x.memory
          /\ x.addr = u.addr /\ VmaEnd(x) = VmaEnd(u) /\ x.part = u.part
      <4>1. s[f + 1].addr < w.addr
        BY <1>11, <1>15, <2>7, <3>1
      <4>2. ~s[f].memory
        BY <1>15, <2>7, <3>1
      <4>. QED  BY <1>15, <2>3, <3>1, <4>1, <4>2 DEF Like, Same
    <3>3. addr = s[f + 1].addr /\ addr + size = w.addr
      BY <1>11, <1>15, <2>7, <3>1
    <3>4. Replaced(s, r, f, f + 1, <<x, w>>)
      BY <2>4, <3>1
    <3>5. FramesSet(s, a, b, r, addr, size, map)
      <4>0. PICK g : g = o
        OBVIOUS
      <4>1. g \in {f, f + 1} /\ g # i /\ ~s[g].memory /\ (s[g].mapped <=> map) /\ s[f + 1].part
        BY <2>5, <4>0
      <4>2. /\ Tiles(s, a, b) /\ i \in 1 .. Len(s) /\ map \in BOOLEAN /\ FramesOf(s, i, map)
            /\ f \in 1 .. Len(s) /\ f + 1 \in 1 .. Len(s) /\ i \in {f, f + 1}
            /\ u \in VmaSet /\ w \in VmaSet /\ x \in VmaSet /\ addr \in Nat /\ size \in Nat \ {0}
            /\ u.addr = s[f].addr /\ u.part = s[f].part /\ VmaEnd(u) = w.addr
            /\ w.part = s[f + 1].part /\ VmaEnd(w) = VmaEnd(s[f + 1])
        BY <1>15, <2>3
      <4>3. (x.mapped <=> map) /\ x.refd = FramePage(map)
        BY <2>3
      <4>4. g = f
        BY <3>1, <4>0
      <4>. HIDE DEF o, prev, next, whole, u2, w2
      <4>5. /\ i = f => /\ Like(x, s[f]) /\ Same(w, s[f + 1]) /\ w.addr < s[f + 1].addr
                        /\ ~w.memory /\ (w.mapped <=> map) /\ w.refd = FramePage(map)
            /\ g = f => /\ Like(w, s[f + 1]) /\ Same(x, s[f]) /\ s[f + 1].addr < w.addr
                        /\ ~x.memory /\ (x.mapped <=> map) /\ x.refd = FramePage(map)
            /\ addr = (IF i = f THEN w.addr ELSE s[f + 1].addr)
            /\ addr + size = (IF i = f THEN s[f + 1].addr ELSE w.addr)
        BY <2>7, <3>1, <3>2, <3>3, <4>3, <4>4
      <4>6. /\ x.addr = s[f].addr /\ x.part = s[f].part /\ VmaEnd(x) = w.addr
            /\ w.part = s[f + 1].part /\ VmaEnd(w) = VmaEnd(s[f + 1])
        BY <3>2, <4>2
      <4>7. Shifts(s, i, f, g, x, w, addr, size, map)
        BY ONLY <4>1, <4>2, <4>5, <4>6 DEF Shifts
      <4>. QED  BY ONLY <3>4, <4>2, <4>7, FramesTwo
    <3>. QED  BY <2>3, <2>4, <3>5
  <2>. QED  BY <2>6, <2>7
<1>16. CASE next /\ ~whole
  <2>. DEFINE u == Grow(v, -size)
              w == Rest(s[i + 1], -size)
  <2>1. new.ns = Subst(s, i, i + 1, <<u, w>>) /\ new.at = i + 1
    <3>. HIDE DEF prev, next
    <3>. QED  BY <1>8, <1>16 DEF NodeMerge
  <2>2. u \in VmaSet /\ u.addr = v.addr /\ VmaEnd(u) = VmaEnd(v) + (-size) /\ Like(u, v) /\ u.part = v.part
    <3>1. v.addr # addr
      BY <1>3, <1>11, <1>16
    <3>2. v.size + (-size) > 0 /\ -size \in Int
      <4>. HIDE DEF v
      <4>. QED  BY ONLY <1>0, <3>1
    <3>. QED  BY <1>1, <3>2, GrowIs
  <2>3. /\ w \in VmaSet /\ w.addr = s[i + 1].addr - size /\ VmaEnd(w) = VmaEnd(s[i + 1])
        /\ Like(w, s[i + 1]) /\ w.part = s[i + 1].part
    <3>1. size <= s[i + 1].addr
      BY <1>1, <1>11, <1>16
    <3>. QED  BY <1>1, <1>11, <1>16, <3>1, RestBack
  <2>. HIDE DEF u, w
  <2>4. VmaEnd(u) = w.addr /\ w.addr = addr
    BY <1>1, <1>11, <1>16, <2>2, <2>3
  <2>5. i + 1 \in 1 .. Len(s)
    BY <1>11, <1>16
  <2>. HIDE DEF prev, next, whole, r
  <2>6. Two(i, u, w)
    BY <1>0, <1>16, <2>1, <2>2, <2>3, <2>4, <2>5
  <2>. HIDE DEF Two
  <2>. QED  BY <1>15, <1>16, <2>6
<1>17. CASE prev /\ ~next /\ ~whole
  <2>. DEFINE u == Grow(s[i - 1], size)
              w == Rest(v, size)
              f == i - 1
  <2>1. new.ns = Subst(s, i - 1, i, <<u, w>>) /\ new.at = i - 1
    <3>1. <<u>> \o <<w>> = <<u, w>>
      <4>. HIDE DEF u, w
      <4>. QED  BY PairIs
    <3>. HIDE DEF prev, next
    <3>. QED  BY <1>8, <1>17, <3>1 DEF NodeMerge
  <2>2. /\ u \in VmaSet /\ u.addr = s[f].addr /\ VmaEnd(u) = VmaEnd(s[f]) + size /\ Like(u, s[f])
        /\ u.part = s[f].part
    <3>1. s[f].size \in Nat /\ s[f] \in VmaSet
      BY <1>1, <1>11, <1>17
    <3>2. s[f].size + size > 0 /\ size \in Int
      BY ONLY <1>0, <3>1
    <3>. QED  BY <3>1, <3>2, GrowIs
  <2>3. /\ w \in VmaSet /\ w.addr = v.addr + size /\ VmaEnd(w) = VmaEnd(v)
        /\ Like(w, v) /\ w.part = v.part
    <3>1. size < v.size
      BY <1>1, <1>3, <1>11, <1>17
    <3>. QED  BY <1>1, <3>1, RestIs
  <2>. HIDE DEF u, w
  <2>4. VmaEnd(u) = w.addr /\ w.addr = addr + size
    BY <1>1, <1>11, <1>17, <2>2, <2>3
  <2>5. f \in 1 .. Len(s) /\ f + 1 \in 1 .. Len(s) /\ f + 1 = i /\ f # i
    BY <1>1, <1>11, <1>17
  <2>. HIDE DEF prev, next, whole, r
  <2>6. new.ns = Subst(s, f, f + 1, <<u, w>>) /\ new.at = f
    BY <2>1, <2>5
  <2>. HIDE DEF f
  <2>7. Two(f, u, w)
    BY <1>17, <2>2, <2>3, <2>4, <2>5, <2>6
  <2>. HIDE DEF Two
  <2>. QED  BY <1>15, <1>17, <2>7
<1>18. CASE ~prev /\ ~next
  <2>. DEFINE cut == NodeSplit(s, i, addr, size)
              c == cut.ns[cut.at]
              x == Framed(c, map)
  <2>1. SplitOK(s, i, addr, size, cut)
    BY SplitUpdated
  <2>2. new = cut
    <3>. HIDE DEF prev, next
    <3>. QED  BY <1>8, <1>18
  <2>. HIDE DEF cut
  <2>3. /\ cut.ns \in Seq(VmaSet) /\ cut.at \in 1 .. Len(cut.ns)
        /\ c \in VmaSet /\ c.addr = addr /\ VmaEnd(c) = addr + size /\ Like(c, v)
        /\ c.part <=> (v.part \/ v.addr # addr)
        /\ \A y \in VmaSet : y.addr = addr /\ VmaEnd(y) = addr + size =>
             Replaced(s, [cut.ns EXCEPT ![cut.at] = y], i, i, Cut(v, y, Left(v, y), Right(v, y, TRUE)))
    BY <2>1 DEF SplitOK
  <2>. HIDE DEF c
  <2>4. /\ x \in VmaSet /\ x.addr = c.addr /\ VmaEnd(x) = VmaEnd(c) /\ Same(x, c) /\ x.part = c.part
        /\ (x.mapped <=> map) /\ (x.memory <=> c.memory) /\ x.refd = FramePage(map)
    BY <2>3, FramedIs
  <2>. HIDE DEF x
  <2>5. r = [cut.ns EXCEPT ![cut.at] = x] /\ r[cut.at] = x
    <3>1. r = [cut.ns EXCEPT ![cut.at] = x]
      BY <2>2, <2>3, PfnMappedIs DEF x, c
    <3>. QED  BY <2>3, <3>1
  <2>6. Replaced(s, r, i, i, Cut(v, x, Left(v, x), Right(v, x, TRUE)))
    BY <2>3, <2>4, <2>5
  <2>7. /\ x.addr = addr /\ VmaEnd(x) = addr + size /\ Same(x, v) /\ (x.part <=> (v.part \/ v.addr # addr))
        /\ ~x.memory
    BY <2>3, <2>4 DEF Like, Same, FramesOf
  <2>8. /\ addr = v.addr /\ i > 1 /\ v.part => s[i - 1].mapped \/ map
        /\ addr + size = VmaEnd(v) /\ i < Len(s) /\ s[i + 1].part => s[i + 1].mapped \/ map
    BY <1>6, <1>7, <1>18
  <2>. HIDE DEF prev, next, r
  <2>9. FramesSet(s, a, b, r, addr, size, map)
    BY <2>4, <2>6, <2>7, <2>8, FramesCut
  <2>. QED  BY <2>2, <2>4, <2>5, <2>9
<1>. HIDE DEF prev, next, whole, r
<1>. QED  BY <1>12, <1>13, <1>14, <1>16, <1>17, <1>18

-----------------------------------------------------------------------------
(* The invariant.                                                          *)

\* A free node is no part of an allocation.
FreeWhole(s) == \A v \in Range(s) : ~v.used => ~v.part

\* What is so of the node of each page.
PageOK(v, managed) ==
  /\ ~v.used => /\ ~v.mapref /\ ~v.sparse /\ v.page = NoPage /\ v.refd = NoPage
                /\ ~v.mapped /\ ~v.memory
  /\ v.memory => v.mapped
  /\ v.mapped => v.refd # NoPage
  /\ v.mapped /\ ~v.memory => v.mapref /\ v.refd = Len(PageSize)
  /\ v.sparse /\ ~v.mapref => v.refd # NoPage
  /\ managed > 0 => ~v.sparse

\* The call that loops is at a page that it may be at.
Calls ==
  [pc : {"idle", "pfnmap", "pfnclr", "put"}, start : Nat, limit : Nat, valid : SUBSET Nat]

CallOK(s, op, m, limit) ==
  /\ op \in Calls
  /\ op.pc \in {"pfnmap", "pfnclr"} => op.limit \in 0 .. m /\ op.start \in 0 .. op.limit - 1
  /\ op.pc = "put" => /\ op.start \in 0 .. limit - 1
                      /\ Begins(s, op.start) /\ NodeAt(s, op.start).used

\* The page is of the allocation that nvkm_vmm_put_locked has started to put.
Mine(s, op, a) == op.pc = "put" /\ op.start <= a /\ \A x \in op.start + 1 .. a : ~Begins(s, x)

\* What the page tables map a page of node v to, e, how often each entry is
\* referenced, t, and for sparse ones, n: as the node says, and then less what
\* nvkm_vmm_put_locked has dropped of it.  Nothing is said of a space in which a
\* region that is mapped may fail to be mapped again.
Refs(t, a) == [p \in PageIdx |-> t[p][a]]

Holds(v, e, t, n) ==
  /\ e = IF ~v.mapped THEN Empty(v) ELSE IF v.memory THEN "memory" ELSE "pfn"
  /\ \A p \in PageIdx : t[p] = IF v.refd = p THEN 1 ELSE 0
  /\ n = IF v.sparse /\ v.mapref THEN 1 ELSE 0

Dropped(v, e, t, n) ==
  /\ v.mapref \/ ~v.sparse => e = Empty(v)
  /\ \A p \in PageIdx : t[p] = IF v.sparse /\ ~v.mapref /\ v.refd = p THEN 1 ELSE 0
  /\ n = IF v.sparse /\ v.mapref THEN 1 ELSE 0

TableOK(mine, lost, v, e, t, n) ==
  ~setup.remaps =>
    IF mine THEN ~lost => Dropped(v, e, t, n)
    ELSE (v.mapref /\ ~v.mapped => v.refd = NoPage) /\ (~lost => Holds(v, e, t, n))

\* The blocks of the pages of two page sizes follow each other.
BlocksOK(s, block, limit) ==
  block > 0 =>
    \A x, y \in 0 .. limit - 1 :
      LET v == NodeAt(s, x)
          w == NodeAt(s, y)
      IN  x < y /\ v.used /\ w.used /\ v.page # w.page => x \div block < y \div block

NodesInv == setup \in Setups /\ Tiles(nodes, 0, Limit) /\ FreeWhole(nodes)
PagesInv == \A a \in Addrs : PageOK(NodeAt(nodes, a), setup.managed)
RefsInv == ptrefs \in [PageIdx -> [Addrs -> Int]]
CallInv == CallOK(nodes, vmmop, PfnLimit, Limit)
TablesInv ==
  \A a \in Addrs :
    TableOK(Mine(nodes, vmmop, a), a \in torn, NodeAt(nodes, a), pte[a], Refs(ptrefs, a), sprefs[a])
BlockInv == BlocksOK(nodes, setup.block, Limit)

VmmInv == NodesInv /\ PagesInv /\ RefsInv /\ CallInv /\ TablesInv /\ BlockInv

LEMMA SetupIs ==
  ASSUME setup \in Setups
  PROVE  /\ Limit \in Nat \ {0} /\ setup.managed \in 0 .. Limit /\ setup.block \in Nat
         /\ Len(PageSize) \in Nat \ {0} /\ PageIdx = 1 .. Len(PageSize) /\ Idx = PageIdx \cup {NoPage}
         /\ NoPage \notin PageIdx /\ NoPage \in Idx
         /\ \A p \in PageIdx : PageSize[p] \in Nat \ {0} /\ p \in Idx
         /\ setup.managed > 0 => ~setup.remaps /\ \A k \in setup.kinds : ~k.sparse
         /\ setup.own \in 0 .. Limit - setup.managed
         /\ PfnLimit \in 0 .. Limit
         /\ PfnLimit > 0 => setup.managed > 0
<1>1. PageSize \in Seq(Nat \ {0}) /\ PageSize # <<>>
  BY VmmAssumption
<1>2. Len(PageSize) \in Nat /\ Len(PageSize) # 0 /\ PageIdx = 1 .. Len(PageSize)
  BY <1>1, EmptySeq, LenProperties DEF PageIdx
<1>3. \A p \in PageIdx : PageSize[p] \in Nat \ {0}
  BY <1>1, <1>2, ElementOfSeq
<1>4. Limit \in Nat \ {0} /\ setup.managed \in 0 .. Limit /\ setup.block \in Nat
  BY VmmAssumption DEF Limit
<1>5. /\ setup.managed > 0 => ~setup.remaps /\ \A k \in setup.kinds : ~k.sparse
      /\ setup.own \in 0 .. Limit - setup.managed
  BY VmmAssumption DEF Limit
<1>7. PfnLimit \in 0 .. Limit
  BY <1>4 DEF PfnLimit
<1>8. PfnLimit > 0 => setup.managed > 0
  BY <1>4 DEF PfnLimit
<1>6. Idx = PageIdx \cup {NoPage} /\ NoPage \notin PageIdx
  BY <1>2 DEF Idx, NoPage
<1>. QED  BY <1>2, <1>3, <1>4, <1>5, <1>6, <1>7, <1>8

LEMMA NodePage ==
  ASSUME NEW s, NEW a, NEW b, Tiles(s, a, b), NEW k \in 1 .. Len(s)
  PROVE  /\ s[k].addr \in a .. b - 1 /\ Search(s, s[k].addr) = k /\ NodeAt(s, s[k].addr) = s[k]
         /\ VmaEnd(s[k]) - 1 \in a .. b - 1 /\ NodeAt(s, VmaEnd(s[k]) - 1) = s[k]
         /\ \A x \in a .. b - 1 : s[k].addr <= x /\ x < VmaEnd(s[k]) => Search(s, x) = k /\ NodeAt(s, x) = s[k]
<1>1. s[k].addr \in Nat /\ VmaEnd(s[k]) \in Nat /\ s[k].addr < VmaEnd(s[k])
  BY Indices, VmaIs
<1>2. a <= s[k].addr /\ VmaEnd(s[k]) <= b /\ a \in Nat /\ b \in Nat
  BY TilesOrder DEF Tiles
<1>3. s[k].addr \in a .. b - 1 /\ VmaEnd(s[k]) - 1 \in a .. b - 1
  BY <1>1, <1>2
<1>4. ASSUME NEW x \in a .. b - 1, s[k].addr <= x, x < VmaEnd(s[k])
      PROVE  Search(s, x) = k /\ NodeAt(s, x) = s[k]
  <2>1. x \in Nat /\ Has(s[k], x)
    BY <1>2, <1>4 DEF Has
  <2>. QED  BY <2>1, SearchIs DEF NodeAt
<1>5. s[k].addr <= s[k].addr /\ s[k].addr <= VmaEnd(s[k]) - 1 /\ VmaEnd(s[k]) - 1 < VmaEnd(s[k])
  BY <1>1
<1>. QED  BY <1>1, <1>3, <1>4, <1>5

\* What is known of the nodes of each page is known of each node.
LEMMA NodePages ==
  ASSUME NEW s, NEW a, NEW b, Tiles(s, a, b), NEW m, \A x \in a .. b - 1 : PageOK(NodeAt(s, x), m)
  PROVE  \A k \in 1 .. Len(s) : PageOK(s[k], m)
<1>. TAKE k \in 1 .. Len(s)
<1>1. s[k].addr \in a .. b - 1 /\ NodeAt(s, s[k].addr) = s[k]
  BY NodePage
<1>. QED  BY <1>1

LEMMA PageLike ==
  ASSUME NEW v, NEW w, NEW m, PageOK(v, m), Like(w, v)
  PROVE  PageOK(w, m)
  BY DEF PageOK, Like, Same

LEMMA TableLike ==
  ASSUME NEW mine, NEW lost, NEW v, NEW w, NEW e, NEW t, NEW n, TableOK(mine, lost, v, e, t, n), Like(w, v)
  PROVE  TableOK(mine, lost, w, e, t, n)
  BY DEF TableOK, Holds, Dropped, Empty, Like, Same

LEMMA BlocksLike ==
  ASSUME NEW s, NEW r, NEW block, NEW limit, BlocksOK(s, block, limit),
         \A x \in 0 .. limit - 1 : /\ NodeAt(r, x).used => NodeAt(s, x).used
                                   /\ NodeAt(r, x).used => NodeAt(r, x).page = NodeAt(s, x).page
  PROVE  BlocksOK(r, block, limit)
  BY DEF BlocksOK

\* Counting references.
LEMMA RefsCounted ==
  ASSUME RefsInv, NEW pages, NEW p \in PageIdx, NEW d \in Int, PtesRef(pages, p, d)
  PROVE  /\ ptrefs' \in [PageIdx -> [Addrs -> Int]]
         /\ \A a \in Addrs : \A q \in PageIdx :
              Refs(ptrefs', a)[q] = IF q = p /\ a \in pages THEN Refs(ptrefs, a)[q] + d ELSE Refs(ptrefs, a)[q]
         /\ \A a \in Addrs : a \notin pages => Refs(ptrefs', a) = Refs(ptrefs, a)
<1>. DEFINE new == [a \in Addrs |-> IF a \in pages THEN ptrefs[p][a] + d ELSE ptrefs[p][a]]
<1>1. new \in [Addrs -> Int]
  BY DEF RefsInv
<1>2. ptrefs' = [ptrefs EXCEPT ![p] = new]
  BY DEF PtesRef
<1>3. /\ \A a \in Addrs : new[a] = IF a \in pages THEN ptrefs[p][a] + d ELSE ptrefs[p][a]
  OBVIOUS
<1>. HIDE DEF new
<1>4. /\ ptrefs' \in [PageIdx -> [Addrs -> Int]]
      /\ ptrefs'[p] = new /\ \A q \in PageIdx : q # p => ptrefs'[q] = ptrefs[q]
  BY <1>1, <1>2 DEF RefsInv
<1>5. \A a \in Addrs : \A q \in PageIdx :
        ptrefs'[q][a] = IF q = p /\ a \in pages THEN ptrefs[q][a] + d ELSE ptrefs[q][a]
  BY <1>3, <1>4
<1>6. \A t, a : \A q \in PageIdx : Refs(t, a)[q] = t[q][a]
  BY DEF Refs
<1>7. \A a \in Addrs : a \notin pages => Refs(ptrefs', a) = Refs(ptrefs, a)
  BY <1>5 DEF Refs
<1>. QED  BY <1>4, <1>5, <1>6, <1>7

\* What an action must show of the next state.
LEMMA InvNextIs ==
  ASSUME VmmInv, UNCHANGED setup, Tiles(nodes', 0, Limit), FreeWhole(nodes'),
         \A a \in Addrs : PageOK(NodeAt(nodes', a), setup.managed),
         ptrefs' \in [PageIdx -> [Addrs -> Int]],
         CallOK(nodes', vmmop', PfnLimit, Limit),
         \A a \in Addrs : TableOK(Mine(nodes', vmmop', a), a \in torn', NodeAt(nodes', a), pte'[a],
                                  Refs(ptrefs', a), sprefs'[a]),
         BlocksOK(nodes', setup.block, Limit)
  PROVE  VmmInv'
<1>1. Limit' = Limit /\ Addrs' = Addrs /\ PfnLimit' = PfnLimit
  BY DEF Limit, Addrs, PfnLimit
<1>2. NodesInv'
  BY <1>1 DEF NodesInv, VmmInv
<1>3. PagesInv' /\ RefsInv' /\ CallInv' /\ TablesInv' /\ BlockInv'
  BY <1>1 DEF PagesInv, RefsInv, CallInv, TablesInv, BlockInv, TableOK
<1>. QED  BY <1>2, <1>3 DEF VmmInv

LEMMA NotMine ==
  ASSUME NEW s, NEW op, NEW a, op.pc # "put"
  PROVE  Mine(s, op, a) = FALSE
  BY DEF Mine

LEMMA WindowIs ==
  ASSUME NEW v \in VmaSet, vmmop \in Calls, vmmop.start < VmaEnd(v), vmmop.start < vmmop.limit
  PROVE  LET n == PfnWindow(v)
         IN  /\ n \in Nat \ {0} /\ vmmop.start + n <= VmaEnd(v) /\ vmmop.start + n <= vmmop.limit
             /\ \A a \in Covers(vmmop.start, n) : (a \in vmmop.valid) = (vmmop.start \in vmmop.valid)
<1>. DEFINE s == vmmop.start
            same(a) == (a \in vmmop.valid) = (s \in vmmop.valid)
            last == IF VmaEnd(v) < vmmop.limit THEN VmaEnd(v) ELSE vmmop.limit
            is(n) == /\ \A a \in Covers(s, n) : same(a)
                     /\ s + n = last \/ ~same(s + n)
            S == {n \in 1 .. (last - s) : s + n = last \/ ~same(s + n)}
<1>1. s \in Nat /\ vmmop.limit \in Nat /\ VmaEnd(v) \in Nat /\ last \in Nat /\ s < last
      /\ last <= VmaEnd(v) /\ last <= vmmop.limit
  BY VmaIs DEF Calls
<1>. HIDE DEF s, last
<1>2. last - s \in S /\ S \subseteq Nat
  BY <1>1
<1>3. PICK n \in S : \A m \in S : n <= m
  BY <1>2, LeastNat
<1>4. n \in 1 .. (last - s) /\ (s + n = last \/ ~same(s + n))
  BY <1>3
<1>5. ASSUME NEW a \in Covers(s, n) PROVE same(a)
  <2>1. CASE a = s
    BY <2>1
  <2>2. CASE a # s
    <3>1. a - s \in 1 .. (last - s) /\ a - s < n /\ s + (a - s) = a
      BY <1>1, <1>4, <1>5, <2>2 DEF Covers
    <3>2. a - s \notin S
      BY <1>3, <1>4, <3>1
    <3>. QED  BY <3>1, <3>2
  <2>. QED  BY <2>1, <2>2
<1>6. is(n)
  BY <1>4, <1>5
<1>7. PfnWindow(v) = CHOOSE m \in 1 .. (last - s) : is(m)
  BY DEF PfnWindow, s, last
<1>. HIDE DEF is, S
<1>8. PfnWindow(v) \in 1 .. (last - s) /\ is(PfnWindow(v))
  BY <1>4, <1>6, <1>7
<1>9. \A a \in Covers(s, PfnWindow(v)) : same(a)
  BY <1>8 DEF is
<1>10. /\ PfnWindow(v) \in Nat \ {0} /\ s + PfnWindow(v) <= VmaEnd(v)
       /\ s + PfnWindow(v) <= vmmop.limit
  <2>. DEFINE w == PfnWindow(v)
  <2>1. w \in 1 .. (last - s)
    BY <1>8
  <2>. HIDE DEF w
  <2>2. w \in Nat \ {0} /\ s + w <= VmaEnd(v) /\ s + w <= vmmop.limit
    BY <1>1, <2>1
  <2>. QED  BY <2>2 DEF w
<1>. QED  BY <1>9, <1>10 DEF s

LEMMA PfnNextIs ==
  ASSUME setup \in Setups, CallInv, vmmop.pc \in {"pfnmap", "pfnclr"}, NEW a \in Nat, PfnNext(a), NEW r
  PROVE  CallOK(r, vmmop', PfnLimit, Limit) /\ vmmop'.pc # "put"
<1>1. /\ vmmop \in Calls /\ vmmop.limit \in 0 .. PfnLimit /\ PfnLimit \in 0 .. Limit
      /\ Limit \in Nat
  BY SetupIs DEF CallInv, CallOK
<1>2. CASE a >= vmmop.limit
  <2>1. vmmop' = VmmIdle
    BY <1>2 DEF PfnNext
  <2>. QED  BY <2>1 DEF CallOK, Calls, VmmIdle
<1>3. CASE ~(a >= vmmop.limit)
  <2>1. vmmop' = [vmmop EXCEPT !.start = a]
    BY <1>3 DEF PfnNext
  <2>2. /\ vmmop' \in Calls /\ vmmop'.pc = vmmop.pc /\ vmmop'.limit = vmmop.limit /\ vmmop'.start = a
    BY <1>1, <2>1 DEF Calls
  <2>3. a \in 0 .. vmmop.limit - 1
    BY <1>1, <1>3
  <2>. QED  BY <1>1, <2>2, <2>3 DEF CallOK
<1>. QED  BY <1>2, <1>3

-----------------------------------------------------------------------------
(* Actions that leave the nodes alone.                                     *)

LEMMA CallStep ==
  ASSUME VmmInv, UNCHANGED <<nodes, pte, ptrefs, sprefs, setup, torn>>, vmmop.pc # "put",
         vmmop'.pc # "put", CallOK(nodes', vmmop', PfnLimit, Limit)
  PROVE  VmmInv'
<1>1. NodesInv /\ PagesInv /\ RefsInv /\ TablesInv /\ BlockInv
  BY DEF VmmInv
<1>2. ASSUME NEW a \in Addrs
      PROVE  TableOK(Mine(nodes', vmmop', a), a \in torn', NodeAt(nodes', a), pte'[a], Refs(ptrefs', a),
                     sprefs'[a])
  <2>1. Mine(nodes', vmmop', a) = FALSE /\ Mine(nodes, vmmop, a) = FALSE
    BY NotMine
  <2>2. TableOK(FALSE, a \in torn, NodeAt(nodes, a), pte[a], Refs(ptrefs, a), sprefs[a])
    BY <1>1, <2>1 DEF TablesInv
  <2>. QED  BY <2>1, <2>2
<1>3. /\ Tiles(nodes', 0, Limit) /\ FreeWhole(nodes') /\ ptrefs' \in [PageIdx -> [Addrs -> Int]]
      /\ \A a \in Addrs : PageOK(NodeAt(nodes', a), setup.managed)
      /\ BlocksOK(nodes', setup.block, Limit)
  BY <1>1 DEF NodesInv, PagesInv, RefsInv, BlockInv
<1>. QED  BY <1>2, <1>3, InvNextIs

LEMMA PfnStartStep ==
  ASSUME VmmInv, NEW pc \in {"pfnmap", "pfnclr"}, NEW start \in 0 .. PfnLimit,
         NEW limit \in 0 .. PfnLimit, start < limit, NEW valid,
         valid \subseteq Covers(start, limit - start), PfnStart(pc, start, limit, valid)
  PROVE  VmmInv'
<1>1. PfnLimit \in Nat
  BY SetupIs DEF VmmInv, NodesInv
<1>2. valid \subseteq Nat
  BY <1>1 DEF Covers
<1>3. vmmop' = [pc |-> pc, start |-> start, limit |-> limit, valid |-> valid]
  BY DEF PfnStart
<1>4. vmmop' \in Calls
  BY <1>1, <1>2, <1>3 DEF Calls
<1>5. CallOK(nodes', vmmop', PfnLimit, Limit)
  BY <1>1, <1>3, <1>4 DEF CallOK
<1>6. UNCHANGED <<nodes, pte, ptrefs, sprefs, setup, torn>> /\ vmmop.pc # "put" /\ vmmop'.pc # "put"
  BY <1>3 DEF PfnStart, VmmIdling
<1>. QED  BY <1>5, <1>6, CallStep

\* The node where a call for PFNs is.
LEMMA PfnNode ==
  ASSUME VmmInv, vmmop.pc \in {"pfnmap", "pfnclr"}
  PROVE  LET i == Search(nodes, vmmop.start)
             v == nodes[i]
         IN  /\ i \in 1 .. Len(nodes) /\ v \in VmaSet /\ v.addr <= vmmop.start
             /\ vmmop.start < VmaEnd(v) /\ VmaEnd(v) \in Nat /\ PageOK(v, setup.managed)
             /\ vmmop.start \in Addrs /\ vmmop.start < vmmop.limit /\ vmmop.limit \in Nat
             /\ vmmop \in Calls /\ vmmop.start \in Nat /\ setup.managed > 0 /\ ~setup.remaps
<1>1. /\ Tiles(nodes, 0, Limit) /\ vmmop \in Calls /\ PfnLimit \in 0 .. Limit /\ Limit \in Nat \ {0}
      /\ vmmop.limit \in 0 .. PfnLimit /\ vmmop.start \in 0 .. vmmop.limit - 1
      /\ PfnLimit > 0 => setup.managed > 0 /\ ~setup.remaps
  BY SetupIs DEF VmmInv, NodesInv, CallInv, CallOK
<1>2. /\ vmmop.start \in Addrs /\ vmmop.start < vmmop.limit /\ vmmop.limit \in Nat
      /\ vmmop.start \in Nat /\ setup.managed > 0 /\ ~setup.remaps
  BY <1>1 DEF Addrs
<1>3. /\ Search(nodes, vmmop.start) \in 1 .. Len(nodes)
      /\ NodeAt(nodes, vmmop.start) \in VmaSet /\ Has(NodeAt(nodes, vmmop.start), vmmop.start)
  BY <1>1, <1>2, SearchFound DEF Addrs
<1>4. PageOK(NodeAt(nodes, vmmop.start), setup.managed)
  BY <1>2 DEF VmmInv, PagesInv
<1>5. VmaEnd(NodeAt(nodes, vmmop.start)) \in Nat
  BY <1>3, VmaIs
<1>. QED  BY <1>1, <1>2, <1>3, <1>4, <1>5 DEF NodeAt, Has

LEMMA PfnMapSkipStep ==
  ASSUME VmmInv, PfnMapSkip
  PROVE  VmmInv'
<1>. DEFINE v == nodes[Search(nodes, vmmop.start)]
<1>1. vmmop.pc = "pfnmap" /\ UNCHANGED <<nodes, pte, ptrefs, sprefs, setup, torn>>
      /\ PfnNext(vmmop.start + PfnWindow(v))
  BY DEF PfnMapSkip
<1>2. /\ v \in VmaSet /\ vmmop.start < VmaEnd(v) /\ vmmop.start < vmmop.limit /\ vmmop \in Calls
      /\ vmmop.start \in Nat
  BY <1>1, PfnNode
<1>. HIDE DEF v
<1>3. vmmop.start + PfnWindow(v) \in Nat
  <2>1. PfnWindow(v) \in Nat
    BY <1>2, WindowIs
  <2>. QED  BY <1>2, <2>1
<1>4. setup \in Setups /\ CallInv
  BY DEF VmmInv, NodesInv
<1>5. CallOK(nodes', vmmop', PfnLimit, Limit) /\ vmmop'.pc # "put"
  BY <1>1, <1>3, <1>4, PfnNextIs
<1>. QED  BY <1>1, <1>5, CallStep

-----------------------------------------------------------------------------
(* Putting an allocation: nvkm_vmm_put_locked.                             *)

\* The pages of the node and its parts are those before the next allocation begins.
LEMMA MineIs ==
  ASSUME NEW s, NEW a, NEW b, Tiles(s, a, b), NEW i \in 1 .. Len(s), ~s[i].part, NEW op,
         op.pc = "put", op.start = s[i].addr, NEW y \in a .. b - 1
  PROVE  Mine(s, op, y) <=> Search(s, y) \in PartsOf(s, i)
<1>. DEFINE k == Search(s, y)
            o == s[i].addr
<1>1. /\ Len(s) \in Nat /\ a \in Nat /\ b \in Nat /\ y \in Nat
      /\ \A j \in 1 .. Len(s) : /\ s[j].addr \in Nat /\ VmaEnd(s[j]) \in Nat /\ s[j].addr < VmaEnd(s[j])
                                /\ a <= s[j].addr /\ VmaEnd(s[j]) <= b
      /\ \A j, h \in 1 .. Len(s) : j < h => VmaEnd(s[j]) <= s[h].addr
  <2>1. Len(s) \in Nat /\ a \in Nat /\ b \in Nat /\ y \in Nat
    BY Indices DEF Tiles
  <2>2. \A j \in 1 .. Len(s) : s[j].addr \in Nat /\ VmaEnd(s[j]) \in Nat /\ s[j].addr < VmaEnd(s[j])
    BY Indices, VmaIs
  <2>3. \A j \in 1 .. Len(s) : a <= s[j].addr /\ VmaEnd(s[j]) <= b
    BY TilesOrder
  <2>4. \A j, h \in 1 .. Len(s) : j < h => VmaEnd(s[j]) <= s[h].addr
    BY TilesUnique
  <2>. QED  BY <2>1, <2>2, <2>3, <2>4
<1>2. ASSUME NEW x \in a .. b - 1
      PROVE  /\ Search(s, x) \in 1 .. Len(s) /\ s[Search(s, x)].addr <= x /\ x < VmaEnd(s[Search(s, x)])
             /\ Begins(s, x) <=> s[Search(s, x)].addr = x /\ ~s[Search(s, x)].part
  <2>1. Search(s, x) \in 1 .. Len(s) /\ Has(NodeAt(s, x), x) /\ NodeAt(s, x) = s[Search(s, x)]
    BY SearchFound DEF NodeAt
  <2>. QED  BY <2>1 DEF Has, Begins
<1>3. k \in 1 .. Len(s) /\ s[k].addr <= y /\ y < VmaEnd(s[k])
  BY <1>2
<1>. HIDE DEF k
<1>4. ASSUME k \in i .. Len(s), \A h \in i + 1 .. k : s[h].part PROVE Mine(s, op, y)
  <2>1. o <= y
    <3>1. k = i \/ i < k
      BY <1>4
    <3>. QED  BY <1>1, <1>3, <3>1
  <2>2. ASSUME NEW x \in o + 1 .. y, Begins(s, x) PROVE FALSE
    <3>. DEFINE j == Search(s, x)
    <3>1. x \in a .. b - 1
      BY <1>1, <2>2
    <3>2. j \in 1 .. Len(s) /\ s[j].addr <= x /\ x < VmaEnd(s[j]) /\ s[j].addr = x /\ ~s[j].part
      BY <1>2, <2>2, <3>1
    <3>. HIDE DEF j
    <3>0. x \in Nat /\ o < x /\ x <= y
      BY <1>1, <2>2
    <3>3. ~(k < j)
      <4>1. k < j => VmaEnd(s[k]) <= s[j].addr
        BY <1>1, <1>3, <3>2
      <4>2. VmaEnd(s[k]) \in Nat
        BY <1>1, <1>3
      <4>. QED  BY <1>1, <1>3, <3>0, <3>2, <4>1, <4>2
    <3>4. ~(j < i)
      <4>1. j < i => VmaEnd(s[j]) <= s[i].addr
        BY <1>1, <3>2
      <4>2. VmaEnd(s[j]) \in Nat /\ s[i].addr \in Nat
        BY <1>1, <3>2
      <4>. QED  BY <3>0, <3>2, <4>1, <4>2
    <3>5. j # i
      BY <3>0, <3>2
    <3>6. j \in i + 1 .. k
      BY <1>3, <3>2, <3>3, <3>4, <3>5
    <3>. QED  BY <1>4, <3>2, <3>6
  <2>. QED  BY <2>1, <2>2 DEF Mine
<1>5. ASSUME Mine(s, op, y) PROVE k \in i .. Len(s) /\ \A h \in i + 1 .. k : s[h].part
  <2>1. o <= y /\ \A x \in o + 1 .. y : ~Begins(s, x)
    BY <1>5 DEF Mine
  <2>2. ~(k < i)
    BY <1>1, <1>3, <2>1
  <2>3. ASSUME NEW h \in i + 1 .. k PROVE s[h].part
    <3>1. h \in 1 .. Len(s) /\ i < h /\ (h = k \/ h < k)
      BY <1>3, <2>3
    <3>2. s[h].addr \in o + 1 .. y
      <4>1. VmaEnd(s[i]) <= s[h].addr /\ s[h].addr <= s[k].addr
        <5>1. h < k => VmaEnd(s[h]) <= s[k].addr /\ s[h].addr < VmaEnd(s[h])
          BY <1>1, <1>3, <3>1
        <5>2. VmaEnd(s[h]) \in Nat /\ s[h].addr \in Nat /\ s[k].addr \in Nat
          BY <1>1, <1>3, <3>1
        <5>3. VmaEnd(s[i]) <= s[h].addr
          BY <1>1, <3>1
        <5>. QED  BY <3>1, <5>1, <5>2, <5>3
      <4>2. /\ o \in Nat /\ VmaEnd(s[i]) \in Nat /\ o < VmaEnd(s[i]) /\ s[h].addr \in Nat
            /\ s[k].addr \in Nat /\ y \in Nat /\ s[k].addr <= y
        BY <1>1, <1>3, <3>1
      <4>. HIDE DEF o
      <4>. QED  BY ONLY <4>1, <4>2
    <3>3. NodeAt(s, s[h].addr) = s[h]
      BY <3>1, NodePage
    <3>. QED  BY <2>1, <3>2, <3>3 DEF Begins
  <2>. QED  BY <1>3, <2>2, <2>3
<1>6. k \in PartsOf(s, i) <=> k \in i .. Len(s) /\ \A h \in i + 1 .. k : s[h].part
  BY DEF PartsOf
<1>. QED  BY <1>4, <1>5, <1>6 DEF k

\* What is dropped when the allocation of node i starts to be put.
LEMMA VmmPutTables ==
  ASSUME VmmInv, NEW i \in 1 .. Len(nodes), VmmPut(i), NEW a \in Addrs
  PROVE  TableOK(Mine(nodes', vmmop', a), a \in torn', NodeAt(nodes', a), pte'[a], Refs(ptrefs', a),
                 sprefs'[a])
<1>0. SUFFICES ASSUME ~setup.remaps
               PROVE  TableOK(Mine(nodes', vmmop', a), a \in torn', NodeAt(nodes', a), pte'[a], Refs(ptrefs', a),
                              sprefs'[a])
  BY DEF TableOK
<1>. DEFINE v == nodes[i]
            w == NodeAt(nodes, a)
            k == Search(nodes, a)
            whole == v.mapref \/ ~v.sparse
            held(x) == \E j \in PartsOf(nodes, i) :
                         /\ x \in Covers(nodes[j].addr, nodes[j].size)
                         /\ nodes[j].refd # NoPage
            mine == Mine(nodes', vmmop', a)
            e == pte[a]
            t == Refs(ptrefs, a)
            n == sprefs[a]
<1>1. /\ vmmop.pc = "idle" /\ v.used /\ ~v.part /\ UNCHANGED <<nodes, sprefs, setup, torn>>
      /\ vmmop' = [VmmIdle EXCEPT !.pc = "put", !.start = v.addr]
      /\ IF whole
         THEN /\ ptrefs' = [p \in PageIdx |-> [x \in Addrs |->
                            IF held(x) /\ nodes[Search(nodes, x)].refd = p THEN ptrefs[p][x] - 1
                            ELSE ptrefs[p][x]]]
              /\ pte' = [x \in Addrs |-> IF held(x) /\ nodes[Search(nodes, x)].mapped THEN Empty(v) ELSE pte[x]]
         ELSE UNCHANGED <<ptrefs, pte>>
  BY DEF VmmPut, VmmIdling
<1>2. Tiles(nodes, 0, Limit) /\ Addrs = 0 .. Limit - 1 /\ PageOK(w, setup.managed)
  BY DEF VmmInv, NodesInv, PagesInv, Addrs
<1>3. k \in 1 .. Len(nodes) /\ w = nodes[k]
  BY <1>2, SearchFound DEF NodeAt
<1>4. (w.mapref /\ ~w.mapped => w.refd = NoPage) /\ (a \notin torn => Holds(w, e, t, n))
  <2>1. Mine(nodes, vmmop, a) = FALSE
    BY <1>1, NotMine
  <2>2. TableOK(FALSE, a \in torn, w, e, t, n)
    BY <2>1 DEF VmmInv, TablesInv
  <2>. QED  BY <1>0, <2>2 DEF TableOK
<1>5. mine <=> k \in PartsOf(nodes, i)
  <2>1. vmmop'.pc = "put" /\ vmmop'.start = nodes[i].addr
    BY <1>1 DEF VmmIdle
  <2>. QED  BY <1>1, <1>2, <2>1, MineIs
<1>6. held(a) <=> mine /\ w.refd # NoPage
  <2>1. ASSUME NEW j \in PartsOf(nodes, i), a \in Covers(nodes[j].addr, nodes[j].size)
        PROVE  j = k
    <3>1. Len(nodes) \in Nat
      BY <1>2, Indices
    <3>2. j \in 1 .. Len(nodes)
      BY <2>1, <3>1 DEF PartsOf
    <3>3. nodes[j].addr <= a /\ a < VmaEnd(nodes[j])
      <4>1. nodes[j].addr \in Nat /\ nodes[j].size \in Nat /\ a \in Int
        <5>1. nodes[j] \in VmaSet /\ Limit \in Nat
          BY <1>2, <3>2, Indices DEF Tiles
        <5>. QED  BY <1>2, <5>1 DEF VmaSet
      <4>. QED  BY <2>1, <4>1 DEF Covers, VmaEnd
    <3>. QED  BY <1>2, <3>2, <3>3, NodePage
  <2>2. k \in PartsOf(nodes, i) => a \in Covers(nodes[k].addr, nodes[k].size)
    <3>1. nodes[k] \in VmaSet /\ Has(nodes[k], a) /\ Limit \in Nat
      BY <1>2, <1>3, SearchFound DEF Tiles
    <3>2. nodes[k].addr \in Nat /\ nodes[k].size \in Nat /\ a \in Int
      BY <1>2, <3>1 DEF VmaSet
    <3>. QED  BY <3>1, <3>2 DEF Has, VmaEnd, Covers
  <2>. HIDE DEF k, w
  <2>. QED  BY <1>3, <1>5, <2>1, <2>2
<1>7. mine => Same(w, v)
  <2>. SUFFICES ASSUME mine PROVE Same(w, v)
    OBVIOUS
  <2>1. k \in i .. Len(nodes) /\ \A h \in i + 1 .. k : nodes[h].part
    BY <1>5 DEF PartsOf
  <2>2. k \in i .. k /\ i \in 1 .. Len(nodes)
    BY <2>1
  <2>. HIDE DEF k
  <2>3. Same(nodes[k], nodes[i])
    BY <1>2, <2>1, <2>2, Allocation
  <2>. QED  BY <1>3, <2>3
<1>. HIDE DEF held, mine, w, k, v
<1>8. CASE ~mine
  <2>1. ~held(a)
    BY <1>6, <1>8
  <2>2. pte'[a] = e
    BY <1>1, <2>1 DEF k
  <2>3. Refs(ptrefs', a) = t
    BY <1>1, <2>1 DEF Refs
  <2>4. TableOK(FALSE, a \in torn, w, e, t, n)
    BY <1>0, <1>4 DEF TableOK
  <2>5. mine = FALSE /\ nodes' = nodes /\ torn' = torn /\ sprefs' = sprefs
    BY <1>1, <1>8 DEF mine, Mine
  <2>. QED  BY <2>2, <2>3, <2>4, <2>5 DEF mine, w
<1>9. CASE mine /\ a \notin torn
  <2>1. Holds(w, e, t, n) /\ Same(w, v)
    BY <1>4, <1>7, <1>9
  <2>2. CASE whole
    <3>1. w.mapref \/ ~w.sparse
      BY <2>1, <2>2 DEF Same
    <3>2. pte'[a] = Empty(w)
      <4>1. Empty(v) = Empty(w)
        BY <2>1 DEF Same, Empty
      <4>2. pte'[a] = IF held(a) /\ w.mapped THEN Empty(w) ELSE e
        BY <1>1, <1>3, <2>2, <4>1 DEF k
      <4>3. ~w.mapped => e = Empty(w)
        BY <2>1 DEF Holds
      <4>4. w.mapped => held(a)
        BY <1>2, <1>6, <1>9 DEF PageOK
      <4>. QED  BY <4>2, <4>3, <4>4
    <3>3. \A p \in PageIdx : Refs(ptrefs', a)[p] = 0
      <4>. TAKE p \in PageIdx
      <4>1. t[p] = ptrefs[p][a] /\ Refs(ptrefs', a)[p] = ptrefs'[p][a]
        BY DEF Refs
      <4>2. ptrefs'[p][a] = IF held(a) /\ w.refd = p THEN ptrefs[p][a] - 1 ELSE ptrefs[p][a]
        BY <1>1, <1>3, <2>2 DEF k
      <4>3. t[p] = IF w.refd = p THEN 1 ELSE 0
        BY <2>1 DEF Holds
      <4>4. w.refd = p => held(a)
        <5>1. p # NoPage
          BY SetupIs DEF VmmInv, NodesInv
        <5>. QED  BY <1>6, <1>9, <5>1
      <4>. HIDE DEF t
      <4>. QED  BY <4>1, <4>2, <4>3, <4>4
    <3>4. Dropped(w, pte'[a], Refs(ptrefs', a), sprefs'[a])
      <4>1. sprefs'[a] = n
        BY <1>1
      <4>. QED  BY <2>1, <3>1, <3>2, <3>3, <4>1 DEF Dropped, Holds
    <3>. QED  BY <1>1, <1>9, <3>4 DEF TableOK, mine, w
  <2>3. CASE ~whole
    <3>1. ~w.mapref /\ w.sparse
      BY <2>1, <2>3 DEF Same
    <3>2. Dropped(w, e, t, n)
      BY <2>1, <3>1 DEF Dropped, Holds
    <3>3. UNCHANGED <<ptrefs, pte, sprefs, nodes, torn>>
      BY <1>1, <2>3
    <3>. QED  BY <1>9, <3>2, <3>3 DEF TableOK, mine, w
  <2>. QED  BY <2>2, <2>3
<1>10. CASE mine /\ a \in torn
  BY <1>1, <1>10 DEF TableOK, mine
<1>. QED  BY <1>8, <1>9, <1>10

LEMMA VmmPutStep ==
  ASSUME VmmInv, NEW i \in DOMAIN nodes, VmmPut(i)
  PROVE  VmmInv'
<1>1. Tiles(nodes, 0, Limit) /\ setup \in Setups /\ RefsInv
  BY DEF VmmInv, NodesInv
<1>2. i \in 1 .. Len(nodes) /\ nodes[i] \in VmaSet
  BY <1>1, Indices
<1>3. /\ nodes[i].used /\ ~nodes[i].part /\ UNCHANGED <<nodes, sprefs, setup, torn>>
      /\ vmmop' = [VmmIdle EXCEPT !.pc = "put", !.start = nodes[i].addr]
  BY DEF VmmPut
<1>4. CallOK(nodes', vmmop', PfnLimit, Limit)
  <2>1. nodes[i].addr \in 0 .. Limit - 1 /\ NodeAt(nodes, nodes[i].addr) = nodes[i]
    BY <1>1, <1>2, NodePage
  <2>2. vmmop'.pc = "put" /\ vmmop'.start = nodes[i].addr /\ vmmop' \in Calls
    BY <1>2, <1>3, <2>1 DEF VmmIdle, Calls, VmaSet
  <2>. QED  BY <1>3, <2>1, <2>2 DEF CallOK, Begins
<1>5. ptrefs' \in [PageIdx -> [Addrs -> Int]]
  <2>. DEFINE hits(p, a) == /\ \E j \in PartsOf(nodes, i) :
                                 /\ a \in Covers(nodes[j].addr, nodes[j].size)
                                 /\ nodes[j].refd # NoPage
                            /\ nodes[Search(nodes, a)].refd = p
  <2>1. \/ ptrefs' = ptrefs
        \/ ptrefs' = [p \in PageIdx |-> [a \in Addrs |-> IF hits(p, a) THEN ptrefs[p][a] - 1 ELSE ptrefs[p][a]]]
    BY DEF VmmPut
  <2>. HIDE DEF hits
  <2>. QED  BY <1>1, <2>1 DEF RefsInv
<1>6. /\ Tiles(nodes', 0, Limit) /\ FreeWhole(nodes')
      /\ \A a \in Addrs : PageOK(NodeAt(nodes', a), setup.managed)
      /\ BlocksOK(nodes', setup.block, Limit)
  BY <1>3 DEF VmmInv, NodesInv, PagesInv, BlockInv
<1>7. \A a \in Addrs : TableOK(Mine(nodes', vmmop', a), a \in torn', NodeAt(nodes', a), pte'[a],
                               Refs(ptrefs', a), sprefs'[a])
  BY <1>2, VmmPutTables
<1>8. UNCHANGED setup
  BY <1>3
<1>. QED  BY <1>4, <1>5, <1>6, <1>7, <1>8, InvNextIs

-----------------------------------------------------------------------------
(* Regions that are unmapped, one at a time.                               *)

\* What is so after it: nodes f to l are x now.
UnmappedOK(r, i, q, f, l, x) ==
  /\ UnmapsTo(nodes, i, q, f, l, x) /\ \A k \in f + 1 .. l : nodes[k].part
  /\ Tiles(r, 0, Limit) /\ FreeWhole(r) /\ BlocksOK(r, setup.block, Limit)
  /\ \A a \in Addrs : PageOK(NodeAt(r, a), setup.managed) /\ Begins(r, a) = Begins(nodes, a)
  /\ \A a \in Addrs :
       LET v == NodeAt(nodes, a)
       IN  IF Search(nodes, a) \in f .. l
           THEN /\ NodeAt(r, a) = x /\ Same(x, v) /\ (~v.mapref => x.refd = v.refd)
                /\ Search(nodes, a) = i \/ ~v.mapped
           ELSE NodeAt(r, a) = v

LEMMA UnmapNodes ==
  ASSUME VmmInv, NEW i \in 1 .. Len(nodes), nodes[i].mapped, NEW q \in Idx,
         ~nodes[i].mapref => q = nodes[i].refd,
         NEW z \in VmaSet, z = Refd(nodes[i], q), NEW r, r = Unmapping(nodes, i, z)
  PROVE  \E f, l, x : UnmappedOK(r, i, q, f, l, x)
<1>1. /\ Tiles(nodes, 0, Limit) /\ FreeWhole(nodes) /\ Addrs = 0 .. Limit - 1
      /\ \A a \in Addrs : PageOK(NodeAt(nodes, a), setup.managed)
      /\ BlocksOK(nodes, setup.block, Limit)
  BY DEF VmmInv, NodesInv, PagesInv, BlockInv, Addrs
<1>2. \A k \in 1 .. Len(nodes) : PageOK(nodes[k], setup.managed)
  BY <1>1, NodePages
<1>3. nodes[i].used
  BY <1>2 DEF PageOK
<1>4. \A k \in 1 .. Len(nodes) : nodes[k].memory => nodes[k].mapped
  BY <1>2 DEF PageOK
<1>5. PICK f \in {i - 1, i}, l \in {i, i + 1}, x \in VmaSet :
        UnmapsTo(nodes, i, q, f, l, x) /\ Replaced(nodes, r, f, l, <<x>>)
  <2>1. /\ Tiles(nodes, 0, Limit) /\ \A k \in 1 .. Len(nodes) : nodes[k].memory => nodes[k].mapped
        /\ i \in 1 .. Len(nodes) /\ q \in Idx /\ z \in VmaSet /\ z = Refd(nodes[i], q)
        /\ r = Unmapping(nodes, i, z)
    BY <1>1, <1>4
  <2>. QED  BY ONLY <2>1, UnmapShape
<1>6. /\ Tiles(r, 0, Limit)
      /\ \A w \in Range(r) : w = x \/ w \in Range(nodes)
      /\ \A y \in 0 .. Limit - 1 :
           LET v == NodeAt(nodes, y)
           IN  IF nodes[f].addr <= y /\ y < VmaEnd(nodes[l])
               THEN /\ NodeAt(r, y) = x /\ Same(x, v) /\ (~v.mapref => x.refd = v.refd)
                    /\ Search(nodes, y) \in f .. l /\ (v = nodes[i] \/ ~v.mapped)
               ELSE NodeAt(r, y) = v
      /\ \A y \in 0 .. Limit - 1 : Begins(r, y) = Begins(nodes, y)
      /\ x.used
      /\ \A k \in f + 1 .. l : nodes[k].part
      /\ \A k \in f .. l : Same(x, nodes[k]) /\ (~nodes[k].mapref => x.refd = nodes[k].refd)
  <2>1. Tiles(nodes, 0, Limit) /\ i \in 1 .. Len(nodes) /\ q \in Idx /\ nodes[i].mapped /\ nodes[i].used
        /\ (~nodes[i].mapref => q = nodes[i].refd)
        /\ UnmapsTo(nodes, i, q, f, l, x) /\ Replaced(nodes, r, f, l, <<x>>)
    BY <1>1, <1>3, <1>5
  <2>. QED  BY ONLY <2>1, UnmapStep
<1>7. f \in 1 .. Len(nodes) /\ l \in f .. Len(nodes) /\ i \in f .. l /\ ~x.mapped /\ ~x.memory
      /\ (f # i => ~nodes[f].mapped) /\ (l # i => ~nodes[l].mapped) /\ f \in {i - 1, i} /\ l \in {i, i + 1}
  BY <1>5 DEF UnmapsTo
<1>8. FreeWhole(r)
  BY <1>1, <1>6 DEF FreeWhole
<1>9. PageOK(x, setup.managed)
  <2>1. Same(x, nodes[i]) /\ (~nodes[i].mapref => x.refd = nodes[i].refd) /\ PageOK(nodes[i], setup.managed)
    BY <1>2, <1>6, <1>7
  <2>. QED  BY <1>6, <1>7, <2>1 DEF PageOK, Same
<1>10. ASSUME NEW a \in Addrs
       PROVE  LET v == NodeAt(nodes, a)
              IN  IF Search(nodes, a) \in f .. l
                  THEN /\ NodeAt(r, a) = x /\ Same(x, v) /\ (~v.mapref => x.refd = v.refd)
                       /\ Search(nodes, a) = i \/ ~v.mapped
                  ELSE NodeAt(r, a) = v
  <2>. DEFINE k == Search(nodes, a)
  <2>1. (nodes[f].addr <= a /\ a < VmaEnd(nodes[l])) <=> k \in f .. l
    BY <1>1, <1>7, Within
  <2>2. NodeAt(nodes, a) = nodes[k]
    BY DEF NodeAt
  <2>. HIDE DEF k
  <2>3. k \in f .. l => k = i \/ ~nodes[k].mapped
    BY <1>7
  <2>. QED  BY <1>1, <1>6, <2>1, <2>2, <2>3 DEF k
<1>11. \A a \in Addrs : PageOK(NodeAt(r, a), setup.managed)
  BY <1>1, <1>9, <1>10
<1>12. BlocksOK(r, setup.block, Limit)
  <2>1. \A a \in 0 .. Limit - 1 : Same(NodeAt(r, a), NodeAt(nodes, a))
    BY <1>1, <1>10 DEF Same
  <2>. QED  BY <1>1, <2>1, BlocksLike DEF Same
<1>. QED  BY <1>1, <1>5, <1>6, <1>8, <1>10, <1>11, <1>12 DEF UnmappedOK

LEMMA PutMergeStep ==
  ASSUME VmmInv, PutMerge
  PROVE  VmmInv'
<1>. DEFINE i == Search(nodes, vmmop.start)
            j == IF nodes[i].mapped THEN i ELSE i + 1
            s == nodes
<1>1. /\ vmmop.pc = "put" /\ UNCHANGED <<pte, ptrefs, sprefs, vmmop, setup, torn>>
      /\ nodes[i].mapped \/ (i < Len(nodes) /\ nodes[i + 1].part)
      /\ nodes' = IF nodes[j].mapped THEN UnmapRegion(nodes, j) ELSE nodes
  BY DEF PutMerge
<1>2. /\ Tiles(nodes, 0, Limit) /\ Addrs = 0 .. Limit - 1 /\ RefsInv /\ CallInv /\ TablesInv
      /\ Len(nodes) \in Nat /\ Limit \in Nat
  BY Indices DEF VmmInv, NodesInv, Addrs, Tiles
<1>3. /\ i \in 1 .. Len(nodes) /\ vmmop.start \in Addrs /\ nodes[i].addr = vmmop.start /\ ~nodes[i].part
      /\ Begins(nodes, vmmop.start) /\ nodes[i].used
  <2>1. vmmop.start \in Addrs /\ Begins(nodes, vmmop.start) /\ NodeAt(nodes, vmmop.start).used
    BY <1>1, <1>2 DEF CallInv, CallOK
  <2>2. i \in 1 .. Len(nodes)
    BY <1>2, <2>1, SearchFound
  <2>. QED  BY <2>1, <2>2 DEF Begins, NodeAt
<1>. HIDE DEF i
<1>4. CASE ~nodes[j].mapped
  <2>1. nodes' = nodes
    BY <1>1, <1>4
  <2>2. /\ Tiles(nodes', 0, Limit) /\ FreeWhole(nodes') /\ UNCHANGED setup
        /\ \A a \in Addrs : PageOK(NodeAt(nodes', a), setup.managed)
        /\ BlocksOK(nodes', setup.block, Limit) /\ ptrefs' \in [PageIdx -> [Addrs -> Int]]
        /\ CallOK(nodes', vmmop', PfnLimit, Limit)
        /\ \A a \in Addrs : TableOK(Mine(nodes', vmmop', a), a \in torn', NodeAt(nodes', a), pte'[a],
                                    Refs(ptrefs', a), sprefs'[a])
    BY <1>1, <2>1 DEF VmmInv, NodesInv, PagesInv, BlockInv, RefsInv, CallInv, TablesInv
  <2>. QED  BY <2>2, InvNextIs
<1>5. CASE nodes[j].mapped
  <2>. DEFINE q == nodes[j].refd
              z == [nodes[j] EXCEPT !.refd = q]
  <2>1. j \in 1 .. Len(nodes) /\ j \in {i, i + 1} /\ (j # i => nodes[i + 1].part)
    BY <1>1, <1>2, <1>3
  <2>. HIDE DEF j
  <2>2. nodes[j] \in VmaSet /\ nodes \in Seq(VmaSet)
    BY <1>2, <2>1, Indices DEF Tiles
  <2>3. q \in Idx /\ z = nodes[j]
    BY <2>2 DEF VmaSet
  <2>4. [nodes EXCEPT ![j] = z] = nodes
    <3>1. [nodes EXCEPT ![j] = nodes[j]] = nodes
      BY <2>1, <2>2
    <3>. QED  BY <2>3, <3>1
  <2>5. z \in VmaSet /\ z = Refd(nodes[j], q) /\ nodes' = Unmapping(nodes, j, z)
    BY <1>1, <1>5, <2>2, <2>3, <2>4 DEF Refd, Unmapping
  <2>. HIDE DEF q, z
  <2>6. PICK f, l, x : UnmappedOK(nodes', j, q, f, l, x)
    <3>1. ~nodes[j].mapref => q = nodes[j].refd
      BY DEF q
    <3>. QED  BY <1>5, <2>1, <2>3, <2>5, <3>1, UnmapNodes
  <2>7. /\ Tiles(nodes', 0, Limit) /\ FreeWhole(nodes') /\ BlocksOK(nodes', setup.block, Limit)
        /\ \A a \in Addrs : PageOK(NodeAt(nodes', a), setup.managed) /\ Begins(nodes', a) = Begins(nodes, a)
        /\ \A a \in Addrs :
             LET v == NodeAt(nodes, a)
             IN  IF Search(nodes, a) \in f .. l
                 THEN /\ NodeAt(nodes', a) = x /\ Same(x, v) /\ (~v.mapref => x.refd = v.refd)
                      /\ Search(nodes, a) = j \/ ~v.mapped
                 ELSE NodeAt(nodes', a) = v
        /\ f \in {j - 1, j} /\ l \in {j, j + 1} /\ f \in 1 .. Len(nodes) /\ l \in f .. Len(nodes)
        /\ f # j => nodes[j].part
        /\ \A k \in f + 1 .. l : nodes[k].part
    BY <2>6 DEF UnmappedOK, UnmapsTo
  <2>8. f >= i /\ \A h \in i + 1 .. l : nodes[h].part
    <3>1. f >= i
      BY <1>2, <1>3, <2>1, <2>7
    <3>2. ASSUME NEW h \in i + 1 .. l PROVE nodes[h].part
      <4>1. h \in f + 1 .. l \/ (h = i + 1 /\ f = i + 1)
        BY <1>2, <1>3, <2>1, <2>7, <3>1
      <4>2. f = i + 1 => j # i
        BY <1>3, <2>1, <2>7
      <4>. QED  BY <2>1, <2>7, <4>1, <4>2
    <3>. QED  BY <3>1, <3>2
  <2>9. ASSUME NEW a \in Addrs PROVE Mine(nodes', vmmop', a) = Mine(nodes, vmmop, a)
    <3>1. \A y \in vmmop.start + 1 .. a : y \in Addrs
      BY <1>2, <1>3
    <3>. QED  BY <1>1, <2>7, <3>1 DEF Mine
  <2>10. ASSUME NEW a \in Addrs
         PROVE  TableOK(Mine(nodes', vmmop', a), a \in torn', NodeAt(nodes', a), pte'[a], Refs(ptrefs', a),
                        sprefs'[a])
    <3>. DEFINE v == NodeAt(nodes, a)
                k == Search(nodes, a)
    <3>1. TableOK(Mine(nodes, vmmop, a), a \in torn, v, pte[a], Refs(ptrefs, a), sprefs[a])
      BY <1>2 DEF TablesInv
    <3>2. /\ torn' = torn /\ pte'[a] = pte[a] /\ Refs(ptrefs', a) = Refs(ptrefs, a) /\ sprefs'[a] = sprefs[a]
      BY <1>1
    <3>3. CASE k \notin f .. l
      <4>1. NodeAt(nodes', a) = v
        BY <2>7, <3>3
      <4>. QED  BY <2>9, <3>1, <3>2, <4>1
    <3>4. CASE k \in f .. l
      <4>1. NodeAt(nodes', a) = x /\ Same(x, v) /\ (~v.mapref => x.refd = v.refd)
        BY <2>7, <3>4
      <4>2. Mine(nodes, vmmop, a) = TRUE
        <5>1. k \in PartsOf(nodes, i)
          <6>1. k \in i .. Len(nodes) /\ \A h \in i + 1 .. k : h \in i + 1 .. l
            BY <1>2, <1>3, <2>7, <2>8, <3>4
          <6>. QED  BY <2>8, <6>1 DEF PartsOf
        <5>2. Mine(nodes, vmmop, a)
          BY <1>1, <1>2, <1>3, <5>1, MineIs
        <5>. QED  BY <5>2 DEF Mine
      <4>. HIDE DEF v
      <4>. QED  BY <2>9, <3>1, <3>2, <4>1, <4>2 DEF TableOK, Dropped, Empty, Same
    <3>. QED  BY <3>3, <3>4
  <2>11. CallOK(nodes', vmmop', PfnLimit, Limit)
    <3>1. NodeAt(nodes', vmmop.start).used
      <4>1. NodeAt(nodes, vmmop.start).used
        BY <1>1, <1>2 DEF CallInv, CallOK
      <4>. QED  BY <1>3, <2>7, <4>1 DEF Same
    <3>2. Begins(nodes', vmmop.start)
      BY <1>3, <2>7
    <3>. QED  BY <1>1, <1>2, <3>1, <3>2 DEF CallInv, CallOK
  <2>12. ptrefs' \in [PageIdx -> [Addrs -> Int]] /\ UNCHANGED setup
    BY <1>1, <1>2 DEF RefsInv
  <2>. QED  BY <2>7, <2>10, <2>11, <2>12, InvNextIs
<1>. QED  BY <1>4, <1>5

LEMMA VmmUnmapStep ==
  ASSUME VmmInv, NEW i \in DOMAIN nodes, VmmUnmap(i)
  PROVE  VmmInv'
<1>. DEFINE v == nodes[i]
            q == IF v.mapref THEN NoPage ELSE v.refd
            z == Refd(v, q)
            pages == Covers(v.addr, v.size)
<1>1. /\ setup \in Setups /\ Tiles(nodes, 0, Limit) /\ Addrs = 0 .. Limit - 1 /\ RefsInv /\ CallInv /\ TablesInv
      /\ \A a \in Addrs : PageOK(NodeAt(nodes, a), setup.managed)
  BY DEF VmmInv, NodesInv, PagesInv, Addrs
<1>2. /\ vmmop.pc = "idle" /\ v.used /\ v.memory /\ PtesSet(pages, Empty(v))
      /\ IF v.mapref THEN PtesRef(pages, v.refd, -1) ELSE UNCHANGED ptrefs
      /\ nodes' = UnmapRegion([nodes EXCEPT ![i].refd = IF v.mapref THEN NoPage ELSE @], i)
      /\ UNCHANGED <<sprefs, vmmop, setup, torn>>
  BY DEF VmmUnmap, VmmIdling
<1>3. i \in 1 .. Len(nodes) /\ v \in VmaSet /\ nodes \in Seq(VmaSet) /\ PageOK(v, setup.managed)
  <2>1. i \in 1 .. Len(nodes)
    BY <1>1, Indices
  <2>. QED  BY <1>1, <2>1, Indices, NodePages DEF Tiles
<1>4. v.mapped /\ v.refd \in PageIdx /\ q \in Idx /\ NoPage \notin PageIdx /\ (~v.mapref => q = v.refd)
  <2>1. v.mapped /\ v.refd # NoPage
    BY <1>2, <1>3 DEF PageOK
  <2>2. v.refd \in Idx
    BY <1>3 DEF VmaSet
  <2>. QED  BY <1>1, <2>1, <2>2, SetupIs
<1>5. z \in VmaSet /\ nodes' = Unmapping(nodes, i, z)
  <2>1. z \in VmaSet
    BY <1>3, <1>4 DEF VmaSet, Refd
  <2>2. [nodes EXCEPT ![i].refd = IF v.mapref THEN NoPage ELSE @] = [nodes EXCEPT ![i] = z]
    BY <1>3 DEF Refd
  <2>. QED  BY <1>2, <2>1, <2>2 DEF Unmapping
<1>6. PICK f, l, x : UnmappedOK(nodes', i, q, f, l, x)
  <2>. HIDE DEF q
  <2>1. /\ VmmInv /\ i \in 1 .. Len(nodes) /\ nodes[i].mapped /\ q \in Idx /\ (~nodes[i].mapref => q = nodes[i].refd)
        /\ z \in VmaSet /\ z = Refd(nodes[i], q) /\ nodes' = Unmapping(nodes, i, z)
    BY <1>3, <1>4, <1>5
  <2>. HIDE DEF z
  <2>. QED  BY ONLY <2>1, UnmapNodes
<1>7. /\ Tiles(nodes', 0, Limit) /\ FreeWhole(nodes') /\ BlocksOK(nodes', setup.block, Limit)
      /\ \A a \in Addrs : PageOK(NodeAt(nodes', a), setup.managed)
      /\ \A a \in Addrs :
           LET w == NodeAt(nodes, a)
           IN  IF Search(nodes, a) \in f .. l
               THEN /\ NodeAt(nodes', a) = x /\ Same(x, w) /\ (~w.mapref => x.refd = w.refd)
                    /\ Search(nodes, a) = i \/ ~w.mapped
               ELSE NodeAt(nodes', a) = w
      /\ f \in 1 .. Len(nodes) /\ i \in f .. l /\ ~x.mapped /\ ~x.memory
      /\ x.refd = IF f = i THEN q ELSE nodes[f].refd
      /\ f # i => ~nodes[f].mapped
      /\ f <= l
  BY <1>6 DEF UnmappedOK, UnmapsTo
<1>8. ASSUME NEW a \in Addrs
      PROVE  /\ a \in pages <=> Search(nodes, a) = i
             /\ Search(nodes, a) = i => NodeAt(nodes, a) = v
  <2>1. (v.addr <= a /\ a < VmaEnd(v)) <=> Search(nodes, a) \in i .. i
    BY <1>1, <1>3, Within
  <2>2. a \in pages <=> v.addr <= a /\ a < VmaEnd(v)
    BY <1>1, <1>3 DEF Covers, VmaEnd, VmaSet
  <2>3. Search(nodes, a) \in i .. i <=> Search(nodes, a) = i
    BY <1>3
  <2>. QED  BY <2>1, <2>2, <2>3 DEF NodeAt
<1>. HIDE DEF pages
<1>9. ASSUME ~setup.remaps, NEW a \in Addrs
      PROVE  LET w == NodeAt(nodes, a)
             IN  /\ w.mapref /\ ~w.mapped => w.refd = NoPage
                 /\ a \notin torn => Holds(w, pte[a], Refs(ptrefs, a), sprefs[a])
  <2>1. TableOK(FALSE, a \in torn, NodeAt(nodes, a), pte[a], Refs(ptrefs, a), sprefs[a])
    BY <1>1, <1>2, <1>9, NotMine DEF TablesInv
  <2>. QED  BY <1>9, <2>1 DEF TableOK
<1>10. Same(x, v) /\ (~setup.remaps /\ x.mapref => x.refd = NoPage) /\ (~x.mapref => x.refd = v.refd)
  <2>1. v.addr \in Addrs /\ Search(nodes, v.addr) = i /\ NodeAt(nodes, v.addr) = v
    BY <1>1, <1>3, NodePage
  <2>2. Same(x, v) /\ (~v.mapref => x.refd = v.refd)
    BY <1>7, <2>1
  <2>3. ASSUME ~setup.remaps PROVE x.mapref => x.refd = NoPage
    <3>1. CASE f = i
      BY <1>7, <2>2, <3>1 DEF Same
    <3>2. CASE f # i
      <4>1. nodes[f].addr \in Addrs /\ Search(nodes, nodes[f].addr) = f /\ NodeAt(nodes, nodes[f].addr) = nodes[f]
        BY <1>1, <1>7, NodePage
      <4>2. f \in f .. l
        BY <1>7, <1>3
      <4>3. Same(x, nodes[f])
        BY <1>7, <4>1, <4>2
      <4>. QED  BY <1>7, <1>9, <2>3, <3>2, <4>1, <4>3 DEF Same
    <3>. QED  BY <3>1, <3>2
  <2>. QED  BY <2>2, <2>3 DEF Same
<1>11. /\ ptrefs' \in [PageIdx -> [Addrs -> Int]]
       /\ \A a \in Addrs : a \notin pages => Refs(ptrefs', a) = Refs(ptrefs, a)
       /\ v.mapref => \A a \in pages : a \in Addrs => \A p \in PageIdx :
            Refs(ptrefs', a)[p] = IF p = v.refd THEN Refs(ptrefs, a)[p] + (-1) ELSE Refs(ptrefs, a)[p]
       /\ ~v.mapref => ptrefs' = ptrefs
  <2>1. CASE v.mapref
    <3>1. -1 \in Int
      OBVIOUS
    <3>2. PICK p : p = v.refd
      OBVIOUS
    <3>3. PtesRef(pages, p, -1) /\ p \in PageIdx
      BY <1>2, <1>4, <2>1, <3>2
    <3>4. /\ ptrefs' \in [PageIdx -> [Addrs -> Int]]
          /\ \A a \in Addrs : \A r \in PageIdx :
               Refs(ptrefs', a)[r] = IF r = p /\ a \in pages THEN Refs(ptrefs, a)[r] + (-1) ELSE Refs(ptrefs, a)[r]
          /\ \A a \in Addrs : a \notin pages => Refs(ptrefs', a) = Refs(ptrefs, a)
      BY ONLY <1>1, <3>1, <3>3, RefsCounted
    <3>. QED  BY <2>1, <3>2, <3>4
  <2>2. CASE ~v.mapref
    BY <1>1, <1>2, <2>2 DEF RefsInv
  <2>. QED  BY <2>1, <2>2
<1>12. \A a \in Addrs : pte'[a] = IF a \in pages THEN Empty(v) ELSE pte[a]
  BY <1>2 DEF PtesSet
<1>. HIDE DEF v, q, z
<1>13. ASSUME NEW a \in Addrs
       PROVE  TableOK(Mine(nodes', vmmop', a), a \in torn', NodeAt(nodes', a), pte'[a], Refs(ptrefs', a),
                      sprefs'[a])
  <2>0. SUFFICES ASSUME ~setup.remaps
                 PROVE  TableOK(Mine(nodes', vmmop', a), a \in torn', NodeAt(nodes', a), pte'[a],
                               Refs(ptrefs', a), sprefs'[a])
    BY DEF TableOK
  <2>. DEFINE w == NodeAt(nodes, a)
  <2>1. Mine(nodes', vmmop', a) = FALSE /\ torn' = torn /\ sprefs'[a] = sprefs[a]
    <3>1. vmmop'.pc # "put"
      BY <1>2
    <3>. QED  BY <1>2, <3>1, NotMine
  <2>2. w.mapref /\ ~w.mapped => w.refd = NoPage
    BY <1>9, <2>0
  <2>3. a \notin torn => Holds(w, pte[a], Refs(ptrefs, a), sprefs[a])
    BY <1>9, <2>0
  <2>4. CASE Search(nodes, a) = i
    <3>1. w = v /\ a \in pages /\ NodeAt(nodes', a) = x /\ pte'[a] = Empty(v)
      BY <1>7, <1>8, <1>12, <2>4
    <3>2. a \notin torn => Holds(x, pte'[a], Refs(ptrefs', a), sprefs'[a])
      <4>1. SUFFICES ASSUME a \notin torn PROVE Holds(x, pte'[a], Refs(ptrefs', a), sprefs'[a])
        OBVIOUS
      <4>2. Holds(v, pte[a], Refs(ptrefs, a), sprefs[a])
        BY <2>3, <3>1, <4>1
      <4>3. pte'[a] = Empty(x)
        BY <1>10, <3>1 DEF Same, Empty
      <4>4. ASSUME NEW p \in PageIdx PROVE Refs(ptrefs', a)[p] = IF x.refd = p THEN 1 ELSE 0
        <5>1. Refs(ptrefs, a)[p] = IF v.refd = p THEN 1 ELSE 0
          BY <4>2 DEF Holds
        <5>2. CASE v.mapref
          BY <1>4, <1>10, <1>11, <2>0, <3>1, <5>1, <5>2 DEF Same
        <5>3. CASE ~v.mapref
          BY <1>10, <1>11, <5>1, <5>3 DEF Same
        <5>. QED  BY <5>2, <5>3
      <4>5. sprefs'[a] = IF x.sparse /\ x.mapref THEN 1 ELSE 0
        BY <1>10, <2>1, <4>2 DEF Same, Holds
      <4>. QED  BY <1>7, <4>3, <4>4, <4>5 DEF Holds
    <3>. QED  BY <1>10, <2>0, <2>1, <3>1, <3>2 DEF TableOK
  <2>5. CASE Search(nodes, a) # i /\ Search(nodes, a) \in f .. l
    <3>1. NodeAt(nodes', a) = x /\ Same(x, w) /\ (~w.mapref => x.refd = w.refd) /\ ~w.mapped
      BY <1>7, <2>5
    <3>2. pte'[a] = pte[a] /\ Refs(ptrefs', a) = Refs(ptrefs, a)
      BY <1>8, <1>11, <1>12, <2>5
    <3>3. x.refd = w.refd
      BY <1>10, <2>0, <2>2, <3>1 DEF Same
    <3>. HIDE DEF w
    <3>4. a \notin torn => Holds(x, pte'[a], Refs(ptrefs', a), sprefs'[a])
      BY <1>7, <2>1, <2>3, <3>1, <3>2, <3>3 DEF Holds, Empty, Same
    <3>. QED  BY <1>10, <2>0, <2>1, <3>1, <3>4 DEF TableOK
  <2>6. CASE Search(nodes, a) \notin f .. l
    <3>1. NodeAt(nodes', a) = w /\ Search(nodes, a) # i
      BY <1>7, <2>6
    <3>2. pte'[a] = pte[a] /\ Refs(ptrefs', a) = Refs(ptrefs, a)
      BY <1>8, <1>11, <1>12, <3>1
    <3>. QED  BY <2>1, <2>2, <2>3, <3>1, <3>2 DEF TableOK
  <2>. QED  BY <2>4, <2>5, <2>6
<1>14. CallOK(nodes', vmmop', PfnLimit, Limit) /\ UNCHANGED setup
  BY <1>1, <1>2 DEF CallInv, CallOK
<1>. QED  BY <1>7, <1>11, <1>13, <1>14, InvNextIs

\* All of a node is cut out of it.
LEMMA SplitWhole ==
  ASSUME NEW s, NEW a, NEW b, Tiles(s, a, b), NEW i \in 1 .. Len(s)
  PROVE  NodeSplit(s, i, s[i].addr, s[i].size) = [ns |-> s, at |-> i]
<1>. DEFINE v == s[i]
            mid == Middle(v, v.addr, v.size)
            one == <<v>>
            r == Subst(s, i, i, one)
<1>1. s \in Seq(VmaSet) /\ v \in VmaSet
  BY Indices DEF Tiles
<1>2. mid = v
  <2>. HIDE DEF v
  <2>. QED  BY <1>1 DEF Middle, VmaSet
<1>3. one \in Seq(VmaSet) /\ Len(one) = 1 /\ one[1] = v
  BY <1>1
<1>4. Len(s) \in Nat
  BY <1>1, LenProperties
<1>. HIDE DEF one
<1>5. r = s
  <2>1. i \in i .. Len(s) /\ i - i + 1 = 1
    BY <1>4
  <2>2. /\ r \in Seq(VmaSet) /\ Len(r) = Len(s) - (i - i + 1) + Len(one)
        /\ \A k \in 1 .. i - 1 : r[k] = s[k]
        /\ \A k \in 1 .. Len(one) : r[i - 1 + k] = one[k]
        /\ \A k \in i + 1 .. Len(s) : r[k - (i - i + 1) + Len(one)] = s[k]
    BY <1>1, <1>3, <2>1, SubstIs
  <2>. HIDE DEF r, v
  <2>3. Len(r) = Len(s)
    BY <1>3, <1>4, <2>2
  <2>4. ASSUME NEW k \in 1 .. Len(s) PROVE r[k] = s[k]
    <3>1. CASE k < i
      BY <1>4, <2>2, <3>1
    <3>2. CASE k = i
      <4>1. i - 1 + 1 = i /\ 1 \in 1 .. Len(one)
        BY <1>3, <1>4
      <4>2. r[i - 1 + 1] = one[1]
        BY <2>2, <4>1
      <4>. QED  BY <1>3, <3>2, <4>1, <4>2 DEF v
    <3>3. CASE i < k
      <4>1. k \in i + 1 .. Len(s) /\ k - (i - i + 1) + Len(one) = k
        BY <1>3, <1>4, <3>3
      <4>. QED  BY <2>2, <4>1
    <3>. QED  BY <1>4, <3>1, <3>2, <3>3
  <2>. QED  BY <1>1, <2>2, <2>3, <2>4, SeqEqual
<1>6. <<>> \o <<mid>> \o <<>> = one /\ Len(<<>>) = 0
  BY <1>2, <1>3 DEF one
<1>7. /\ VmaEnd(v) = v.addr + v.size
      /\ i + 0 = i
  BY <1>4 DEF VmaEnd
<1>. QED  BY <1>5, <1>6, <1>7 DEF NodeSplit, Middle, r, v

\* A region that could not be mapped is as it was; the pages that had been mapped
\* are empty, as if it were not sparse.
LEMMA VmmMapFailsStep ==
  ASSUME VmmInv, NEW i \in DOMAIN nodes, NEW addr \in Addrs, NEW size \in Sizes, VmmMapFails(i, addr, size)
  PROVE  VmmInv'
<1>. DEFINE cut == NodeSplit(nodes, i, addr, size)
            v == cut.ns[cut.at]
            w == nodes[i]
<1>1. /\ Tiles(nodes, 0, Limit) /\ setup \in Setups /\ Limit \in Nat /\ Addrs = 0 .. Limit - 1
      /\ FreeWhole(nodes) /\ BlocksOK(nodes, setup.block, Limit) /\ CallInv /\ RefsInv /\ TablesInv
      /\ \A a \in Addrs : PageOK(NodeAt(nodes, a), setup.managed)
  BY SetupIs DEF VmmInv, NodesInv, PagesInv, BlockInv, Addrs
<1>2. i \in 1 .. Len(nodes) /\ w \in VmaSet
  BY <1>1, Indices
<1>3. /\ VmmIdling /\ addr \in Covers(w.addr, w.size) /\ addr + size <= VmaEnd(w)
      /\ ~(w.mapped /\ ~w.memory) /\ (w.addr # addr \/ w.size # size => ~w.memory)
      /\ w.memory => setup.remaps
      /\ nodes' = UnmapRegion(cut.ns, cut.at)
      /\ UNCHANGED <<ptrefs, sprefs, vmmop, setup>>
  BY DEF VmmMapFails, MapNode
<1>4. PICK n \in {0} \cup TablesHad(v) :
        /\ PtesSet(Covers(addr, n), "none")
        /\ torn' = IF v.sparse THEN torn \cup Covers(addr, n) ELSE torn
  BY DEF VmmMapFails
<1>5. addr \in Nat /\ size \in Nat \ {0} /\ w.addr <= addr /\ w.addr \in Nat /\ VmaEnd(w) \in Nat
  <2>1. w.addr \in Nat /\ w.size \in Nat /\ VmaEnd(w) \in Nat
    BY <1>2, VmaIs DEF VmaSet
  <2>. QED  BY <1>1, <1>3, <2>1, VmmAssumption DEF Covers
<1>6. /\ ptrefs' \in [PageIdx -> [Addrs -> Int]] /\ UNCHANGED setup /\ vmmop.pc # "put" /\ vmmop'.pc # "put"
      /\ \A r : CallOK(r, vmmop', PfnLimit, Limit)
  BY <1>1, <1>3 DEF RefsInv, CallInv, CallOK, VmmIdling
<1>7. CASE ~w.memory
  <2>1. nodes' = nodes
    <3>1. ~w.mapped
      BY <1>3, <1>7
    <3>. QED  BY <1>1, <1>2, <1>3, <1>5, <1>7, <3>1, SplitUndone
  <2>2. v \in VmaSet /\ Like(v, w) /\ v.addr = addr /\ VmaEnd(v) = addr + size
    <3>1. SplitOK(nodes, i, addr, size, cut)
      BY <1>1, <1>2, <1>3, <1>5, SplitUpdated
    <3>. HIDE DEF cut
    <3>. QED  BY <3>1 DEF SplitOK
  <2>. HIDE DEF v, cut
  <2>3. n \in Nat /\ addr + n <= VmaEnd(w)
    <3>1. v.size = size
      BY <1>5, <2>2 DEF VmaEnd, VmaSet
    <3>2. n = 0 \/ n \in 1 .. v.size - 1
      BY <1>4 DEF TablesHad
    <3>. QED  BY <1>3, <1>5, <3>1, <3>2
  <2>4. ASSUME NEW a \in Addrs
        PROVE  TableOK(Mine(nodes', vmmop', a), a \in torn', NodeAt(nodes', a), pte'[a], Refs(ptrefs', a),
                       sprefs'[a])
    <3>. DEFINE x == NodeAt(nodes, a)
    <3>1. Mine(nodes', vmmop', a) = FALSE /\ Mine(nodes, vmmop, a) = FALSE
      BY <1>6, NotMine
    <3>2. TableOK(FALSE, a \in torn, x, pte[a], Refs(ptrefs, a), sprefs[a])
      BY <1>1, <3>1 DEF TablesInv
    <3>3. CASE a \notin Covers(addr, n)
      <4>1. pte'[a] = pte[a] /\ (a \in torn' <=> a \in torn)
        BY <1>4, <3>3 DEF PtesSet
      <4>2. (a \in torn') = (a \in torn)
        BY <4>1
      <4>. QED  BY <1>3, <2>1, <3>1, <3>2, <4>1, <4>2
    <3>4. CASE a \in Covers(addr, n)
      <4>1. x = w
        <5>1. w.addr <= a /\ a < VmaEnd(w)
          BY <1>1, <1>5, <2>3, <3>4 DEF Covers
        <5>. QED  BY <1>1, <1>2, <5>1, NodePage
      <4>2. pte'[a] = "none" /\ (a \in torn' <=> w.sparse \/ a \in torn)
        BY <1>4, <2>2, <3>4 DEF PtesSet, Like, Same
      <4>. HIDE DEF w, x
      <4>. QED  BY <1>3, <1>7, <2>1, <3>1, <3>2, <4>1, <4>2 DEF TableOK, Holds, Empty, x
    <3>. QED  BY <3>3, <3>4
  <2>. QED  BY <1>1, <1>6, <2>1, <2>4, InvNextIs
<1>8. CASE w.memory
  <2>. DEFINE q == w.refd
  <2>1. w.mapped /\ w.addr = addr /\ w.size = size /\ setup.remaps
    <3>1. PageOK(w, setup.managed)
      BY <1>1, <1>2, NodePages
    <3>. QED  BY <1>3, <1>8, <3>1 DEF PageOK
  <2>2. nodes' = UnmapRegion(nodes, i)
    <3>1. cut = [ns |-> nodes, at |-> i]
      BY <1>1, <1>2, <2>1, SplitWhole
    <3>. HIDE DEF cut
    <3>. QED  BY <1>3, <3>1
  <2>3. q \in Idx /\ w = Refd(w, q) /\ [nodes EXCEPT ![i] = w] = nodes
    <3>1. nodes \in Seq(VmaSet)
      BY <1>1 DEF Tiles
    <3>2. [nodes EXCEPT ![i] = w] = nodes
      BY <1>2, <3>1
    <3>. HIDE DEF w
    <3>. QED  BY <1>2, <3>2 DEF VmaSet, Refd
  <2>4. PICK f, l, x : UnmappedOK(nodes', i, q, f, l, x)
    <3>1. nodes' = Unmapping(nodes, i, w)
      BY <2>2, <2>3 DEF Unmapping
    <3>. QED  BY <1>2, <2>1, <2>3, <3>1, UnmapNodes
  <2>5. /\ Tiles(nodes', 0, Limit) /\ FreeWhole(nodes') /\ BlocksOK(nodes', setup.block, Limit)
        /\ \A a \in Addrs : PageOK(NodeAt(nodes', a), setup.managed)
    BY <2>4 DEF UnmappedOK
  <2>6. ASSUME NEW a \in Addrs
        PROVE  TableOK(Mine(nodes', vmmop', a), a \in torn', NodeAt(nodes', a), pte'[a], Refs(ptrefs', a),
                       sprefs'[a])
    BY <2>1 DEF TableOK
  <2>. QED  BY <1>6, <2>5, <2>6, InvNextIs
<1>. QED  BY <1>7, <1>8

-----------------------------------------------------------------------------
(* Regions that are given back.                                            *)

\* A free node.
Free(x) ==
  /\ x \in VmaSet /\ ~x.used /\ ~x.mapref /\ ~x.sparse /\ x.page = NoPage /\ x.refd = NoPage
  /\ ~x.part /\ ~x.mapped /\ ~x.memory

Putting(s, i) == PutRegion([s EXCEPT ![i] = VmaNew(s[i].addr, s[i].size)], i)

\* Nodes f to l of s, of which only i is used, are x in r.
PutTo(s, r, i, f, l, x) ==
  /\ f \in 1 .. Len(s) /\ l \in f .. Len(s) /\ i \in f .. l /\ Free(x)
  /\ \A k \in f .. l : k = i \/ ~s[k].used
  /\ Replaced(s, r, f, l, <<x>>) /\ x.addr = s[f].addr /\ VmaEnd(x) = VmaEnd(s[l])
  /\ f > 1 => s[f - 1].used
  /\ l < Len(s) => s[l + 1].used /\ ~s[l + 1].part

LEMMA PutShape ==
  ASSUME NEW s, NEW a, NEW b, Tiles(s, a, b), NEW i \in 1 .. Len(s), s[i].used,
         i < Len(s) => ~s[i + 1].part, FreeWhole(s), NEW r, r = Putting(s, i)
  PROVE  \E f, l, x : PutTo(s, r, i, f, l, x)
<1>. DEFINE n == VmaNew(s[i].addr, s[i].size)
            t == [s EXCEPT ![i] = n]
            f == IF i > 1 /\ ~s[i - 1].used THEN i - 1 ELSE i
            l == IF i < Len(s) /\ ~s[i + 1].used THEN i + 1 ELSE i
            d == VmaEnd(s[l]) - s[f].addr
            x == [n EXCEPT !.addr = s[f].addr, !.size = d]
<1>1. /\ Len(s) \in Nat /\ s \in Seq(VmaSet)
      /\ \A k \in 1 .. Len(s) : s[k] \in VmaSet /\ s[k] \in Range(s)
      /\ \A k \in 1 .. Len(s) - 1 : Meets(s[k], s[k + 1])
  BY Indices DEF Tiles
<1>2. n \in VmaSet /\ n.addr = s[i].addr /\ n.size = s[i].size /\ ~n.used
  <2>1. s[i].addr \in Nat /\ s[i].size \in Nat \ {0}
    BY <1>1 DEF VmaSet
  <2>2. NoPage \in Idx
    BY VmmAssumption, LenProperties DEF Idx, NoPage
  <2>. QED  BY <2>1, <2>2 DEF VmaSet, VmaNew
<1>. HIDE DEF n
<1>3. t \in Seq(VmaSet) /\ Len(t) = Len(s) /\ t[i] = n /\ \A k \in 1 .. Len(s) : k # i => t[k] = s[k]
  BY <1>1, <1>2, Updated
<1>4. /\ f \in 1 .. Len(s) /\ l \in f .. Len(s) /\ i \in f .. l /\ l \in 1 .. Len(s)
      /\ \A k \in f .. l : k = i \/ ~s[k].used
  BY <1>1
<1>5. s[f].addr \in Nat /\ VmaEnd(s[l]) \in Nat /\ s[f].addr < VmaEnd(s[l]) /\ d \in Nat \ {0}
  <2>. HIDE DEF f, l
  <2>1. /\ s[f].addr \in Nat /\ VmaEnd(s[f]) \in Nat /\ s[f].addr < VmaEnd(s[f])
        /\ s[l].addr \in Nat /\ VmaEnd(s[l]) \in Nat /\ s[l].addr < VmaEnd(s[l])
    BY <1>1, <1>4, VmaIs
  <2>2. f < l => VmaEnd(s[f]) <= s[l].addr
    BY <1>4, TilesUnique
  <2>3. s[f].addr < VmaEnd(s[l])
    <3>1. CASE f = l
      BY <2>1, <3>1
    <3>2. CASE f < l
      <4>. HIDE DEF d
      <4>. QED  BY <2>1, <2>2, <3>2
    <3>. QED  BY <1>4, <3>1, <3>2
  <2>. QED  BY <2>1, <2>3
<1>6. Free(x) /\ x.addr = s[f].addr /\ x.size = d
  <2>. HIDE DEF f, d
  <2>. QED  BY <1>1, <1>2, <1>5 DEF VmaSet, VmaNew, Free, n
<1>7. r = Subst(t, f, l, <<x>>)
  <2>1. t[f].addr = s[f].addr
    <3>1. CASE f = i
      BY <1>2, <1>3, <3>1
    <3>2. CASE f # i
      <4>. HIDE DEF f, t
      <4>. QED  BY <1>3, <1>4, <3>2
    <3>. QED  BY <3>1, <3>2
  <2>2. VmaEnd(t[l]) = VmaEnd(s[l])
    <3>1. CASE l = i
      BY <1>2, <1>3, <3>1 DEF VmaEnd
    <3>2. CASE l # i
      <4>. HIDE DEF l, t
      <4>. QED  BY <1>3, <1>4, <3>2
    <3>. QED  BY <3>1, <3>2
  <2>3. (IF i > 1 /\ ~t[i - 1].used THEN i - 1 ELSE i) = f
    <3>1. i > 1 => t[i - 1] = s[i - 1]
      BY <1>3
    <3>. QED  BY <3>1
  <2>4. (IF i < Len(t) /\ ~t[i + 1].used THEN i + 1 ELSE i) = l
    <3>1. i < Len(s) => t[i + 1] = s[i + 1]
      BY <1>1, <1>3
    <3>. QED  BY <1>3, <3>1
  <2>5. r = PutRegion(t, i)
    BY DEF Putting, n
  <2>. HIDE DEF f, l, t
  <2>. QED  BY <1>3, <2>1, <2>2, <2>3, <2>4, <2>5 DEF PutRegion
<1>8. f > 1 => s[f - 1].used
  <2>1. CASE f = i
    BY <2>1
  <2>2. CASE f # i /\ f > 1
    <3>1. ~s[f].used
      BY <1>4, <2>2
    <3>. HIDE DEF f
    <3>2. f - 1 \in 1 .. Len(s) - 1 /\ f - 1 + 1 = f
      BY <1>1, <1>4, <2>2
    <3>3. Meets(s[f - 1], s[f])
      BY <1>1, <3>2
    <3>. QED  BY <3>1, <3>3 DEF Meets
  <2>. QED  BY <2>1, <2>2
<1>9. l < Len(s) => s[l + 1].used /\ ~s[l + 1].part
  <2>1. CASE l = i
    BY <2>1
  <2>2. CASE l # i /\ l < Len(s)
    <3>1. ~s[l].used
      BY <1>4, <2>2
    <3>. HIDE DEF l
    <3>2. l \in 1 .. Len(s) - 1
      BY <1>1, <1>4, <2>2
    <3>3. Meets(s[l], s[l + 1])
      BY <1>1, <3>2
    <3>. QED  BY <3>1, <3>3 DEF Meets
  <2>. QED  BY <2>1, <2>2
<1>. HIDE DEF f, l, t, x
<1>10. VmaEnd(x) = VmaEnd(s[l])
  BY <1>5, <1>6 DEF VmaEnd
<1>. HIDE DEF d
<1>11. Replaced(s, r, f, l, <<x>>)
  <2>1. x \in VmaSet
    BY <1>6 DEF Free
  <2>2. <<x>> \in Seq(VmaSet)
    BY <2>1, OneIs
  <2>3. \A k \in (1 .. Len(s)) \ (f .. l) : t[k] = s[k]
    BY <1>3, <1>4
  <2>. QED  BY <1>1, <1>3, <1>4, <1>7, <2>2, <2>3, ReplacedIs
<1>. QED  BY <1>4, <1>6, <1>8, <1>9, <1>10, <1>11 DEF PutTo

LEMMA PutNodes ==
  ASSUME NEW s, NEW a, NEW b, Tiles(s, a, b), FreeWhole(s), NEW i, NEW r, NEW f, NEW l, NEW x,
         PutTo(s, r, i, f, l, x)
  PROVE  /\ Tiles(r, a, b) /\ FreeWhole(r)
         /\ \A y \in a .. b - 1 :
              NodeAt(r, y) = IF Search(s, y) \in f .. l THEN x ELSE NodeAt(s, y)
<1>1. /\ f \in 1 .. Len(s) /\ l \in f .. Len(s) /\ x \in VmaSet /\ ~x.part /\ ~x.used
      /\ Replaced(s, r, f, l, <<x>>) /\ x.addr = s[f].addr /\ VmaEnd(x) = VmaEnd(s[l])
      /\ f > 1 => s[f - 1].used
      /\ l < Len(s) => s[l + 1].used /\ ~s[l + 1].part
  BY DEF PutTo, Free
<1>. DEFINE new == <<x>>
<1>2. /\ Tiles(new, s[f].addr, VmaEnd(s[l])) /\ new # <<>> /\ Len(new) = 1 /\ new[1] = x /\ Range(new) = {x}
      /\ \A y \in s[f].addr .. VmaEnd(s[l]) - 1 : NodeAt(new, y) = x
  <2>1. /\ Tiles(new, x.addr, VmaEnd(x)) /\ new # <<>> /\ Len(new) = 1 /\ new[1] = x /\ Range(new) = {x}
        /\ \A y \in x.addr .. VmaEnd(x) - 1 : NodeAt(new, y) = x
    BY <1>1, OneTiles
  <2>. QED  BY <1>1, <2>1
<1>3. Replaced(s, r, f, l, new)
  BY <1>1
<1>. HIDE DEF new
<1>4. f > 1 => Meets(s[f - 1], new[1])
  BY <1>1, <1>2 DEF Meets
<1>5. l < Len(s) => Meets(new[Len(new)], s[l + 1])
  BY <1>1, <1>2 DEF Meets
<1>6. /\ Tiles(r, a, b)
      /\ \A w \in Range(r) : w \in Range(new) \/ \E j \in (1 .. Len(s)) \ (f .. l) : w = s[j]
      /\ \A y \in a .. b - 1 : NodeAt(r, y) =
           IF s[f].addr <= y /\ y < VmaEnd(s[l]) THEN NodeAt(new, y) ELSE NodeAt(s, y)
  <2>1. /\ Tiles(s, a, b) /\ f \in 1 .. Len(s) /\ l \in f .. Len(s)
        /\ new # <<>> /\ Tiles(new, s[f].addr, VmaEnd(s[l])) /\ Replaced(s, r, f, l, new)
        /\ (f > 1 => Meets(s[f - 1], new[1])) /\ (l < Len(s) => Meets(new[Len(new)], s[l + 1]))
    BY <1>1, <1>2, <1>3, <1>4, <1>5
  <2>. QED  BY ONLY <2>1, Exchange
<1>7. FreeWhole(r)
  <2>1. \A j \in 1 .. Len(s) : s[j] \in Range(s)
    BY Indices
  <2>2. ASSUME NEW w \in Range(r), ~w.used PROVE ~w.part
    <3>1. CASE w \in Range(new)
      BY <1>1, <1>2, <3>1
    <3>2. CASE w \notin Range(new)
      <4>1. PICK j \in 1 .. Len(s) : w = s[j]
        BY <1>6, <3>2
      <4>. QED  BY <2>1, <2>2, <4>1 DEF FreeWhole
    <3>. QED  BY <3>1, <3>2
  <2>. QED  BY <2>2 DEF FreeWhole
<1>8. ASSUME NEW y \in a .. b - 1
      PROVE  NodeAt(r, y) = IF Search(s, y) \in f .. l THEN x ELSE NodeAt(s, y)
  <2>1. (s[f].addr <= y /\ y < VmaEnd(s[l])) <=> Search(s, y) \in f .. l
    BY <1>1, Within
  <2>2. s[f].addr <= y /\ y < VmaEnd(s[l]) => y \in s[f].addr .. VmaEnd(s[l]) - 1
    <3>1. s[f].addr \in Nat /\ VmaEnd(s[l]) \in Nat /\ y \in Int
      BY <1>1, Indices, VmaIs DEF Tiles
    <3>. QED  BY <3>1
  <2>. QED  BY <1>2, <1>6, <2>1, <2>2
<1>. QED  BY <1>6, <1>7, <1>8

LEMMA PutFinishStep ==
  ASSUME VmmInv, PutFinish
  PROVE  VmmInv'
<1>. DEFINE i == Search(nodes, vmmop.start)
            v == nodes[i]
            pages == Covers(v.addr, v.size)
<1>1. /\ setup \in Setups /\ Tiles(nodes, 0, Limit) /\ Addrs = 0 .. Limit - 1 /\ RefsInv /\ CallInv /\ TablesInv
      /\ FreeWhole(nodes) /\ BlocksOK(nodes, setup.block, Limit)
      /\ \A a \in Addrs : PageOK(NodeAt(nodes, a), setup.managed)
  BY DEF VmmInv, NodesInv, PagesInv, BlockInv, Addrs
<1>2. /\ vmmop.pc = "put" /\ ~v.mapped /\ (i < Len(nodes) => ~nodes[i + 1].part)
      /\ IF v.sparse THEN PtesSet(pages, "none") ELSE UNCHANGED pte
      /\ IF v.sparse /\ ~v.mapref THEN PtesRef(pages, v.refd, -1) ELSE UNCHANGED ptrefs
      /\ IF v.sparse /\ v.mapref THEN SparseRef(pages, -1) ELSE UNCHANGED sprefs
      /\ nodes' = Putting(nodes, i)
      /\ vmmop' = VmmIdle /\ torn' = torn /\ setup' = setup
  BY DEF PutFinish, Putting
<1>3. /\ i \in 1 .. Len(nodes) /\ vmmop.start \in Addrs /\ v.addr = vmmop.start /\ ~v.part /\ v.used
      /\ v \in VmaSet /\ Len(nodes) \in Nat
  <2>1. vmmop.start \in Addrs /\ Begins(nodes, vmmop.start) /\ NodeAt(nodes, vmmop.start).used
    BY <1>1, <1>2 DEF CallInv, CallOK
  <2>2. i \in 1 .. Len(nodes)
    BY <1>1, <2>1, SearchFound
  <2>3. v \in VmaSet /\ Len(nodes) \in Nat
    BY <1>1, <2>2, Indices
  <2>. QED  BY <2>1, <2>2, <2>3 DEF Begins, NodeAt
<1>. HIDE DEF i
<1>4. PICK f, l, x : PutTo(nodes, nodes', i, f, l, x)
  <2>1. /\ Tiles(nodes, 0, Limit) /\ i \in 1 .. Len(nodes) /\ nodes[i].used
        /\ (i < Len(nodes) => ~nodes[i + 1].part) /\ FreeWhole(nodes) /\ nodes' = Putting(nodes, i)
    BY <1>1, <1>2, <1>3
  <2>. QED  BY ONLY <2>1, PutShape
<1>5. /\ Tiles(nodes', 0, Limit) /\ FreeWhole(nodes')
      /\ \A a \in Addrs : NodeAt(nodes', a) = IF Search(nodes, a) \in f .. l THEN x ELSE NodeAt(nodes, a)
  BY <1>1, <1>4, PutNodes
<1>6. /\ Free(x) /\ \A k \in f .. l : k = i \/ ~nodes[k].used
      /\ i \in f .. l
  BY <1>4 DEF PutTo
<1>7. ASSUME NEW a \in Addrs
      PROVE  /\ a \in pages <=> Search(nodes, a) = i
             /\ Search(nodes, a) = i => NodeAt(nodes, a) = v
  <2>1. (v.addr <= a /\ a < VmaEnd(v)) <=> Search(nodes, a) \in i .. i
    BY <1>1, <1>3, Within
  <2>2. a \in pages <=> v.addr <= a /\ a < VmaEnd(v)
    BY <1>1, <1>3 DEF Covers, VmaEnd, VmaSet
  <2>3. Search(nodes, a) \in i .. i <=> Search(nodes, a) = i
    BY <1>3
  <2>. QED  BY <2>1, <2>2, <2>3 DEF NodeAt
<1>. HIDE DEF pages
<1>8. ASSUME NEW a \in Addrs
      PROVE  Mine(nodes, vmmop, a) <=> Search(nodes, a) = i
  <2>1. Mine(nodes, vmmop, a) <=> Search(nodes, a) \in PartsOf(nodes, i)
    BY <1>1, <1>2, <1>3, MineIs
  <2>2. ASSUME NEW j \in PartsOf(nodes, i), j # i PROVE FALSE
    <3>1. j \in i .. Len(nodes) /\ \A k \in (i + 1) .. j : nodes[k].part
      BY DEF PartsOf
    <3>2. i + 1 \in (i + 1) .. j /\ i < Len(nodes)
      BY <1>3, <2>2, <3>1
    <3>. QED  BY <1>2, <3>1, <3>2
  <2>3. i \in PartsOf(nodes, i)
    BY <1>3 DEF PartsOf
  <2>. QED  BY <2>1, <2>2, <2>3
<1>9. PageOK(v, setup.managed)
  BY <1>1, <1>3, NodePages
<1>10. /\ ptrefs' \in [PageIdx -> [Addrs -> Int]]
       /\ \A a \in Addrs : a \notin pages => Refs(ptrefs', a) = Refs(ptrefs, a)
       /\ v.sparse /\ ~v.mapref => \A a \in pages : a \in Addrs => \A p \in PageIdx :
            Refs(ptrefs', a)[p] = IF p = v.refd THEN Refs(ptrefs, a)[p] + (-1) ELSE Refs(ptrefs, a)[p]
       /\ ~(v.sparse /\ ~v.mapref) => ptrefs' = ptrefs
  <2>1. CASE v.sparse /\ ~v.mapref
    <3>1. -1 \in Int
      OBVIOUS
    <3>2. PICK p : p = v.refd
      OBVIOUS
    <3>3. PtesRef(pages, p, -1) /\ p \in PageIdx
      <4>1. p \in Idx /\ p # NoPage
        BY <1>3, <1>9, <2>1, <3>2 DEF PageOK, VmaSet
      <4>. QED  BY <1>1, <1>2, <2>1, <3>2, <4>1, SetupIs
    <3>4. /\ ptrefs' \in [PageIdx -> [Addrs -> Int]]
          /\ \A a \in Addrs : \A r \in PageIdx :
               Refs(ptrefs', a)[r] = IF r = p /\ a \in pages THEN Refs(ptrefs, a)[r] + (-1) ELSE Refs(ptrefs, a)[r]
          /\ \A a \in Addrs : a \notin pages => Refs(ptrefs', a) = Refs(ptrefs, a)
      BY ONLY <1>1, <3>1, <3>3, RefsCounted
    <3>. QED  BY <2>1, <3>2, <3>4
  <2>2. CASE ~(v.sparse /\ ~v.mapref)
    BY <1>1, <1>2, <2>2 DEF RefsInv
  <2>. QED  BY <2>1, <2>2
<1>11. \A a \in Addrs : pte'[a] = IF a \in pages /\ v.sparse THEN "none" ELSE pte[a]
  BY <1>2 DEF PtesSet
<1>12. \A a \in Addrs : sprefs'[a] = IF a \in pages /\ v.sparse /\ v.mapref THEN sprefs[a] + (-1) ELSE sprefs[a]
  BY <1>2 DEF SparseRef
<1>. HIDE DEF v
<1>13. ASSUME NEW a \in Addrs
       PROVE  TableOK(Mine(nodes', vmmop', a), a \in torn', NodeAt(nodes', a), pte'[a], Refs(ptrefs', a),
                      sprefs'[a])
  <2>. DEFINE w == NodeAt(nodes, a)
  <2>1. Mine(nodes', vmmop', a) = FALSE /\ torn' = torn
    <3>1. vmmop'.pc # "put"
      BY <1>2 DEF VmmIdle
    <3>. QED  BY <1>2, <3>1, NotMine
  <2>2. TableOK(Mine(nodes, vmmop, a), a \in torn, w, pte[a], Refs(ptrefs, a), sprefs[a])
    BY <1>1 DEF TablesInv
  <2>3. CASE Search(nodes, a) = i
    <3>1. w = v /\ a \in pages /\ NodeAt(nodes', a) = x
      BY <1>5, <1>6, <1>7, <2>3
    <3>2. SUFFICES ASSUME ~setup.remaps, a \notin torn PROVE Holds(x, pte'[a], Refs(ptrefs', a), sprefs'[a])
      BY <1>6, <2>1, <3>1 DEF TableOK, Free
    <3>3. Dropped(v, pte[a], Refs(ptrefs, a), sprefs[a])
      BY <1>8, <2>2, <2>3, <3>1, <3>2 DEF TableOK
    <3>4. pte'[a] = "none"
      BY <1>11, <3>1, <3>3 DEF Dropped, Empty
    <3>5. ASSUME NEW p \in PageIdx PROVE Refs(ptrefs', a)[p] = 0
      <4>1. Refs(ptrefs, a)[p] = IF v.sparse /\ ~v.mapref /\ v.refd = p THEN 1 ELSE 0
        BY <3>3 DEF Dropped
      <4>. QED  BY <1>10, <3>1, <4>1
    <3>6. sprefs'[a] = 0
      BY <1>12, <3>1, <3>3 DEF Dropped
    <3>7. \A p \in PageIdx : x.refd # p
      BY <1>1, <1>6, SetupIs DEF Free
    <3>. QED  BY <1>6, <3>4, <3>5, <3>6, <3>7 DEF Holds, Empty, Free
  <2>4. CASE Search(nodes, a) # i /\ Search(nodes, a) \in f .. l
    <3>1. NodeAt(nodes', a) = x /\ ~w.used
      BY <1>5, <1>6, <2>4 DEF NodeAt
    <3>2. pte'[a] = pte[a] /\ Refs(ptrefs', a) = Refs(ptrefs, a) /\ sprefs'[a] = sprefs[a]
      BY <1>7, <1>10, <1>11, <1>12, <2>4
    <3>3. Mine(nodes, vmmop, a) = FALSE
      BY <1>8, <2>4 DEF Mine
    <3>4. Like(x, w)
      <4>1. w \in VmaSet /\ PageOK(w, setup.managed)
        BY <1>1, SearchFound
      <4>. HIDE DEF w
      <4>. QED  BY <1>6, <3>1, <4>1 DEF PageOK, Free, Like, Same, VmaSet
    <3>. HIDE DEF w
    <3>. QED  BY <2>1, <2>2, <3>1, <3>2, <3>3, <3>4, TableLike
  <2>5. CASE Search(nodes, a) \notin f .. l
    <3>1. NodeAt(nodes', a) = w /\ Search(nodes, a) # i
      BY <1>5, <1>6, <2>5
    <3>2. pte'[a] = pte[a] /\ Refs(ptrefs', a) = Refs(ptrefs, a) /\ sprefs'[a] = sprefs[a]
      BY <1>7, <1>10, <1>11, <1>12, <3>1
    <3>3. Mine(nodes, vmmop, a) = FALSE
      BY <1>8, <3>1 DEF Mine
    <3>. QED  BY <2>1, <2>2, <3>1, <3>2, <3>3
  <2>. QED  BY <2>3, <2>4, <2>5
<1>14. \A a \in Addrs : PageOK(NodeAt(nodes', a), setup.managed)
  <2>1. PageOK(x, setup.managed)
    BY <1>6 DEF Free, PageOK
  <2>. QED  BY <1>1, <1>5, <2>1
<1>15. BlocksOK(nodes', setup.block, Limit)
  <2>1. \A a \in 0 .. Limit - 1 : /\ NodeAt(nodes', a).used => NodeAt(nodes, a).used
                                  /\ NodeAt(nodes', a).used => NodeAt(nodes', a).page = NodeAt(nodes, a).page
    BY <1>1, <1>5, <1>6 DEF Free
  <2>. QED  BY <1>1, <2>1, BlocksLike
<1>16. CallOK(nodes', vmmop', PfnLimit, Limit) /\ UNCHANGED setup
  BY <1>2 DEF CallOK, Calls, VmmIdle
<1>. QED  BY <1>5, <1>10, <1>13, <1>14, <1>15, <1>16, InvNextIs

-----------------------------------------------------------------------------
(* Mapping of memory: nvkm_vmm_map_locked.                                 *)

\* Node v, mapped to memory with page size p.
Backed(v, p) == [v EXCEPT !.refd = p, !.memory = TRUE, !.mapped = TRUE]

LEMMA BackedIs ==
  ASSUME NEW v \in VmaSet, NEW p \in Idx
  PROVE  LET x == Backed(v, p)
         IN  /\ x \in VmaSet /\ x.addr = v.addr /\ VmaEnd(x) = VmaEnd(v) /\ Same(x, v) /\ x.part = v.part
             /\ x.refd = p /\ x.memory /\ x.mapped
  BY DEF Backed, VmaSet, VmaEnd, Same

\* Node i of s, or some of it, becomes x, of the same allocation and mapped to memory.
BackedOf(s, i, x) ==
  LET v == s[i]
  IN  /\ x \in VmaSet /\ v.addr <= x.addr /\ VmaEnd(x) <= VmaEnd(v) /\ v.used /\ Same(x, v)
      /\ x.mapped /\ x.memory /\ (x.part <=> (v.part \/ v.addr # x.addr))
      /\ x.refd # NoPage /\ (v.refd # NoPage => x.refd = v.refd)
      /\ v.addr # x.addr \/ VmaEnd(v) # VmaEnd(x) => v.refd # NoPage \/ v.mapref

LEMMA MapNodes ==
  ASSUME NEW s, NEW a, NEW b, Tiles(s, a, b), FreeWhole(s), NEW i \in 1 .. Len(s), NEW x, BackedOf(s, i, x),
         NEW r, Replaced(s, r, i, i, Cut(s[i], x, Left(s[i], x), Right(s[i], x, TRUE)))
  PROVE  /\ Tiles(r, a, b) /\ FreeWhole(r)
         /\ \A y \in a .. b - 1 :
              IF x.addr <= y /\ y < VmaEnd(x) THEN NodeAt(r, y) = x ELSE Like(NodeAt(r, y), NodeAt(s, y))
<1>. DEFINE v == s[i]
<1>1. Len(s) \in Nat /\ v \in VmaSet /\ \A k \in 1 .. Len(s) - 1 : Meets(s[k], s[k + 1])
  BY Indices DEF Tiles
<1>2. /\ x \in VmaSet /\ v.addr <= x.addr /\ VmaEnd(x) <= VmaEnd(v) /\ v.used /\ Same(x, v)
      /\ x.mapped /\ x.memory /\ (x.part <=> (v.part \/ v.addr # x.addr))
      /\ x.refd # NoPage /\ (v.refd # NoPage => x.refd = v.refd)
      /\ v.addr # x.addr \/ VmaEnd(v) # VmaEnd(x) => v.refd # NoPage \/ v.mapref
  BY DEF BackedOf
<1>3. i > 1 => Meets(s[i - 1], v)
  <2>1. i > 1 => i - 1 \in 1 .. Len(s) - 1 /\ i - 1 + 1 = i
    BY <1>1
  <2>. QED  BY <1>1, <2>1
<1>4. i < Len(s) => Meets(v, s[i + 1])
  <2>1. i < Len(s) => i \in 1 .. Len(s) - 1
    BY <1>1
  <2>. QED  BY <1>1, <2>1
<1>. HIDE DEF v
<1>5. x.addr # v.addr => Meets(v, x)
  BY <1>2 DEF Meets, Same
<1>6. x.addr = v.addr /\ i > 1 => Meets(s[i - 1], x)
  BY <1>2, <1>3 DEF Meets, Same
<1>7. VmaEnd(x) # VmaEnd(v) => \A w \in VmaSet : Like(w, v) /\ w.part = TRUE => Meets(x, w)
  BY <1>2 DEF Meets, Same, Like
<1>8. VmaEnd(x) = VmaEnd(v) /\ i < Len(s) => Meets(x, s[i + 1])
  BY <1>2, <1>4 DEF Meets, Same
<1>9. /\ Tiles(r, a, b)
      /\ \A z \in Range(r) : z = x \/ z \in Range(s) \/ (z.used = v.used /\ z.part \in {v.part, TRUE})
      /\ \A y \in a .. b - 1 :
           IF x.addr <= y /\ y < VmaEnd(x) THEN NodeAt(r, y) = x ELSE Like(NodeAt(r, y), NodeAt(s, y))
  <2>1. /\ Tiles(s, a, b) /\ i \in 1 .. Len(s) /\ TRUE \in BOOLEAN /\ x \in VmaSet
        /\ s[i].addr <= x.addr /\ VmaEnd(x) <= VmaEnd(s[i])
        /\ (x.addr # s[i].addr => Meets(s[i], x))
        /\ (x.addr = s[i].addr /\ i > 1 => Meets(s[i - 1], x))
        /\ (VmaEnd(x) # VmaEnd(s[i]) => \A w \in VmaSet : Like(w, s[i]) /\ w.part = TRUE => Meets(x, w))
        /\ (VmaEnd(x) = VmaEnd(s[i]) /\ i < Len(s) => Meets(x, s[i + 1]))
        /\ Replaced(s, r, i, i, Cut(s[i], x, Left(s[i], x), Right(s[i], x, TRUE)))
    BY <1>2, <1>5, <1>6, <1>7, <1>8 DEF v
  <2>. QED  BY ONLY <2>1, CutStep DEF v
<1>10. FreeWhole(r)
  <2>1. ASSUME NEW z \in Range(r), ~z.used PROVE ~z.part
    <3>1. z # x
      BY <1>2, <2>1 DEF Same
    <3>2. z \in Range(s)
      BY <1>2, <1>9, <2>1, <3>1
    <3>. QED  BY <2>1, <3>2 DEF FreeWhole
  <2>. QED  BY <2>1 DEF FreeWhole
<1>. QED  BY <1>9, <1>10

LEMMA VmmMapStep ==
  ASSUME VmmInv, NEW i \in DOMAIN nodes, NEW addr \in Addrs, NEW size \in Sizes, VmmMap(i, addr, size)
  PROVE  VmmInv'
<1>. DEFINE v == nodes[i]
            cut == NodeSplit(nodes, i, addr, size)
            c == cut.ns[cut.at]
            pages == Covers(addr, size)
<1>1. /\ setup \in Setups /\ Tiles(nodes, 0, Limit) /\ Addrs = 0 .. Limit - 1 /\ RefsInv /\ CallInv /\ TablesInv
      /\ FreeWhole(nodes) /\ BlocksOK(nodes, setup.block, Limit) /\ Limit \in Nat
      /\ \A a \in Addrs : PageOK(NodeAt(nodes, a), setup.managed)
  BY SetupIs DEF VmmInv, NodesInv, PagesInv, BlockInv, Addrs
<1>2. /\ vmmop.pc = "idle" /\ v.used /\ addr \in Covers(v.addr, v.size) /\ addr + size <= VmaEnd(v)
      /\ ~(v.mapped /\ ~v.memory)
      /\ v.addr # addr \/ v.size # size => ~v.memory /\ (v.refd # NoPage \/ v.mapref)
      /\ UNCHANGED <<sprefs, vmmop, setup, torn>>
  BY DEF VmmMap, MapNode, VmmIdling
<1>3. PICK p \in MapPages(c) :
        /\ nodes' = [cut.ns EXCEPT ![cut.at].refd = p, ![cut.at].memory = TRUE, ![cut.at].mapped = TRUE]
        /\ PtesSet(pages, "memory")
        /\ IF c.refd = NoPage THEN PtesRef(pages, p, 1) ELSE UNCHANGED ptrefs
  BY DEF VmmMap
<1>4. i \in 1 .. Len(nodes) /\ v \in VmaSet /\ PageOK(v, setup.managed)
  BY <1>1, Indices, NodePages
<1>5. addr \in Nat /\ size \in Nat \ {0} /\ v.addr <= addr /\ VmaEnd(v) = v.addr + v.size /\ v.addr \in Nat
      /\ v.size \in Nat
  <2>1. v.addr \in Nat /\ v.size \in Nat
    BY <1>4 DEF VmaSet
  <2>. QED  BY <1>1, <1>2, <2>1, VmmAssumption DEF Addrs, Covers, VmaEnd
<1>6. SplitOK(nodes, i, addr, size, cut)
  BY <1>1, <1>2, <1>4, <1>5, SplitUpdated
<1>. HIDE DEF cut
<1>7. /\ cut.ns \in Seq(VmaSet) /\ cut.at \in 1 .. Len(cut.ns)
      /\ c \in VmaSet /\ c.addr = addr /\ VmaEnd(c) = addr + size /\ Like(c, v)
      /\ c.part <=> (v.part \/ v.addr # addr)
      /\ \A y \in VmaSet : y.addr = addr /\ VmaEnd(y) = addr + size =>
           Replaced(nodes, [cut.ns EXCEPT ![cut.at] = y], i, i, Cut(v, y, Left(v, y), Right(v, y, TRUE)))
  BY <1>6 DEF SplitOK
<1>8. nodes' = [cut.ns EXCEPT ![cut.at] = Backed(c, p)]
  <2>1. cut.at \in DOMAIN cut.ns
    BY <1>7, LenProperties
  <2>. QED  BY <1>3, <2>1 DEF Backed
<1>. HIDE DEF c
<1>9. /\ p \in PageIdx /\ p \in Idx /\ p # NoPage /\ (v.refd # NoPage => p = v.refd) /\ c.refd = v.refd
  <2>1. c.refd \in Idx /\ c.page \in Idx /\ c.refd = v.refd
    BY <1>7 DEF VmaSet, Like
  <2>. QED  BY <1>1, <2>1, SetupIs DEF MapPages
<1>10. PICK x : x = Backed(c, p)
  OBVIOUS
<1>11. /\ x \in VmaSet /\ x.addr = addr /\ VmaEnd(x) = addr + size /\ Same(x, v)
       /\ (x.part <=> (v.part \/ v.addr # addr)) /\ x.refd = p /\ x.memory /\ x.mapped
  <2>1. /\ x \in VmaSet /\ x.addr = c.addr /\ VmaEnd(x) = VmaEnd(c) /\ Same(x, c) /\ x.part = c.part
        /\ x.refd = p /\ x.memory /\ x.mapped
    BY <1>7, <1>9, <1>10, BackedIs
  <2>. QED  BY <1>7, <2>1 DEF Like, Same
<1>12. Replaced(nodes, nodes', i, i, Cut(v, x, Left(v, x), Right(v, x, TRUE)))
  BY <1>7, <1>8, <1>10, <1>11
<1>. HIDE DEF v, pages
<1>13. /\ Tiles(nodes', 0, Limit) /\ FreeWhole(nodes')
       /\ \A a \in Addrs :
            IF addr <= a /\ a < addr + size THEN NodeAt(nodes', a) = x ELSE Like(NodeAt(nodes', a), NodeAt(nodes, a))
  <2>1. BackedOf(nodes, i, x)
    <3>1. v.addr # addr \/ VmaEnd(v) # addr + size => v.refd # NoPage \/ v.mapref
      BY <1>2, <1>5
    <3>. QED  BY <1>2, <1>5, <1>9, <1>11, <3>1 DEF BackedOf, v
  <2>2. /\ Tiles(nodes, 0, Limit) /\ FreeWhole(nodes) /\ i \in 1 .. Len(nodes)
        /\ Replaced(nodes, nodes', i, i, Cut(nodes[i], x, Left(nodes[i], x), Right(nodes[i], x, TRUE)))
    BY <1>1, <1>4, <1>12 DEF v
  <2>3. /\ Tiles(nodes', 0, Limit) /\ FreeWhole(nodes')
        /\ \A a \in 0 .. Limit - 1 :
             IF x.addr <= a /\ a < VmaEnd(x) THEN NodeAt(nodes', a) = x ELSE Like(NodeAt(nodes', a), NodeAt(nodes, a))
    BY ONLY <2>1, <2>2, MapNodes
  <2>. QED  BY <1>1, <1>11, <2>3
<1>14. ASSUME NEW a \in Addrs
       PROVE  /\ a \in pages <=> addr <= a /\ a < addr + size
              /\ a \in pages => NodeAt(nodes, a) = v
  <2>1. a \in pages <=> addr <= a /\ a < addr + size
    BY <1>1, <1>5 DEF pages, Covers
  <2>2. a \in pages => v.addr <= a /\ a < VmaEnd(v)
    BY <1>1, <1>2, <1>5, <2>1
  <2>. QED  BY <1>1, <1>4, <2>1, <2>2, NodePage DEF v
<1>15. /\ ptrefs' \in [PageIdx -> [Addrs -> Int]]
       /\ \A a \in Addrs : a \notin pages => Refs(ptrefs', a) = Refs(ptrefs, a)
       /\ v.refd = NoPage => \A a \in pages : a \in Addrs => \A q \in PageIdx :
            Refs(ptrefs', a)[q] = IF q = p THEN Refs(ptrefs, a)[q] + 1 ELSE Refs(ptrefs, a)[q]
       /\ v.refd # NoPage => ptrefs' = ptrefs
  <2>1. CASE v.refd = NoPage
    <3>1. 1 \in Int
      OBVIOUS
    <3>2. PtesRef(pages, p, 1) /\ p \in PageIdx
      BY <1>3, <1>9, <2>1
    <3>3. /\ ptrefs' \in [PageIdx -> [Addrs -> Int]]
          /\ \A a \in Addrs : \A r \in PageIdx :
               Refs(ptrefs', a)[r] = IF r = p /\ a \in pages THEN Refs(ptrefs, a)[r] + 1 ELSE Refs(ptrefs, a)[r]
          /\ \A a \in Addrs : a \notin pages => Refs(ptrefs', a) = Refs(ptrefs, a)
      BY ONLY <1>1, <3>1, <3>2, RefsCounted
    <3>. QED  BY <2>1, <3>3
  <2>2. CASE v.refd # NoPage
    BY <1>1, <1>3, <1>9, <2>2 DEF RefsInv
  <2>. QED  BY <2>1, <2>2
<1>16. \A a \in Addrs : pte'[a] = IF a \in pages THEN "memory" ELSE pte[a]
  BY <1>3 DEF PtesSet
<1>17. ASSUME NEW a \in Addrs
       PROVE  TableOK(Mine(nodes', vmmop', a), a \in torn', NodeAt(nodes', a), pte'[a], Refs(ptrefs', a),
                      sprefs'[a])
  <2>. DEFINE w == NodeAt(nodes, a)
  <2>1. /\ Mine(nodes', vmmop', a) = FALSE /\ Mine(nodes, vmmop, a) = FALSE
        /\ torn' = torn /\ sprefs'[a] = sprefs[a]
    <3>1. vmmop'.pc # "put" /\ vmmop.pc # "put"
      BY <1>2
    <3>. QED  BY <1>2, <3>1, NotMine
  <2>2. TableOK(FALSE, a \in torn, w, pte[a], Refs(ptrefs, a), sprefs[a])
    BY <1>1, <2>1 DEF TablesInv
  <2>3. CASE a \in pages
    <3>1. w = v /\ NodeAt(nodes', a) = x /\ pte'[a] = "memory"
      BY <1>13, <1>14, <1>16, <2>3
    <3>2. SUFFICES ASSUME ~setup.remaps, a \notin torn PROVE Holds(x, pte'[a], Refs(ptrefs', a), sprefs'[a])
      BY <1>11, <2>1, <3>1 DEF TableOK
    <3>3. Holds(v, pte[a], Refs(ptrefs, a), sprefs[a])
      BY <2>2, <3>1, <3>2 DEF TableOK
    <3>4. ASSUME NEW q \in PageIdx PROVE Refs(ptrefs', a)[q] = IF x.refd = q THEN 1 ELSE 0
      <4>1. Refs(ptrefs, a)[q] = IF v.refd = q THEN 1 ELSE 0
        BY <3>3 DEF Holds
      <4>2. NoPage \notin PageIdx
        BY <1>1, SetupIs
      <4>. QED  BY <1>9, <1>11, <1>15, <2>3, <4>1, <4>2
    <3>5. sprefs'[a] = IF x.sparse /\ x.mapref THEN 1 ELSE 0
      BY <1>11, <2>1, <3>3 DEF Holds, Same
    <3>. QED  BY <1>11, <3>1, <3>4, <3>5 DEF Holds
  <2>4. CASE a \notin pages
    <3>1. Like(NodeAt(nodes', a), w) /\ pte'[a] = pte[a] /\ Refs(ptrefs', a) = Refs(ptrefs, a)
      BY <1>13, <1>14, <1>15, <1>16, <2>4
    <3>. HIDE DEF w
    <3>. QED  BY <2>1, <2>2, <3>1, TableLike
  <2>. QED  BY <2>3, <2>4
<1>18. \A a \in Addrs : PageOK(NodeAt(nodes', a), setup.managed)
  <2>1. PageOK(x, setup.managed)
    BY <1>2, <1>4, <1>9, <1>11 DEF PageOK, Same
  <2>. QED  BY <1>1, <1>13, <2>1, PageLike
<1>19. BlocksOK(nodes', setup.block, Limit)
  <2>1. ASSUME NEW a \in 0 .. Limit - 1 PROVE Same(NodeAt(nodes', a), NodeAt(nodes, a))
    <3>1. a \in pages => Same(x, NodeAt(nodes, a))
      BY <1>1, <1>11, <1>14
    <3>. QED  BY <1>1, <1>13, <1>14, <3>1 DEF Like
  <2>. QED  BY <1>1, <2>1, BlocksLike DEF Same
<1>20. CallOK(nodes', vmmop', PfnLimit, Limit) /\ UNCHANGED setup
  BY <1>1, <1>2 DEF CallInv, CallOK
<1>. QED  BY <1>13, <1>15, <1>17, <1>18, <1>19, <1>20, InvNextIs

-----------------------------------------------------------------------------
(* Mapping of PFNs: nvkm_vmm_pfn_map and nvkm_vmm_pfn_unmap.               *)

LEMMA PfnFrames ==
  ASSUME VmmInv, vmmop.pc # "put", NEW i \in 1 .. Len(nodes), NEW map \in BOOLEAN,
         nodes[i].mapref, ~nodes[i].memory, nodes[i].mapped <=> ~map, ~setup.remaps
  PROVE  FramesOf(nodes, i, map)
<1>1. /\ Tiles(nodes, 0, Limit) /\ Addrs = 0 .. Limit - 1 /\ TablesInv
      /\ \A a \in Addrs : PageOK(NodeAt(nodes, a), setup.managed)
  BY DEF VmmInv, NodesInv, PagesInv, Addrs
<1>2. ASSUME NEW k \in 1 .. Len(nodes)
      PROVE  /\ nodes[k].memory => nodes[k].mapped
             /\ nodes[k].mapref /\ ~nodes[k].memory => nodes[k].refd = FramePage(nodes[k].mapped)
  <2>1. PageOK(nodes[k], setup.managed) /\ nodes[k] \in VmaSet
    BY <1>1, NodePages, Indices
  <2>2. nodes[k].mapref /\ ~nodes[k].mapped => nodes[k].refd = NoPage
    <3>1. PICK a \in Addrs : NodeAt(nodes, a) = nodes[k]
      BY <1>1, NodePage
    <3>2. TableOK(FALSE, a \in torn, nodes[k], pte[a], Refs(ptrefs, a), sprefs[a])
      BY <1>1, <3>1, NotMine DEF TablesInv
    <3>. QED  BY <3>2 DEF TableOK
  <2>. QED  BY <2>1, <2>2 DEF PageOK, FramePage, VmaSet
<1>3. nodes[i].used
  BY <1>1, NodePages DEF PageOK
<1>. QED  BY <1>2, <1>3 DEF FramesOf

\* Pages from addr on, in node i, are mapped, or unmapped.
PfnSets(i, addr, size, map) ==
  /\ ~setup.remaps
  /\ i \in 1 .. Len(nodes) /\ map \in BOOLEAN /\ addr \in Nat /\ size \in Nat \ {0}
  /\ nodes[i].addr <= addr /\ addr + size <= VmaEnd(nodes[i])
  /\ nodes[i].mapref /\ ~nodes[i].memory /\ (nodes[i].mapped <=> ~map)
  /\ LET new == PfnSplitMerge(nodes, i, addr, size, map)
     IN  nodes' = PfnMapped(new.ns, new.at, map)

LEMMA PfnSetPages ==
  ASSUME VmmInv, vmmop.pc # "put", NEW i, NEW addr, NEW size, NEW map, PfnSets(i, addr, size, map)
  PROVE  /\ FramesSet(nodes, 0, Limit, nodes', addr, size, map)
         /\ nodes'[PfnSplitMerge(nodes, i, addr, size, map).at] \in VmaSet
         /\ \A a \in Addrs : a \in Covers(addr, size) => NodeAt(nodes, a) = nodes[i]
         /\ \A a \in Addrs : a \in Covers(addr, size) <=> addr <= a /\ a < addr + size
<1>1. /\ i \in 1 .. Len(nodes) /\ map \in BOOLEAN /\ addr \in Nat /\ size \in Nat \ {0}
      /\ nodes[i].addr <= addr /\ addr + size <= VmaEnd(nodes[i])
      /\ nodes[i].mapref /\ ~nodes[i].memory /\ (nodes[i].mapped <=> ~map) /\ ~setup.remaps
  BY DEF PfnSets
<1>2. Tiles(nodes, 0, Limit) /\ Addrs = 0 .. Limit - 1 /\ Limit \in Nat
  BY SetupIs DEF VmmInv, NodesInv, Addrs
<1>3. FramesOf(nodes, i, map)
  BY <1>1, PfnFrames
<1>. DEFINE new == PfnSplitMerge(nodes, i, addr, size, map)
            r == PfnMapped(new.ns, new.at, map)
<1>4. FramesSet(nodes, 0, Limit, r, addr, size, map) /\ r[new.at] \in VmaSet
  <2>1. /\ Tiles(nodes, 0, Limit) /\ i \in 1 .. Len(nodes) /\ map \in BOOLEAN /\ FramesOf(nodes, i, map)
        /\ addr \in Nat /\ size \in Nat \ {0} /\ nodes[i].addr <= addr /\ addr + size <= VmaEnd(nodes[i])
    BY <1>1, <1>2, <1>3
  <2>. QED  BY ONLY <2>1, FramesStep
<1>5. nodes' = r
  BY DEF PfnSets
<1>6. ASSUME NEW a \in Addrs
      PROVE  /\ a \in Covers(addr, size) => NodeAt(nodes, a) = nodes[i]
             /\ a \in Covers(addr, size) <=> addr <= a /\ a < addr + size
  <2>1. a \in Covers(addr, size) <=> addr <= a /\ a < addr + size
    BY <1>1, <1>2 DEF Covers
  <2>2. a \in Covers(addr, size) => nodes[i].addr <= a /\ a < VmaEnd(nodes[i])
    <3>1. nodes[i].addr \in Nat /\ VmaEnd(nodes[i]) \in Nat
      BY <1>1, <1>2, Indices, VmaIs
    <3>. QED  BY <1>1, <1>2, <2>1, <3>1
  <2>. QED  BY <1>1, <1>2, <2>1, <2>2, NodePage
<1>. HIDE DEF r
<1>. QED  BY <1>4, <1>5, <1>6

\* The invariant follows if the tables are as they should be for those pages.
LEMMA PfnSetStep ==
  ASSUME VmmInv, vmmop.pc # "put", vmmop'.pc # "put", UNCHANGED <<setup, sprefs>>,
         CallOK(nodes', vmmop', PfnLimit, Limit),
         NEW i, NEW addr, NEW size, NEW map, PfnSets(i, addr, size, map),
         ptrefs' \in [PageIdx -> [Addrs -> Int]],
         \A a \in Addrs :
           IF a \in Covers(addr, size)
           THEN \A w : /\ Same(w, nodes[i]) /\ (w.mapped <=> map) /\ ~w.memory /\ w.refd = FramePage(map)
                       /\ a \notin torn'
                       => Holds(w, pte'[a], Refs(ptrefs', a), sprefs[a])
           ELSE pte'[a] = pte[a] /\ Refs(ptrefs', a) = Refs(ptrefs, a) /\ (a \in torn => a \in torn')
  PROVE  VmmInv'
<1>1. /\ setup \in Setups /\ Tiles(nodes, 0, Limit) /\ Addrs = 0 .. Limit - 1 /\ TablesInv
      /\ FreeWhole(nodes) /\ BlocksOK(nodes, setup.block, Limit)
      /\ \A a \in Addrs : PageOK(NodeAt(nodes, a), setup.managed)
  BY DEF VmmInv, NodesInv, PagesInv, BlockInv, Addrs
<1>2. /\ Tiles(nodes', 0, Limit) /\ \A z \in Range(nodes') : z \in Range(nodes) \/ z.used
      /\ \A a \in Addrs :
           LET v == NodeAt(nodes, a)
               w == NodeAt(nodes', a)
           IN  IF a \in Covers(addr, size)
               THEN v = nodes[i] /\ Same(w, v) /\ (w.mapped <=> map) /\ ~w.memory /\ w.refd = FramePage(map)
               ELSE Like(w, v)
  <2>1. /\ FramesSet(nodes, 0, Limit, nodes', addr, size, map)
        /\ \A a \in Addrs : a \in Covers(addr, size) => NodeAt(nodes, a) = nodes[i]
        /\ \A a \in Addrs : a \in Covers(addr, size) <=> addr <= a /\ a < addr + size
    BY PfnSetPages
  <2>. QED  BY <1>1, <2>1 DEF FramesSet
<1>3. FreeWhole(nodes')
  BY <1>1, <1>2 DEF FreeWhole
<1>4. map \in BOOLEAN /\ nodes[i].mapref /\ i \in 1 .. Len(nodes)
  BY DEF PfnSets
<1>5. PageOK(nodes[i], setup.managed)
  BY <1>1, <1>4, NodePages
<1>6. Len(PageSize) # NoPage
  BY <1>1, SetupIs DEF NoPage
<1>7. ASSUME NEW a \in Addrs PROVE PageOK(NodeAt(nodes', a), setup.managed)
  <2>. DEFINE v == NodeAt(nodes, a)
              w == NodeAt(nodes', a)
  <2>1. CASE a \in Covers(addr, size)
    <3>1. Same(w, nodes[i]) /\ (w.mapped <=> map) /\ ~w.memory /\ w.refd = FramePage(map)
      BY <1>2, <2>1
    <3>. HIDE DEF w
    <3>2. w.mapped => w.refd = Len(PageSize)
      BY <3>1 DEF FramePage
    <3>3. w.mapref /\ w.used /\ (setup.managed > 0 => ~w.sparse)
      BY <1>4, <1>5, <3>1 DEF PageOK, Same
    <3>4. PageOK(w, setup.managed)
      BY ONLY <1>6, <3>1, <3>2, <3>3 DEF PageOK
    <3>. QED  BY <3>4 DEF w
  <2>2. CASE a \notin Covers(addr, size)
    <3>1. Like(w, v) /\ PageOK(v, setup.managed)
      BY <1>1, <1>2, <2>2
    <3>. HIDE DEF v, w
    <3>2. PageOK(w, setup.managed)
      BY ONLY <3>1, PageLike
    <3>. QED  BY <3>2 DEF w
  <2>. QED  BY <2>1, <2>2
<1>8. ASSUME NEW a \in Addrs
      PROVE  TableOK(Mine(nodes', vmmop', a), a \in torn', NodeAt(nodes', a), pte'[a], Refs(ptrefs', a),
                     sprefs'[a])
  <2>. DEFINE v == NodeAt(nodes, a)
              w == NodeAt(nodes', a)
  <2>1. Mine(nodes', vmmop', a) = FALSE /\ Mine(nodes, vmmop, a) = FALSE /\ sprefs'[a] = sprefs[a]
    BY NotMine
  <2>2. TableOK(FALSE, a \in torn, v, pte[a], Refs(ptrefs, a), sprefs[a])
    BY <1>1, <2>1 DEF TablesInv
  <2>3. CASE a \in Covers(addr, size)
    <3>1. Same(w, nodes[i]) /\ (w.mapped <=> map) /\ ~w.memory /\ w.refd = FramePage(map)
      BY <1>2, <2>3
    <3>. HIDE DEF w
    <3>2. a \notin torn' => Holds(w, pte'[a], Refs(ptrefs', a), sprefs[a])
      BY <2>3, <3>1
    <3>3. ~w.mapped => w.refd = NoPage
      BY <1>4, <3>1 DEF FramePage
    <3>. QED  BY <2>1, <3>2, <3>3 DEF TableOK, w
  <2>4. CASE a \notin Covers(addr, size)
    <3>1. Like(w, v) /\ pte'[a] = pte[a] /\ Refs(ptrefs', a) = Refs(ptrefs, a) /\ (a \in torn => a \in torn')
      BY <1>2, <2>4
    <3>. HIDE DEF v
    <3>2. TableOK(FALSE, a \in torn, w, pte[a], Refs(ptrefs, a), sprefs[a])
      BY <2>2, <3>1, TableLike
    <3>. HIDE DEF w
    <3>3. TableOK(FALSE, a \in torn', w, pte'[a], Refs(ptrefs', a), sprefs[a])
      BY <3>1, <3>2 DEF TableOK
    <3>. QED  BY <2>1, <3>3 DEF w
  <2>. QED  BY <2>3, <2>4
<1>9. BlocksOK(nodes', setup.block, Limit)
  <2>1. \A a \in 0 .. Limit - 1 : Same(NodeAt(nodes', a), NodeAt(nodes, a))
    BY <1>1, <1>2 DEF Like
  <2>. QED  BY <1>1, <2>1, BlocksLike DEF Same
<1>. QED  BY <1>2, <1>3, <1>7, <1>8, <1>9, InvNextIs

\* The tables after pages have been mapped, or unmapped, and referenced.
LEMMA PfnTables ==
  ASSUME VmmInv, vmmop.pc # "put", setup.managed > 0,
         NEW i, NEW addr, NEW size, NEW map, PfnSets(i, addr, size, map),
         PtesSet(Covers(addr, size), IF map THEN "pfn" ELSE "none"),
         PtesRef(Covers(addr, size), Len(PageSize), IF map THEN 1 ELSE -1), UNCHANGED torn
  PROVE  /\ ptrefs' \in [PageIdx -> [Addrs -> Int]]
         /\ \A a \in Addrs :
              IF a \in Covers(addr, size)
              THEN \A w : /\ Same(w, nodes[i]) /\ (w.mapped <=> map) /\ ~w.memory /\ w.refd = FramePage(map)
                          /\ a \notin torn'
                          => Holds(w, pte'[a], Refs(ptrefs', a), sprefs[a])
              ELSE pte'[a] = pte[a] /\ Refs(ptrefs', a) = Refs(ptrefs, a) /\ (a \in torn => a \in torn')
<1>. DEFINE pages == Covers(addr, size)
            d == IF map THEN 1 ELSE -1
            n == Len(PageSize)
            v == nodes[i]
<1>1. /\ setup \in Setups /\ Tiles(nodes, 0, Limit) /\ Addrs = 0 .. Limit - 1 /\ TablesInv /\ RefsInv
      /\ \A a \in Addrs : PageOK(NodeAt(nodes, a), setup.managed)
  BY DEF VmmInv, NodesInv, PagesInv, Addrs
<1>2. /\ map \in BOOLEAN /\ v.mapref /\ i \in 1 .. Len(nodes) /\ ~v.memory /\ (v.mapped <=> ~map)
      /\ ~setup.remaps
  BY DEF PfnSets
<1>3. n \in PageIdx /\ NoPage \notin PageIdx /\ d \in Int
  BY <1>1, <1>2, SetupIs
<1>4. /\ ptrefs' \in [PageIdx -> [Addrs -> Int]]
      /\ \A a \in Addrs : \A q \in PageIdx :
           Refs(ptrefs', a)[q] = IF q = n /\ a \in pages THEN Refs(ptrefs, a)[q] + d ELSE Refs(ptrefs, a)[q]
      /\ \A a \in Addrs : a \notin pages => Refs(ptrefs', a) = Refs(ptrefs, a)
  <2>1. PtesRef(pages, n, d)
    OBVIOUS
  <2>. HIDE DEF d, n, pages
  <2>. QED  BY ONLY <1>1, <1>3, <2>1, RefsCounted
<1>5. \A a \in Addrs : pte'[a] = IF a \in pages THEN (IF map THEN "pfn" ELSE "none") ELSE pte[a]
  BY DEF PtesSet
<1>6. \A a \in Addrs : a \in pages => NodeAt(nodes, a) = v
  BY PfnSetPages
<1>7. ~v.sparse /\ v.refd = FramePage(~map)
  <2>1. FramesOf(nodes, i, map)
    BY <1>2, PfnFrames
  <2>2. v.refd = FramePage(v.mapped)
    BY <1>2, <2>1 DEF FramesOf
  <2>3. ~v.sparse
    BY <1>1, <1>2, NodePages DEF PageOK
  <2>4. FramePage(v.mapped) = FramePage(~map)
    BY <1>2 DEF FramePage
  <2>. QED  BY <2>2, <2>3, <2>4
<1>8. ASSUME NEW a \in Addrs, a \in pages, a \notin torn,
             NEW w, Same(w, v), w.mapped <=> map, ~w.memory, w.refd = FramePage(map)
      PROVE  Holds(w, pte'[a], Refs(ptrefs', a), sprefs[a])
  <2>1. Holds(v, pte[a], Refs(ptrefs, a), sprefs[a])
    <3>1. TableOK(FALSE, a \in torn, v, pte[a], Refs(ptrefs, a), sprefs[a])
      BY <1>1, <1>6, <1>8, NotMine DEF TablesInv
    <3>. QED  BY <1>2, <1>8, <3>1 DEF TableOK
  <2>. HIDE DEF v, pages
  <2>2. pte'[a] = IF ~w.mapped THEN Empty(w) ELSE IF w.memory THEN "memory" ELSE "pfn"
    BY <1>2, <1>5, <1>7, <1>8 DEF Empty, Same
  <2>3. ASSUME NEW q \in PageIdx PROVE Refs(ptrefs', a)[q] = IF w.refd = q THEN 1 ELSE 0
    <3>1. Refs(ptrefs, a)[q] = IF v.refd = q THEN 1 ELSE 0
      BY <2>1 DEF Holds
    <3>2. Refs(ptrefs', a)[q] = IF q = n THEN Refs(ptrefs, a)[q] + d ELSE Refs(ptrefs, a)[q]
      BY <1>4, <1>8
    <3>3. CASE map
      BY <1>3, <1>7, <1>8, <3>1, <3>2, <3>3 DEF FramePage
    <3>4. CASE ~map
      BY <1>3, <1>7, <1>8, <3>1, <3>2, <3>4 DEF FramePage
    <3>. QED  BY <3>3, <3>4
  <2>4. sprefs[a] = IF w.sparse /\ w.mapref THEN 1 ELSE 0
    BY <1>8, <2>1 DEF Holds, Same
  <2>. QED  BY <2>2, <2>3, <2>4 DEF Holds
<1>. QED  BY <1>4, <1>5, <1>8

LEMMA PfnMapOK ==
  ASSUME VmmInv, PfnMapStep
  PROVE  VmmInv'
<1>. DEFINE i == Search(nodes, vmmop.start)
            v == nodes[i]
            n == PfnWindow(v)
            addr == vmmop.start
            map == vmmop.start \in vmmop.valid
            pages == Covers(addr, n)
<1>1. /\ setup \in Setups /\ Tiles(nodes, 0, Limit) /\ Addrs = 0 .. Limit - 1 /\ TablesInv /\ RefsInv /\ CallInv
      /\ FreeWhole(nodes) /\ BlocksOK(nodes, setup.block, Limit)
      /\ \A a \in Addrs : PageOK(NodeAt(nodes, a), setup.managed)
  BY DEF VmmInv, NodesInv, PagesInv, BlockInv, Addrs
<1>2. /\ vmmop.pc = "pfnmap" /\ v.mapref /\ ~v.memory /\ PfnNext(addr + n)
      /\ UNCHANGED <<sprefs, setup, torn>>
  BY DEF PfnMapStep
<1>3. /\ IF map = v.mapped THEN nodes' = nodes
         ELSE LET new == PfnSplitMerge(nodes, i, addr, n, map) IN nodes' = PfnMapped(new.ns, new.at, map)
      /\ IF map \/ v.mapped THEN PtesSet(pages, IF map THEN "pfn" ELSE "none") ELSE UNCHANGED pte
      /\ IF map = v.mapped THEN UNCHANGED ptrefs
         ELSE PtesRef(pages, Len(PageSize), IF map THEN 1 ELSE -1)
  BY DEF PfnMapStep
<1>4. /\ i \in 1 .. Len(nodes) /\ v \in VmaSet /\ v.addr <= addr /\ addr < VmaEnd(v) /\ addr \in Nat
      /\ vmmop.start < vmmop.limit /\ vmmop \in Calls /\ setup.managed > 0 /\ ~setup.remaps
  BY <1>2, PfnNode
<1>5. n \in Nat \ {0} /\ addr + n <= VmaEnd(v)
  <2>. HIDE DEF v
  <2>. QED  BY <1>4, WindowIs
<1>6. CallOK(nodes', vmmop', PfnLimit, Limit) /\ vmmop'.pc # "put" /\ vmmop.pc # "put"
  <2>. HIDE DEF n
  <2>1. addr + n \in Nat
    BY <1>4, <1>5
  <2>. QED  BY <1>1, <1>2, <2>1, PfnNextIs
<1>. HIDE DEF n, i
<1>7. CASE map = v.mapped
  <2>1. nodes' = nodes /\ ptrefs' = ptrefs /\ sprefs' = sprefs /\ torn' = torn
    BY <1>2, <1>3, <1>7
  <2>2. ASSUME NEW a \in Addrs
        PROVE  TableOK(Mine(nodes', vmmop', a), a \in torn', NodeAt(nodes', a), pte'[a], Refs(ptrefs', a),
                       sprefs'[a])
    <3>1. TableOK(FALSE, a \in torn, NodeAt(nodes, a), pte[a], Refs(ptrefs, a), sprefs[a])
      BY <1>1, <1>6, NotMine DEF TablesInv
    <3>2. Mine(nodes', vmmop', a) = FALSE
      BY <1>6, NotMine
    <3>3. CASE map /\ a \in pages
      <4>1. NodeAt(nodes, a) = v
        <5>1. v.addr <= a /\ a < VmaEnd(v)
          <6>1. VmaEnd(v) \in Nat /\ v.addr \in Nat
            BY <1>4, VmaIs
          <6>. QED  BY <1>4, <1>5, <3>3, <6>1 DEF Covers
        <5>. QED  BY <1>1, <1>4, <5>1, NodePage
      <4>2. pte'[a] = "pfn"
        BY <1>3, <3>3 DEF PtesSet
      <4>3. v.mapped
        BY <1>7, <3>3
      <4>. HIDE DEF v
      <4>. QED  BY <1>2, <2>1, <3>1, <3>2, <4>1, <4>2, <4>3 DEF TableOK, Holds
    <3>4. CASE ~(map /\ a \in pages)
      <4>1. pte'[a] = pte[a]
        BY <1>3, <1>7, <3>4 DEF PtesSet
      <4>. QED  BY <2>1, <3>1, <3>2, <4>1
    <3>. QED  BY <3>3, <3>4
  <2>3. /\ Tiles(nodes', 0, Limit) /\ FreeWhole(nodes') /\ UNCHANGED setup
        /\ \A a \in Addrs : PageOK(NodeAt(nodes', a), setup.managed)
        /\ BlocksOK(nodes', setup.block, Limit) /\ ptrefs' \in [PageIdx -> [Addrs -> Int]]
    BY <1>1, <1>2, <2>1 DEF RefsInv
  <2>. QED  BY <1>6, <2>2, <2>3, InvNextIs
<1>8. CASE map # v.mapped
  <2>1. map \in BOOLEAN /\ v.mapped \in BOOLEAN
    BY <1>4 DEF VmaSet
  <2>2. v.mapped <=> ~map
    <3>. HIDE DEF map, v
    <3>. QED  BY <1>8, <2>1
  <2>3. PfnSets(i, addr, n, map)
    BY <1>2, <1>3, <1>4, <1>5, <1>8, <2>1, <2>2 DEF PfnSets
  <2>4. PtesSet(pages, IF map THEN "pfn" ELSE "none") /\ PtesRef(pages, Len(PageSize), IF map THEN 1 ELSE -1)
    BY <1>3, <1>8, <2>2
  <2>. HIDE DEF map, v
  <2>5. PICK start : start = addr
    OBVIOUS
  <2>. HIDE DEF addr
  <2>6. /\ VmmInv /\ vmmop.pc # "put" /\ vmmop'.pc # "put" /\ UNCHANGED <<setup, sprefs>> /\ UNCHANGED torn
        /\ CallOK(nodes', vmmop', PfnLimit, Limit) /\ setup.managed > 0
        /\ PfnSets(i, start, n, map) /\ PtesSet(Covers(start, n), IF map THEN "pfn" ELSE "none")
        /\ PtesRef(Covers(start, n), Len(PageSize), IF map THEN 1 ELSE -1)
    BY <1>2, <1>4, <1>6, <2>3, <2>4, <2>5
  <2>7. /\ ptrefs' \in [PageIdx -> [Addrs -> Int]]
        /\ \A a \in Addrs :
             IF a \in Covers(start, n)
             THEN \A w : /\ Same(w, nodes[i]) /\ (w.mapped <=> map) /\ ~w.memory /\ w.refd = FramePage(map)
                         /\ a \notin torn'
                         => Holds(w, pte'[a], Refs(ptrefs', a), sprefs[a])
             ELSE pte'[a] = pte[a] /\ Refs(ptrefs', a) = Refs(ptrefs, a) /\ (a \in torn => a \in torn')
    BY ONLY <2>6, PfnTables
  <2>. QED  BY ONLY <2>6, <2>7, PfnSetStep
<1>. QED  BY <1>7, <1>8

LEMMA PfnMapFailsOK ==
  ASSUME VmmInv, PfnMapFails
  PROVE  VmmInv'
<1>. DEFINE i == Search(nodes, vmmop.start)
            v == nodes[i]
            n == PfnWindow(v)
            addr == vmmop.start
<1>1. setup \in Setups /\ RefsInv /\ CallInv
  BY DEF VmmInv, NodesInv
<1>2. /\ vmmop.pc = "pfnmap" /\ v.mapref /\ ~v.memory /\ ~v.mapped /\ PfnNext(addr + n)
      /\ torn = {} /\ torn' = Covers(addr, n) /\ UNCHANGED <<pte, ptrefs, sprefs, setup>>
      /\ LET new == PfnSplitMerge(nodes, i, addr, n, TRUE) IN nodes' = PfnMapped(new.ns, new.at, TRUE)
  BY DEF PfnMapFails
<1>3. /\ i \in 1 .. Len(nodes) /\ v \in VmaSet /\ v.addr <= addr /\ addr < VmaEnd(v) /\ addr \in Nat
      /\ vmmop.start < vmmop.limit /\ vmmop \in Calls /\ ~setup.remaps
  BY <1>2, PfnNode
<1>4. n \in Nat \ {0} /\ addr + n <= VmaEnd(v)
  <2>. HIDE DEF v
  <2>. QED  BY <1>3, WindowIs
<1>. HIDE DEF n, i
<1>5. CallOK(nodes', vmmop', PfnLimit, Limit) /\ vmmop'.pc # "put" /\ vmmop.pc # "put"
  <2>1. addr + n \in Nat
    BY <1>3, <1>4
  <2>. QED  BY <1>1, <1>2, <2>1, PfnNextIs
<1>6. PfnSets(i, addr, n, TRUE)
  BY <1>2, <1>3, <1>4 DEF PfnSets
<1>. HIDE DEF v
<1>7. PICK start, map : start = addr /\ map = TRUE
  OBVIOUS
<1>. HIDE DEF addr
<1>8. /\ VmmInv /\ vmmop.pc # "put" /\ vmmop'.pc # "put" /\ UNCHANGED <<setup, sprefs>>
      /\ CallOK(nodes', vmmop', PfnLimit, Limit) /\ PfnSets(i, start, n, map)
      /\ ptrefs' \in [PageIdx -> [Addrs -> Int]]
      /\ \A a \in Addrs :
           IF a \in Covers(start, n)
           THEN \A w : /\ Same(w, nodes[i]) /\ (w.mapped <=> map) /\ ~w.memory /\ w.refd = FramePage(map)
                       /\ a \notin torn'
                       => Holds(w, pte'[a], Refs(ptrefs', a), sprefs[a])
           ELSE pte'[a] = pte[a] /\ Refs(ptrefs', a) = Refs(ptrefs, a) /\ (a \in torn => a \in torn')
  BY <1>1, <1>2, <1>5, <1>6, <1>7 DEF RefsInv
<1>. QED  BY ONLY <1>8, PfnSetStep

LEMMA PfnUnmapOK ==
  ASSUME VmmInv, PfnUnmapStep
  PROVE  VmmInv'
<1>. DEFINE i == Search(nodes, vmmop.start)
            v == nodes[i]
            n == (IF VmaEnd(v) < vmmop.limit THEN VmaEnd(v) ELSE vmmop.limit) - vmmop.start
            addr == vmmop.start
            pages == Covers(addr, n)
            new == PfnSplitMerge(nodes, i, addr, n, FALSE)
            done == PfnMapped(new.ns, new.at, FALSE)
<1>1. /\ setup \in Setups /\ CallInv /\ Tiles(nodes, 0, Limit)
  BY DEF VmmInv, NodesInv
<1>2. /\ vmmop.pc = "pfnclr" /\ UNCHANGED <<sprefs, setup, torn>>
      /\ IF v.mapped /\ ~v.memory
         THEN /\ PtesSet(pages, "none") /\ PtesRef(pages, v.refd, -1) /\ nodes' = done
              /\ PfnNext(VmaEnd(done[new.at]))
         ELSE UNCHANGED <<nodes, pte, ptrefs>> /\ PfnNext(VmaEnd(v))
  BY DEF PfnUnmapStep
<1>3. /\ i \in 1 .. Len(nodes) /\ v \in VmaSet /\ v.addr <= addr /\ addr < VmaEnd(v) /\ addr \in Nat
      /\ vmmop.start < vmmop.limit /\ vmmop \in Calls /\ VmaEnd(v) \in Nat /\ vmmop.limit \in Nat
      /\ setup.managed > 0 /\ ~setup.remaps /\ PageOK(v, setup.managed)
  BY <1>2, PfnNode
<1>4. n \in Nat \ {0} /\ addr + n <= VmaEnd(v)
  <2>. HIDE DEF v
  <2>. QED  BY <1>3
<1>5. vmmop.pc # "put" /\ vmmop.pc \in {"pfnmap", "pfnclr"}
  BY <1>2
<1>. HIDE DEF n, i
<1>6. CASE v.mapped /\ ~v.memory
  <2>1. v.mapref /\ v.refd = Len(PageSize)
    BY <1>3, <1>6 DEF PageOK
  <2>2. PICK start, map : start = addr /\ map = FALSE
    OBVIOUS
  <2>3. PfnSets(i, start, n, map)
    BY <1>2, <1>3, <1>4, <1>6, <2>1, <2>2 DEF PfnSets
  <2>4. VmaEnd(done[new.at]) \in Nat
    <3>1. nodes'[PfnSplitMerge(nodes, i, start, n, map).at] \in VmaSet
      BY <1>5, <2>3, PfnSetPages
    <3>2. done[new.at] \in VmaSet
      BY <1>2, <1>6, <2>2, <3>1
    <3>. HIDE DEF done, new
    <3>. QED  BY <3>2, VmaIs
  <2>5. PtesSet(Covers(start, n), IF map THEN "pfn" ELSE "none")
        /\ PtesRef(Covers(start, n), Len(PageSize), IF map THEN 1 ELSE -1)
    BY <1>2, <1>6, <2>1, <2>2
  <2>6. CallOK(nodes', vmmop', PfnLimit, Limit) /\ vmmop'.pc # "put"
    <3>1. PfnNext(VmaEnd(done[new.at]))
      BY <1>2, <1>6
    <3>2. PICK e \in Nat : e = VmaEnd(done[new.at])
      BY <2>4
    <3>3. PfnNext(e)
      BY <3>1, <3>2
    <3>. QED  BY ONLY <1>1, <1>5, <3>3, PfnNextIs
  <2>. HIDE DEF v, addr, new, done, pages
  <2>7. /\ VmmInv /\ vmmop.pc # "put" /\ vmmop'.pc # "put" /\ UNCHANGED <<setup, sprefs>> /\ UNCHANGED torn
        /\ CallOK(nodes', vmmop', PfnLimit, Limit) /\ setup.managed > 0
        /\ PfnSets(i, start, n, map) /\ PtesSet(Covers(start, n), IF map THEN "pfn" ELSE "none")
        /\ PtesRef(Covers(start, n), Len(PageSize), IF map THEN 1 ELSE -1)
    BY <1>2, <1>3, <1>5, <2>3, <2>5, <2>6
  <2>8. /\ ptrefs' \in [PageIdx -> [Addrs -> Int]]
        /\ \A a \in Addrs :
             IF a \in Covers(start, n)
             THEN \A w : /\ Same(w, nodes[i]) /\ (w.mapped <=> map) /\ ~w.memory /\ w.refd = FramePage(map)
                         /\ a \notin torn'
                         => Holds(w, pte'[a], Refs(ptrefs', a), sprefs[a])
             ELSE pte'[a] = pte[a] /\ Refs(ptrefs', a) = Refs(ptrefs, a) /\ (a \in torn => a \in torn')
    BY ONLY <2>7, PfnTables
  <2>. QED  BY ONLY <2>7, <2>8, PfnSetStep
<1>7. CASE ~(v.mapped /\ ~v.memory)
  <2>1. UNCHANGED <<nodes, pte, ptrefs, sprefs, setup, torn>> /\ PfnNext(VmaEnd(v))
    BY <1>2, <1>7
  <2>2. CallOK(nodes', vmmop', PfnLimit, Limit) /\ vmmop'.pc # "put"
    BY <1>1, <1>3, <1>5, <2>1, PfnNextIs
  <2>. QED  BY <1>5, <2>1, <2>2, CallStep
<1>. QED  BY <1>6, <1>7

-----------------------------------------------------------------------------
(* Allocation: nvkm_vmm_get_locked.                                        *)

LEMMA BestFitIs ==
  ASSUME NEW a, NEW b, Tiles(nodes, a, b), NEW p, NEW size, \E i \in DOMAIN nodes : Suits(i, p, size)
  PROVE  BestFit(p, size) \in 1 .. Len(nodes) /\ Suits(BestFit(p, size), p, size)
<1>. DEFINE S == {i \in DOMAIN nodes : Suits(i, p, size)}
            T == {nodes[i].size : i \in S}
            is(i) == /\ Suits(i, p, size)
                     /\ \A j \in DOMAIN nodes : Suits(j, p, size) =>
                          nodes[i].size < nodes[j].size \/ (nodes[i].size = nodes[j].size /\ i <= j)
<1>1. /\ DOMAIN nodes = 1 .. Len(nodes) /\ Len(nodes) \in Nat
      /\ \A i \in DOMAIN nodes : nodes[i] \in VmaSet
  BY Indices
<1>2. \A i \in DOMAIN nodes : nodes[i].size \in Nat
  BY <1>1 DEF VmaSet
<1>3. S # {} /\ T \in SUBSET Nat /\ T # {}
  BY <1>2
<1>4. PICK m \in T : \A n \in T : m <= n
  BY <1>3, LeastNat
<1>. DEFINE U == {i \in S : nodes[i].size = m}
<1>5. U \in SUBSET Nat /\ U # {}
  BY <1>1, <1>4
<1>6. PICK i \in U : \A j \in U : i <= j
  BY <1>5, LeastNat
<1>7. i \in DOMAIN nodes /\ Suits(i, p, size) /\ nodes[i].size = m
  BY <1>6
<1>8. ASSUME NEW j \in DOMAIN nodes, Suits(j, p, size)
      PROVE  nodes[i].size < nodes[j].size \/ (nodes[i].size = nodes[j].size /\ i <= j)
  <2>1. j \in S /\ nodes[j].size \in T /\ nodes[j].size \in Nat /\ m \in Nat
    BY <1>2, <1>7, <1>8
  <2>2. m <= nodes[j].size
    BY <1>4, <2>1
  <2>3. nodes[j].size = m => i <= j
    BY <1>6, <2>1
  <2>. QED  BY <1>7, <2>1, <2>2, <2>3
<1>9. is(i)
  BY <1>7, <1>8
<1>. HIDE DEF S, T, U, is
<1>10. BestFit(p, size) = CHOOSE j \in DOMAIN nodes : is(j)
  BY DEF BestFit, is
<1>11. BestFit(p, size) \in DOMAIN nodes /\ is(BestFit(p, size))
  BY <1>7, <1>9, <1>10
<1>. QED  BY <1>1, <1>11 DEF is

\* The pages that a free node gives are its own, and not in a block with pages of
\* a neighbour of another page size.
LEMMA FitIs ==
  ASSUME setup \in Setups, NEW a, NEW b, Tiles(nodes, a, b), NEW i \in 1 .. Len(nodes), NEW p \in Idx,
         NEW size \in Nat \ {0}, Suits(i, p, size)
  PROVE  LET v == nodes[i]
             addr == Start(nodes, i, p)
             block == setup.block
         IN  /\ ~v.used /\ addr \in Nat /\ v.addr <= addr /\ addr + size <= VmaEnd(v)
             /\ block > 0 /\ i > 1 /\ nodes[i - 1].page # p =>
                  \E y \in Nat : y % block = 0 /\ v.addr <= y /\ y <= addr
             /\ block > 0 /\ i < Len(nodes) /\ nodes[i + 1].page # p =>
                  \E y \in Nat : y % block = 0 /\ addr + size <= y /\ y <= VmaEnd(v)
<1>. DEFINE v == nodes[i]
            block == setup.block
            first == block > 0 /\ i > 1 /\ nodes[i - 1].page # p
            last == block > 0 /\ i < Len(nodes) /\ nodes[i + 1].page # p
            f == IF first THEN Up(v.addr, block) ELSE v.addr
            n == IF p = NoPage THEN 1 ELSE PageSize[p]
            addr == Start(nodes, i, p)
            stop == Stop(nodes, i, p)
<1>1. v \in VmaSet /\ v.addr \in Nat /\ VmaEnd(v) \in Nat /\ block \in Nat /\ n \in Nat \ {0}
  <2>1. v \in VmaSet
    BY Indices
  <2>2. n \in Nat \ {0}
    BY SetupIs
  <2>. HIDE DEF v, n
  <2>. QED  BY <2>1, <2>2, VmaIs, SetupIs
<1>2. addr = Up(f, n) /\ stop = IF last THEN Down(VmaEnd(v), block) ELSE VmaEnd(v)
  BY DEF Start, Stop
<1>3. ~v.used /\ addr + size <= stop
  BY DEF Suits
<1>. HIDE DEF v, n, addr, stop, block
<1>4. f \in Nat /\ v.addr <= f /\ (first => f % block = 0)
  <2>1. CASE first
    <3>1. block \in Nat \ {0}
      BY <1>1, <2>1
    <3>2. Up(v.addr, block) \in Nat /\ v.addr <= Up(v.addr, block) /\ Up(v.addr, block) % block = 0
      BY <1>1, <3>1, UpIs
    <3>. QED  BY <2>1, <3>2
  <2>2. CASE ~first
    <3>. HIDE DEF first
    <3>. QED  BY <1>1, <2>2
  <2>. QED  BY <2>1, <2>2
<1>5. stop \in Nat /\ stop <= VmaEnd(v) /\ (last => stop % block = 0)
  <2>1. CASE last
    <3>1. block \in Nat \ {0}
      BY <1>1, <2>1
    <3>2. Down(VmaEnd(v), block) \in Nat /\ Down(VmaEnd(v), block) <= VmaEnd(v) /\ Down(VmaEnd(v), block) % block = 0
      BY <1>1, <3>1, DownIs
    <3>. QED  BY <1>2, <2>1, <3>2
  <2>2. CASE ~last
    <3>. HIDE DEF last
    <3>. QED  BY <1>1, <1>2, <2>2
  <2>. QED  BY <2>1, <2>2
<1>. HIDE DEF f, first, last
<1>6. addr \in Nat /\ f <= addr
  BY <1>1, <1>2, <1>4, UpIs
<1>7. v.addr <= addr /\ addr + size <= VmaEnd(v)
  BY <1>1, <1>3, <1>4, <1>5, <1>6
<1>8. first => \E y \in Nat : y % block = 0 /\ v.addr <= y /\ y <= addr
  BY <1>4, <1>6
<1>9. last => \E y \in Nat : y % block = 0 /\ addr + size <= y /\ y <= VmaEnd(v)
  BY <1>3, <1>5
<1>. QED  BY <1>3, <1>6, <1>7, <1>8, <1>9 DEF v, first, last, addr, block

\* The rests of a free node are no parts.
Whole(v) == IF v.used THEN v ELSE [v EXCEPT !.part = FALSE]
Taking(ns, at, x) == [j \in DOMAIN ns |-> IF j = at THEN x ELSE Whole(ns[j])]

LEMMA WholeIs ==
  ASSUME NEW v \in VmaSet
  PROVE  /\ Whole(v) \in VmaSet
         /\ v.used \/ v.part = FALSE => Whole(v) = v
<1>1. Whole(v) \in VmaSet
  BY DEF Whole, VmaSet
<1>2. v.used => Whole(v) = v
  BY DEF Whole
<1>3. v.part = FALSE => [v EXCEPT !.part = FALSE] = v
  BY DEF VmaSet
<1>. QED  BY <1>1, <1>2, <1>3 DEF Whole

LEMMA TakingReplaced ==
  ASSUME NEW s, NEW a, NEW b, Tiles(s, a, b), FreeWhole(s), NEW i \in 1 .. Len(s), ~s[i].used,
         NEW addr \in Nat, NEW size \in Nat \ {0}, s[i].addr <= addr, addr + size <= VmaEnd(s[i]),
         NEW cut, cut = NodeSplit(s, i, addr, size),
         NEW x \in VmaSet, x.addr = addr, VmaEnd(x) = addr + size
  PROVE  Replaced(s, Taking(cut.ns, cut.at, x), i, i, Cut(s[i], x, Left(s[i], x), Right(s[i], x, FALSE)))
<1>. DEFINE v == s[i]
            u == Left(v, x)
            w == Right(v, x, TRUE)
            w2 == Right(v, x, FALSE)
            old == Cut(v, x, u, w)
            new == Cut(v, x, u, w2)
            ns == [cut.ns EXCEPT ![cut.at] = x]
            r == Taking(cut.ns, cut.at, x)
            c == cut.ns[cut.at]
<1>1. /\ cut.ns \in Seq(VmaSet) /\ cut.at \in 1 .. Len(cut.ns) /\ cut.at = i - 1 + CutAt(v, c)
      /\ c.addr = addr
      /\ Replaced(s, ns, i, i, old)
  <2>1. SplitOK(s, i, addr, size, cut)
    BY SplitUpdated
  <2>. QED  BY <2>1 DEF SplitOK
<1>2. cut.at = i - 1 + CutAt(v, x)
  BY <1>1 DEF CutAt
<1>. HIDE DEF c
<1>3. /\ ns \in Seq(VmaSet) /\ Len(ns) = Len(cut.ns) /\ ns[cut.at] = x /\ DOMAIN cut.ns = 1 .. Len(cut.ns)
      /\ \A k \in 1 .. Len(ns) : k # cut.at => ns[k] = cut.ns[k]
      /\ \A k \in 1 .. Len(ns) : cut.ns[k] \in VmaSet
      /\ Len(ns) \in Nat
  BY <1>1, Updated, LenProperties, ElementOfSeq
<1>. HIDE DEF ns
<1>4. /\ r \in Seq(VmaSet) /\ Len(r) = Len(ns) /\ r[cut.at] = x
      /\ \A k \in 1 .. Len(ns) : k # cut.at => r[k] = Whole(ns[k])
  <2>1. \A k \in 1 .. Len(ns) : (IF k = cut.at THEN x ELSE Whole(cut.ns[k])) \in VmaSet
    BY <1>3, WholeIs
  <2>2. r = [k \in 1 .. Len(ns) |-> IF k = cut.at THEN x ELSE Whole(cut.ns[k])]
    BY <1>3 DEF Taking
  <2>3. r \in Seq(VmaSet) /\ Len(r) = Len(ns)
    <3>. HIDE DEF r
    <3>1. r \in [1 .. Len(ns) -> VmaSet]
      BY <2>1, <2>2
    <3>2. r \in Seq(VmaSet)
      <4>1. PICK n \in Nat : n = Len(ns)
        BY <1>3
      <4>2. r \in [1 .. n -> VmaSet]
        BY <3>1, <4>1
      <4>3. r \in UNION {[1 .. m -> VmaSet] : m \in Nat}
        BY ONLY <4>2
      <4>. QED  BY ONLY <4>3, SeqDef
    <3>3. DOMAIN r = 1 .. Len(ns) /\ Len(ns) \in Nat
      BY <1>3, <3>1
    <3>4. Len(r) = Len(ns)
      <4>1. PICK m, n \in Nat : m = Len(r) /\ n = Len(ns)
        BY <3>2, <3>3, LenProperties
      <4>2. 1 .. m = 1 .. n
        BY <3>2, <3>3, <4>1, LenProperties
      <4>3. (m > 0 => m \in 1 .. m) /\ (n > 0 => n \in 1 .. n)
        OBVIOUS
      <4>4. (m > 0 => m \in 1 .. n) /\ (n > 0 => n \in 1 .. m)
        BY ONLY <4>2, <4>3
      <4>5. m = n
        BY ONLY <4>4
      <4>. QED  BY <4>1, <4>5
    <3>. QED  BY <3>2, <3>4
  <2>. HIDE DEF r
  <2>. QED  BY <1>1, <1>3, <2>2, <2>3
<1>. HIDE DEF r
<1>5. /\ v \in VmaSet /\ ~v.used /\ v.part = FALSE /\ Len(s) \in Nat
      /\ \A k \in 1 .. Len(s) : s[k] \in VmaSet /\ Whole(s[k]) = s[k]
  <2>1. \A k \in 1 .. Len(s) : s[k] \in VmaSet /\ (s[k].used \/ s[k].part = FALSE)
    BY Indices DEF FreeWhole, VmaSet
  <2>. QED  BY <2>1, WholeIs, Indices
<1>6. v.addr # x.addr => u \in VmaSet /\ Whole(u) = u
  <2>1. ASSUME v.addr # x.addr PROVE u \in VmaSet /\ u.part = v.part
    <3>. HIDE DEF v
    <3>. QED  BY <1>5, <2>1, LeftIs DEF v
  <2>. HIDE DEF u, v
  <2>. QED  BY <1>5, <2>1, WholeIs
<1>7. VmaEnd(v) # VmaEnd(x) => w2 \in VmaSet /\ Whole(w) = w2
  <2>1. SUFFICES ASSUME VmaEnd(v) # VmaEnd(x) PROVE w2 \in VmaSet /\ Whole(w) = w2
    OBVIOUS
  <2>2. /\ v \in VmaSet /\ x \in VmaSet /\ v.addr <= x.addr /\ VmaEnd(x) <= VmaEnd(v) /\ VmaEnd(v) # VmaEnd(x)
    BY <1>5, <2>1
  <2>3. /\ w2 \in VmaSet /\ w2.addr = VmaEnd(x) /\ VmaEnd(w2) = VmaEnd(v) /\ Like(w2, v) /\ w2.part = FALSE
        /\ w \in VmaSet /\ Like(w, v)
    <3>1. FALSE \in BOOLEAN /\ TRUE \in BOOLEAN
      OBVIOUS
    <3>. HIDE DEF v
    <3>. QED  BY ONLY <2>2, <3>1, RightIs
  <2>4. ~w.used
    BY <1>5, <2>3 DEF Like, Same
  <2>5. [w EXCEPT !.part = FALSE] = w2
    <3>1. [[Rest(v, VmaEnd(x) - v.addr) EXCEPT !.part = TRUE] EXCEPT !.part = FALSE]
            = [Rest(v, VmaEnd(x) - v.addr) EXCEPT !.part = FALSE]
      <4>1. PICK z : z = Rest(v, VmaEnd(x) - v.addr)
        OBVIOUS
      <4>2. [[z EXCEPT !.part = TRUE] EXCEPT !.part = FALSE] = [z EXCEPT !.part = FALSE]
        OBVIOUS
      <4>. QED  BY <4>1, <4>2
    <3>. QED  BY <3>1 DEF Right, RestFrom
  <2>. QED  BY <2>3, <2>4, <2>5 DEF Whole
<1>. HIDE DEF u, w, w2, v
<1>8. /\ Len(new) = Len(old) /\ CutAt(v, x) \in 1 .. Len(old) /\ new \in Seq(VmaSet) /\ new[CutAt(v, x)] = x
      /\ \A k \in 1 .. Len(old) : k # CutAt(v, x) => new[k] = Whole(old[k])
  <2>. DEFINE l == v.addr = x.addr
              h == VmaEnd(v) = VmaEnd(x)
              n == CutAt(v, x)
  <2>1. /\ l /\ h => new = <<x>> /\ old = <<x>> /\ n = 1
        /\ l /\ ~h => new = <<x, w2>> /\ old = <<x, w>> /\ n = 1
        /\ ~l /\ h => new = <<u, x>> /\ old = <<u, x>> /\ n = 2
        /\ ~l /\ ~h => new = <<u, x, w2>> /\ old = <<u, x, w>> /\ n = 2
    BY CutCases
  <2>. HIDE DEF new, old, n
  <2>2. CASE l /\ h
    <3>1. new = <<x>> /\ old = <<x>> /\ n = 1 /\ x \in VmaSet
      BY <2>1, <2>2
    <3>. QED  BY ONLY <3>1 DEF n
  <2>3. CASE l /\ ~h
    <3>1. new = <<x, w2>> /\ old = <<x, w>> /\ n = 1 /\ w2 \in VmaSet /\ Whole(w) = w2
      BY <1>7, <2>1, <2>3
    <3>. QED  BY ONLY <3>1 DEF n
  <2>4. CASE ~l /\ h
    <3>1. new = <<u, x>> /\ old = <<u, x>> /\ n = 2 /\ u \in VmaSet /\ Whole(u) = u
      BY <1>6, <2>1, <2>4
    <3>. QED  BY ONLY <3>1 DEF n
  <2>5. CASE ~l /\ ~h
    <3>1. /\ new = <<u, x, w2>> /\ old = <<u, x, w>> /\ n = 2 /\ u \in VmaSet /\ Whole(u) = u
          /\ w2 \in VmaSet /\ Whole(w) = w2
      BY <1>6, <1>7, <2>1, <2>5
    <3>. QED  BY ONLY <3>1 DEF n
  <2>. QED  BY <2>2, <2>3, <2>4, <2>5
<1>. HIDE DEF old, new
<1>9. PICK n \in Nat : n = CutAt(v, x)
  BY DEF CutAt
<1>10. /\ Len(ns) = Len(s) - 1 + Len(old) /\ Len(old) \in Nat
       /\ \A k \in 1 .. i - 1 : ns[k] = s[k]
       /\ \A k \in 1 .. Len(old) : ns[i - 1 + k] = old[k]
       /\ \A k \in i + 1 .. Len(s) : ns[k - 1 + Len(old)] = s[k]
  <2>1. i - i + 1 = 1
    OBVIOUS
  <2>2. Len(old) \in Nat
    BY <1>8, LenProperties
  <2>. QED  BY <1>1, <2>1, <2>2 DEF Replaced
<1>11. cut.at = i - 1 + n /\ n \in 1 .. Len(old)
  BY <1>2, <1>8, <1>9
<1>12. \A k \in 1 .. i - 1 : r[k] = s[k]
  <2>1. ASSUME NEW k \in 1 .. i - 1 PROVE k \in 1 .. Len(ns) /\ k # cut.at /\ k \in 1 .. Len(s)
    BY <1>5, <1>10, <1>11
  <2>. QED  BY <1>4, <1>5, <1>10, <2>1
<1>13. \A k \in 1 .. Len(old) : r[i - 1 + k] = new[k]
  <2>1. ASSUME NEW k \in 1 .. Len(old) PROVE r[i - 1 + k] = new[k]
    <3>1. CASE k = n
      BY <1>4, <1>8, <1>9, <1>11, <3>1
    <3>2. CASE k # n
      <4>1. PICK j : j = i - 1 + k
        OBVIOUS
      <4>2. j \in 1 .. Len(ns) /\ j # cut.at
        BY <1>5, <1>10, <1>11, <3>2, <4>1
      <4>. QED  BY <1>4, <1>8, <1>9, <1>10, <3>2, <4>1, <4>2
    <3>. QED  BY <3>1, <3>2
  <2>. QED  BY <2>1
<1>14. \A k \in i + 1 .. Len(s) : r[k - 1 + Len(old)] = s[k]
  <2>1. ASSUME NEW k \in i + 1 .. Len(s) PROVE r[k - 1 + Len(old)] = s[k]
    <3>1. PICK j : j = k - 1 + Len(old)
      OBVIOUS
    <3>2. j \in 1 .. Len(ns) /\ j # cut.at /\ k \in 1 .. Len(s)
      BY <1>5, <1>10, <1>11, <3>1
    <3>. QED  BY <1>4, <1>5, <1>10, <3>1, <3>2
  <2>. QED  BY <2>1
<1>15. Replaced(s, r, i, i, new)
  <2>1. i - i + 1 = 1
    OBVIOUS
  <2>. QED  BY <1>4, <1>8, <1>10, <1>12, <1>13, <1>14, <2>1 DEF Replaced
<1>. QED  BY <1>15 DEF r, new, u, w2, v

\* x is allocated from the free node i: nothing else changes.
TakenOf(s, i, x) ==
  LET v == s[i]
  IN  ~v.used /\ x \in VmaSet /\ v.addr <= x.addr /\ VmaEnd(x) <= VmaEnd(v) /\ x.used /\ ~x.part

LEMMA GetNodes ==
  ASSUME NEW s, NEW a, NEW b, Tiles(s, a, b), FreeWhole(s), NEW i \in 1 .. Len(s), NEW x, TakenOf(s, i, x),
         NEW r, Replaced(s, r, i, i, Cut(s[i], x, Left(s[i], x), Right(s[i], x, FALSE)))
  PROVE  /\ Tiles(r, a, b) /\ FreeWhole(r)
         /\ \A y \in a .. b - 1 :
              IF x.addr <= y /\ y < VmaEnd(x) THEN NodeAt(r, y) = x ELSE Like(NodeAt(r, y), NodeAt(s, y))
<1>. DEFINE v == s[i]
<1>1. Len(s) \in Nat /\ v \in VmaSet /\ v \in Range(s) /\ \A k \in 1 .. Len(s) - 1 : Meets(s[k], s[k + 1])
  BY Indices DEF Tiles
<1>2. ~v.used /\ x \in VmaSet /\ v.addr <= x.addr /\ VmaEnd(x) <= VmaEnd(v) /\ x.used /\ ~x.part
  BY DEF TakenOf
<1>3. v.part = FALSE /\ v.used = FALSE
  BY <1>1, <1>2 DEF FreeWhole, VmaSet
<1>4. i < Len(s) => ~s[i + 1].part
  <2>1. i < Len(s) => i \in 1 .. Len(s) - 1
    BY <1>1
  <2>. QED  BY <1>1, <1>2, <2>1 DEF Meets
<1>. HIDE DEF v
<1>5. /\ Tiles(r, a, b)
      /\ \A z \in Range(r) : z = x \/ z \in Range(s) \/ (z.used = v.used /\ z.part \in {v.part, FALSE})
      /\ \A y \in a .. b - 1 :
           IF x.addr <= y /\ y < VmaEnd(x) THEN NodeAt(r, y) = x ELSE Like(NodeAt(r, y), NodeAt(s, y))
  <2>1. /\ Tiles(s, a, b) /\ i \in 1 .. Len(s) /\ FALSE \in BOOLEAN /\ x \in VmaSet
        /\ s[i].addr <= x.addr /\ VmaEnd(x) <= VmaEnd(s[i])
        /\ (x.addr # s[i].addr => Meets(s[i], x))
        /\ (x.addr = s[i].addr /\ i > 1 => Meets(s[i - 1], x))
        /\ (VmaEnd(x) # VmaEnd(s[i]) => \A w \in VmaSet : Like(w, s[i]) /\ w.part = FALSE => Meets(x, w))
        /\ (VmaEnd(x) = VmaEnd(s[i]) /\ i < Len(s) => Meets(x, s[i + 1]))
        /\ Replaced(s, r, i, i, Cut(s[i], x, Left(s[i], x), Right(s[i], x, FALSE)))
    BY <1>2, <1>4 DEF v, Meets
  <2>. QED  BY ONLY <2>1, CutStep DEF v
<1>6. FreeWhole(r)
  <2>1. ASSUME NEW z \in Range(r), ~z.used PROVE ~z.part
    BY <1>2, <1>3, <1>5, <2>1 DEF FreeWhole
  <2>. QED  BY <2>1 DEF FreeWhole
<1>. QED  BY <1>5, <1>6

\* Pages of two page sizes are in different blocks, still.
LEMMA GetBlocks ==
  ASSUME NEW s, NEW limit, Tiles(s, 0, limit), NEW block \in Nat, BlocksOK(s, block, limit),
         NEW i \in 1 .. Len(s), NEW x, TakenOf(s, i, x),
         block > 0 /\ i > 1 /\ s[i - 1].page # x.page =>
           \E z \in Nat : z % block = 0 /\ s[i].addr <= z /\ z <= x.addr,
         block > 0 /\ i < Len(s) /\ s[i + 1].page # x.page =>
           \E z \in Nat : z % block = 0 /\ VmaEnd(x) <= z /\ z <= VmaEnd(s[i]),
         NEW r,
         \A y \in 0 .. limit - 1 :
           IF x.addr <= y /\ y < VmaEnd(x) THEN NodeAt(r, y) = x ELSE Same(NodeAt(r, y), NodeAt(s, y))
  PROVE  BlocksOK(r, block, limit)
<1>. DEFINE v == s[i]
<1>1. SUFFICES ASSUME block > 0, NEW d \in 0 .. limit - 1, NEW e \in 0 .. limit - 1, d < e,
                      NodeAt(r, d).used, NodeAt(r, e).used, NodeAt(r, d).page # NodeAt(r, e).page
               PROVE  d \div block < e \div block
  BY DEF BlocksOK
<1>2. /\ limit \in Nat /\ Len(s) \in Nat /\ block \in Nat \ {0} /\ d \in Nat /\ e \in Nat
      /\ \A k \in 1 .. Len(s) - 1 : Meets(s[k], s[k + 1]) /\ VmaEnd(s[k]) = s[k + 1].addr
      /\ \A k \in 1 .. Len(s) : /\ s[k].addr \in Nat /\ VmaEnd(s[k]) \in Nat /\ s[k].addr < VmaEnd(s[k])
                                /\ 0 <= s[k].addr /\ VmaEnd(s[k]) <= limit
  <2>1. limit \in Nat /\ Len(s) \in Nat /\ \A k \in 1 .. Len(s) - 1 : Meets(s[k], s[k + 1]) /\ VmaEnd(s[k]) = s[k + 1].addr
    BY Indices DEF Tiles
  <2>2. \A k \in 1 .. Len(s) : s[k].addr \in Nat /\ VmaEnd(s[k]) \in Nat /\ s[k].addr < VmaEnd(s[k])
    BY Indices, VmaIs
  <2>3. \A k \in 1 .. Len(s) : 0 <= s[k].addr /\ VmaEnd(s[k]) <= limit
    BY TilesOrder
  <2>. QED  BY <1>1, <2>1, <2>2, <2>3
<1>3. /\ ~v.used /\ v.addr <= x.addr /\ VmaEnd(x) <= VmaEnd(v) /\ x.addr \in Nat /\ VmaEnd(x) \in Nat
      /\ x.addr < VmaEnd(x) /\ v.addr \in Nat /\ VmaEnd(v) \in Nat
  <2>1. ~v.used /\ v.addr <= x.addr /\ VmaEnd(x) <= VmaEnd(v) /\ x \in VmaSet
    BY DEF TakenOf
  <2>. QED  BY <1>2, <2>1, VmaIs
<1>. DEFINE in(y) == x.addr <= y /\ y < VmaEnd(x)
<1>4. \A y \in {d, e} : ~in(y) => NodeAt(s, y).used /\ NodeAt(s, y).page = NodeAt(r, y).page
  BY <1>1 DEF Same
<1>5. \A y \in {d, e} : in(y) => NodeAt(r, y) = x
  BY <1>1
<1>6. \A y \in {d, e} : ~in(y) => y < v.addr \/ VmaEnd(v) <= y
  <2>1. ASSUME NEW y \in {d, e}, ~in(y), v.addr <= y, y < VmaEnd(v) PROVE FALSE
    <3>1. y \in 0 .. limit - 1
      BY <2>1
    <3>2. NodeAt(s, y) = v
      BY <2>1, <3>1, NodePage
    <3>. QED  BY <1>3, <1>4, <2>1, <3>2
  <2>2. \A y \in {d, e} : y \in Nat
    BY <1>2
  <2>. QED  BY <1>3, <2>1, <2>2
<1>7. CASE in(d) /\ in(e)
  BY <1>1, <1>5, <1>7
<1>8. CASE ~in(d) /\ ~in(e)
  <2>1. NodeAt(s, d).used /\ NodeAt(s, e).used /\ NodeAt(s, d).page # NodeAt(s, e).page
    BY <1>1, <1>4, <1>8
  <2>. QED  BY <1>1, <2>1 DEF BlocksOK
<1>9. CASE ~in(d) /\ in(e)
  <2>1. /\ d < v.addr /\ x.addr <= e /\ NodeAt(s, d).used /\ NodeAt(s, d).page # x.page
    BY <1>1, <1>2, <1>3, <1>4, <1>5, <1>6, <1>9
  <2>2. i > 1 /\ i - 1 \in 1 .. Len(s) - 1 /\ i - 1 \in 1 .. Len(s)
    <3>1. Search(s, d) \in 1 .. Len(s) /\ s[Search(s, d)].addr <= d
      BY SearchFound DEF NodeAt, Has
    <3>2. i # 1
      <4>1. s # <<>>
        BY <1>2
      <4>2. s[1].addr = 0
        BY <4>1 DEF Tiles
      <4>. QED  BY <1>2, <2>1, <4>2
    <3>. QED  BY <1>2, <3>2
  <2>. DEFINE w == s[i - 1]
  <2>3. w.used /\ VmaEnd(w) = v.addr /\ w.addr \in Nat /\ w.addr < VmaEnd(w)
    <3>1. i - 1 + 1 = i
      OBVIOUS
    <3>2. /\ Meets(w, v) /\ VmaEnd(w) = v.addr
          /\ w.addr \in Nat /\ w.addr < VmaEnd(w)
      BY <1>2, <2>2, <3>1
    <3>3. v.used \/ w.used
      <4>. HIDE DEF v, w
      <4>. QED  BY <3>2 DEF Meets
    <3>. QED  BY <1>3, <3>2, <3>3
  <2>4. CASE w.page # x.page
    <3>1. PICK z \in Nat : z % block = 0 /\ v.addr <= z /\ z <= x.addr
      BY <1>1, <2>2, <2>4
    <3>2. d < z /\ z <= e
      <4>1. PICK m, n : m = v.addr /\ n = x.addr
        OBVIOUS
      <4>2. m \in Nat /\ n \in Nat /\ d \in Nat /\ e \in Nat /\ d < m /\ m <= z /\ z <= n /\ n <= e
        BY <1>2, <1>3, <2>1, <3>1, <4>1
      <4>. QED  BY ONLY <4>2, z \in Nat
    <3>3. d \div block < z \div block /\ z \div block <= e \div block
      BY <1>2, <3>1, <3>2, Blocks
    <3>4. d \div block \in Nat /\ z \div block \in Nat /\ e \div block \in Nat
      BY <1>2, Blocks
    <3>. QED  BY <3>3, <3>4
  <2>5. CASE w.page = x.page
    <3>. DEFINE z == VmaEnd(w) - 1
    <3>1. z \in 0 .. limit - 1 /\ NodeAt(s, z) = w /\ z \in Nat
      <4>1. z \in 0 .. limit - 1 /\ NodeAt(s, z) = w
        BY <2>2, NodePage
      <4>. QED  BY <4>1
    <3>2. d <= z /\ z <= e
      <4>1. PICK m, n : m = v.addr /\ n = x.addr
        OBVIOUS
      <4>2. /\ m \in Nat /\ n \in Nat /\ d \in Nat /\ e \in Nat /\ d < m /\ m <= n /\ n <= e
            /\ z = m - 1
        BY <1>2, <1>3, <2>1, <2>3, <4>1
      <4>. QED  BY ONLY <4>2
    <3>. HIDE DEF z
    <3>3. d # z
      BY <2>1, <2>5, <3>1
    <3>4. d \div block < z \div block
      <4>1. d < z
        BY <1>2, <3>1, <3>2, <3>3
      <4>. QED  BY <1>1, <2>1, <2>3, <2>5, <3>1, <4>1 DEF BlocksOK
    <3>5. z \div block <= e \div block
      BY <1>2, <3>1, <3>2, Blocks
    <3>6. d \div block \in Nat /\ z \div block \in Nat /\ e \div block \in Nat
      BY <1>2, <3>1, Blocks
    <3>. QED  BY <3>4, <3>5, <3>6
  <2>. QED  BY <2>4, <2>5
<1>10. CASE in(d) /\ ~in(e)
  <2>1. /\ d < VmaEnd(x) /\ VmaEnd(v) <= e /\ NodeAt(s, e).used /\ NodeAt(s, e).page # x.page
    BY <1>1, <1>2, <1>3, <1>4, <1>5, <1>6, <1>10
  <2>2. i < Len(s) /\ i + 1 \in 1 .. Len(s) /\ i \in 1 .. Len(s) - 1
    <3>1. i # Len(s)
      <4>1. s # <<>>
        BY <1>2
      <4>2. VmaEnd(s[Len(s)]) = limit
        BY <4>1 DEF Tiles
      <4>. QED  BY <1>2, <2>1, <4>2
    <3>. QED  BY <1>2, <3>1
  <2>. DEFINE w == s[i + 1]
  <2>3. w.used /\ VmaEnd(v) = w.addr /\ w.addr \in Nat
    BY <1>2, <1>3, <2>2 DEF Meets
  <2>4. CASE w.page # x.page
    <3>1. PICK z \in Nat : z % block = 0 /\ VmaEnd(x) <= z /\ z <= VmaEnd(v)
      BY <1>1, <2>2, <2>4
    <3>2. d < z /\ z <= e
      <4>1. PICK m, n : m = VmaEnd(v) /\ n = VmaEnd(x)
        OBVIOUS
      <4>2. m \in Nat /\ n \in Nat /\ d \in Nat /\ e \in Nat /\ d < n /\ n <= z /\ z <= m /\ m <= e
        BY <1>2, <1>3, <2>1, <3>1, <4>1
      <4>. QED  BY ONLY <4>2, z \in Nat
    <3>3. d \div block < z \div block /\ z \div block <= e \div block
      BY <1>2, <3>1, <3>2, Blocks
    <3>4. d \div block \in Nat /\ z \div block \in Nat /\ e \div block \in Nat
      BY <1>2, Blocks
    <3>. QED  BY <3>3, <3>4
  <2>5. CASE w.page = x.page
    <3>. DEFINE z == w.addr
    <3>1. z \in 0 .. limit - 1 /\ NodeAt(s, z) = w /\ z \in Nat
      <4>1. z \in 0 .. limit - 1 /\ NodeAt(s, z) = w
        BY <2>2, NodePage
      <4>. QED  BY <4>1
    <3>2. d <= z /\ z <= e
      <4>1. PICK m, n : m = VmaEnd(v) /\ n = VmaEnd(x)
        OBVIOUS
      <4>2. /\ m \in Nat /\ n \in Nat /\ d \in Nat /\ e \in Nat /\ d < n /\ n <= m /\ m <= e
            /\ z = m
        BY <1>2, <1>3, <2>1, <2>3, <4>1
      <4>. QED  BY ONLY <4>2
    <3>. HIDE DEF z
    <3>3. e # z
      BY <2>1, <2>5, <3>1
    <3>4. z \div block < e \div block
      <4>1. z < e
        BY <1>2, <3>1, <3>2, <3>3
      <4>. QED  BY <1>1, <2>1, <2>3, <2>5, <3>1, <4>1 DEF BlocksOK
    <3>5. d \div block <= z \div block
      BY <1>2, <3>1, <3>2, Blocks
    <3>6. d \div block \in Nat /\ z \div block \in Nat /\ e \div block \in Nat
      BY <1>2, <3>1, Blocks
    <3>. QED  BY <3>4, <3>5, <3>6
  <2>. QED  BY <2>4, <2>5
<1>. QED  BY <1>7, <1>8, <1>9, <1>10


\* The node that is allocated.
Taken(getref, mapref, sparse, p, addr, size) ==
  [VmaNew(addr, size) EXCEPT !.used = TRUE, !.mapref = mapref /\ ~getref, !.sparse = sparse,
                             !.page = p, !.refd = IF getref THEN p ELSE NoPage]

IsTaken(x, getref, mapref, sparse, p, addr, size) ==
  /\ x \in VmaSet /\ x.addr = addr /\ VmaEnd(x) = addr + size
  /\ x.used /\ (x.mapref <=> mapref /\ ~getref) /\ (x.sparse <=> sparse) /\ x.page = p
  /\ x.refd = (IF getref THEN p ELSE NoPage)
  /\ ~x.part /\ ~x.mapped /\ ~x.memory

LEMMA TakenIs ==
  ASSUME setup \in Setups, NEW getref \in BOOLEAN, NEW mapref \in BOOLEAN, NEW sparse \in BOOLEAN,
         NEW p \in Idx, NEW addr \in Nat, NEW size \in Nat \ {0},
         NEW x, x = Taken(getref, mapref, sparse, p, addr, size)
  PROVE  IsTaken(x, getref, mapref, sparse, p, addr, size)
<1>1. NoPage \in Idx
  BY SetupIs
<1>2. (mapref /\ ~getref) \in BOOLEAN /\ (IF getref THEN p ELSE NoPage) \in Idx
  BY <1>1
<1>3. PICK m, q : m = (mapref /\ ~getref) /\ q = IF getref THEN p ELSE NoPage
  OBVIOUS
<1>4. m \in BOOLEAN /\ q \in Idx /\ (m <=> mapref /\ ~getref) /\ q = IF getref THEN p ELSE NoPage
  BY <1>2, <1>3, Zenon
<1>5. PICK v : v = VmaNew(addr, size)
  OBVIOUS
<1>6. /\ v \in VmaSet /\ v.addr = addr /\ v.size = size /\ ~v.part /\ ~v.mapped /\ ~v.memory
  BY <1>1, <1>5 DEF VmaNew, VmaSet
<1>7. x = [v EXCEPT !.used = TRUE, !.mapref = m, !.sparse = sparse, !.page = p, !.refd = q]
  BY <1>3, <1>5, Zenon DEF Taken
<1>8. /\ x \in VmaSet /\ x.addr = addr /\ x.size = size /\ x.used /\ x.mapref = m /\ x.sparse = sparse
      /\ x.page = p /\ x.refd = q /\ ~x.part /\ ~x.mapped /\ ~x.memory
  <2>1. m \in BOOLEAN /\ q \in Idx /\ sparse \in BOOLEAN /\ p \in Idx
    BY <1>4
  <2>. QED  BY ONLY <1>6, <1>7, <2>1 DEF VmaSet
<1>. QED  BY <1>4, <1>8 DEF VmaEnd, IsTaken

LEMMA VmmGetStep ==
  ASSUME VmmInv, NEW getref \in BOOLEAN, NEW mapref \in BOOLEAN, NEW sparse \in BOOLEAN, NEW p \in Idx,
         NEW size \in Nat \ {0}, setup.managed > 0 => ~sparse, VmmGet(getref, mapref, sparse, p, size)
  PROVE  VmmInv'
<1>. DEFINE i == BestFit(p, size)
            v == nodes[i]
            addr == Start(nodes, i, p)
            cut == NodeSplit(nodes, i, addr, size)
            x == Taken(getref, mapref, sparse, p, addr, size)
            pages == Covers(addr, size)
<1>1. /\ setup \in Setups /\ Tiles(nodes, 0, Limit) /\ Addrs = 0 .. Limit - 1 /\ RefsInv /\ CallInv /\ TablesInv
      /\ FreeWhole(nodes) /\ BlocksOK(nodes, setup.block, Limit) /\ Limit \in Nat /\ setup.block \in Nat
      /\ \A a \in Addrs : PageOK(NodeAt(nodes, a), setup.managed)
  BY SetupIs DEF VmmInv, NodesInv, PagesInv, BlockInv, Addrs
<1>2. /\ vmmop.pc = "idle" /\ (getref \/ mapref \/ ~sparse) /\ (getref => p # NoPage)
      /\ \E j \in DOMAIN nodes : Suits(j, p, size)
      /\ UNCHANGED <<vmmop, setup, torn>>
  BY DEF VmmGet, VmmIdling
<1>3. /\ nodes' = Taking(cut.ns, cut.at, x)
      /\ IF sparse THEN PtesSet(pages, "sparse") ELSE UNCHANGED pte
      /\ IF getref THEN PtesRef(pages, p, 1) ELSE UNCHANGED ptrefs
      /\ IF sparse /\ ~getref THEN SparseRef(pages, 1) ELSE UNCHANGED sprefs
  BY DEF VmmGet, Taking, Whole, Taken
<1>4. i \in 1 .. Len(nodes) /\ Suits(i, p, size)
  BY <1>1, <1>2, BestFitIs
<1>. HIDE DEF i
<1>5. /\ ~v.used /\ addr \in Nat /\ v.addr <= addr /\ addr + size <= VmaEnd(v)
      /\ setup.block > 0 /\ i > 1 /\ nodes[i - 1].page # p =>
           \E y \in Nat : y % setup.block = 0 /\ v.addr <= y /\ y <= addr
      /\ setup.block > 0 /\ i < Len(nodes) /\ nodes[i + 1].page # p =>
           \E y \in Nat : y % setup.block = 0 /\ addr + size <= y /\ y <= VmaEnd(v)
  BY <1>1, <1>4, FitIs
<1>. HIDE DEF addr
<1>6. v \in VmaSet /\ PageOK(v, setup.managed)
  BY <1>1, <1>4, Indices, NodePages
<1>7. /\ x \in VmaSet /\ x.addr = addr /\ VmaEnd(x) = addr + size
      /\ x.used /\ (x.mapref <=> mapref /\ ~getref) /\ (x.sparse <=> sparse) /\ x.page = p
      /\ x.refd = (IF getref THEN p ELSE NoPage)
      /\ ~x.part /\ ~x.mapped /\ ~x.memory
  <2>1. /\ setup \in Setups /\ addr \in Nat /\ getref \in BOOLEAN /\ mapref \in BOOLEAN /\ sparse \in BOOLEAN
        /\ p \in Idx /\ size \in Nat \ {0} /\ x = Taken(getref, mapref, sparse, p, addr, size)
    BY <1>1, <1>5
  <2>. HIDE DEF x
  <2>2. IsTaken(x, getref, mapref, sparse, p, addr, size)
    BY ONLY <2>1, TakenIs
  <2>. QED  BY <2>2 DEF IsTaken
<1>. HIDE DEF cut, x
<1>8. Replaced(nodes, nodes', i, i, Cut(nodes[i], x, Left(nodes[i], x), Right(nodes[i], x, FALSE)))
  <2>1. cut = NodeSplit(nodes, i, addr, size)
    BY DEF cut
  <2>. QED  BY <1>1, <1>3, <1>4, <1>5, <1>7, <2>1, TakingReplaced
<1>9. TakenOf(nodes, i, x)
  BY <1>5, <1>7 DEF TakenOf
<1>10. /\ Tiles(nodes', 0, Limit) /\ FreeWhole(nodes')
       /\ \A a \in 0 .. Limit - 1 :
            IF x.addr <= a /\ a < VmaEnd(x) THEN NodeAt(nodes', a) = x
            ELSE Like(NodeAt(nodes', a), NodeAt(nodes, a))
  BY ONLY <1>1, <1>4, <1>8, <1>9, GetNodes
<1>11. BlocksOK(nodes', setup.block, Limit)
  <2>1. \A a \in 0 .. Limit - 1 :
          IF x.addr <= a /\ a < VmaEnd(x) THEN NodeAt(nodes', a) = x
          ELSE Same(NodeAt(nodes', a), NodeAt(nodes, a))
    BY <1>10 DEF Like
  <2>2. /\ setup.block > 0 /\ i > 1 /\ nodes[i - 1].page # x.page =>
             \E z \in Nat : z % setup.block = 0 /\ nodes[i].addr <= z /\ z <= x.addr
        /\ setup.block > 0 /\ i < Len(nodes) /\ nodes[i + 1].page # x.page =>
             \E z \in Nat : z % setup.block = 0 /\ VmaEnd(x) <= z /\ z <= VmaEnd(nodes[i])
    BY <1>5, <1>7
  <2>. QED  BY ONLY <1>1, <1>4, <1>9, <2>1, <2>2, GetBlocks
<1>. HIDE DEF v, pages
<1>12. ASSUME NEW a \in Addrs
       PROVE  /\ a \in pages <=> addr <= a /\ a < addr + size
              /\ a \in pages => NodeAt(nodes, a) = v /\ NodeAt(nodes', a) = x
              /\ a \notin pages => Like(NodeAt(nodes', a), NodeAt(nodes, a))
  <2>1. a \in pages <=> addr <= a /\ a < addr + size
    BY <1>1, <1>5 DEF pages, Covers
  <2>2. v.addr \in Nat /\ VmaEnd(v) \in Nat
    BY <1>6, VmaIs
  <2>3. a \in pages => v.addr <= a /\ a < VmaEnd(v)
    BY <1>1, <1>5, <2>1, <2>2
  <2>4. a \in pages => NodeAt(nodes, a) = v
    BY <1>1, <1>4, <2>3, NodePage DEF v
  <2>. QED  BY <1>1, <1>7, <1>10, <2>1, <2>4
<1>13. /\ ptrefs' \in [PageIdx -> [Addrs -> Int]]
       /\ \A a \in Addrs : a \notin pages => Refs(ptrefs', a) = Refs(ptrefs, a)
       /\ getref => \A a \in Addrs : \A q \in PageIdx :
            a \in pages => Refs(ptrefs', a)[q] = IF q = p THEN Refs(ptrefs, a)[q] + 1 ELSE Refs(ptrefs, a)[q]
       /\ ~getref => ptrefs' = ptrefs
  <2>1. CASE getref
    <3>1. 1 \in Int /\ PtesRef(pages, p, 1) /\ p \in PageIdx
      BY <1>1, <1>2, <1>3, <2>1, SetupIs
    <3>2. /\ ptrefs' \in [PageIdx -> [Addrs -> Int]]
          /\ \A a \in Addrs : \A r \in PageIdx :
               Refs(ptrefs', a)[r] = IF r = p /\ a \in pages THEN Refs(ptrefs, a)[r] + 1 ELSE Refs(ptrefs, a)[r]
          /\ \A a \in Addrs : a \notin pages => Refs(ptrefs', a) = Refs(ptrefs, a)
      BY ONLY <1>1, <3>1, RefsCounted
    <3>. QED  BY <2>1, <3>2
  <2>2. CASE ~getref
    BY <1>1, <1>3, <2>2 DEF RefsInv
  <2>. QED  BY <2>1, <2>2
<1>14. \A a \in Addrs : pte'[a] = IF sparse /\ a \in pages THEN "sparse" ELSE pte[a]
  BY <1>3 DEF PtesSet
<1>15. \A a \in Addrs : sprefs'[a] = IF sparse /\ ~getref /\ a \in pages THEN sprefs[a] + 1 ELSE sprefs[a]
  BY <1>3 DEF SparseRef
<1>16. ~v.used /\ ~v.mapref /\ ~v.sparse /\ v.page = NoPage /\ v.refd = NoPage /\ ~v.mapped /\ ~v.memory
  BY <1>5, <1>6 DEF PageOK
<1>17. ASSUME NEW a \in Addrs
       PROVE  TableOK(Mine(nodes', vmmop', a), a \in torn', NodeAt(nodes', a), pte'[a], Refs(ptrefs', a),
                      sprefs'[a])
  <2>. DEFINE w == NodeAt(nodes, a)
  <2>1. /\ Mine(nodes', vmmop', a) = FALSE /\ Mine(nodes, vmmop, a) = FALSE /\ torn' = torn
    <3>1. vmmop'.pc # "put" /\ vmmop.pc # "put"
      BY <1>2
    <3>. QED  BY <1>2, <3>1, NotMine
  <2>2. TableOK(FALSE, a \in torn, w, pte[a], Refs(ptrefs, a), sprefs[a])
    BY <1>1, <2>1 DEF TablesInv
  <2>3. CASE a \in pages
    <3>1. w = v /\ NodeAt(nodes', a) = x
      BY <1>12, <2>3
    <3>2. SUFFICES ASSUME ~setup.remaps, a \notin torn PROVE Holds(x, pte'[a], Refs(ptrefs', a), sprefs'[a])
      BY <1>7, <2>1, <3>1 DEF TableOK
    <3>3. Holds(v, pte[a], Refs(ptrefs, a), sprefs[a])
      BY <2>2, <3>1, <3>2 DEF TableOK
    <3>4. /\ pte[a] = "none" /\ sprefs[a] = 0
          /\ \A q \in PageIdx : Refs(ptrefs, a)[q] = 0
      <4>1. NoPage \notin PageIdx
        BY <1>1, SetupIs
      <4>. QED  BY <1>16, <3>3, <4>1 DEF Holds, Empty
    <3>5. pte'[a] = Empty(x)
      BY <1>7, <1>14, <2>3, <3>4 DEF Empty
    <3>6. ASSUME NEW q \in PageIdx PROVE Refs(ptrefs', a)[q] = IF x.refd = q THEN 1 ELSE 0
      <4>1. NoPage \notin PageIdx
        BY <1>1, SetupIs
      <4>. QED  BY <1>7, <1>13, <2>3, <3>4, <4>1
    <3>7. sprefs'[a] = IF x.sparse /\ x.mapref THEN 1 ELSE 0
      <4>1. sprefs'[a] = IF sparse /\ ~getref THEN 0 + 1 ELSE 0
        BY <1>15, <2>3, <3>4
      <4>2. sparse /\ ~getref <=> x.sparse /\ x.mapref
        BY <1>2, <1>7
      <4>. QED  BY <4>1, <4>2
    <3>. QED  BY <1>7, <3>5, <3>6, <3>7 DEF Holds
  <2>4. CASE a \notin pages
    <3>1. /\ Like(NodeAt(nodes', a), w) /\ pte'[a] = pte[a] /\ Refs(ptrefs', a) = Refs(ptrefs, a)
          /\ sprefs'[a] = sprefs[a]
      BY <1>12, <1>13, <1>14, <1>15, <2>4
    <3>. HIDE DEF w
    <3>. QED  BY <2>1, <2>2, <3>1, TableLike
  <2>. QED  BY <2>3, <2>4
<1>18. \A a \in Addrs : PageOK(NodeAt(nodes', a), setup.managed)
  <2>1. PageOK(x, setup.managed)
    BY <1>2, <1>7 DEF PageOK
  <2>. QED  BY <1>1, <1>12, <2>1, PageLike
<1>19. CallOK(nodes', vmmop', PfnLimit, Limit) /\ UNCHANGED setup
  BY <1>1, <1>2 DEF CallInv, CallOK
<1>. QED  BY <1>10, <1>11, <1>13, <1>17, <1>18, <1>19, InvNextIs


-----------------------------------------------------------------------------
(* The theorems.                                                           *)

\* A node of a new address space: free, or the pages that the client manages.
Fresh(v) ==
  /\ v \in VmaSet /\ (~v.used => ~v.mapref) /\ ~v.sparse /\ v.page = NoPage /\ v.refd = NoPage
  /\ ~v.part /\ ~v.mapped /\ ~v.memory

LEMMA FreshIs ==
  ASSUME setup \in Setups, NEW a \in Nat, NEW s \in Nat \ {0}
  PROVE  /\ Fresh(VmaNew(a, s)) /\ VmaNew(a, s).addr = a /\ VmaEnd(VmaNew(a, s)) = a + s /\ ~VmaNew(a, s).used
         /\ Fresh(Managed(a, s)) /\ Managed(a, s).addr = a /\ VmaEnd(Managed(a, s)) = a + s
         /\ Managed(a, s).used
<1>1. NoPage \in Idx
  BY SetupIs
<1>2. PICK v : v = VmaNew(a, s)
  OBVIOUS
<1>3. /\ v \in VmaSet /\ ~v.used /\ ~v.mapref /\ ~v.sparse /\ v.page = NoPage /\ v.refd = NoPage
      /\ ~v.part /\ ~v.mapped /\ ~v.memory /\ v.addr = a /\ v.size = s
  BY <1>1, <1>2 DEF VmaNew, VmaSet
<1>4. PICK w : w = Managed(a, s)
  OBVIOUS
<1>5. w = [v EXCEPT !.used = TRUE, !.mapref = TRUE]
  BY <1>2, <1>4 DEF Managed
<1>6. /\ w \in VmaSet /\ w.used /\ ~w.sparse /\ w.page = NoPage /\ w.refd = NoPage
      /\ ~w.part /\ ~w.mapped /\ ~w.memory /\ w.addr = a /\ w.size = s
  BY ONLY <1>3, <1>5 DEF VmaSet
<1>7. VmaEnd(v) = a + s /\ VmaEnd(w) = a + s
  BY <1>3, <1>6 DEF VmaEnd
<1>. QED  BY <1>2, <1>3, <1>4, <1>6, <1>7 DEF Fresh

\* A fresh node behind fresh ones.
LEMMA FreshBehind ==
  ASSUME NEW s, NEW a, NEW b, Tiles(s, a, b), \A i \in 1 .. Len(s) : Fresh(s[i]),
         NEW w, Fresh(w), w.addr = b, s # <<>> => w.used \/ s[Len(s)].used
  PROVE  LET r == s \o <<w>>
         IN  Tiles(r, a, VmaEnd(w)) /\ (\A i \in 1 .. Len(r) : Fresh(r[i])) /\ r[Len(r)] = w
<1>. DEFINE r == s \o <<w>>
            n == Len(s)
<1>1. /\ s \in Seq(VmaSet) /\ a \in Nat /\ w \in VmaSet /\ n \in Nat /\ VmaEnd(w) \in Nat
      /\ (s = <<>> => a = b) /\ (s # <<>> => s[1].addr = a /\ VmaEnd(s[n]) = b)
      /\ \A i \in 1 .. n - 1 : VmaEnd(s[i]) = s[i + 1].addr /\ Meets(s[i], s[i + 1])
      /\ (s = <<>> <=> n = 0)
  <2>1. s \in Seq(VmaSet) /\ w \in VmaSet
    BY DEF Tiles, Fresh
  <2>. QED  BY <2>1, LenProperties, EmptySeq, VmaIs DEF Tiles
<1>2. /\ r \in Seq(VmaSet) /\ Len(r) = n + 1 /\ r[n + 1] = w
      /\ \A i \in 1 .. n : r[i] = s[i]
  BY <1>1
<1>. HIDE DEF r, n
<1>3. \A i \in 1 .. Len(r) : Fresh(r[i])
  <2>. TAKE i \in 1 .. Len(r)
  <2>1. i \in 1 .. n \/ i = n + 1
    BY <1>1, <1>2
  <2>2. i \in 1 .. n => Fresh(r[i])
    BY <1>2 DEF n
  <2>. QED  BY <1>2, <2>1, <2>2
<1>4. ASSUME NEW i \in 1 .. Len(r) - 1
      PROVE  VmaEnd(r[i]) = r[i + 1].addr /\ Meets(r[i], r[i + 1])
  <2>1. CASE i = n
    <3>1. n # 0 /\ n \in 1 .. n
      BY <1>1, <1>2, <2>1
    <3>2. r[i] = s[n] /\ r[i + 1] = w /\ VmaEnd(s[n]) = b
      BY <1>1, <1>2, <2>1, <3>1
    <3>3. (w.used \/ s[n].used) /\ ~w.part
      BY <1>1, <3>1 DEF Fresh, n
    <3>. QED  BY <3>2, <3>3 DEF Meets
  <2>2. CASE i # n
    <3>1. i \in 1 .. n - 1 /\ i \in 1 .. n /\ i + 1 \in 1 .. n
      BY <1>1, <1>2, <2>2
    <3>. QED  BY <1>1, <1>2, <3>1
  <2>. QED  BY <2>1, <2>2
<1>5. r # <<>> /\ r[1].addr = a /\ VmaEnd(r[Len(r)]) = VmaEnd(w)
  <2>1. r # <<>>
    BY <1>1, <1>2, EmptySeq
  <2>2. r[1].addr = a
    <3>1. CASE n = 0
      BY <1>1, <1>2, <3>1
    <3>2. CASE n # 0
      <4>1. 1 \in 1 .. n
        BY <1>1, <3>2
      <4>. QED  BY <1>1, <1>2, <3>2, <4>1
    <3>. QED  BY <3>1, <3>2
  <2>. QED  BY <1>2, <2>1, <2>2
<1>6. Tiles(r, a, VmaEnd(w))
  BY <1>1, <1>2, <1>4, <1>5 DEF Tiles
<1>. QED  BY <1>2, <1>3, <1>6 DEF r

LEMMA InitNodes ==
  ASSUME VmmInit
  PROVE  Tiles(nodes, 0, Limit) /\ \A i \in 1 .. Len(nodes) : Fresh(nodes[i])
<1>. DEFINE m == setup.managed
            n == m + setup.own
            u == Managed(0, m)
            v == VmaNew(m, n - m)
            w == Managed(n, Limit - n)
            A == IF m > 0 THEN <<u>> ELSE <<>>
            B == IF m < n THEN <<v>> ELSE <<>>
            C == IF n < Limit THEN <<w>> ELSE <<>>
            ok(s, b) == Tiles(s, 0, b) /\ \A i \in 1 .. Len(s) : Fresh(s[i])
<1>1. setup \in Setups /\ Limit \in Nat \ {0} /\ m \in Nat /\ n \in m .. Limit /\ n \in Nat
  <2>1. setup \in Setups
    BY DEF VmmInit
  <2>2. Limit \in Nat \ {0} /\ setup.managed \in 0 .. Limit /\ setup.own \in 0 .. Limit - setup.managed
    BY <2>1, SetupIs
  <2>. QED  BY <2>1, <2>2
<1>2. nodes = (A \o B) \o C
  BY DEF VmmInit
<1>. HIDE DEF m, n
<1>3. m > 0 => Fresh(u) /\ u.addr = 0 /\ VmaEnd(u) = m /\ u.used
  <2>1. m > 0 => m \in Nat \ {0} /\ 0 \in Nat /\ 0 + m = m
    BY <1>1
  <2>. QED  BY <1>1, <2>1, FreshIs
<1>4. m < n => Fresh(v) /\ v.addr = m /\ VmaEnd(v) = n
  <2>1. m < n => m \in Nat /\ n - m \in Nat \ {0} /\ m + (n - m) = n
    BY <1>1
  <2>. QED  BY <1>1, <2>1, FreshIs
<1>5. n < Limit => Fresh(w) /\ w.addr = n /\ VmaEnd(w) = Limit /\ w.used
  <2>1. n < Limit => n \in Nat /\ Limit - n \in Nat \ {0} /\ n + (Limit - n) = Limit
    BY <1>1
  <2>. QED  BY <1>1, <2>1, FreshIs
<1>. HIDE DEF u, v, w
<1>6. ok(<<>>, 0) /\ A \in Seq(VmaSet) /\ <<>> \o A = A
  <2>1. Tiles(<<>>, 0, 0) /\ Len(<<>>) = 0 /\ <<>> \in Seq(VmaSet)
    BY DEF Tiles
  <2>2. m > 0 => u \in VmaSet
    BY <1>3 DEF Fresh
  <2>3. A \in Seq(VmaSet)
    BY <2>1, <2>2
  <2>. QED  BY <2>1, <2>3
<1>7. ok(A, m) /\ (A # <<>> => A[Len(A)].used)
  <2>1. CASE m > 0
    <3>1. A = <<u>> /\ A = <<>> \o <<u>>
      BY <1>6, <2>1
    <3>2. PICK s : s = <<>>
      OBVIOUS
    <3>3. /\ Tiles(s, 0, 0) /\ \A i \in 1 .. Len(s) : Fresh(s[i])
          /\ Fresh(u) /\ u.addr = 0 /\ (s # <<>> => u.used \/ s[Len(s)].used)
      BY <1>3, <1>6, <2>1, <3>2
    <3>4. LET r == s \o <<u>>
          IN  Tiles(r, 0, VmaEnd(u)) /\ (\A i \in 1 .. Len(r) : Fresh(r[i])) /\ r[Len(r)] = u
      BY ONLY <3>3, FreshBehind
    <3>5. A = s \o <<u>>
      BY <3>1, <3>2
    <3>. HIDE DEF A
    <3>. QED  BY <1>3, <2>1, <3>4, <3>5
  <2>2. CASE ~(m > 0)
    <3>1. A = <<>> /\ m = 0
      BY <1>1, <2>2
    <3>. QED  BY <1>6, <3>1
  <2>. QED  BY <2>1, <2>2
<1>. HIDE DEF A
<1>8. ok(A \o B, n)
  <2>1. CASE m < n
    <3>1. B = <<v>>
      BY <2>1
    <3>. QED  BY <1>4, <1>7, <2>1, <3>1, FreshBehind
  <2>2. CASE ~(m < n)
    <3>1. A \o B = A /\ m = n
      BY <1>1, <1>6, <2>2
    <3>. QED  BY <1>7, <3>1
  <2>. QED  BY <2>1, <2>2
<1>9. ok((A \o B) \o C, Limit)
  <2>. DEFINE s == A \o B
  <2>0. s \in Seq(VmaSet)
    BY <1>8 DEF Tiles
  <2>. HIDE DEF B, s
  <2>1. CASE n < Limit
    <3>1. C = <<w>>
      BY <2>1
    <3>2. /\ Tiles(s, 0, n) /\ \A i \in 1 .. Len(s) : Fresh(s[i])
          /\ Fresh(w) /\ w.addr = n /\ (s # <<>> => w.used \/ s[Len(s)].used)
      BY <1>5, <1>8, <2>1 DEF s
    <3>3. LET r == s \o <<w>>
          IN  Tiles(r, 0, VmaEnd(w)) /\ (\A i \in 1 .. Len(r) : Fresh(r[i])) /\ r[Len(r)] = w
      BY ONLY <3>2, FreshBehind
    <3>. HIDE DEF C
    <3>. QED  BY <1>5, <2>1, <3>1, <3>3 DEF s
  <2>2. CASE ~(n < Limit)
    <3>1. s \o C = s /\ n = Limit
      BY <1>1, <2>0, <2>2
    <3>. QED  BY <1>8, <3>1 DEF s
  <2>. QED  BY <2>1, <2>2 DEF s
<1>. QED  BY <1>2, <1>9

LEMMA InvInit ==
  ASSUME VmmInit
  PROVE  VmmInv
<1>1. /\ setup \in Setups /\ Limit \in Nat /\ setup.managed \in Nat /\ Addrs = 0 .. Limit - 1
      /\ NoPage \notin PageIdx
  BY SetupIs DEF VmmInit, Addrs
<1>2. Tiles(nodes, 0, Limit) /\ \A v \in Range(nodes) : Fresh(v)
  BY InitNodes, Indices
<1>3. \A a \in Addrs : Fresh(NodeAt(nodes, a))
  BY <1>1, <1>2, SearchFound
<1>4. /\ \A a \in Addrs : pte[a] = "none" /\ sprefs[a] = 0
      /\ ptrefs = [p \in PageIdx |-> [a \in Addrs |-> 0]]
      /\ vmmop = [pc |-> "idle", start |-> 0, limit |-> 0, valid |-> {}] /\ torn = {}
  BY DEF VmmInit, VmmIdle
<1>5. NodesInv
  BY <1>1, <1>2 DEF NodesInv, FreeWhole, Fresh
<1>6. PagesInv
  BY <1>3 DEF PagesInv, PageOK, Fresh
<1>7. RefsInv
  <2>1. 0 \in Int
    OBVIOUS
  <2>. QED  BY <1>4, <2>1 DEF RefsInv
<1>8. CallInv
  BY <1>4 DEF CallInv, CallOK, Calls
<1>9. TablesInv
  <2>. SUFFICES ASSUME NEW a \in Addrs
                PROVE  TableOK(Mine(nodes, vmmop, a), a \in torn, NodeAt(nodes, a), pte[a],
                               Refs(ptrefs, a), sprefs[a])
    BY DEF TablesInv
  <2>1. Mine(nodes, vmmop, a) = FALSE
    BY <1>4, NotMine
  <2>2. \A p \in PageIdx : Refs(ptrefs, a)[p] = 0
    BY <1>4 DEF Refs
  <2>3. PICK v : v = NodeAt(nodes, a)
    OBVIOUS
  <2>4. Fresh(v)
    BY <1>3, <2>3
  <2>5. Holds(v, pte[a], Refs(ptrefs, a), sprefs[a])
    BY <1>1, <1>4, <2>2, <2>4 DEF Holds, Empty, Fresh
  <2>. QED  BY <2>1, <2>3, <2>4, <2>5 DEF TableOK, Fresh
<1>10. BlockInv
  <2>1. \A a \in 0 .. Limit - 1 : NodeAt(nodes, a).page = NoPage
    BY <1>1, <1>3 DEF Fresh
  <2>. QED  BY <2>1 DEF BlockInv, BlocksOK
<1>. QED  BY <1>5, <1>6, <1>7, <1>8, <1>9, <1>10 DEF VmmInv

LEMMA InvCall ==
  ASSUME VmmInv, VmmCall
  PROVE  VmmInv'
<1>1. setup \in Setups
  BY DEF VmmInv, NodesInv
<1>2. ASSUME NEW k \in setup.kinds, NEW p \in PageIdx \cup {NoPage}, NEW size \in Sizes,
             VmmGet(k.type = "ptes", k.type = "addr", k.sparse, p, size)
      PROVE  VmmInv'
  <2>1. PICK getref \in BOOLEAN, mapref \in BOOLEAN : getref = (k.type = "ptes") /\ mapref = (k.type = "addr")
    OBVIOUS
  <2>2. k.sparse \in BOOLEAN /\ size \in Nat \ {0}
    BY <1>1, VmmAssumption
  <2>3. p \in Idx /\ (setup.managed > 0 => ~k.sparse)
    BY <1>1, SetupIs
  <2>4. VmmGet(getref, mapref, k.sparse, p, size)
    BY <1>2, <2>1
  <2>. QED  BY ONLY VmmInv, <2>2, <2>3, <2>4, getref \in BOOLEAN, mapref \in BOOLEAN, VmmGetStep
<1>3. ASSUME NEW i \in DOMAIN nodes, VmmUnmap(i) \/ VmmPut(i)
      PROVE  VmmInv'
  BY <1>3, VmmUnmapStep, VmmPutStep
<1>4. ASSUME NEW i \in DOMAIN nodes, NEW addr \in Addrs, NEW size \in Sizes,
             VmmMap(i, addr, size) \/ VmmMapFails(i, addr, size)
      PROVE  VmmInv'
  BY <1>4, VmmMapStep, VmmMapFailsStep
<1>5. ASSUME NEW start \in 0 .. PfnLimit, NEW limit \in 0 .. PfnLimit, start < limit,
             \/ \E valid \in SUBSET Covers(start, limit - start) : PfnStart("pfnmap", start, limit, valid)
             \/ PfnStart("pfnclr", start, limit, {})
      PROVE  VmmInv'
  <2>1. PICK pc \in {"pfnmap", "pfnclr"}, valid \in SUBSET Covers(start, limit - start) :
          PfnStart(pc, start, limit, valid)
    BY <1>5
  <2>. QED  BY <1>5, <2>1, PfnStartStep
<1>. QED  BY <1>2, <1>3, <1>4, <1>5 DEF VmmCall

LEMMA InvNext ==
  ASSUME VmmInv, [VmmNext]_vmmVars
  PROVE  VmmInv'
<1>1. CASE PfnMapStep
  BY <1>1, PfnMapOK
<1>2. CASE PfnMapFails
  BY <1>2, PfnMapFailsOK
<1>3. CASE PfnMapSkip
  BY <1>3, PfnMapSkipStep
<1>4. CASE PfnUnmapStep
  BY <1>4, PfnUnmapOK
<1>5. CASE PutMerge
  BY <1>5, PutMergeStep
<1>6. CASE PutFinish
  BY <1>6, PutFinishStep
<1>7. CASE VmmCall
  BY <1>7, InvCall
<1>8. CASE UNCHANGED vmmVars
  <2>1. UNCHANGED <<nodes, pte, ptrefs, sprefs, vmmop, setup, torn>>
    BY <1>8 DEF vmmVars
  <2>2. Limit' = Limit /\ Addrs' = Addrs /\ PfnLimit' = PfnLimit
    BY <2>1 DEF Limit, Addrs, PfnLimit
  <2>3. NodesInv' /\ PagesInv' /\ RefsInv' /\ CallInv' /\ TablesInv' /\ BlockInv'
    BY <2>1, <2>2 DEF VmmInv, NodesInv, PagesInv, RefsInv, CallInv, TablesInv, BlockInv, TableOK
  <2>. QED  BY <2>3 DEF VmmInv
<1>. QED  BY <1>1, <1>2, <1>3, <1>4, <1>5, <1>6, <1>7, <1>8 DEF VmmNext, VmmLoop

LEMMA SpaceOK ==
  ASSUME VmmInv
  PROVE  SpaceSound
<1>1. /\ Tiles(nodes, 0, Limit) /\ Limit \in Nat \ {0} /\ setup.block \in Nat
      /\ BlocksOK(nodes, setup.block, Limit)
  BY SetupIs DEF VmmInv, NodesInv, BlockInv
<1>2. /\ Len(nodes) \in Nat /\ DOMAIN nodes = 1 .. Len(nodes)
      /\ \A i \in 1 .. Len(nodes) : nodes[i] \in VmaSet
  BY <1>1, Indices
<1>3. nodes[1].addr = 0 /\ VmaEnd(Last(nodes)) = Limit
  BY <1>1 DEF Tiles, Last
<1>4. \A i \in DOMAIN nodes : nodes[i].size > 0
  BY <1>2 DEF VmaSet
<1>5. ASSUME NEW i \in 1 .. Len(nodes) - 1
      PROVE  LET v == nodes[i]
                 w == nodes[i + 1]
             IN  /\ VmaEnd(v) = w.addr
                 /\ v.used \/ w.used
                 /\ w.part => /\ v.used /\ v.mapref = w.mapref /\ v.sparse = w.sparse /\ v.page = w.page
                              /\ v.mapped \/ w.mapped
  <2>1. VmaEnd(nodes[i]) = nodes[i + 1].addr /\ Meets(nodes[i], nodes[i + 1])
    BY <1>1 DEF Tiles
  <2>. QED  BY <2>1 DEF Meets
<1>6. BlocksUniform
  <2>. SUFFICES ASSUME setup.block > 0, NEW i \in DOMAIN nodes, NEW j \in DOMAIN nodes, nodes[i].used,
                       nodes[j].used, nodes[i].page # nodes[j].page, i < j
                PROVE  (VmaEnd(nodes[i]) - 1) \div setup.block < nodes[j].addr \div setup.block
    BY Zenon DEF BlocksUniform
  <2>1. PICK x, y : x = VmaEnd(nodes[i]) - 1 /\ y = nodes[j].addr
    OBVIOUS
  <2>2. x \in 0 .. Limit - 1 /\ NodeAt(nodes, x) = nodes[i] /\ y \in 0 .. Limit - 1 /\ NodeAt(nodes, y) = nodes[j]
    BY <1>1, <1>2, <2>1, NodePage
  <2>3. VmaEnd(nodes[i]) <= nodes[j].addr
    BY <1>1, <1>2, TilesOrder
  <2>4. VmaEnd(nodes[i]) \in Nat
    BY <1>2, VmaIs
  <2>5. x < y
    BY <2>1, <2>2, <2>3, <2>4
  <2>6. x \div setup.block < y \div setup.block
    BY <1>1, <2>2, <2>5 DEF BlocksOK
  <2>. QED  BY <2>1, <2>6
<1>7. NodesCanonical
  BY <1>3, <1>4, <1>5, Zenon DEF NodesCanonical
<1>. QED  BY <1>6, <1>7 DEF SpaceSound

LEMMA PtesOK ==
  ASSUME VmmInv
  PROVE  PtesExact
<1>. SUFFICES ASSUME VmmIdling, ~setup.remaps, NEW a \in Addrs \ torn PROVE Exact(a)
  BY DEF PtesExact
<1>1. Mine(nodes, vmmop, a) = FALSE
  <2>1. vmmop.pc # "put"
    BY DEF VmmIdling
  <2>. QED  BY <2>1, NotMine
<1>2. TableOK(FALSE, a \in torn, NodeAt(nodes, a), pte[a], Refs(ptrefs, a), sprefs[a])
  BY <1>1 DEF VmmInv, TablesInv
<1>3. Holds(NodeAt(nodes, a), pte[a], Refs(ptrefs, a), sprefs[a])
  BY <1>2 DEF TableOK
<1>4. \A p \in PageIdx : Refs(ptrefs, a)[p] = ptrefs[p][a]
  BY DEF Refs
<1>. QED  BY <1>3, <1>4 DEF Exact, Holds, NodeAt

\* The nodes of vmm->list cover the space, and those of an allocation follow each
\* other; the page tables hold and are referenced as each page's node says, and
\* while nvkm_vmm_put_locked is at work, what it has dropped of an allocation is
\* all that they are short of.  Of the tables it says so where no region that is
\* mapped fails to be mapped again (nvkm_uvmm_mthd_map), for the pages whose
\* entries no failed call left behind (torn).
THEOREM VmmCorrect == VmmSpec => []VmmInv
<1>1. VmmInit => VmmInv
  BY InvInit
<1>2. VmmInv /\ [VmmNext]_vmmVars => VmmInv'
  BY InvNext
<1>. QED  BY <1>1, <1>2, PTL DEF VmmSpec

\* No call of nvkm_vmm_get_locked, _map, _unmap, _put or for PFNs leaves a gap or
\* an overlap, two free nodes side by side, a part that is not joined with the
\* unmapped part before it, or two page sizes in a block.
THEOREM SpaceCorrect == VmmSpec => []SpaceSound
<1>1. VmmInv => SpaceSound
  BY SpaceOK
<1>. QED  BY <1>1, VmmCorrect, PTL

\* Between calls, the page tables hold for each page what its node says, and each
\* entry is referenced once for each reason to keep it: in every space where no
\* region that is mapped fails to be mapped again, but for the pages that
\* nvkm_vmm_pfn_map failed to map, and the sparse ones whose entries a failed
\* nvkm_vmm_ptes_get_map took back.
THEOREM PtesCorrect == VmmSpec => []PtesExact
<1>1. VmmInv => PtesExact
  BY PtesOK
<1>. QED  BY <1>1, VmmCorrect, PTL

=============================================================================
