------------------------------- MODULE NvkmPt -------------------------------
(***************************************************************************)
(* The page tables of an address space: the walks of nvkm/subdev/mmu/vmm.c *)
(* over the layout of GM200 (vmmgm200.c), where an entry of the directory  *)
(* points at a dual table, one half for large pages (L) and one for small  *)
(* (S), or makes all that it covers sparse.  The MMU looks at an L entry    *)
(* first and at the S entries under it only if it is unmapped.             *)
(*                                                                         *)
(* A call of nvkm_vmm_ptes_* runs under vmm->mutex and is one action.  The *)
(* calls are those NvkmVmm makes for its nodes: Regions are allocations,   *)
(* maps what is mapped in them.                                            *)
(***************************************************************************)
EXTENDS Integers, Sequences, FiniteSets, SequencesExt

CONSTANTS
  NPde, NLpte, NSpte,  \* entries of the directory, of the L half, S under an L
  PtSetups   \* the regions to allocate, the page sizes to map with, the calls
             \* in which tables may run out, and NVKM_VMM_PTE_SPTES

ASSUME PtAssumption ==
  /\ {NPde, NLpte, NSpte} \subseteq Nat \ {0}
  /\ \A s \in PtSetups : \A i \in DOMAIN s.regions :
       LET r == s.regions[i] IN r.addr \in Nat /\ r.size \in Nat \ {0}

VARIABLES
  pt,        \* the tables, in memory of the kernel and of the GPU
  allocated, \* regions that are allocated
  maps,      \* what is mapped in them: address, size, page size
  ptsetup

ptVars == <<pt, allocated, maps, ptsetup>>

PerPde == NLpte * NSpte
PtAddrs == 0..(NPde * PerPde - 1)
Pdes == 0..(NPde - 1)
Lptes == 0..(NLpte - 1)
Sptes == 0..(PerPde - 1)
Unit(x) == CASE x = "P" -> PerPde [] x = "L" -> NSpte [] x = "S" -> 1
Pages(a, s) == a..(a + s - 1)
Pair(x) == IF x = "L" THEN "S" ELSE "L"

\* pgt->pte[]: a byte of two flags and a count.
SPTES == ptsetup.sptes
VALID == SPTES + 1
SPARSE == 2 * VALID
Byte(n) == n % (2 * SPARSE)
CountOf(b) == b % VALID
IsValid(b) == (b \div VALID) % 2 = 1
IsSparse(b) == (b \div SPARSE) % 2 = 1
WithValid(b) == IF IsValid(b) THEN b ELSE b + VALID
NoValid(b) == IF IsValid(b) THEN b - VALID ELSE b

\* Half x of a dual table, filled with e; "gone" when there is none.
Half(x, e) == [i \in IF x = "L" THEN Lptes ELSE Sptes |-> e]

\* nvkm_vmm_pt_new.
PtNew(sparse) ==
  [sparse |-> sparse, refs |-> [L |-> 0, S |-> 0], pte |-> [i \in Lptes |-> 0],
   L |-> Half("L", "gone"), S |-> Half("S", "gone")]

Halves(t) == {x \in {"L", "S"} : t[x][0] # "gone"}

PtInit ==
  /\ ptsetup \in PtSetups
  /\ pt = [refs |-> 1, pde |-> [d \in Pdes |-> "none"], tab |-> [d \in Pdes |-> PtNew(FALSE)],
           hw |-> [d \in Pdes |-> [kind |-> "invalid", halves |-> {}]]]
  /\ allocated = {}
  /\ maps = {}

-----------------------------------------------------------------------------
(* One table: its reference counts and the transitions between the halves. *)

\* The entries from first on, n of them, and the L entries they lie under.
Ptes(first, n) == first..(first + n - 1)
Above(first, n) == (first \div NSpte)..((first + n - 1) \div NSpte)
Touched(i, first, n) == Cardinality({j \in Ptes(first, n) : j \div NSpte = i})

\* The entries are dealt with in groups; the first speaks for its group.
GroupHead(i, set) ==
  CHOOSE k \in set : k <= i /\ (k..i) \subseteq set /\ k - 1 \notin set

\* nvkm_vmm_ref_sptes.
RefSptes(t, first, n) ==
  LET pte == [i \in Lptes |-> Byte(t.pte[i] + Touched(i, first, n))]
      turned == {i \in Above(first, n) : ~IsValid(pte[i])}
      sparse(i) == i \in turned /\ IsSparse(pte[GroupHead(i, turned)])
  IN IF t.refs.L = 0 THEN [t EXCEPT !.pte = pte]
     ELSE [t EXCEPT
       !.pte = [i \in Lptes |-> IF i \in turned THEN WithValid(pte[i]) ELSE pte[i]],
       !.L = [i \in Lptes |-> IF i \in turned THEN "unmapped" ELSE @[i]],
       !.S = [j \in Sptes |-> IF sparse(j \div NSpte) THEN "sparse" ELSE @[j]]]

\* The entries do not go back to L.
UnrefSptesBug(t, first, n) ==
  [t EXCEPT !.pte = [i \in Lptes |-> Byte(t.pte[i] - Touched(i, first, n))]]

\* nvkm_vmm_unref_sptes.
UnrefSptes(t, first, n) ==
  LET pte == [i \in Lptes |-> Byte(t.pte[i] - Touched(i, first, n))]
      turned == {i \in Above(first, n) : CountOf(pte[i]) = 0}
      sparse(i) == IsSparse(pte[GroupHead(i, turned)])
  IN IF t.refs.L = 0 THEN [t EXCEPT !.pte = pte]
     ELSE [t EXCEPT
       !.pte = [i \in Lptes |-> IF i \in turned THEN NoValid(pte[i]) ELSE pte[i]],
       !.L = [i \in Lptes |-> IF i \notin turned THEN @[i]
                              ELSE IF sparse(i) THEN "sparse" ELSE "invalid"]]

\* nvkm_vmm_ref_hwpt: what the new half of a table holds.
Fill(t, x) ==
  LET held(i) == CountOf(t.pte[i]) > 0
  IN CASE x = "S" -> [t EXCEPT !.S = Half("S", IF t.sparse THEN "sparse" ELSE "unmapped")]
       [] x = "L" /\ t.refs.S > 0 ->
            [t EXCEPT
               !.L = [i \in Lptes |-> IF held(i) THEN "unmapped"
                                      ELSE IF t.sparse THEN "sparse" ELSE "invalid"],
               !.pte = [i \in Lptes |-> IF held(i) THEN WithValid(@[i]) ELSE 0]]
       [] OTHER ->
            [t EXCEPT
               !.L = Half("L", IF t.sparse THEN "sparse" ELSE "invalid"),
               !.pte = [i \in Lptes |-> IF t.sparse THEN SPARSE ELSE @[i]]]

-----------------------------------------------------------------------------
(* The directory.                                                          *)

HwPde(t) == [kind |-> "table", halves |-> Halves(t)]
HwBare(sparse) == [kind |-> IF sparse THEN "sparse" ELSE "invalid", halves |-> {}]

\* nvkm_vmm_ref_swpt, if there is no table.
RefSwpt(m, d) ==
  IF m.pde[d] = "table" THEN m
  ELSE [m EXCEPT !.pde[d] = "table", !.tab[d] = PtNew(m.pde[d] = "sparse")]

\* The walk down to half x of entry d, when it is to be referenced.
Down1(m, d, x) ==
  LET n == RefSwpt(m, d)
      t == Fill(n.tab[d], x)
  IN IF n.tab[d].refs[x] > 0 THEN n
     ELSE [n EXCEPT !.refs = @ + 1, !.tab[d] = t, !.hw[d] = HwPde(t)]

\* nvkm_vmm_unref_pdes: half x of entry d goes, with the last the table.  The
\* top-level directory has a reference of its own, and stays.
UnrefPdes(m, d, x) ==
  LET t == [m.tab[d] EXCEPT ![x] = Half(x, "gone")]
  IN IF t.refs[Pair(x)] > 0
     THEN [m EXCEPT !.refs = @ - 1, !.tab[d] = t, !.hw[d] = HwPde(t)]
     ELSE [m EXCEPT !.refs = @ - 1, !.tab[d] = PtNew(FALSE),
                    !.pde[d] = IF t.sparse THEN "sparse" ELSE "none", !.hw[d] = HwBare(t.sparse)]

\* No memory for half x: the walk stops, the directory is as it was.
DownFails(m, d, x) == UnrefPdes([RefSwpt(m, d) EXCEPT !.refs = @ + 1], d, x)

Needs(m, d, x) == x # "P" /\ (m.pde[d] # "table" \/ m.tab[d].refs[x] = 0)

\* The counts of S entries are not kept while there is no L half.
RefPtesBug(m, d, x, first, n) ==
  LET t == [m.tab[d] EXCEPT !.refs[x] = @ + n]
  IN  [m EXCEPT !.tab[d] = IF x = "S" /\ t.refs.L > 0 THEN RefSptes(t, first, n) ELSE t]

\* nvkm_vmm_ref_ptes.
RefPtes(m, d, x, first, n) ==
  LET t == [m.tab[d] EXCEPT !.refs[x] = @ + n]
  IN  [m EXCEPT !.tab[d] = IF x = "S" THEN RefSptes(t, first, n) ELSE t]

SetPtes(m, d, x, first, n, e) ==
  [m EXCEPT !.tab[d][x] = [i \in DOMAIN @ |-> IF i \in Ptes(first, n) THEN e ELSE @[i]]]

\* nvkm_vmm_unref_ptes, and the entries become e unless their half has gone.
UnrefPtes(m, d, x, first, n, e) ==
  LET t == [m.tab[d] EXCEPT !.refs[x] = @ - n]
      u == IF x = "S" /\ t.refs.L + t.refs.S > 0 THEN UnrefSptes(t, first, n) ELSE t
      k == [m EXCEPT !.tab[d] = u]
  IN  IF u.refs[x] = 0 THEN UnrefPdes(k, d, x)
      ELSE IF e = "keep" THEN k ELSE SetPtes(k, d, x, first, n, e)

-----------------------------------------------------------------------------
(* nvkm_vmm_iter: a walk over the pages from a on, s of them, at page size  *)
(* x.  A piece is what lies under one entry of the directory.               *)

PieceOf(d, x, a, s) ==
  LET lo == IF a > d * PerPde THEN a ELSE d * PerPde
      hi == IF a + s < (d + 1) * PerPde THEN a + s ELSE (d + 1) * PerPde
  IN  [d |-> d, first |-> (lo % PerPde) \div Unit(x), n |-> (hi - lo) \div Unit(x), addr |-> lo]

Pieces(x, a, s) ==
  LET from == a \div PerPde
  IN  [k \in 1..((a + s - 1) \div PerPde - from + 1) |-> PieceOf(from + k - 1, x, a, s)]

\* What a call does to a piece.
Get(m, p, x) == RefPtes(Down1(m, p.d, x), p.d, x, p.first, p.n)
GetMap(m, p, x) == SetPtes(Get(m, p, x), p.d, x, p.first, p.n, "memory")
Map(m, p, x) == SetPtes(m, p.d, x, p.first, p.n, "memory")
Put(m, p, x) == UnrefPtes(m, p.d, x, p.first, p.n, "keep")

Cleared(x, sparse) == IF sparse THEN "sparse" ELSE IF x = "L" THEN "invalid" ELSE "unmapped"
Unmap(m, p, x, sparse) == SetPtes(m, p.d, x, p.first, p.n, Cleared(x, sparse))
UnmapPut(m, p, x, sparse) == UnrefPtes(m, p.d, x, p.first, p.n, Cleared(x, sparse))

\* nvkm_vmm_sparse_ref_ptes and _unref_ptes, of the directory or of a table.
SparseGet(m, p, x) ==
  LET n == Down1(m, p.d, x)
      k == IF x = "L"
           THEN [n EXCEPT !.tab[p.d].pte = [i \in Lptes |-> IF i \in Ptes(p.first, p.n) THEN SPARSE ELSE @[i]]]
           ELSE n
  IN  IF x = "P"
      THEN [m EXCEPT !.refs = @ + 1, !.pde[p.d] = "sparse", !.hw[p.d] = HwBare(TRUE)]
      ELSE SetPtes(RefPtes(k, p.d, x, p.first, p.n), p.d, x, p.first, p.n, "sparse")

SparsePut(m, p, x) ==
  LET k == IF x = "L"
           THEN [m EXCEPT !.tab[p.d].pte = [i \in Lptes |-> IF i \in Ptes(p.first, p.n) THEN 0 ELSE @[i]]]
           ELSE m
  IN  IF x = "P"
      THEN [m EXCEPT !.refs = @ - 1, !.pde[p.d] = "none", !.hw[p.d] = HwBare(FALSE)]
      ELSE UnrefPtes(k, p.d, x, p.first, p.n, Cleared(x, FALSE))

\* The call Op on each piece in turn.
Iter(m, x, a, s, Op(_, _, _)) == FoldLeft(LAMBDA n, p : Op(n, p, x), m, Pieces(x, a, s))

\* A call that finds no memory at its k-th piece, and undoes the pieces before it.
IterFails(m, x, a, s, k, Op(_, _, _), Undo(_, _, _)) ==
  LET ps == Pieces(x, a, s)
      done == FoldLeft(LAMBDA n, p : Op(n, p, x), m, SubSeq(ps, 1, k - 1))
      failed == DownFails(done, ps[k].d, x)
  IN  IF k = 1 THEN failed ELSE Iter(failed, x, a, ps[k].addr - a, Undo)

\* The piece at which it may.
MayFailAt(m, x, a, s, k, Op(_, _, _)) ==
  LET ps == Pieces(x, a, s)
  IN  Needs(FoldLeft(LAMBDA n, p : Op(n, p, x), m, SubSeq(ps, 1, k - 1)), ps[k].d, x)

-----------------------------------------------------------------------------
(* nvkm_vmm_ptes_sparse: the blocks of a region, each of the largest page   *)
(* size that fits and is aligned.                                           *)

Larger(x) == IF x = "S" THEN "L" ELSE "P"

Block(a, s) ==
  LET most == IF s >= Unit("P") THEN "P" ELSE IF s >= Unit("L") THEN "L" ELSE "S"
      x == CHOOSE y \in {"P", "L", "S"} :
             /\ Unit(y) <= Unit(most) /\ a % Unit(y) = 0
             /\ \A z \in {"P", "L", "S"} :
                  Unit(z) <= Unit(most) /\ a % Unit(z) = 0 => Unit(z) <= Unit(y)
      next == Unit(Larger(x))
      part == ((a + next - 1) \div next) * next - a
      size == IF x # most /\ s - part >= next THEN part ELSE s
  IN  [x |-> x, addr |-> a, size |-> (size \div Unit(x)) * Unit(x)]

Blocks(addr, size) ==
  LET from[a \in addr..(addr + size)] ==
        IF a = addr + size THEN <<>>
        ELSE LET b == Block(a, addr + size - a) IN <<b>> \o from[a + b.size]
  IN  from[addr]

SparseBlocks(m, bs) == FoldLeft(LAMBDA n, b : Iter(n, b.x, b.addr, b.size, SparseGet), m, bs)
UnsparseBlocks(m, bs) == FoldLeft(LAMBDA n, b : Iter(n, b.x, b.addr, b.size, SparsePut), m, bs)

-----------------------------------------------------------------------------
(* The calls.                                                               *)

Regions == ptsetup.regions
InRegion(q, r) == r.addr <= q.addr /\ q.addr + q.size <= r.addr + r.size
MapsOf(r) == {q \in maps : InRegion(q, r)}
RegionOf(q) == Regions[CHOOSE i \in allocated : InRegion(q, Regions[i])]

\* nvkm_vmm_get_locked: a region whose entries are referenced at once ("S" or
\* "L", its page size), or when they are mapped ("map").
PtGet(i) ==
  LET r == Regions[i]
      ptes == r.refd # "map"
  IN  /\ i \notin allocated
      /\ pt' = CASE r.sparse /\ ptes -> Iter(pt, r.refd, r.addr, r.size, SparseGet)
                 [] r.sparse /\ ~ptes -> SparseBlocks(pt, Blocks(r.addr, r.size))
                 [] ~r.sparse /\ ptes -> Iter(pt, r.refd, r.addr, r.size, Get)
                 [] OTHER -> pt
      /\ allocated' = allocated \cup {i}
      /\ UNCHANGED <<maps, ptsetup>>

\* A table cannot be had for one of the blocks: those before it are undone, as
\* the blocks of a smaller region.
PtGetFails(i) ==
  LET r == Regions[i]
      bs == IF r.refd = "map" THEN Blocks(r.addr, r.size)
            ELSE <<[x |-> r.refd, addr |-> r.addr, size |-> r.size]>>
  IN  /\ "get" \in ptsetup.fails /\ i \notin allocated /\ (r.sparse \/ r.refd # "map")
      /\ \E b \in DOMAIN bs :
           LET m == SparseBlocks(pt, SubSeq(bs, 1, b - 1))
               x == bs[b].x
               a == bs[b].addr
               s == bs[b].size
           IN \E k \in DOMAIN Pieces(x, a, s) :
                IF r.sparse
                THEN /\ MayFailAt(m, x, a, s, k, SparseGet)
                     /\ pt' = LET n == IterFails(m, x, a, s, k, SparseGet, SparsePut)
                              IN  IF b = 1 THEN n
                                  ELSE UnsparseBlocks(n, Blocks(r.addr, a - r.addr))
                ELSE /\ MayFailAt(m, x, a, s, k, Get)
                     /\ pt' = IterFails(m, x, a, s, k, Get, Put)
      /\ UNCHANGED <<allocated, maps, ptsetup>>

\* nvkm_vmm_map_locked.
MapCall(i, q) ==
  LET r == Regions[i]
  IN  /\ i \in allocated /\ InRegion(q, r)
      /\ q.x = r.refd \/ (r.refd = "map" /\ q.x \in ptsetup.sizes)
      /\ q.addr % Unit(q.x) = 0 /\ q.size % Unit(q.x) = 0
      /\ \A o \in maps : Pages(o.addr, o.size) \cap Pages(q.addr, q.size) = {}

PtMap(i, q) ==
  /\ MapCall(i, q)
  /\ pt' = IF Regions[i].refd = "map" THEN Iter(pt, q.x, q.addr, q.size, GetMap)
           ELSE Iter(pt, q.x, q.addr, q.size, Map)
  /\ maps' = maps \cup {q}
  /\ UNCHANGED <<allocated, ptsetup>>

\* nvkm_vmm_ptes_get_map undoes what it did as if the region were not sparse.
PtMapFails(i, q) ==
  /\ "map" \in ptsetup.fails /\ Regions[i].refd = "map"
  /\ MapCall(i, q)
  /\ \E k \in DOMAIN Pieces(q.x, q.addr, q.size) :
       /\ MayFailAt(pt, q.x, q.addr, q.size, k, GetMap)
       /\ pt' = IterFails(pt, q.x, q.addr, q.size, k, GetMap, LAMBDA m, p, x : UnmapPut(m, p, x, FALSE))
  /\ UNCHANGED <<allocated, maps, ptsetup>>

\* The unmapping of q in region r.
Unmapped(m, q, r) ==
  IF r.refd = "map" THEN Iter(m, q.x, q.addr, q.size, LAMBDA n, p, x : UnmapPut(n, p, x, r.sparse))
  ELSE Iter(m, q.x, q.addr, q.size, LAMBDA n, p, x : Unmap(n, p, x, r.sparse))

\* nvkm_vmm_unmap_locked.
PtUnmap(q) ==
  /\ q \in maps
  /\ pt' = Unmapped(pt, q, RegionOf(q))
  /\ maps' = maps \ {q}
  /\ UNCHANGED <<allocated, ptsetup>>

\* The page size a page is mapped with, and the runs of a region that are
\* mapped alike: each is unmapped, or let go, in one walk.
MappedAt(a) ==
  IF \E q \in maps : a \in Pages(q.addr, q.size)
  THEN (CHOOSE q \in maps : a \in Pages(q.addr, q.size)).x ELSE "no"

Runs(r) ==
  LET add(rs, a) ==
        IF rs # <<>> /\ Last(rs).x = MappedAt(a) THEN [rs EXCEPT ![Len(rs)].size = @ + 1]
        ELSE Append(rs, [addr |-> a, size |-> 1, x |-> MappedAt(a)])
  IN  FoldLeft(add, <<>>, [k \in 1..r.size |-> r.addr + k - 1])

LetGo(m, q, r) ==
  CASE q.x # "no" -> Iter(m, q.x, q.addr, q.size, LAMBDA n, p, x : UnmapPut(n, p, x, r.sparse))
    [] q.x = "no" /\ r.refd # "map" -> Iter(m, r.refd, q.addr, q.size, Put)
    [] OTHER -> m

\* nvkm_vmm_put_locked: a sparse region whose entries were referenced at once
\* goes in one walk, any other run by run and then, if it is sparse, by blocks.
PtPut(i) ==
  LET r == Regions[i]
      runs == FoldLeft(LAMBDA m, q : LetGo(m, q, r), pt, Runs(r))
  IN  /\ i \in allocated
      /\ pt' = CASE r.sparse /\ r.refd # "map" -> Iter(pt, r.refd, r.addr, r.size, SparsePut)
                 [] r.sparse /\ r.refd = "map" -> UnsparseBlocks(runs, Blocks(r.addr, r.size))
                 [] OTHER -> runs
      /\ allocated' = allocated \ {i}
      /\ maps' = maps \ MapsOf(r)
      /\ UNCHANGED ptsetup

PtMaps == [addr : PtAddrs, size : 1..(NPde * PerPde), x : {"L", "S"}]

PtNext ==
  \/ \E i \in DOMAIN Regions : PtGet(i) \/ PtGetFails(i) \/ PtPut(i)
  \/ \E i \in allocated, q \in PtMaps : PtMap(i, q) \/ PtMapFails(i, q)
  \/ \E q \in maps : PtUnmap(q)

PtSpec == PtInit /\ [][PtNext]_ptVars

-----------------------------------------------------------------------------
(* Properties.                                                             *)

\* What the MMU makes of an address.
Seen(a) ==
  LET d == a \div PerPde
      t == pt.tab[d]
      j == a % PerPde
      has(x) == x \in pt.hw[d].halves
      l == IF has("L") THEN t.L[j \div NSpte] ELSE "unmapped"
      s == IF has("S") THEN t.S[j] ELSE "unmapped"
      fault(e) == IF e \in {"memory", "sparse"} THEN e ELSE "fault"
  IN  CASE pt.hw[d].kind = "sparse" -> "sparse"
        [] pt.hw[d].kind = "invalid" -> "fault"
        [] OTHER -> IF l # "unmapped" THEN fault(l) ELSE fault(s)

\* Page a is of a sparse region, or of a directory entry that is sparse as a whole.
InSparse(a) == \E i \in allocated : Regions[i].sparse /\ a \in Pages(Regions[i].addr, Regions[i].size)
InSparsePde(a) ==
  \E i \in allocated :
    LET r == Regions[i]
    IN  r.sparse /\ r.refd = "map"
        /\ \E b \in Range(Blocks(r.addr, r.size)) : b.x = "P" /\ a \in Pages(b.addr, b.size)

\* "Unmapped PDEs/PTEs will not trigger MMU faults" (mmu.h, on nvkm_vma.sparse).
\* What is known to break that, in the code as here: a mapping that fails is
\* undone as if its region were not sparse (nvkm_vmm_ptes_get_map); and where a
\* directory entry was sparse as a whole, an L half made while there are SPTEs
\* forgets it: pte[] is set to 0 or VALID without SPARSE (nvkm_vmm_ref_hwpt),
\* so that nvkm_vmm_unref_sptes makes LPTEs invalid.
SparseForgotten(a) ==
  \/ "map" \in ptsetup.fails
  \/ {"S", "L"} \subseteq ptsetup.sizes /\ InSparsePde(a)

\* An address reaches memory if and only if it is mapped, and what a sparse
\* region leaves unmapped is sparse: no map or unmap of a neighbour, at another
\* page size, changes that (nvkm_vmm_ref_sptes, nvkm_vmm_unref_sptes,
\* nvkm_vmm_ref_hwpt, nvkm_vmm_unref_pdes).  Exempt from the second are
\* address spaces where a mapping may run out of tables, and the pages of a
\* directory entry sparse as a whole and mapped at both page sizes.
SeenExact ==
  \A a \in PtAddrs :
    /\ Seen(a) = "memory" <=> MappedAt(a) # "no"
    /\ InSparse(a) /\ MappedAt(a) = "no" /\ ~SparseForgotten(a) => Seen(a) = "sparse"

\* The references of page size x that allocated regions and their maps hold on page a.
RefsOf(a, x) ==
  LET holds(r) == \/ r.refd = x
                  \/ r.sparse /\ r.refd = "map"
                     /\ \E b \in Range(Blocks(r.addr, r.size)) : b.x = x /\ a \in Pages(b.addr, b.size)
      at == {i \in allocated : a \in Pages(Regions[i].addr, Regions[i].size)}
  IN  Cardinality({i \in at : holds(Regions[i])})
      + Cardinality({i \in at : Regions[i].refd = "map" /\ MappedAt(a) = x})

\* "There's one entry for each LPTE, keeping track of whether there are valid
\* SPTEs in the same address-range" (vmm.h, above pte[]).
SptesTracked ==
  \A d \in Pdes, i \in Lptes :
    LET used == \E j \in Ptes(i * NSpte, NSpte) : RefsOf(d * PerPde + j, "S") > 0
    IN  CountOf(pt.tab[d].pte[i]) > 0 <=> used

\* A half of a table exists exactly while a region or a map needs it, counts
\* one reference for each, and the directory counts the halves: a table is
\* neither freed under an entry in use nor left behind when everything is put
\* (nvkm_vmm_ref_ptes, nvkm_vmm_unref_ptes, nvkm_vmm_unref_pdes).
TablesExact ==
  /\ \A d \in Pdes, x \in {"L", "S"} :
       LET t == pt.tab[d]
           refs == FoldFunction(+, 0, [i \in DOMAIN t[x] |-> RefsOf(d * PerPde + i * Unit(x), x)])
       IN  /\ t.refs[x] = refs
           /\ x \in Halves(t) <=> refs > 0
           /\ pt.pde[d] = "table" => Halves(t) # {}
           /\ pt.hw[d].halves = Halves(t)
  /\ LET refs(d) == RefsOf(d * PerPde, "P") + Cardinality(Halves(pt.tab[d]))
     IN  pt.refs = 1 + FoldFunction(+, 0, [d \in Pdes |-> refs(d)])
  /\ SptesTracked

=============================================================================
