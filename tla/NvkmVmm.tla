------------------------------ MODULE NvkmVmm ------------------------------
(***************************************************************************)
(* The address space of a GPU context: nvkm/subdev/mmu/vmm.c and the ioctls *)
(* of uvmm.c.  vmm->list is a sequence of nodes that cover the space; the  *)
(* trees vmm->free and vmm->root are its nodes that are not, and that are, *)
(* used.  Page tables are what they hold for each page (pte) and how often *)
(* each entry is referenced for a page size (ptrefs, and sprefs for the    *)
(* references of nvkm_vmm_ptes_sparse); NvkmPt models the tables.          *)
(*                                                                         *)
(* vmm->mutex is held over a call.  The two calls that loop, put and the   *)
(* mapping of PFNs, are an action per turn; no other starts meanwhile.     *)
(***************************************************************************)
EXTENDS Integers, Sequences, FiniteSets, SequencesExt

CONSTANTS
  PageSize,   \* of each page index, from the largest; a sequence, 1 the last
  Setups,     \* address spaces to look at: their pages, of which the first are
              \* managed by the client, the next NVKM's own, the rest managed
              \* again, page_block (0: none), the kinds of allocations, whether
              \* the client maps parts of them, whether page tables may run out
              \* (for PFNs, once), and whether a region that is mapped may fail
              \* to be mapped again
  Sizes       \* sizes to ask nvkm_vmm_get_locked for

\* The driver's clients ask for no sparse regions where they manage the space
\* (nouveau_vmm.c, nouveau_svm.c).  There regions are not mapped again either:
\* it is nouveau_bo_move_ntfy that does, in the space that NVKM manages.
ASSUME VmmAssumption ==
  /\ PageSize \in Seq(Nat \ {0}) /\ PageSize # <<>> /\ PageSize[Len(PageSize)] = 1
  /\ Sizes \subseteq Nat \ {0}
  /\ \A s \in Setups :
       /\ s.limit \in Nat \ {0} /\ s.managed \in 0..s.limit /\ s.block \in Nat
       /\ s.own \in 0..(s.limit - s.managed)
       /\ s.kinds \subseteq [type : {"ptes", "addr", "lazy"}, sparse : BOOLEAN]
       /\ s.managed > 0 => ~s.remaps /\ \A k \in s.kinds : ~k.sparse

VARIABLES
  nodes,   \* vmm->list, in order
  pte,     \* what the page tables map each page to
  ptrefs,  \* references to the entry of each page, by page size
  sprefs,  \* those of nvkm_vmm_ptes_sparse
  vmmop,   \* the call that loops, and where it is
  setup,   \* the address space looked at
  torn     \* pages that nvkm_vmm_pfn_map failed to map, and sparse ones whose
           \* entries nvkm_vmm_ptes_get_map has taken back

vmmVars == <<nodes, pte, ptrefs, sprefs, vmmop, setup, torn>>

NoPage == 0                       \* NVKM_VMA_PAGE_NONE
PageIdx == DOMAIN PageSize
Limit == setup.limit
Addrs == 0..(Limit - 1)
VmmIdle == [pc |-> "idle", start |-> 0, limit |-> 0, valid |-> {}]
Covers(a, s) == a..(a + s - 1)
VmaEnd(v) == v.addr + v.size
Aligned(v, p) == v.addr % PageSize[p] = 0 /\ v.size % PageSize[p] = 0

VmaNew(a, s) ==
  [addr |-> a, size |-> s, used |-> FALSE, mapref |-> FALSE, sparse |-> FALSE, page |-> NoPage,
   refd |-> NoPage, part |-> FALSE, mapped |-> FALSE, memory |-> FALSE]

Managed(a, s) == [VmaNew(a, s) EXCEPT !.used = TRUE, !.mapref = TRUE]

VmmInit ==
  /\ setup \in Setups
  /\ nodes = LET m == setup.managed
                 n == m + setup.own
             IN  (IF m > 0 THEN <<Managed(0, m)>> ELSE <<>>)
                 \o (IF m < n THEN <<VmaNew(m, n - m)>> ELSE <<>>)
                 \o (IF n < Limit THEN <<Managed(n, Limit - n)>> ELSE <<>>)
  /\ pte = [a \in Addrs |-> "none"]
  /\ ptrefs = [p \in PageIdx |-> [a \in Addrs |-> 0]]
  /\ sprefs = [a \in Addrs |-> 0]
  /\ vmmop = VmmIdle
  /\ torn = {}

-----------------------------------------------------------------------------
(* Nodes.                                                                  *)

\* Nodes i to j become the sequence new.
Subst(ns, i, j, new) == SubSeq(ns, 1, i - 1) \o new \o SubSeq(ns, j + 1, Len(ns))

\* nvkm_vmm_node_search.
Search(ns, a) == CHOOSE i \in DOMAIN ns : ns[i].addr <= a /\ a < VmaEnd(ns[i])

\* nvkm_vma_tail: the first d pages of a node, and the rest.
Upto(v, d) == [v EXCEPT !.size = d]
Rest(v, d) == [v EXCEPT !.addr = @ + d, !.size = @ - d]
Grow(v, n) == [v EXCEPT !.size = @ + n]

\* nvkm_vmm_node_merge of node i, for its first or last size pages; the nodes,
\* and which of them is returned.
NodeMerge(ns, i, prev, next, size) ==
  LET v == ns[i]
      whole == v.size = size
      gives(first, last, new, at) == [ns |-> Subst(ns, first, last, new), at |-> at]
  IN CASE next /\ whole /\ prev  -> gives(i - 1, i + 1, <<Grow(ns[i - 1], v.size + ns[i + 1].size)>>, i - 1)
       [] next /\ whole /\ ~prev -> gives(i, i + 1, <<Grow(v, ns[i + 1].size)>>, i)
       [] next /\ ~whole         -> gives(i, i + 1, <<Grow(v, -size), Rest(ns[i + 1], -size)>>, i + 1)
       [] prev /\ ~next          -> gives(i - 1, i, <<Grow(ns[i - 1], size)>> \o
                                          (IF whole THEN <<>> ELSE <<Rest(v, size)>>), i - 1)
       [] OTHER                  -> [ns |-> ns, at |-> i]

\* nvkm_vmm_node_split; its only failure undoes it.
NodeSplit(ns, i, addr, size) ==
  LET v == ns[i]
      before == IF v.addr = addr THEN <<>> ELSE <<Upto(v, addr - v.addr)>>
      mid == [v EXCEPT !.addr = addr, !.size = size, !.part = @ \/ v.addr # addr]
      after == IF VmaEnd(v) = addr + size THEN <<>>
               ELSE <<[Rest(v, addr + size - v.addr) EXCEPT !.part = TRUE]>>
  IN  [ns |-> Subst(ns, i, i, before \o <<mid>> \o after), at |-> i + Len(before)]

\* The node after it is not looked at.
PfnSplitMergeBug(ns, i, addr, size, map) ==
  LET v == ns[i]
      prev == v.addr = addr /\ v.part /\ i > 1 /\ ~ns[i - 1].memory /\ ns[i - 1].mapped = map
  IN  IF prev THEN NodeMerge(ns, i, prev, FALSE, size) ELSE NodeSplit(ns, i, addr, size)

\* nvkm_vmm_pfn_split_merge.
PfnSplitMerge(ns, i, addr, size, map) ==
  LET v == ns[i]
      joins(w) == ~w.memory /\ w.mapped = map
      prev == v.addr = addr /\ v.part /\ i > 1 /\ joins(ns[i - 1])
      next == VmaEnd(v) = addr + size /\ i < Len(ns) /\ ns[i + 1].part /\ joins(ns[i + 1])
  IN  IF prev \/ next THEN NodeMerge(ns, i, prev, next, size) ELSE NodeSplit(ns, i, addr, size)

\* The region is not merged with the one before.
UnmapRegionBug(ns, i) ==
  LET next == i < Len(ns) /\ ns[i + 1].part /\ ~ns[i + 1].mapped
  IN  NodeMerge([ns EXCEPT ![i].memory = FALSE, ![i].mapped = FALSE], i, FALSE, next, ns[i].size).ns

\* nvkm_vmm_unmap_region.
UnmapRegion(ns, i) ==
  LET prev == ns[i].part /\ i > 1 /\ ~ns[i - 1].mapped
      next == i < Len(ns) /\ ns[i + 1].part /\ ~ns[i + 1].mapped
  IN  NodeMerge([ns EXCEPT ![i].memory = FALSE, ![i].mapped = FALSE], i, prev, next, ns[i].size).ns

\* nvkm_vmm_put_region.
PutRegion(ns, i) ==
  LET prev == i > 1 /\ ~ns[i - 1].used
      next == i < Len(ns) /\ ~ns[i + 1].used
      first == IF prev THEN i - 1 ELSE i
      last == IF next THEN i + 1 ELSE i
  IN  Subst(ns, first, last, <<[ns[i] EXCEPT !.addr = ns[first].addr,
                                             !.size = VmaEnd(ns[last]) - ns[first].addr]>>)

-----------------------------------------------------------------------------
(* Page tables.                                                            *)

PtesSet(pages, what) == pte' = [a \in Addrs |-> IF a \in pages THEN what ELSE pte[a]]
PtesRef(pages, p, d) ==
  ptrefs' = [ptrefs EXCEPT ![p] = [a \in Addrs |-> IF a \in pages THEN @[a] + d ELSE @[a]]]
SparseRef(pages, d) == sprefs' = [a \in Addrs |-> IF a \in pages THEN sprefs[a] + d ELSE sprefs[a]]

Empty(v) == IF v.sparse THEN "sparse" ELSE "none"

-----------------------------------------------------------------------------
(* nvkm_vmm_get_locked.                                                    *)

VmmIdling == vmmop.pc = "idle"
Up(a, n) == ((a + n - 1) \div n) * n
Down(a, n) == (a \div n) * n

\* Where a free node could give the pages: from its first to its last page.
Start(ns, i, p) ==
  LET b == setup.block
      a == IF b > 0 /\ i > 1 /\ ns[i - 1].page # p THEN Up(ns[i].addr, b) ELSE ns[i].addr
  IN  Up(a, IF p = NoPage THEN 1 ELSE PageSize[p])

Stop(ns, i, p) ==
  LET b == setup.block
  IN  IF b > 0 /\ i < Len(ns) /\ ns[i + 1].page # p THEN Down(VmaEnd(ns[i]), b) ELSE VmaEnd(ns[i])

Suits(i, p, size) == ~nodes[i].used /\ Start(nodes, i, p) + size <= Stop(nodes, i, p)

\* The smallest free node that does, the lowest of those.
BestFit(p, size) ==
  CHOOSE i \in DOMAIN nodes :
    /\ Suits(i, p, size)
    /\ \A j \in DOMAIN nodes : Suits(j, p, size) =>
         nodes[i].size < nodes[j].size \/ (nodes[i].size = nodes[j].size /\ i <= j)

VmmGet(getref, mapref, sparse, p, size) ==
  /\ VmmIdling
  /\ getref \/ mapref \/ ~sparse
  /\ getref \/ setup.block > 0 => p # NoPage
  /\ p # NoPage => size % PageSize[p] = 0
  /\ \E i \in DOMAIN nodes : Suits(i, p, size)
  /\ LET i == BestFit(p, size)
         addr == Start(nodes, i, p)
         cut == NodeSplit(nodes, i, addr, size)
         taken == [VmaNew(addr, size) EXCEPT !.used = TRUE, !.mapref = mapref /\ ~getref,
                     !.sparse = sparse, !.page = p, !.refd = IF getref THEN p ELSE NoPage]
     IN  \* the rests are not parts: nvkm_vma_tail alone splits a free node
         /\ nodes' = [j \in DOMAIN cut.ns |->
                        IF j = cut.at THEN taken
                        ELSE IF cut.ns[j].used THEN cut.ns[j] ELSE [cut.ns[j] EXCEPT !.part = FALSE]]
         /\ IF sparse THEN PtesSet(Covers(addr, size), "sparse") ELSE UNCHANGED pte
         /\ IF getref THEN PtesRef(Covers(addr, size), p, 1) ELSE UNCHANGED ptrefs
         /\ IF sparse /\ ~getref THEN SparseRef(Covers(addr, size), 1) ELSE UNCHANGED sprefs
  /\ UNCHANGED <<vmmop, setup, torn>>

-----------------------------------------------------------------------------
(* Mapping of memory: nvkm_uvmm_mthd_map and nvkm_vmm_map_locked.          *)

\* The node that the call maps, split off if it is less than what is there.
\* The page size is fixed, or any that the node is aligned to, as the memory
\* may allow.
MapPages(v) ==
  IF v.refd # NoPage THEN {v.refd} ELSE IF v.page # NoPage THEN {v.page} ELSE PageIdx

MapNode(i, addr, size) ==
  LET v == nodes[i]
  IN  /\ VmmIdling
      /\ v.used /\ addr \in Covers(v.addr, v.size) /\ addr + size <= VmaEnd(v)
      /\ ~(v.mapped /\ ~v.memory)
      /\ v.addr # addr \/ v.size # size =>
           setup.parts /\ ~v.memory /\ (v.refd # NoPage \/ v.mapref)

VmmMap(i, addr, size) ==
  /\ MapNode(i, addr, size)
  /\ LET cut == NodeSplit(nodes, i, addr, size)
         v == cut.ns[cut.at]
     IN \E p \in MapPages(v) :
          /\ Aligned(v, p)
          /\ nodes' = [cut.ns EXCEPT ![cut.at].refd = p, ![cut.at].memory = TRUE, ![cut.at].mapped = TRUE]
          /\ PtesSet(Covers(addr, size), "memory")
          /\ IF v.refd = NoPage THEN PtesRef(Covers(addr, size), p, 1) ELSE UNCHANGED ptrefs
  /\ UNCHANGED <<sprefs, vmmop, setup, torn>>

\* The first pages, whose tables can be had when those of others cannot.
TablesHad(v) ==
  {n \in 1..(v.size - 1) :
     /\ setup.fails /\ v.refd = NoPage
     /\ \E p \in MapPages(v) : Aligned(v, p) /\ n % PageSize[p] = 0}

\* The memory cannot be mapped so, or a page table not be had: the region is
\* unmapped, and merged with what it was split from.  nvkm_vmm_ptes_get_map has
\* taken back what it had set, as if the region were not sparse; what was there
\* when the region had been mapped before is left in the page tables.
VmmMapFails(i, addr, size) ==
  /\ MapNode(i, addr, size)
  /\ nodes[i].memory => setup.remaps
  /\ LET cut == NodeSplit(nodes, i, addr, size)
         v == cut.ns[cut.at]
     IN  /\ nodes' = UnmapRegion(cut.ns, cut.at)
         /\ \E n \in {0} \cup TablesHad(v) :
              /\ PtesSet(Covers(addr, n), "none")
              /\ torn' = IF v.sparse THEN torn \cup Covers(addr, n) ELSE torn
  /\ UNCHANGED <<ptrefs, sprefs, vmmop, setup>>

\* nvkm_uvmm_mthd_unmap and nvkm_vmm_unmap_locked.
VmmUnmap(i) ==
  LET v == nodes[i]
      pages == Covers(v.addr, v.size)
  IN  /\ VmmIdling
      /\ v.used /\ v.memory
      /\ PtesSet(pages, Empty(v))
      /\ IF v.mapref THEN PtesRef(pages, v.refd, -1) ELSE UNCHANGED ptrefs
      /\ nodes' = UnmapRegion([nodes EXCEPT ![i].refd = IF v.mapref THEN NoPage ELSE @], i)
      /\ UNCHANGED <<sprefs, vmmop, setup, torn>>

-----------------------------------------------------------------------------
(* Mapping of PFNs, where the client manages the space, at the smallest    *)
(* page size.                                                              *)

PfnLimit == IF setup.managed > 0 THEN Limit ELSE 0

PfnStart(pc, start, limit, valid) ==
  /\ VmmIdling
  /\ nodes[Search(nodes, start)].used
  /\ vmmop' = [pc |-> pc, start |-> start, limit |-> limit, valid |-> valid]
  /\ UNCHANGED <<nodes, pte, ptrefs, sprefs, setup, torn>>

\* The turn of the loop at start is over; the next begins at a.
PfnNext(a) == vmmop' = IF a >= vmmop.limit THEN VmmIdle ELSE [vmmop EXCEPT !.start = a]

\* nvkm_vmm_pfn_map: the pages from start on that are alike, and in one node.
PfnWindow(v) ==
  LET same(a) == (a \in vmmop.valid) = (vmmop.start \in vmmop.valid)
      last == IF VmaEnd(v) < vmmop.limit THEN VmaEnd(v) ELSE vmmop.limit
  IN  CHOOSE n \in 1..(last - vmmop.start) :
        /\ \A a \in Covers(vmmop.start, n) : same(a)
        /\ vmmop.start + n = last \/ ~same(vmmop.start + n)

PfnMapped(ns, j, map) ==
  [ns EXCEPT ![j].mapped = map, ![j].refd = IF map THEN Len(PageSize) ELSE NoPage]

\* Mapped is looked at after it has been set.
PfnMapStepBug ==
  /\ vmmop.pc = "pfnmap"
  /\ LET i == Search(nodes, vmmop.start)
         v == nodes[i]
         n == PfnWindow(v)
         map == vmmop.start \in vmmop.valid
         new == PfnSplitMerge(nodes, i, vmmop.start, n, map)
     IN  /\ v.mapref /\ ~v.memory
         /\ nodes' = IF map = v.mapped THEN nodes ELSE PfnMapped(new.ns, new.at, map)
         /\ IF map \/ v.mapped
            THEN PtesSet(Covers(vmmop.start, n), IF map THEN "pfn" ELSE "none") ELSE UNCHANGED pte
         /\ UNCHANGED ptrefs
         /\ PfnNext(vmmop.start + n)
  /\ UNCHANGED <<sprefs, setup, torn>>

PfnMapStep ==
  /\ vmmop.pc = "pfnmap"
  /\ LET i == Search(nodes, vmmop.start)
         v == nodes[i]
         n == PfnWindow(v)
         pages == Covers(vmmop.start, n)
         map == vmmop.start \in vmmop.valid
         new == PfnSplitMerge(nodes, i, vmmop.start, n, map)
     IN  /\ v.mapref /\ ~v.memory
         /\ nodes' = IF map = v.mapped THEN nodes ELSE PfnMapped(new.ns, new.at, map)
         /\ IF map \/ v.mapped THEN PtesSet(pages, IF map THEN "pfn" ELSE "none") ELSE UNCHANGED pte
         /\ IF map = v.mapped THEN UNCHANGED ptrefs
            ELSE PtesRef(pages, Len(PageSize), IF map THEN 1 ELSE -1)
         /\ PfnNext(vmmop.start + n)
  /\ UNCHANGED <<sprefs, setup, torn>>

\* nvkm_vmm_ptes_get_map fails; the node has been changed.
PfnMapFails ==
  /\ setup.fails /\ torn = {}
  /\ vmmop.pc = "pfnmap"
  /\ LET i == Search(nodes, vmmop.start)
         v == nodes[i]
         n == PfnWindow(v)
         new == PfnSplitMerge(nodes, i, vmmop.start, n, TRUE)
     IN  /\ v.mapref /\ ~v.memory /\ ~v.mapped /\ vmmop.start \in vmmop.valid
         /\ nodes' = PfnMapped(new.ns, new.at, TRUE)
         /\ torn' = Covers(vmmop.start, n)
         /\ PfnNext(vmmop.start + n)
  /\ UNCHANGED <<pte, ptrefs, sprefs, setup>>

\* Unmanaged regions and those with memory are left alone.
PfnMapSkip ==
  /\ vmmop.pc = "pfnmap"
  /\ LET v == nodes[Search(nodes, vmmop.start)]
     IN  (~v.mapref \/ v.memory) /\ PfnNext(vmmop.start + PfnWindow(v))
  /\ UNCHANGED <<nodes, pte, ptrefs, sprefs, setup, torn>>

\* nvkm_vmm_pfn_unmap.
PfnUnmapStep ==
  /\ vmmop.pc = "pfnclr"
  /\ LET i == Search(nodes, vmmop.start)
         v == nodes[i]
         n == (IF VmaEnd(v) < vmmop.limit THEN VmaEnd(v) ELSE vmmop.limit) - vmmop.start
         new == PfnSplitMerge(nodes, i, vmmop.start, n, FALSE)
         done == PfnMapped(new.ns, new.at, FALSE)
     IN  IF v.mapped /\ ~v.memory
         THEN /\ PtesSet(Covers(vmmop.start, n), "none")
              /\ PtesRef(Covers(vmmop.start, n), v.refd, -1)
              /\ nodes' = done
              /\ PfnNext(VmaEnd(done[new.at]))
         ELSE UNCHANGED <<nodes, pte, ptrefs>> /\ PfnNext(VmaEnd(v))
  /\ UNCHANGED <<sprefs, setup, torn>>

-----------------------------------------------------------------------------
(* nvkm_vmm_put_locked of the node at vmmop.start.                         *)

\* The node and its parts.
PartsOf(ns, i) ==
  {j \in i..Len(ns) : \A k \in (i + 1)..j : ns[k].part}

\* Unmap and dereference, part by part.
VmmPut(i) ==
  LET v == nodes[i]
      held(a) == \E j \in PartsOf(nodes, i) :
                   /\ a \in Covers(nodes[j].addr, nodes[j].size)
                   /\ nodes[j].refd # NoPage
      mapped(a) == nodes[Search(nodes, a)].mapped
      refd(a) == nodes[Search(nodes, a)].refd
  IN  /\ VmmIdling
      /\ v.used /\ ~v.part
      /\ IF v.mapref \/ ~v.sparse
         THEN /\ ptrefs' = [p \in PageIdx |-> [a \in Addrs |->
                            IF held(a) /\ refd(a) = p THEN ptrefs[p][a] - 1 ELSE ptrefs[p][a]]]
              /\ pte' = [a \in Addrs |-> IF held(a) /\ mapped(a) THEN Empty(v) ELSE pte[a]]
         ELSE UNCHANGED <<ptrefs, pte>>
      /\ vmmop' = [VmmIdle EXCEPT !.pc = "put", !.start = v.addr]
      /\ UNCHANGED <<nodes, sprefs, setup, torn>>

\* Merge the mapped parts back: one turn, at the node itself or the next.
PutMerge ==
  /\ vmmop.pc = "put"
  /\ LET i == Search(nodes, vmmop.start)
         j == IF nodes[i].mapped THEN i ELSE i + 1
     IN  /\ nodes[i].mapped \/ (i < Len(nodes) /\ nodes[i + 1].part)
         /\ nodes' = IF nodes[j].mapped THEN UnmapRegion(nodes, j) ELSE nodes
  /\ UNCHANGED <<pte, ptrefs, sprefs, vmmop, setup, torn>>

\* What the allocation itself referenced, and back to the free nodes.
PutFinish ==
  /\ vmmop.pc = "put"
  /\ LET i == Search(nodes, vmmop.start)
         v == nodes[i]
         pages == Covers(v.addr, v.size)
     IN  /\ ~v.mapped /\ (i < Len(nodes) => ~nodes[i + 1].part)
         /\ IF v.sparse THEN PtesSet(pages, "none") ELSE UNCHANGED pte
         /\ IF v.sparse /\ ~v.mapref THEN PtesRef(pages, v.refd, -1) ELSE UNCHANGED ptrefs
         /\ IF v.sparse /\ v.mapref THEN SparseRef(pages, -1) ELSE UNCHANGED sprefs
         /\ nodes' = PutRegion([nodes EXCEPT ![i] = VmaNew(v.addr, v.size)], i)
  /\ vmmop' = VmmIdle
  /\ UNCHANGED <<setup, torn>>

-----------------------------------------------------------------------------
VmmLoop == PfnMapStep \/ PfnMapFails \/ PfnMapSkip \/ PfnUnmapStep \/ PutMerge \/ PutFinish

VmmCall ==
  \/ \E k \in setup.kinds, p \in PageIdx \cup {NoPage}, size \in Sizes :
       VmmGet(k.type = "ptes", k.type = "addr", k.sparse, p, size)
  \/ \E i \in DOMAIN nodes : VmmUnmap(i) \/ VmmPut(i)
  \/ \E i \in DOMAIN nodes, addr \in Addrs, size \in Sizes :
       VmmMap(i, addr, size) \/ VmmMapFails(i, addr, size)
  \/ \E start, limit \in 0..PfnLimit :
       /\ start < limit
       /\ \/ \E valid \in SUBSET Covers(start, limit - start) : PfnStart("pfnmap", start, limit, valid)
          \/ PfnStart("pfnclr", start, limit, {})

VmmNext == VmmLoop \/ VmmCall

VmmSpec == VmmInit /\ [][VmmNext]_vmmVars /\ WF_vmmVars(VmmLoop)

-----------------------------------------------------------------------------
(* Properties.                                                             *)

\* The nodes of vmm->list cover the space; no two free nodes are neighbours, so
\* that what is put can be had again; a part follows a node of its allocation,
\* and no two unmapped nodes of an allocation are neighbours, so that a region
\* that is unmapped is found whole.
NodesCanonical ==
  /\ nodes[1].addr = 0 /\ VmaEnd(Last(nodes)) = Limit
  /\ \A i \in DOMAIN nodes : nodes[i].size > 0
  /\ \A i \in 1..(Len(nodes) - 1) :
       LET v == nodes[i]
           w == nodes[i + 1]
       IN  /\ VmaEnd(v) = w.addr
           /\ v.used \/ w.used
           /\ w.part => /\ v.used /\ v.mapref = w.mapref /\ v.sparse = w.sparse /\ v.page = w.page
                        /\ v.mapped \/ w.mapped

Exact(a) ==
  LET v == nodes[Search(nodes, a)]
  IN  /\ pte[a] = IF ~v.mapped THEN Empty(v) ELSE IF v.memory THEN "memory" ELSE "pfn"
      /\ \A p \in PageIdx : ptrefs[p][a] = IF v.refd = p THEN 1 ELSE 0
      /\ sprefs[a] = IF v.sparse /\ v.mapref THEN 1 ELSE 0

\* The page tables hold for each page what its node says, and each entry is
\* referenced once for each reason to keep it, at the page size of the node:
\* nothing leaks, and no page table goes while it is used.  It is not so of
\* the pages in torn, and of no page where a region that is mapped fails to be
\* mapped again (MappedHoldsValid).
PtesExact == VmmIdling /\ ~setup.remaps => \A a \in Addrs \ torn : Exact(a)

\* "Region contains valid pages", of mapped, and "Memory currently mapped into
\* VMA" (mmu.h, struct nvkm_vma): where the page tables reach memory, the region
\* is mapped and has the memory, whatever failed.
MappedHoldsValid ==
  VmmIdling => \A a \in Addrs : pte[a] = "memory" =>
    nodes[Search(nodes, a)].mapped /\ nodes[Search(nodes, a)].memory

\* "In order to both properly refcount GPU page tables [...] we need to track
\* contiguous ranges that have been mapped" (vmm.c, nvkm_vmm_pfn_map): what is
\* tracked as mapped is refcounted, when page tables run out, too.
TrackedRefcounted == VmmIdling => \A a \in Addrs : Exact(a)

\* Tesla-class GPUs select the page size for a whole block: no two allocations
\* of different page sizes share one.
BlocksUniform ==
  setup.block > 0 =>
    \A i, j \in DOMAIN nodes :
      LET v == nodes[i]
          w == nodes[j]
      IN  v.used /\ w.used /\ v.page # w.page /\ i < j =>
            (VmaEnd(v) - 1) \div setup.block < w.addr \div setup.block

\* The address space as nvkm_vmm_get_locked and _put_locked leave it.
SpaceSound == NodesCanonical /\ BlocksUniform

\* The loops over an allocation and over an array of PFNs end: the mutex is
\* released.
VmmReturns == ~VmmIdling ~> VmmIdling
=============================================================================
