------------------------------- MODULE NvkmMm -------------------------------
(***************************************************************************)
(* The range allocator of NVKM, nvkm/core/mm.c, as the allocator of VRAM,  *)
(* nvkm/subdev/fb/ram.c: nvkm_ram_get gathers a memory from as many nodes  *)
(* as it takes, and nvkm_vram_dtor gives them back.                        *)
(*                                                                         *)
(* A node is a record; mm->nodes is a sequence of them, and mm->free the   *)
(* sequence of the offsets of those on the free list.  Offsets and lengths *)
(* are in units of NVKM_RAM_MM_SHIFT.  Both functions hold the mutex of    *)
(* the fb subdev, and every call of mm.c under it is a step.               *)
(***************************************************************************)
EXTENDS Integers, FiniteSets, SequencesExt

CONSTANTS
  Mems,      \* the struct nvkm_vram
  None,      \* no memory
  Layouts,   \* [block, regions, types]: what the ram ctor of a GPU initialises
  Aligns,    \* 1 << (page - NVKM_RAM_MM_SHIFT)
  Sizes      \* bound: the sizes of a request

NONE == 0     \* NVKM_MM_TYPE_NONE
HOLE == 255   \* NVKM_MM_TYPE_HOLE
ANY == 0      \* NVKM_MM_HEAP_ANY

RoundUp(x, b) == ((x + b - 1) \div b) * b
RoundDown(x, b) == (x \div b) * b

\* What nvkm_mm_init uses of a region.
Start(r, block) == RoundUp(r.offset, block)
Stop(r, block) == RoundDown(r.offset + r.length, block)

\* Only nv50_ram_ctor has blocks, and one region; with mixed memory, gf100_ram_ctor
\* has a second region, far behind the first.
ASSUME MmAssumption ==
  /\ None \notin Mems
  /\ \A l \in Layouts :
       /\ l.block \in Nat \ {0} /\ l.types \subseteq 1 .. 254
       /\ l.regions \in Seq([heap : 1 .. 255, offset : Nat, length : Nat])
       /\ Len(l.regions) \in {1, 2}
       /\ \A i \in DOMAIN l.regions : Start(l.regions[i], l.block) < Stop(l.regions[i], l.block)
       /\ Len(l.regions) = 2 =>
            l.block = 1 /\ l.regions[1].offset + l.regions[1].length < l.regions[2].offset
  /\ Aligns \subseteq Nat \ {0}
  /\ Sizes \subseteq Nat \ {0}

VARIABLES
  layout,   \* the GPU's, constant
  nodes,    \* mm->nodes
  free,     \* mm->free
  mutex,    \* the memory whose function holds fb->subdev.mutex
  mem,      \* the memories: st, the chain of nodes from vram->mn, the request
  failed    \* whether a kmalloc has failed so far

mmVars == <<nodes, free>>
vars == <<layout, mmVars, mutex, mem, failed>>

End(n) == n.offset + n.length

Node(offset, length, heap, type) ==
  [offset |-> offset, length |-> length, heap |-> heap, type |-> type]

\* nvkm_mm_init, of a further region r: what lies between is a hole.
MmInit(list, block, r) ==
  LET next == IF list = <<>> THEN r.offset ELSE End(list[Len(list)])
      gap == IF next = r.offset THEN <<>> ELSE <<Node(next, r.offset - next, 0, HOLE)>>
  IN  list \o gap \o
        <<Node(Start(r, block), Stop(r, block) - Start(r, block), r.heap, NONE)>>

RamCtor(l) ==
  LET first == MmInit(<<>>, l.block, l.regions[1])
  IN  IF Len(l.regions) = 1 THEN first ELSE MmInit(first, l.block, l.regions[2])

NoReq == [heap |-> 0, type |-> 0, size |-> 0, min |-> 0, align |-> 1, back |-> FALSE]
NoMem == [st |-> "none", mn |-> <<>>, req |-> NoReq, left |-> 0]

Init ==
  /\ layout \in Layouts
  /\ nodes = RamCtor(layout)
  /\ free = [i \in DOMAIN layout.regions |-> Start(layout.regions[i], layout.block)]
  /\ mutex = None
  /\ mem = [m \in Mems |-> NoMem]
  /\ failed = FALSE

-----------------------------------------------------------------------------
(* nvkm_mm_head and nvkm_mm_tail.                                          *)

At(offset) == CHOOSE i \in DOMAIN nodes : nodes[i].offset = offset /\ nodes[i].type # HOLE

\* What may be used of the free node i: a block of memory is not shared with a
\* neighbour of another type.
Window(i, type) ==
  LET alone(j) == j \in DOMAIN nodes /\ nodes[j].type # type
      n == nodes[i]
  IN  [s |-> IF alone(i - 1) THEN RoundUp(n.offset, layout.block) ELSE n.offset,
       e |-> IF alone(i + 1) THEN RoundDown(End(n), layout.block) ELSE End(n)]

\* The start is not aligned.
HeadTakeBug(i, r, max) ==
  LET w == Window(i, r.type)
      e == RoundDown(w.e, r.align)
  IN  [s |-> w.s, room |-> e - w.s, size |-> Min({max, e - w.s})]

\* What nvkm_mm_head (back: nvkm_mm_tail) takes of the free node i for the
\* request r, of which max is left to find.
HeadTake(i, r, max) ==
  LET w == Window(i, r.type)
      s == RoundUp(w.s, r.align)
      e == RoundDown(w.e, r.align)
  IN  [s |-> s, room |-> e - s, size |-> Min({max, e - s})]

TailTake(i, r, max) ==
  LET w == Window(i, r.type)
      room == w.e - RoundUp(w.s, r.align)
      size == Min({max, room})
  IN  [s |-> RoundDown(w.e - size, r.align), room |-> room, size |-> size]

Take(i, r, max) == IF r.back THEN TailTake(i, r, max) ELSE HeadTake(i, r, max)

Fits(i, r, max) ==
  /\ r.heap \in {ANY, nodes[i].heap}
  /\ Take(i, r, max).room >= r.min

\* The first node of the free list that fits, from the front or from the back.
FirstFit(r, max) ==
  LET fits(offset) == Fits(At(offset), r, max)
  IN  IF r.back THEN SelectLastInSeq(free, fits) ELSE SelectInSeq(free, fits)

\* Puts parts in the place of node i, and the offsets of those that are free in
\* its place in the free list, where it is the k-th.
Split(i, k, parts, offsets) ==
  /\ nodes' = SubSeq(nodes, 1, i - 1) \o parts \o SubSeq(nodes, i + 1, Len(nodes))
  /\ free' = SubSeq(free, 1, k - 1) \o offsets \o SubSeq(free, k + 1, Len(free))

\* The part of node n between from and to, and its offset.
Part(n, from, to, type) ==
  IF from < to THEN <<Node(from, to - from, n.heap, type)>> ELSE <<>>
OffsetOf(from, to) == IF from < to THEN <<from>> ELSE <<>>

MmAlloc(k, r, max) ==
  LET i == At(free[k])
      n == nodes[i]
      s == Take(i, r, max).s
      e == s + Take(i, r, max).size
  IN  Split(i, k, Part(n, n.offset, s, NONE) \o Part(n, s, e, r.type) \o Part(n, e, End(n), NONE),
            OffsetOf(n.offset, s) \o OffsetOf(e, End(n)))

\* A kmalloc fails, the first or the second: then the first cut of the node stays.
MmAllocFails(k, r, max) ==
  LET i == At(free[k])
      n == nodes[i]
      s == Take(i, r, max).s
      e == s + Take(i, r, max).size
      cut == IF r.back THEN e ELSE s
  IN  \/ (n.offset < s \/ e < End(n)) /\ UNCHANGED mmVars
      \/ n.offset < s /\ e < End(n)
           /\ Split(i, k, Part(n, n.offset, cut, NONE) \o Part(n, cut, End(n), NONE), <<n.offset, cut>>)

-----------------------------------------------------------------------------
(* nvkm_mm_free.                                                           *)

\* Takes a hole for free memory.
IsFreeBug(i) == i \in DOMAIN nodes /\ nodes[i].type \in {NONE, HOLE}

IsFree(i) == i \in DOMAIN nodes /\ nodes[i].type = NONE

\* Before which one of the free list node i is put: the first that lies behind it.
Where(i) ==
  LET later == SelectInSeq(free, LAMBDA o : nodes[i].offset < o)
  IN  IF later = 0 THEN Len(free) + 1 ELSE later

\* The free node before is not merged.
MmFreeBug(i) ==
  LET last == IF IsFree(i + 1) THEN i + 1 ELSE i
      n == Node(nodes[i].offset, End(nodes[last]) - nodes[i].offset, nodes[last].heap, NONE)
  IN  /\ nodes' = SubSeq(nodes, 1, i - 1) \o <<n>> \o SubSeq(nodes, last + 1, Len(nodes))
      /\ free' = IF IsFree(i + 1) THEN ReplaceAll(free, nodes[i + 1].offset, n.offset)
                 ELSE InsertAt(free, Where(i), n.offset)

\* Node i is merged with its free neighbours; alone, it is put on the free list.
MmFree(i) ==
  LET first == IF IsFree(i - 1) THEN i - 1 ELSE i
      last == IF IsFree(i + 1) THEN i + 1 ELSE i
      n == Node(nodes[first].offset, End(nodes[last]) - nodes[first].offset,
                nodes[IF last = i THEN first ELSE last].heap, NONE)
  IN  /\ nodes' = SubSeq(nodes, 1, first - 1) \o <<n>> \o SubSeq(nodes, last + 1, Len(nodes))
      /\ free' = IF last # i
                 THEN LET rest == IF first = i THEN free ELSE RemoveFirst(free, n.offset)
                      IN  ReplaceAll(rest, nodes[last].offset, n.offset)
                 ELSE IF first # i THEN free
                 ELSE InsertAt(free, Where(i), n.offset)

-----------------------------------------------------------------------------
(* nvkm_ram_get and nvkm_vram_dtor.                                        *)

\* Instance memory (instmem/nv50.c) is contiguous and taken from the back, what
\* clients allocate (mmu/memnv50.c, mmu/memgf100.c) is taken from the front.
Requests ==
  LET heaps == {layout.regions[i].heap : i \in DOMAIN layout.regions}
      calls == [heap : heaps, type : layout.types, contig : BOOLEAN, back : {FALSE},
                size : Sizes, align : Aligns]
               \cup [heap : {ANY}, type : {1}, contig : {TRUE}, back : {TRUE},
                     size : Sizes, align : Aligns]
      request(c) ==
        LET size == RoundUp(c.size, c.align)
        IN  [heap |-> c.heap, type |-> c.type, align |-> c.align, back |-> c.back,
             size |-> size, min |-> IF c.contig THEN size ELSE c.align]
  IN  {request(c) : c \in calls}

RamGet(m, r) ==
  /\ mem[m].st = "none" /\ mutex = None
  /\ mutex' = m
  /\ mem' = [mem EXCEPT ![m] = [st |-> "get", mn |-> <<>>, req |-> r, left |-> r.size]]
  /\ UNCHANGED <<layout, mmVars, failed>>

Fit(m) == FirstFit(mem[m].req, mem[m].left)

\* One turn of the loop of nvkm_ram_get, which ends when nothing is left.
RamNode(m) ==
  /\ mem[m].st = "get" /\ Fit(m) # 0
  /\ MmAlloc(Fit(m), mem[m].req, mem[m].left)
  /\ LET t == Take(At(free[Fit(m)]), mem[m].req, mem[m].left)
         left == mem[m].left - t.size
     IN  /\ mem' = [mem EXCEPT ![m].mn = Append(@, t.s), ![m].left = left,
                               ![m].st = IF left = 0 THEN "live" ELSE @]
         /\ mutex' = IF left = 0 THEN None ELSE mutex
  /\ UNCHANGED <<layout, failed>>

Doom(m) == mem' = [mem EXCEPT ![m].st = "doomed"]

\* -ENOSPC, or -ENOMEM: the mutex is dropped and the memory unreferenced.
RamNodeFails(m) ==
  /\ mem[m].st = "get"
  /\ \/ Fit(m) = 0 /\ UNCHANGED <<mmVars, failed>>
     \/ Fit(m) # 0 /\ MmAllocFails(Fit(m), mem[m].req, mem[m].left) /\ failed' = TRUE
  /\ Doom(m)
  /\ mutex' = None
  /\ UNCHANGED layout

\* The last reference of a memory is dropped.
Unref(m) ==
  /\ mem[m].st = "live"
  /\ Doom(m)
  /\ UNCHANGED <<layout, mmVars, mutex, failed>>

DtorStart(m) ==
  /\ mem[m].st = "doomed" /\ mutex = None
  /\ mutex' = m
  /\ mem' = [mem EXCEPT ![m].st = "put"]
  /\ UNCHANGED <<layout, mmVars, failed>>

\* A destructor that knows only the first node.
DtorNodeBug(m) ==
  /\ mem[m].st = "put" /\ mem[m].mn # <<>>
  /\ MmFree(At(mem[m].mn[1]))
  /\ mem' = [mem EXCEPT ![m].mn = <<>>]
  /\ UNCHANGED <<layout, mutex, failed>>

DtorNode(m) ==
  /\ mem[m].st = "put" /\ mem[m].mn # <<>>
  /\ MmFree(At(mem[m].mn[1]))
  /\ mem' = [mem EXCEPT ![m].mn = SubSeq(@, 2, Len(@))]
  /\ UNCHANGED <<layout, mutex, failed>>

DtorEnd(m) ==
  /\ mem[m].st = "put" /\ mem[m].mn = <<>>
  /\ mutex' = None
  /\ mem' = [mem EXCEPT ![m] = NoMem]
  /\ UNCHANGED <<layout, mmVars, failed>>

Step(m) ==
  \/ RamNode(m)
  \/ RamNodeFails(m)
  \/ DtorStart(m)
  \/ DtorNode(m)
  \/ DtorEnd(m)

Next ==
  \E m \in Mems :
    \/ \E r \in Requests : RamGet(m, r)
    \/ Unref(m)
    \/ Step(m)

Spec == Init /\ [][Next]_vars

-----------------------------------------------------------------------------
(* Properties.                                                             *)

SumOf(list) ==
  LET sum[j \in 0 .. Len(list)] == IF j = 0 THEN 0 ELSE sum[j - 1] + list[j]
  IN  sum[Len(list)]
Lengths(m) == [j \in DOMAIN mem[m].mn |-> nodes[At(mem[m].mn[j])].length]
Total(m) == SumOf(Lengths(m))

\* The nodes follow each other from one end to the other, each in a region.
Covered ==
  LET ends == RamCtor(layout)
  IN  /\ nodes # <<>> /\ nodes[1].offset = ends[1].offset
      /\ End(nodes[Len(nodes)]) = End(ends[Len(ends)])
      /\ \A i \in 1 .. Len(nodes) - 1 : End(nodes[i]) = nodes[i + 1].offset
      /\ \A i \in DOMAIN nodes : \E j \in DOMAIN ends :
           /\ ends[j].heap = nodes[i].heap /\ (ends[j].type = HOLE <=> nodes[i].type = HOLE)
           /\ ends[j].offset <= nodes[i].offset /\ End(nodes[i]) <= End(ends[j])
           /\ nodes[i].length > 0

FreeListExact ==
  /\ \A k \in 1 .. Len(free) - 1 : free[k] < free[k + 1]
  /\ Range(free) = {nodes[i].offset : i \in {i \in DOMAIN nodes : nodes[i].type = NONE}}

\* Splits and merges lose no memory, count none twice and move none from one heap
\* to another (nvkm_mm_free gives a merged node the heap of one of its parts); and
\* mm->free lists the free nodes in the order of their offsets, so that nvkm_mm_head
\* finds the lowest memory that fits, and nvkm_mm_tail the highest.
Tiling == Covered /\ FreeListExact

\* Every node that is not free belongs to exactly one memory, whatever failed
\* halfway: nothing is leaked or given out twice (ram.c:84-88, 137-140), and only
\* who holds the mutex of the fb subdev is at it.
IsUsed(n) == n.type \notin {NONE, HOLE}
Owned ==
  LET held == UNION {{m} \X DOMAIN mem[m].mn : m \in Mems}
      offset(h) == mem[h[1]].mn[h[2]]
  IN  /\ {offset(h) : h \in held} = {nodes[i].offset : i \in {i \in DOMAIN nodes : IsUsed(nodes[i])}}
      /\ \A g, h \in held : offset(g) = offset(h) => g = h
      /\ \A h \in held : nodes[At(offset(h))].type = mem[h[1]].req.type
      /\ \A m \in Mems : mutex = m <=> mem[m].st \in {"get", "put"}

\* No block holds memory of two types: on nv50, a row of banks is swizzled as a
\* whole (type 2 of memnv50.c, nv50_fb_vram_rblock).
BlockTypes ==
  \A i, j \in DOMAIN nodes :
    i < j /\ IsUsed(nodes[i]) /\ IsUsed(nodes[j]) /\ nodes[i].type # nodes[j].type
      => (End(nodes[i]) - 1) \div layout.block < nodes[j].offset \div layout.block

\* What nvkm_vram_map relies on: a memory has the size that was asked for, in
\* whole pages, each aligned; in one piece if asked to; from its heap.  While it is
\* gathered, what is left is what is missing: the loop of nvkm_ram_get ends when
\* that is 0, never below (ram.c:145).  Nor does it share a block with a memory of another type.
PageSound ==
  /\ BlockTypes
  /\ \A m \in Mems :
       LET r == mem[m].req IN
       /\ mem[m].st = "live" => Total(m) = r.size
       /\ mem[m].st = "get" => mem[m].left > 0 /\ Total(m) + mem[m].left = r.size
       /\ mem[m].st \in {"get", "live"} =>
            /\ r.min = r.size => Len(mem[m].mn) <= 1
            /\ \A j \in DOMAIN mem[m].mn :
                 LET n == nodes[At(mem[m].mn[j])]
                 IN  n.offset % r.align = 0 /\ n.length % r.align = 0 /\ r.heap \in {ANY, n.heap}

\* nvkm_mm_fini finds no more nodes than nvkm_mm_init made once everything is
\* freed, unless a kmalloc failed between the two cuts of a node.
CleanFini ==
  (\A m \in Mems : mem[m].mn = <<>>) /\ ~failed
    => Len(nodes) = Len(RamCtor(layout))
=============================================================================
