# TLA+ verification of nouveau

The repository holds nouveau, the open driver of NVIDIA GPUs for Linux, with a
shim that runs its core in user space. It has three layers. **NVKM**
(`drm/nouveau/nvkm`) owns the hardware: a tree of objects, subdevs and engines,
interrupts, memory, virtual memory, channels. **NVIF** (`drm/nouveau/nvif`) is
the client library that reaches NVKM through ioctls. The **DRM driver**
(`drm/nouveau/*.c`, `dispnv04`, `dispnv50`) is a client of NVIF and the driver
that user space sees. Below, paths are relative to `src/drm/nouveau`.

This directory models the parts in which order, concurrency and failure decide
whether the driver is right, checks them with TLC on small instances, and proves
facts about them with TLAPS for all instances.

## Inventory

| Component | State | Operations | Interacts with | What is hard | What makes it correct |
|---|---|---|---|---|---|
| NVKM events and notifies (`nvkm/core/event.c`, `notify.c`) | refs per (index, type), list of notifies; per notify USER bit, block count, work item | init, get, put, fini, send, worker | interrupt handlers send; clients get and put | lock-free USER bit against two spinlocks and a workqueue; callbacks that answer KEEP or DROP | source on exactly while wanted; no callback after fini; a kept notify is armed again; no lost payload |
| NVIF notifies (`nvif/notify.c`) | USER bit, putcnt, work item, object pointer | ctor, get, put, dtor, callback, worker | ioctls NTFY_NEW, GET, PUT, DEL; callbacks from NVKM | two layers, each with a count and an answer of its own, joined by ioctls that overtake each other | both layers agree at rest; dtor ends callbacks; calls return |
| Fences (`nouveau_fence.c`, `nv84_fence.c`) | pending list, sequence, notify_ref, `fence->channel` | emit, update, done, wait, enable_signaling, handler, kill, del | dma_fence core, channel, fence notify, GPU semaphore | thread against interrupt under `fctx->lock`; lost wakeups; deletion with fences pending | signalled only when executed or stopped; everyone is woken; nobody uses a freed channel |
| VRAM allocator (`nvkm/core/mm.c`, `nvkm/subdev/fb/ram.c`) | node list, free list | head, tail, free; ram_get, vram_dtor | instance memory, client memory | splits, merges, alignment, blocks of a type, partial failure | nothing lost, shared or misaligned; clean when all is freed |
| GPU virtual memory (`nvkm/subdev/mmu/vmm.c`, `uvmm.c`) | trees of nodes, PTE references, page tables | get, put, map, unmap, pfn_map, pfn_unmap, sparse | memory objects, svm, BAR | split and merge of parts, references through four levels, partial failure of maps | nodes tile the space; each page table lives while referenced |
| Channels (`nouveau_chan.c`, `nouveau_abi16.c`) | channel, kill notify, fence context | new, idle, kill, del | fences, FIFO, NVIF | kill notify against deletion | no use after free, idle ends |
| FIFO runlists and recovery (`nvkm/engine/fifo/gk104.c`, `gpfifogk104.c`) | runlists, recover masks, the GPU's copy of each | channel init, fini, kick; fault, scheduling timeout, recovery work | engines, channels, interrupts | lists and a register under two locks; a kick that times out; recovery twice at a time | a killed channel leaves the hardware; no engine keeps a freed instance; blocked runlists are released |
| Objects and clients (`nvkm/core/object.c`, `client.c`, `ioctl.c`, `engine.c`, `subdev.c`) | object tree, use counts, notify table | new, del, init, fini with rollback | everything | partial failure of a suspend; unlocked tables | init and fini pair up |
| Falcon queues (`nvkm/falcon/`) | ring positions, sequence table | send, receive, timeout | PMU, SEC2 firmware | wrap, full ring, late answer after a timeout | no sequence leaks or answers twice |
| Timer (`nvkm/subdev/timer/base.c`) | pending list of alarms | set, cancel, trigger | therm, clk, fan | callbacks after the lock is dropped | an alarm fires once, never after a cancel |
| Instance memory (`nvkm/subdev/instmem/nv50.c`) | BAR2 mappings, LRU, maps count | acquire, release, evict, boot | vmm, BAR | the mutex is dropped while mapping; power is lost | what is acquired is reached and not evicted; contents survive a suspend |
| Push buffers (`nouveau_dma.c`) | cur, put, free, ib_put, ib_free | wait, push, fire | GPU GET | wrap, GET outside of the ring | the GPU's unread data is not overwritten |
| usif (`nouveau_usif.c`) | notifies of user space | new, get, put, del, notify | NVIF | `enabled` against DROP | an enabled notify is delivered |
| Buffer objects and GEM (`nouveau_gem.c`, `nouveau_bo.c`) | reservation, place and fences of a buffer, the list of a call | pushbuf ioctl, moves, evictions | TTM, dma_resv, ww_mutex, fences, push buffers | clients that want each other's buffers; what was validated is moved before it is executed; two passes | calls do not stand still; the GPU finds a buffer where it was validated; one writer at a time |
| TTM, prime, svm, dmem | placement, mappings | many | TTM, HMM | protocols of the kernel outside this repository | |
| Display, gr, clk, volt, therm, bios, i2c, pmu, acr, ... | registers, tables | programming sequences | hardware, DRM helpers | little concurrency of their own | |
| `lib`, `bin` | | user-space shim, register tools | | | |

`PROJECT.json` lists every one of them with its status, and under `hazards` the
lines at which each can go wrong.

## Modules

| Module | Models | Notes |
|---|---|---|
| `NvkmNotify` | `nvkm/core/event.c`, `notify.c` | one action per critical section or bit operation |
| `NvifNotify` (extends `NvkmNotify`) | `nvif/notify.c`, the ioctls `nvkm_ioctl_ntfy_*`, `nvkm_client_notify*`, `nvkm_client_ntfy` | |
| `NouveauFence` (extends `NvifNotify`) | `nouveau_fence.c`, `nv84_fence.c`, kill and delete of `nouveau_chan.c`, the non-stall interrupt of `gk104.c`, `nvkm_fifo_uevent` | |
| `FenceTimeline` | abstract: what the fences of a channel promise | refined by `NouveauFence` |
| `NvkmRunlist` | `nvkm/engine/fifo/gk104.c`, `gpfifogk104.c`: runlists, kicks, recovery | |
| `NvkmMm` | `nvkm/core/mm.c`, `nvkm_ram_get`, `nvkm_vram_dtor` | one action per call of `mm.c` |
| `Nv50Instmem` | `nvkm/subdev/instmem/nv50.c`, `base.c`, the switch of BAR2 | one action per section of `subdev->mutex` |
| `NvkmVmm` | `nvkm/subdev/mmu/vmm.c` (nodes), `uvmm.c` | one action per call, or per turn of the calls that loop |
| `NvkmPt` | `nvkm/subdev/mmu/vmm.c` (tables), `vmmgm200.c` | one action per walk |
| `FalconQueue` | `nvkm/falcon/cmdq.c`, `msgq.c`, `qmgr.c`, as the PMU of gm20b uses them | |
| `FalconChannel` | abstract: a FIFO of commands that a reset empties | refined by `FalconQueue` |
| `NvkmTimer` | `nvkm/subdev/timer/base.c`, `nv04.c`; `nvkm_therm_update`, `fan.c` as clients | |
| `NouveauDma` | `nouveau_dma.c`, the windows of `nouveau_chan.c`, submissions of `nouveau_gem.c` | |
| `NvkmObject` | `nvkm/core/object.c`, `ioctl.c`, `engine.c`, `device/user.c`, `fifo/chan.c` | one action per call |
| `NouveauGem` | `nouveau_gem_ioctl_pushbuf`, the moves of `nouveau_bo.c`, `nouveau_fence_sync` | one action per buffer and phase of the call |
| `MC...` | the instances for TLC | |
| `NvifNotifyProofs` | theorems about `NvkmNotify` and `NvifNotify`, and that the second drives the first as it may | |
| `NouveauFenceProofs` (extends `NvifNotifyProofs`) | theorems about `NouveauFence`, and the refinement of `FenceTimeline` | |
| `MemoryProofs` | theorems about `NvkmMm`, and about `Nv50Instmem` | two systems that share nothing, as in `MCSubdevs` |
| `NvkmVmmProofs` | theorems about `NvkmVmm` | |
| `TimerDmaProofs` | theorems about `NvkmTimer`, and about `NouveauDma` | two systems that share nothing, as in `MCTimerDma` |
| `NvkmRunlistProofs` | theorems about `NvkmRunlist` | |
| `FalconQueueProofs` | theorems about `FalconQueue`, and the refinement of `FalconChannel` | |
| `NouveauGemProofs` | theorems about `NouveauGem` | |

`NvifNotify` and `NouveauFence` reuse the actions of the layer below and add
conjuncts for their own variables: a step of NVIF that enters an ioctl *is* a step
of NVKM. The others stand alone; where they share an instance (`MCFifo`,
`MCSubdevs`, `MCTimerDma`, `MCNvkmCore`, `MCIoctl`) the variable `part` picks at the start which
of them a behaviour is of, and the rest stay in their initial state. Nothing is said
there of their interaction: it only saves runs. `MCNvifFence` likewise picks between the
fences and the one notify that is constructed.

### NvkmNotify

A notify is `live` (registered), has its USER bit `flag` and its `block` count;
`refs` and `hw` are the counter and the state of the source of each slot.
`refs_lock` sections are short and make no call, so each is one step:
`GetLocked`, `PutLocked` within `UserGetLocked`, `UserPutLocked`, `SendBlock`,
`SendRearm`, `WorkRearm`. `list_lock` is held over a whole `nvkm_event_send`,
callbacks included, and is therefore explicit: it is held iff
`send.pc # "idle"`, and `UserListDel` and `NotifyInit` wait for it.
`test_and_set_bit` and `test_and_clear_bit` on USER are steps of their own
(`NotifyGet`, `NotifyPut`, `SendClear`, `WorkClear`), because the code does them
without a lock; every interleaving between them and the lock sections is a
behaviour. A callback (`SendFunc`, `WorkFunc`) answers KEEP or DROP freely. The
work item of a deferred notify is pending, running, or both, as `schedule_work`
allows; `UserFlush` waits for what is pending or running when it is called.

`Serialized` says whether the callers ever operate on one notify at the same
time. The code has no lock for it, and some properties need it: the run `NvkmCore`
has it on, the runs of NVIF and of the fences, which extend this module, off; the
proofs treat both. Two restrictions hold in both cases: nobody calls get or put of a notify
during its fini or init (its memory would be gone), and memory is reused only when
nothing refers to it.

### NvifNotify

For each notify, NVIF keeps a second USER bit (`nflag`) and `putcnt`.
`call[t]` is where thread `t` is in `nvif/notify.c`, `user[t]` where it is below,
in NVKM. `cb` is where the delivering thread is in `nvif_notify`. For NVKM, every
nvif notify is a direct one (`nvkm_client_notify_new` passes `work = false`); a
*deferred* nvif notify queues its own work item, and answers DROP
(`CbQueue`, `nvif/notify.c:130-134`). Its worker is a thread of its own.

### NouveauFence

`fctx->lock` is the variable `lock`, since threads call `nvif_notify_get` and
`_put` with it held; `thr[t]` is the place of a thread in `nouveau_fence.c`. A
fence is emitted into `gpuOps` as two things the GPU will execute: the semaphore
release of its sequence, then the interrupt. The interrupt is latched, then
acknowledged (`IrqAck`), and only then sent as an event (`IrqSend`), in the order
of `gk104.c:851-855`. `Handler` is `nouveau_fence_wait_uevent_handler`, the
callback of the fence notify. `IsSignaled` is the lock-free
`nouveau_fence_is_signaled`, by which the dma_fence core signals a fence that stays on
the pending list. The dma_fence core, the GPU and the exclusion that the channel's
owner provides (`cli->mutex`) are outside the repository or below it, and marked
external in the map.

`FenceTimeline` is the promise: a fence is signalled only after the channel has
executed up to it or has been stopped, and stays signalled. The refinement mapping
takes `reached` from what is left in `gpuOps`.

### NvkmRunlist

`runlist` and `hwlist` are the driver's list and what the hardware was last given;
`usable` and `bound` the registers 0x800004 and 0x800000 of each channel, `blocked` is
0x002630, `on` and `stuck` are the engines. The subdev's mutex (`holder`) is held over a walk of
`gk104_fifo_runlist_update`, which is one step per element: recovery changes the list
under `fifo->base.lock` instead. A section under that spinlock is `sect`, with the stack
of calls it has still to make (`gk104_fifo_recover_chan` and `_engn` call each other). An
`nvkm_mask` of 0x002630 is a read and a write. `owner[c]` is the thread that initialises and
finishes channel `c`; its kick waits under the mutex while an engine with the channel is
stuck, until the engine is reset or the wait times out, which recovers the channel. A
channel that is unbound has an instance that its destructor frees as soon as it gets the
spinlock, so `UnboundReset` speaks of states in which nobody has it.

### NvkmMm

`nodes` is `mm->nodes` in order, `free` the offsets on `mm->free` in order. Both
lists are modelled, as `mm.c` maintains them by separate pointer operations and
`nvkm_mm_head` depends on the order of the second. `Window`, `HeadTake` and
`TailTake` are the arithmetic of `nvkm_mm_head` and `_tail`. `Split` puts up to three
parts in the place of a free node: what is before the memory, the memory, and what is
behind it. If the second of the kmallocs fails, the cut made by the first stays
(`MmAllocFails`): at the start in `_head`, at the end in `_tail`. `RamCtor` is what the
constructors of VRAM make of a `layout`: one region, or for mixed memory
(`fb/ramgf100.c:536`) two with a hole between them. `nvkm_ram_get` is a loop of `RamNode` under
the fb mutex; a failure drops the mutex and destroys the half-built memory
(`RamNodeFails`, `DtorStart`, ...). `Requests` are the calls the code makes: from
the back, contiguous and from any heap for instance memory
(`instmem/nv50.c:368`), from the front and from one heap for clients
(`mmu/memnv50.c:86`, `mmu/memgf100.c:92`).

### Nv50Instmem

`maps`, `bar`, `lru`, `evictable`, `ptrs` are the fields of an object. The kmap of an
acquire drops the mutex to get address space (`GetSlot`), evict others (`Evict`) and map
(`MapSlot`), and then looks whether another thread was faster (`KmapEnd`). An access goes
by the pointers the object has *when it is made*, through the BAR2 page table `pte` or
through the window of BAR0 (`win`, and its cached copy `addr`). `Pt`, the page
table of BAR2, is itself an object: what it holds is saved and lost like the others.
Suspend and resume are a thread, `Pm`, a step per object, in the order of `base.c`; between
them the power may be off, and everything not saved is lost.

### NvkmVmm

`nodes` is `vmm->list`, the trees are the used and the free ones of it. Page tables are reduced
to what each page maps to (`pte`) and to references for each page size (`ptrefs`, `sprefs`).
`nvkm_vmm_put_locked` and `nvkm_vmm_pfn_map` loop over nodes that they split and merge as
they go: they are an action per turn (`vmmop`), so that a loop that does not end is a
behaviour that does not end. `VmmMapFails` is all that follows a map that fails: the region is
split off, `nvkm_vmm_ptes_get_map` takes back the entries it has set, as if the region were
not sparse, `nvkm_vmm_unmap_region` drops the memory and merges. If the region was mapped
before, its entries stay as they were; whether that can happen in a space is
`remaps` of its setup. `torn` are the pages of which the tables are known not to agree with the
nodes: those that `nvkm_vmm_pfn_map` could not map, and the sparse ones whose entries were taken
back. `MCSetups` are address spaces managed by NVKM or by the
client, or by both around NVKM's own area, with and without parts, lazy, sparse and fully backed
allocations, Tesla's `page_block`, two that are short of page tables, and one with
failing re-maps.

### NvkmPt

What `NvkmVmm` counts, `NvkmPt` builds: the directory, the dual tables with their large (L)
and small (S) halves, in the driver's memory (`pte[]`: the flags SPARSE and VALID and the
count of SPTEs, in one byte, arithmetic modulo its width) and as the MMU sees them (`hw`).
A walk takes the tables it needs, and may fail in the middle and undo itself. `SeenExact`
evaluates the tables as the MMU does, and compares with what is mapped (`maps`, `allocated`).
The count is six bits wide in the code. Here its limit is a constant of the setup:
3 is enough for the regions of `FifoSafety`.

### FalconQueue

The rings are words with a header at the start of each command; a word that was read is
forgotten, so what the firmware takes is whole or it is not a command. Senders
(`CallStart` .. `TimesOut`) and the worker take a sequence, write, and wait; the worker is
scheduled by the interrupt (`FalconSchedule`, `FalconAck`) and parses the init message first. The
firmware is external: it takes commands in order, answers in any order or never.
`Restart` is the reset of a PMU nobody uses. `FalconAssumption` asks that two commands of
a sender fit in the ring: an empty ring has room for more than half of itself only where
the positions happen to be. The refinement maps `up <- ready`,
`queued <- Queued` (what lies between tail and head, over a rewind, read off the ring by
`QueuedFrom`) and `executing <- fw`.

### NvkmTimer

Time is relative: `ahead` of an alarm, `match` of the comparator, which compares equality modulo
`Wrap`. A setter, a changer of modes (`nvkm_therm_fan_mode`) and one of the cstate
(`nvkm_therm_cstate`, which sets it without `therm->lock`) call `nvkm_timer_alarm` under `tmrlock`, the interrupt takes due alarms off and runs them after
it has dropped the lock. `missed` says that the comparator was set to a time that had
passed, which the code warns of, and from which only the wrap recovers.

### NouveauDma

`cur`, `put`, `free`, `ibPut`, `ibFree` are the driver's window. A call is `drv`: the wait for
IB entries, the wait for words with its cases for GET behind, ahead and outside,
the turn at the end of the ring, the push. The GPU fetches entries and words, or hangs. `DmaAssumption` is the
proportion of ring and IB on which the code relies without saying so (see below).

### NvkmObject

`tree` is the object tree, `nv` what init and fini change: states of objects, the count of udevices,
subdevs, users of engines, contexts of channels. A call is an operator that returns the
new `nv` and whether it succeeded, and undoes what it did as `object.c` does;
`paired` remembers whether every init and fini met an object in the state it expects.
`power` is on, suspended, or lost when a resume has failed. The restarts of a
rollback succeed (`InitAll`); in the code they can fail ("failed to restart",
`object.c:210-214`; "failed restart", `device/base.c:2801-2803`), which is logged.

### NouveauGem

`push[t]` is the call of client `t`: its place in `nouveau_gem_ioctl_pushbuf`, the buffers it
has reserved (`got`), where the client presumes them and what its commands were built for
(`presumed`, `cmds`). `bos` is the holder of each reservation, the place and the fences of each
buffer; `ring` is what each channel has still to execute, the kernel's with the copies of moves
included; a fence is a channel and how many of its fences come before. `tickets` are the acquire
contexts by age, by which ww_mutex lets the younger back off. On `"tesla"` and later the commands are
in the IB when the fence is emitted; on `"older"` GPUs they are relocated, and
reach the GPU with their fence. Evictions are those of TTM: any buffer that nobody has reserved.
`NoVma` is the error of `validate_init` for a client that has no mapping of the buffer
it has just reserved: the reservation is on no list, and stays for good (`Lost`). Who waits for
it waits until a signal (`Interrupted`). The other such path, giving up after
100000 tries with the contended buffer reserved, is left out: `NoStandstill` shows that `tries`
stays within `TryLimit`.
Abstracted: a fence is signalled when the GPU has executed it, that of a move can
be emitted, memory is not reused before the fences of what was in it have signalled (TTM waits for
them), and `chan->killed` is clear.

## Runs

| Run | Expect | Instance | Question |
|---|---|---|---|
| `NvifFence` | pass | one direct notify of 2 concurrent threads, or one deferred notify of 2 threads in turn and its worker; or 1 fence, 2 threads | both layers' counts; end of callbacks; flush and worker never wait for each other; emit, delete and poll end |
| `FifoSafety` | pass | 2 fences, 2 threads, GPU, interrupt; or a runlist, 2 channels, 1 or 2 engines, 3 or 2 events; or 6 sets of page tables | order and accounting of fences, refinement of `FenceTimeline`; a killed channel leaves the hardware; what the MMU sees is what is mapped, by tables that are counted |
| `FenceLostWakeup` | violation | 2 fences, 1 thread | is an enabled fence signalled eventually? |
| `FenceStaleChannel` | violation | 2 fences, 1 thread | does a fence outlive its channel pointer? |
| `RunlistBlocked` | violation | 2 runlists with an engine each, 3 events | is a runlist released when recovery is over? |
| `Subdevs` | pass | 3 memories in nv50's and gf100's VRAM; or 2 objects, BAR2's page table, 2 slots, 2 users; or 2 senders, a worker and the firmware over a ring of 7 words | the allocator's invariants; mappings, eviction, suspend; sequences, and refinement of `FalconChannel` |
| `TimerDma` | pass | 2 alarms, a setter and a changer of modes, or 2 that change mode and cstate, a comparator of width 3; or a push buffer of 7 words and an IB of 4 entries | alarms in time, only while wanted, and as mode and cstate say; nothing unfetched overwritten; waits end; no deadlock |
| `NvkmCore` | pass | a direct and a deferred notify on a shared type, 2 users who take turns; or 9 address spaces | references and block counts exact; no callback after fini; no payload lost; re-armed; calls return; nodes and entries agree; loops end |
| `VmmPfnFail` | violation | a space of the client's that runs short of page tables | is what is tracked as mapped refcounted? |
| `VmmRemapFail` | violation | a space of two pages with failing re-maps | is what the page tables reach mapped, and the memory of a region? |
| `Ioctl` | pass | 7 objects on 3 subdevs; or 2 clients, 2 buffers, room for one in VRAM, on both families of GPUs | is undone what init did; does the GPU find buffers where they were validated, with one writer at a time, and do calls end up waiting for each other, unless a reservation was lost? |
| `GemRelocs` | violation | the submissions of `Ioctl` on the older family, nobody without a mapping | are the relocations applied that are required? |

**Bounds.** *Notifies*: one direct and one deferred, sharing one of
two types, so that a slot has 0, 1 and 2 references; the queue then has a
delivery to a notify while another is deleted. *Threads*: two, which is what
every race here needs beside the sender and the worker. `MaxPut` stops events
only when concurrent callers have let `putcnt` run away; the deliveries up to it
are unrestricted. *Fences*: `MaxSeq` is 2 where order among fences matters, 1 for
liveness; sequences are counted modulo 4 from 2 or 3, so they wrap. *Runlists*: two channels,
of which one stays, so that one is killed while the other is listed; two events on two
engines of one runlist, or three on one engine (`MCFifo`), allow an init, a hang or fault, and a
second one during the recovery of the first. *Memories*: three, so that one is freed between two others and
between two free nodes; sizes 1 and 3 with alignments 1 and 2 give exact fits,
remainders, and gatherings of several nodes; nv50's layout has two blocks and two
types, gf100's two heaps and a hole. They are interchangeable, which is the symmetry
that run uses, with no liveness in it. *Instance memory*: three objects for two slots,
so that a mapping evicts another. *Falcon*: commands of 2 and 3 words in a ring of 7 wrap
at every position; two sequences for three senders run out. *Alarms*: delays longer and
shorter than the wrap of the comparator; two threads that change the mode, where one may change the
cstate as well and nobody sets the one-shot alarm. *Push buffers*: commands of 2 and 3 words in 7, so the
ring turns with GET behind, ahead and outside. *Address spaces*: pages of 2 and 1, at most
five pages: a node with a neighbour on either side, and parts of each. Re-maps fail in one of
them only, as `PtesExact` says nothing there and `SpaceSound` and `VmmReturns` are what it is for; PFNs are
mapped where the client manages the space only, as `nouveau_svm.c` does. *Page tables*: two
directory entries of two large pages of two small ones, regions that share both; no set has a
directory entry that is sparse as a whole and mapped at both page sizes, which
`SeenExact` exempts. *Objects*: a
channel with two children, two clients, two udevices; two failures, so that a suspend fails and the
resume after it, or two suspends. That a restart in a rollback fails is not modelled.
*GEM*: two clients that name two buffers in opposite orders, one of the two in need of VRAM that
holds one, and any client may lack its mapping of one of them; a client begins a call when its ring is empty (`MaxQueued`), while the other's and the
kernel's are not; on Tesla and later a behaviour has two of the three requests, any two
(`absent` in `MCIoctl`), which is what two clients can want of each other. The limit of tries is 4 for 100000: two clients need fewer.

**Deadlock** is checked in `TimerDma`. The systems of the other runs may come to rest, when
nobody calls and no event happens or the bound on events is reached. That nobody is stuck is what the
liveness properties say (`CallReturns`, `NvifCallReturns`, `OpsReturn`, `VmmReturns`) and `NoStandstill` says of GEM, of every state in
which nobody can go on by itself.

**Fairness.** Critical sections end, callbacks return, the workqueue runs its
items, the GPU executes, an interrupt that is latched is served: weak fairness of
each thread's own steps, of the sender, the worker, the GPU and the interrupt. A
queued spinlock (`list_lock`, `fctx->lock`, `tmr->lock`) is granted in turn, so whoever waits
gets it although others take it again and again: strong fairness of the steps that
take one. Time passes. The turns of a loop under `vmm->mutex` follow each other. A GPU that
fetches goes on while it does not hang, and a wait on one that makes no progress times out
(`WaitFails`). Nothing obliges anybody to call an operation, an event to happen, or a
callback to answer one way rather than the other. `FifoSafety`, `Subdevs` and `Ioctl` need no
fairness. No liveness is stated of runlists: a walk that recovery has made endless (below) ends nothing.

**Mutations.** Every property of a passing run is violated by a mutation of
a definition, an operator beside the one it mutates:

| Mutation | Of | What it gets wrong | Breaks |
|---|---|---|---|
| `UserListDelBug` | `NvkmNotify!UserListDel` | deletes without `list_lock` | `TypeOK`, `NoCallbackAfterFini` |
| `PutLockedBug` | `NvkmNotify!PutLocked` | `++block` for `block++` | `RefsExact` |
| `SendClearBug` | `NvkmNotify!SendClear` | DROP takes a notify its user has put for one it drops itself | `BlockAccounts` |
| `SendBlockBug` | `NvkmNotify!SendBlock` | a delivery does not block its notify | `PayloadStable` |
| `SendFuncBug` | `NvkmNotify!SendFunc` | KEEP without re-arming | `Rearmed` |
| `SendEndBug` | `NvkmNotify!SendEnd` | `list_lock` not released | `CallReturns`, `NvifCallReturns` |
| `CbIncBug` | `NvifNotify!CbInc` | `putcnt` not raised for a callback | `PutcntAccounts` |
| `DelIoctlBug` | `NvifNotify!DelIoctl` | `NTFY_PUT` in the place of `NTFY_DEL` | `NoCallbackAfterDtor` |
| `WaitTooLateBug` | `NouveauFence!WaitTooLate` | `notify_ref` not lowered again | `NotifyRefExact` |
| `DelKillBug` | `NouveauFence!DelKill` | deletion signals only what the GPU has completed | `PendingSound` |
| `CompletedEarlyBug` | `NouveauFence!Completed` | sequences compared as unsigned numbers | `TimelineRefined` |
| `DelUnlockBug` | `NouveauFence!DelUnlock` | `nvif_notify_dtor` with the lock held | `OpsReturn` |
| `CompletedLateBug` | `NouveauFence!Completed` | off by one | `PollReturns` |
| `IsFreeBug` | `NvkmMm!IsFree` | merges with a hole | `Tiling` |
| `DtorNodeBug` | `NvkmMm!DtorNode` | frees the first node only | `Owned` |
| `HeadTakeBug` | `NvkmMm!HeadTake` | does not align the start | `PageSound` |
| `MmFreeBug` | `NvkmMm!MmFree` | no merge with the node before | `CleanFini` |
| `FiniBug` | `Nv50Instmem!Fini` | `nv50_instmem_fini` does not forget the address of the window | `AccessHits` |
| `KmapEndBug` | `Nv50Instmem!KmapEnd` | that another thread mapped the object meanwhile is not seen | `SlotsAccounted` |
| `ResumeBug` | `Nv50Instmem!Resume` | BAR2 comes up before its page table is loaded | `ContentsRestored` |
| `ReleaseBug` | `Nv50Instmem!Release` | an object excluded from eviction is put on the LRU | `PinnedStays` |
| `TimesOutBug` | `FalconQueue!TimesOut` | the timeout releases the sequence | `SeqMatched` |
| `HasRoomFull` | `FalconQueue!HasRoom` | a full ring looks empty | `ChannelRefined` |
| `WorkTakeBug` | `NvkmRunlist!WorkTake` | the worker does not clear the mask it took | `ChannelRetired` |
| `IrqAgainBug` | `NvkmTimer!IrqAgain` | the comparator just set is not checked against the time again | `AlarmsSound` |
| `SetCstateBug` | `NvkmTimer!SetCstate` | a new cstate does not lead to an update | `AlarmsSound` |
| `AlarmInitBug` | `NvkmTimer!AlarmInit` | a comparator switched off is not switched on again | `AlarmExpires` |
| `AheadBug` | `NouveauDma!Ahead` | room for the word GET stands on | `RingIntact` |
| `NeedsBug` | `NouveauDma!Needs` | one IB entry too few asked for | `IbIntact` |
| `GemBug` | `NouveauDma!Gem` | no room asked for the fence | `WaitEnds` |
| `PfnSplitMergeBug` | `NvkmVmm!PfnSplitMerge` | the node after is not merged | `SpaceSound` |
| `PfnMapStepBug` | `NvkmVmm!PfnMapStep` | `mapped` read after it was set | `PtesExact` |
| `UnmapRegionBug` | `NvkmVmm!UnmapRegion` | no merge with the part before | `VmmReturns` |
| `UnrefSptesBug` | `NvkmPt!UnrefSptes` | LPTEs are not given back when their last SPTE goes | `SeenExact` |
| `RefPtesBug` | `NvkmPt!RefPtes` | SPTEs not counted while there is no L half | `TablesExact` |
| `ChildFiniBug` | `NvkmObject!ChildFini` | the use of the engine is given up only if it detaches | `ObjectsExact` |
| `DeviceFiniBug` | `NvkmObject!DeviceFini` | those below the subdev that refused stay down | `CallsUndone` |
| `NeededExclBug` | `NouveauGem!Needed` | a writer waits for the last writer only, not for readers | `GpuCoherent` |
| `BackOffBug` | `NouveauGem!BackOff` | the reservations are kept when backing off | `NoStandstill` |

A type invariant is a conjunct of another property: `NvifTypeOK` of `PutcntAccounts`,
`FenceTypeOK` of `NotifyRefExact`, `FalconTypeOK` of `SeqMatched`; `BlockTypes` is one of
`PageSound`, `Covered` and `FreeListExact` are `Tiling`. `AlarmsSound` is `OnTime` and `PollByMode`,
`SpaceSound` is `NodesCanonical` and `BlocksUniform`, `GpuCoherent` is `Stays` and `Ordered`.

## What the checks show

References to events are exact under every interleaving, concurrent callers
included, and no callback follows `nvkm_notify_fini`. A deferred notify whose
callers are not serialised may keep a block for ever, because `schedule_work`
merges two deliveries; the properties state the count as a lower bound there, and
exactly elsewhere. Fences keep their order, also when the sequence wraps. The allocator loses
and shares nothing. Instance memory is reached through whatever means are up, and what
is suspended is restored. The command queue of a falcon is a FIFO, and no answer reaches another
command than its own, because a timeout leaks its sequence. Alarms are in time, and polling
follows the mode. Nodes, entries and page tables of an address space agree, unless a region that is mapped
fails to be mapped again, or a sparse directory entry is mapped at both page sizes (below). A
suspend that fails half-way is undone, if what is to be restarted does. A killed channel stays on the list of the hardware only as
long as the worker has still to give it another. Clients that want each other's buffers do not stand still, unless a
reservation was lost, and the GPU finds a buffer where it was validated.

Six statements of the code's comments fail, each in a run of its own:

1. `FenceLostWakeup`: a waiter can enable a fence between the handler's decision
   to drop the notify and the drop, and is then not woken by any interrupt. The cause
   is that NVIF and NVKM each keep a USER bit, and between a callback's answer and
   NVKM's use of it the two disagree. The deferred hotplug notify has the same window.
2. `FenceStaleChannel`: `nouveau_fence_no_signaling` takes a completed fence off
   the list without clearing `fence->channel`.
3. `VmmPfnFail`: a region for which `nvkm_vmm_ptes_get_map` could not get page tables
   has already been marked as mapped (`vmm.c:1296`).
4. `GemRelocs`: `do_reloc` is overwritten by the second validation, so that the
   relocations are never applied (`nouveau_gem.c:573`).
5. `RunlistBlocked`: the interrupt and the recovery work change 0x002630 by read-modify-write
   under different locks; a runlist stays blocked when all recovery is over.
6. `VmmRemapFail`: `nvkm_uvmm_mthd_map` lets a region that is mapped be mapped again, and unmaps
   it when that fails, but not in the page tables (`uvmm.c:214-223`, `vmm.c:1338-1340`): they still
   reach memory to which the region holds no reference any more. The driver maps again
   in `nouveau_bo_move_ntfy` (`nouveau_bo.c:954`), and looks at no result.

While modelling, the following was found as well, and is behaviour of the models without a
run of its own:

- `NvkmRunlist`: a walk of a runlist that stands on the channel the interrupt takes off
  (`list_del_init`) never leaves it, with the subdev's mutex held (`Lost`). A recovery that
  comes during another one is unblocked early, by the mask of the first (`gk104.c:304`). A channel killed during its
  init is enabled once more after it (`gpfifogk104.c:217`); with two engines, one may then run a
  channel whose instance is gone, which `UnboundReset` exempts. A kick that times out in
  `gk104_fifo_gpfifo_fini` recovers nothing, as the channel was disabled just before
  (`gk104.c:368`): the engine waits for a scheduling timeout.
- `NvkmPt`, `NvkmVmm`: `nvkm_vmm_ptes_get_map` undoes itself with `sparse` false (`vmm.c:699`), so that
  entries of a sparse region end up invalid. `SeenExact` exempts spaces in which a mapping may run out of
  tables, `PtesExact` the pages concerned. In a directory entry that is sparse
  as a whole, an L table made while there are SPTEs marks its entries VALID without SPARSE (`vmm.c:460-465`); when the
  SPTEs go, `nvkm_vmm_unref_sptes` makes them invalid (`vmm.c:242-253`), and a page of a sparse region faults.
  `SeenExact` exempts these entries where both page sizes are mapped (`SparseForgotten`). After the put of a sparse region, S entries
  under a released L entry may stay sparse; `SeenExact` tells sparse from unmapped only inside regions.
  The count of SPTEs of a large page (`vmm.c:310`) has six bits, while two sparse regions under one
  page that are both mapped take two references to each of 32 entries: with a count that is
  as wide as the entries are many, `SptesTracked` fails.
- `NouveauGem`: `validate_init` breaks off with a buffer reserved and on no list when the client has no
  mapping of it (`nouveau_gem.c:446-451`, `NoVma`). Whoever wants that buffer, or needs its place,
  then waits for good: `NoStandstill` exempts what follows (`NobodyLost`). The
  path that gives up (394) would leave the contended buffer so; it is not modelled. `nouveau_bo_move_prep` returns 0 on its errors. Commands in the IB whose fence could not be
  emitted stay there, tracked by nothing (855).
- `NvkmObject`: an object whose init failed gets a fini besides (`ioctl.c:138`), so that
  counts are off by one from then on (`user.c:304`). `ObjectsExact` and `CallsUndone` state the counts up to such calls (`paired`).
- `NvkmVmm`: `nvkm_uvmm_mthd_map` drops the mutex with a part marked busy (`uvmm.c:212`), and an unmap of its neighbour
  may merge it. The model takes the call as one step.
- `NouveauDma`: with a ring of 7, an IB of 5 and 3 words a submission, `RingIntact` fails:
  GET outside of the ring at a turn is taken for a GET that has left 0 (`nouveau_dma.c:157`). The
  proportion of the sizes the driver uses makes that unreachable.

## Proofs

`NvifNotifyProofs` proves of `NvkmNotify`, for every set of
notifies, users, indices and types, from `NotifyAssumption` alone (finite sets, and
each notify with an index and types of the event):

- `TypeCorrect`: `Spec => []TypeOK`. `TypeOK` is inductive. It is more than types:
  the walk of `nvkm_event_send` has a position on a list to which others append
  and from which they delete, and stays on it because they hold `list_lock`
  (`send.pc = "idle"` in `NotifyInit` and `UserListDel`).
- `NoCallback`: `Spec => []NoCallbackAfterFini`. The strengthening is
  `Listed`: the live notifies are those on the list, each once. It says nothing of
  the sender: `TypeOK` already keeps a busy sender on the list, and the deletion of
  a fini takes exactly its own entry because no notify has two. `RemoveAtEntries`
  says what deleting an element does to a sequence.

- `Blocks`: `Spec => []BlockAccounts`. `Surplus(n)` is by how much the block of a notify
  exceeds the reasons for it. `SurplusStep` shows that every step keeps it, but for
  `NotifyInit`, which makes it 0, and a delivery merged into a pending one, which adds
  1. So it never falls below 0 (`Balanced`). That it stays 0 for a deferred notify of
  serialised callers needs `Fresh` (such a delivery finds an idle work item), and
  that `Exclusive`: an operation is of a live notify, a fini has its notify to
  itself, and after the put of a fini or of serialised callers nobody sets USER.
- `References`: `Spec => []RefsExact`. A section under `refs_lock` moves at most one
  notify in or out of the armed ones, and the references with it (`LockedRefs`). The
  one other step that writes `block` is the reset in `NotifyInit`: it loses no reference
  because a dead notify is blocked (`Retired`), which a fini leaves behind because
  USER is clear and nobody's put is under way, so `Account(n) >= 1`.
- `Payload`: if the callers are serialised, `Spec => []PayloadStable`, from `Fresh`.

`CountChange` counts a set that gains or loses one element; the rest is one lemma
or step per action. `TypeParts` and `Kept` split `TypeOK` so that an action is only
asked about what it changes.

It proves of `NvifNotify`, for every set of threads and of direct and
deferred notifies, from `NvifAssumption` (NVKM's notifies are all direct and its
callers not serialised, as NVIF has it; `MaxPut` bounds `putcnt`):

- `NvifDrivesNvkm`: `NvifSpec => Spec`. A step of NVIF is a step of NVKM or none. This is
  not by the shape of the model: NVKM may only be called as `MayCall` says, with nobody else in
  the notify during its fini, and NVIF's actions do not carry that guard.
  `NvkmBelowNvif` concludes that `NoCallbackAfterFini`, `BlockAccounts` and
  `RefsExact` hold below NVIF.
- `PutcntCorrect`: `NvifSpec => []PutcntAccounts`, and `NoCallbackAfter`:
  `NvifSpec => []NoCallbackAfterDtor`.

The invariant `NvifInv` says who can be where: `Below` relates what a thread does in NVKM to
the call it is in; `Alone` and `Lives` that a destructor has its notify to itself, the
threads at least. Its worker it does not exclude: `Rearming` says that a worker is in
the re-arming ioctl only while `nflag` is set or a put has yet to flush it, and the destructor has
flushed when it comes to the deletion. Without it the step `DelIoctl` could not be shown to
be one NVKM allows.

`NouveauFenceProofs` proves of `NouveauFence`, for any number of threads and fences, from
`FenceAssumption` (the notify of the fences is a direct one that asks for some event; the
numbers of the fences that exist at a time fit half of the width of the counter):

- `FencesDriveNvif`: `FenceSpec => NvifSpec`. The fences call NVIF for one notify, under
  `fctx->lock`, but for the destructor, which comes when the context is dead (`FenceCalls`,
  `Buried`). `NotifyBelowFences` carries what is proved of NVIF and NVKM over.
- `NotifyRefCorrect`: `FenceSpec => []NotifyRefExact`: `notify_ref` counts the pending
  fences a waiter has enabled, and the one being enabled (`Checking`), whose reference is
  taken and whose bit is not set yet; that it is among the pending ones and not yet a user's
  (`Doing`) is what keeps the count when its bit is set or it is given up.
- `PendingCorrect`: `FenceSpec => []PendingSound`.
- `TimelineHolds`: `FenceSpec => TimelineRefined`, the refinement of `FenceTimeline`. A fence is
  signalled when its number compares as passed with what the semaphore holds, in
  wrapping arithmetic. `Executed` says the semaphore holds the number of some fence all of
  whose successors only are left to do, `Ops` that the channel will reach fences in the order
  of their numbers, and `Signalling` keeps that for the fence a waiter has found passed and has not
  signalled yet.

Before their proofs, TLC found `NvifInv` and `FenceInv` to hold on the instances of `NvifFence` and
`FifoSafety`; no run repeats that.

`MemoryProofs` proves of `Nv50Instmem`, for any objects, size of BAR2 and finite set of
users, from `InstAssumption`:

- `InstCorrect`: `InstSpec => []InstInv`. `SlotsOwned` says that a slot is free,
  of one object or of one thread that has allocated it and not said for whom; `Held` counts the holders
  of each object; `Lru` says what is on `imem->lru`: the objects that have a
  slot, are evictable and are held by nobody, each once; `Tables` that the page table of BAR2 is
  right unless the contents of the memory it lies in are lost, when the saved copy is;
  `Progress` how far suspend and resume are, and that the objects needed for the
  mapping itself come back first.
- `Hits`: `InstSpec => []AccessHits`; `Restored`: `[]ContentsRestored`; `SlotsSafe`:
  `[]SlotsAccounted`; `Pinned`: `InstSpec => PinnedStays`, an action property. All four follow from `InstInv`,
  `Pinned` because what is evicted is taken from the list.

TLC found `InstInv` to hold on the instance of `Subdevs` first.

`TimerDmaProofs` proves of `NouveauDma`, for every size of ring, IB and commands that
`DmaAssumption` admits:

- `DmaInvariant`: `DmaSpec => []DmaInv`. What `RingIntact` needs is an order:
  `WindowInv` says that the words of every unfetched entry are outside the driver's window
  `cur .. cur + free - 1` (`Clear`), and that entries lie in the ring in the order they
  will be fetched, counted from the window on (`Before`), so that what the driver
  reads as GET bounds all of them. `IbInv` relates `ibPut`, `ibGet` and the number of entries, and
  lets `ibFree` be one too high, as it is when GET is ahead. `TurnInv` is what is known
  while the driver waits to turn. `FreshInv` is for a GPU that has fetched nothing yet, where GET
  is 0 as it would be after a turn: that the driver has then not come to the end of the ring is
  where the proportion `(IbMax - 2) * GemWords <= DmaMax` enters (`TurnStart`).
- `RingSafe`: `DmaSpec => []RingIntact`, and `IbSafe`: `DmaSpec => []IbIntact`, from it.

There is one lemma per action, and one for each group of conjuncts it disturbs.

`FalconQueueProofs` proves of `FalconQueue`, for any callers, sizes of ring, commands and
messages, and number of sequences, from `FalconAssumption` (a command is less than
half of the ring, an answer smaller than the init message) and `NothingAssumption`
(`Nothing` is none of the values it stands beside):

- `FalconCorrect`: `FalconSpec => []FalconInv`. `Laid` says that the commands of
  `Queued` stand whole at `P[0]`, `P[1]`, ... (`Path`), from where the reader is to head, none of them
  in what is free, and that the one REWIND stands behind the commands of the
  first lap if the ring has wrapped, and otherwise only where the holder of the lock has just
  put it (`Rewinds`). `Holders` says that the holder writes to what is free
  (`Reserved`) and that what it has written stays until it closes. `Messages` says what is
  unread in the message queue; `Announced` and `Roles` who can be where.
- `SeqMatchedHolds`: `FalconSpec => []SeqMatched`. `SeqMatched` is not inductive: that an
  answer wakes its own sender needs that a command is in one place only (`Once`: queued,
  executed or answered) and that a sequence has one user, with nothing in flight while the
  user writes or after it is done (`Sequences`). That a timeout leaks its sequence is
  what `Sequences` rests on: nobody else acquires it while its command may be answered.
- `ChannelHolds`: `FalconSpec => ChannelRefined`, the refinement of `FalconChannel`. A close
  is its `Send`, a take of a command its `Take`, and that of a REWIND nothing. `Queued` is defined by
  recursion over the ring; `QueuedIs` shows that it is what any `Path` finds, so that the steps
  are about paths only.

TLC found `FalconInv` to hold on the instance of `Subdevs` first; no run repeats that.

`TimerDmaProofs` proves of `NvkmTimer`, for a comparator of any width, any delays and any threads,
from `TimerAssumption` (the interrupt is none of the threads, and neither the width nor the polling period is 0):

- `TimerCorrect`: `TimerSpec => []TimerInv`. `ArmedInv` says when the comparator need not
  be right: while the interrupt is handled, and between a change of the head of the list and
  `alarm_init`, with `tmr->lock` held, by one for whom the new alarm is the first
  (`nvkm_timer_alarm`). When the handler looks at the time again, the first alarm has an interrupt
  or is expired (`At(Irq, "again")`). `Comparator` is the arithmetic of the wrap: the
  comparator matches at the time asked for or a wrap or more before it, so that an interrupt may be
  early and is never late. `PollInv` says that who holds `therm->lock` sets the alarm as
  mode and cstate say, and that the list agrees once it is set; who has set the cstate and not looked
  at it yet (`Owed`) may find an alarm missing.
- `AlarmsCorrect`: `TimerSpec => []AlarmsSound`, from it.

TLC found `TimerInv` to hold on the instance of `TimerDma` first; no run repeats that.

`NvkmRunlistProofs` proves of `NvkmRunlist`, for any channels, runlists, engines and any
number of faults and hangs, from `RunlistAssumption` (channels and engines are finite
sets, and what stands for nobody, the interrupt and the work is none of them):

- `RunlistCorrect`: `RunlSpec => []RunlInv`. `RecoveryInv`: what is marked for recovery is
  queued, taken by the work, or about to be queued by the section under way. `MemberInv`
  relates where the thread of a channel stands to the list: `gk104_fifo_gpfifo_init` and `_fini` test
  the list with no lock held, and the recovery may take the channel off it and kill it between any two of their steps. `HwInv`: if the hardware
  still has a killed channel, or an update has already copied it into its buffer, the runlist is
  owed an update by the work. It is: the work takes the marks before it walks the lists, and a channel
  is off its list in the section that makes the mark. `EngineInv`: an engine with a channel that may not run is marked for a reset,
  hangs, is about to be kicked, or is found by a call the section has yet to make.
- `Retired`: `RunlSpec => []ChannelRetired`, from it.

TLC found `RunlInv` to hold on smaller instances first; no run repeats that.

`MemoryProofs` proves of `NvkmMm`, for any memories, requests, alignments and layouts of
VRAM, with kmallocs failing anywhere, from `MmAssumption`: a layout is one region, or two apart from
each other and without blocks, and each keeps something when it is rounded to blocks.
That is what the constructors do: only `nv50_ram_ctor` has blocks, with one region
(`fb/ramnv50.c`), and only `gf100_ram_ctor` has a second region, far behind the first. Of
requests it assumes that size and alignment are positive: `Requests` already rounds the size as
`nvkm_ram_get` does. An alignment need not be a power of 2, nor the number of memories finite.

- `MmCorrect`: `Spec => []MmInv`, with these parts. `NodesInv`: the nodes tile
  what is between the ends, each within a region, and holes are the holes of the constructor.
  `FreeInv`: the free list has the offsets of the free nodes and rises, without which
  `nvkm_mm_free` would insert in the wrong place and `nvkm_mm_head` would not be first fit. `MemInv`:
  who holds the mutex, and that the sizes of requests are multiples of their alignment. `HeldInv`:
  the chains of two memories have no offset in common, none repeats one, and the nodes in use are
  those on the chains, with the type of the request. `PageInv`: while a memory is gathered, what it has and what is missing
  make up what was asked for, and a request for one piece has none before it is complete.
  `BlockInv`: nodes in use of different types have no block in common, neighbours or not,
  while the code looks at the neighbours of a free node only.
  `ApartInv`: no two free nodes are neighbours, unless a kmalloc has failed between two cuts.
- `Tiled`, `OwnedOnce`, `Pages` and `Clean`: `Spec => []` of `Tiling`, `Owned`, `PageSound` and
  `CleanFini`, from it. That VRAM is whole again when nothing is in use needs all of it: what is left
  is free, apart, and of the regions, so it is the regions.

The lists are the matter of these proofs. `Tiles(list, from, to)` says that a list of
nodes tiles an interval; `TilesCut` and `TilesConcat` take such lists apart and join them, and
`Exchange` concludes that to replace some neighbours by nodes that tile the same interval keeps `NodesInv`,
for the parts of a split and for a merge alike. `Rising...` say the same of the list of offsets. `SumIs` gives the
recursion of `SumOf`, from which `TotalKept` and `TotalAppend` say how the size of a memory changes
with a step. `RoundUpIs`, `RoundDownIs` and `Blocks` are the arithmetic of blocks and alignment, and
`FitIs` and `SplitIs` what `nvkm_mm_head` and `_tail` find and leave. Then there is a lemma per action.

TLC found `MmInv` to hold on an instance with blocks and mixed memory (540287 states) first; no run repeats that.

`NvkmVmmProofs` proves of `NvkmVmm`, for any page sizes, sizes of address spaces and of
`page_block`, any kinds of allocations and any calls, from `VmmAssumption`: sizes are positive, the
last page size is the page, and where the client manages the space no allocation is
sparse and no region that is mapped fails to be mapped again. The driver's clients ask for no sparse
ones there (`nouveau_vmm.c`, `nouveau_svm.c`), and map nothing twice
(`nouveau_bo_move_ntfy` does in the space that NVKM manages). The code
relies on the first: `nvkm_vmm_pfn_map` and `_pfn_unmap` never make an entry sparse again
(`vmm.c:1273-1305`, `1190`). Page sizes need not divide each other.

- `VmmCorrect`: `VmmSpec => []VmmInv`. Calls split and merge nodes that they then
  go through, so the invariant is about the pages: what is so of the node of each page (`PagesInv`)
  stays so when the node is cut or joined with one like it. The area that NVKM manages may be anywhere between
two of the client's. `NodesInv`: the nodes tile the space, and
  two neighbours meet as the code leaves them. `CallInv`: a
  loop is at a page where it may be; that of a put at the start of a node in use. `TablesInv`: for
  each page, the entry, and how often it is referenced for each page size and
  as a sparse one, are what its node says (`Holds`). While a put is under way this is not
  so of the allocation it is at: all its parts are unmapped and dereferenced at once, and
  merged one at a time after that (`Mine`, `Dropped`). It says so in spaces where no
  region that is mapped fails to be mapped again (`~setup.remaps`), and of no page that a PFN call
  could not map or whose sparse entry a failed map took back (`torn`): elsewhere it is false,
  as `VmmRemapFail` and `VmmPfnFail` show. `BlockInv`: the pages of two
  page sizes are in different blocks, in the order of their addresses.
- `SpaceCorrect`: `VmmSpec => []SpaceSound`, in every space, with failing re-maps, too; and
  `PtesCorrect`: `VmmSpec => []PtesExact`, with the two exemptions. Both from `VmmInv`.

`SplitUpdated`, `UnmapStep`, `PfnMappedIs` and `FramesStep` say what `nvkm_vmm_node_split`,
`nvkm_vmm_unmap_region` and `nvkm_vmm_pfn_split_merge` make of the list: some neighbours replaced by nodes that cover the same pages
(`Replaced`), from which the node of every page is known (`NodeAt`). Then there is a lemma per
action and part of the invariant. TLC found `VmmInv` to hold on the instance of `NvkmCore` first; no run repeats that.

`NouveauGemProofs` proves of `NouveauGem`, for any clients, buffers, requests and room in VRAM, on both
families of GPUs, whatever fails, from `GemAssumption` (the kernel is no client, and what stands for nobody
is none of the clients):

- `GemCorrect`: `GemSpec => []GemInv`. What has to be said is that jobs in different rings are
  in order, although a ring only has semaphores in it. A *cut* (`Cuts`) is how far each ring may have been executed:
  no channel is past a semaphore whose fence is not executed (`Done`). `OrderInv`: no
  cut stands before two jobs of which one writes a buffer that the other uses. `TrackInv`: in every
  cut in which the fences of a buffer are done, the commands that use it are, and those that write it when the
  exclusive one is, but for the commands whose fence is still to be attached
  (`Unattached`). `SharedInv`: a shared fence comes after the exclusive one. `SyncInv`: when a client has
  called `nouveau_fence_sync`, its ring cannot come to its commands before what they have to wait for
  is done (`Settled`). `PlaceInv`: a job has its buffers where they are. `CallsInv` is where a call can be,
  and that its list has what it has reserved, each buffer once.
- `Coherent`: `GemSpec => []GpuCoherent`, from it. What is executing is a cut, so `Ordered` is
  `OrderInv` at that cut.

A step that adds to a ring leaves its cuts as they were, and adds some that go further (`ExtendedCut`, `Upon`); a
step of the GPU drops the first item, and a cut then is one that had it executed (`PoppedCut`, `Before`), with the fences
one nearer (`After`). `ThoseIs` says what `Those` returns, by an induction over
its recursive function that needs no theorem with an operator parameter (`SetInduction`).
TLC found the parts of `GemInv` to hold on the instance of `Ioctl`, one family at a time, first; no run repeats that.

Only model-checked: the invariants and action properties of
`NvkmPt` and `NvkmObject`; all liveness, and `NoStandstill`, which has an `ENABLED`; and what the violating runs show.
Fairness and `ENABLED` are beyond the prover. So are the values of folds: `NvkmPt`
describes a call by folds over the entries that it walks, `NvkmObject` by one over the tree, and
a proof would have to state these as recursive functions, as `SumOf` and `Those` are, with an invariant for each walk.

## Not modelled

- Payload contents, the wording of messages, and the ioctl encoding: no property
  tells them apart.
- Weak memory: an atomic bit operation or a lock section is a step, and plain reads
  of a flag see its current value.
- The fence backends before nv84, several
  contexts of one channel list.
- A delivery of NVKM that has raised the block of a deferred notify and not yet
  scheduled its work when `nvkm_notify_put` flushes (`notify.c:45` against `104-109`)
  may run its worker after `nvkm_notify_fini`; the model reuses the memory only when
  the worker has ended.
- Channel groups (TSGs), the double buffer of a runlist and the timeout of its update, the triggered MMU fault
  of `gk104_fifo_recover_engn`, the lookup of a channel by its instance.
- Address spaces: the busy flag, more than two levels of tables, memory objects and their tags.
- The kernel's own channel in `NouveauDma`, which pushes only when it kicks; DMA before nv50.
- Creation of the device and its subdevs; lookup of objects by handle; the client's table of
  notifies.
- Most of the repository's 200,000 lines are tables of registers, methods and firmware,
  context images of the graphics engines, VBIOS scripts, and mode setting in the order that the
  DRM helpers prescribe: sequences of writes without control to check. The modules cover the parts that
  decide something, which is a small share of the lines.
- Why each other component is left out is in `PROJECT.json`: protocols whose other side
  is the kernel (TTM, HMM, DRM atomic helpers), tables and register sequences, or
  planned modules.

## Plan

1. Proofs: `ObjectsExact` of `NvkmObject`, with its folds stated as recursive functions; that
   part of `NoStandstill` which has no `ENABLED` (`ReservedExact`).
2. Models: usif over `NvifNotify`; the busy flag in `NvkmVmm`; kill and delete of a
   channel with its lifetime (`nouveau_chan.c:55`); the client's table of notifies; the pstate
   work of `nvkm/subdev/clk/base.c`.

A further module shares an instance, as in
`MCFifo`, `MCSubdevs`, `MCTimerDma`, `MCNvkmCore` and `MCIoctl`.
