----------------------------- MODULE NouveauDma -----------------------------
(***************************************************************************)
(* A channel's main push buffer and its indirect buffer (IB): the waits of *)
(* nouveau_dma.c, the window on the push buffer of nouveau_chan.c, and the *)
(* submission and the fence of nouveau_gem.c, for a channel of user space, *)
(* whose calls take turns.  The GPU fetches the entries of the IB in order *)
(* and the words of each; an entry of user space lies outside the main     *)
(* push buffer, and so does GET while it is fetched, and after it.         *)
(***************************************************************************)
EXTENDS Integers, Sequences, SequencesExt

CONSTANTS
  DmaMax,     \* chan->dma.max, words of the main push buffer
  IbMax,      \* chan->dma.ib_max; the IB has one entry more
  GemWords,   \* what a submission asks room for, beside its entries
  FenceWords, \* the fence after it
  EmitWords,  \* lengths of the other commands of the kernel
  MaxPush     \* bound on req->nr_push

\* A submission's room holds its fence; the IB holds a submission, and the ring
\* one more command after it has turned.  The last conjunct: an IB that is full
\* before the GPU has fetched anything leaves no command to turn the ring for.
\* nouveau_chan.c:470-474 has 16384 words and 1024 entries, nouveau_gem.c:788 has
\* 16 words: (1023 - 2) * 16 <= 16384.
ASSUME DmaAssumption ==
  /\ DmaMax \in Nat /\ IbMax \in Nat /\ GemWords \in Nat /\ MaxPush \in Nat
  /\ FenceWords \in 1..GemWords /\ EmitWords \subseteq 1..GemWords
  /\ 2 * GemWords < DmaMax /\ MaxPush + 2 <= IbMax
  /\ (IbMax - 2) * GemWords <= DmaMax

VARIABLES
  cur, put, free,   \* chan->dma.cur, put, free
  ibPut, ibFree,    \* chan->dma.ib_put, ib_free
  drv,              \* the call under way, and where it is
  ibGet, get,       \* the GPU's pointers into the IB and the main push buffer
  seg,              \* what it has still to fetch of the current entry
  pend,             \* entries pushed and not fetched, as first and last word
  hung              \* the GPU has stopped

ringVars == <<cur, put, free>>
gpuVars == <<ibGet, get, seg, pend>>
dmaVars == <<ringVars, ibPut, ibFree, drv, gpuVars, hung>>

Outside == -1
UserEntry == [at |-> Outside, len |-> 1]
DmaIdle == [pc |-> "idle", slots |-> 0, size |-> 0, pushes |-> 0, fence |-> FALSE]

DmaInit ==
  /\ cur = 0 /\ put = 0 /\ free = DmaMax
  /\ ibPut = 0 /\ ibFree = IbMax
  /\ drv = DmaIdle
  /\ ibGet = 0 /\ get = 0 /\ seg = [at |-> 0, len |-> 0]
  /\ pend = <<>>
  /\ hung = FALSE

DrvAt(pc) == drv.pc = pc
DrvGoto(pc) == drv' = [drv EXCEPT !.pc = pc]

\* nv50_dma_push.
Push(e) ==
  /\ pend' = Append(pend, e)
  /\ ibPut' = (ibPut + 1) % (IbMax + 1)
  /\ ibFree' = ibFree - 1

-----------------------------------------------------------------------------
(* The calls.  Wait is nouveau_dma_wait(chan, slots, size).                *)

Wait(slots, size, pushes) ==
  drv' = [pc |-> "ib", slots |-> slots, size |-> size, pushes |-> pushes, fence |-> FALSE]

\* No room for the fence.
GemBug(n) == Wait(n + 1, 1, n)

\* nouveau_gem_ioctl_pushbuf.
Gem(n) == Wait(n + 1, GemWords, n)

\* PUSH_WAIT: the last window has been used up, so RING_SPACE waits for one.
Emit(size) == Wait(1, size, 0)

DmaCall ==
  /\ DrvAt("idle")
  /\ (\E n \in 1..MaxPush : Gem(n)) \/ (\E w \in EmitWords : Emit(w))
  /\ UNCHANGED <<ringVars, ibPut, ibFree, gpuVars, hung>>

\* nv50_dma_push_wait does not ask for one entry more.
NeedsBug == drv.slots
Needs == drv.slots + 1

\* nv50_dma_push_wait; the loop goes on with what it has read.
IbWait ==
  /\ DrvAt("ib")
  /\ IF ibFree >= Needs THEN DrvGoto("ring") /\ UNCHANGED ibFree
     ELSE /\ ibFree' = LET n == ibGet - ibPut IN IF n <= 0 THEN n + IbMax ELSE n
          /\ UNCHANGED drv
  /\ UNCHANGED <<ringVars, ibPut, gpuVars, hung>>

\* Room for the word at which the GPU is, too.
AheadBug(g) == g - cur
\* The GPU is ahead: up to the word before GET.
Ahead(g) == g - cur - 1

Ready == IF drv.pushes > 0 THEN "push" ELSE "write"

\* A turn of nv50_dma_wait's loop.  GET outside the push buffer is discarded; if
\* the GPU is behind, there is room up to the end, or the driver turns to the
\* start (FIRE_RING has nothing to push: what was written was fired).
RingWait ==
  /\ DrvAt("ring")
  /\ \/ free >= drv.size /\ DrvGoto(Ready) /\ UNCHANGED free
     \/ free < drv.size /\ get = Outside /\ UNCHANGED <<free, drv>>
     \/ /\ free < drv.size /\ get # Outside /\ get <= cur
        /\ free' = DmaMax - cur
        /\ DrvGoto(IF free' >= drv.size THEN Ready ELSE "turn")
     \/ /\ free < drv.size /\ get > cur
        /\ free' = Ahead(get) /\ UNCHANGED drv
  /\ UNCHANGED <<cur, put, ibPut, ibFree, gpuVars, hung>>

\* The inner loop waits for GET to leave 0; its continue leaves it when GET is
\* outside (-EINVAL), and free becomes negative.
RingTurn ==
  /\ DrvAt("turn") /\ get # 0
  /\ cur' = 0 /\ put' = 0
  /\ free' = get - 1
  /\ DrvGoto("ring")
  /\ UNCHANGED <<ibPut, ibFree, gpuVars, hung>>

\* GET has not moved for long: -EBUSY.
WaitFails ==
  /\ hung /\ drv.pc \in {"ib", "ring", "turn"}
  /\ cur' = IF drv.fence THEN put ELSE cur                       \* WIND_RING
  /\ drv' = DmaIdle
  /\ UNCHANGED <<put, free, ibPut, ibFree, gpuVars, hung>>

\* One of the entries of a submission; then its fence.
GemPush ==
  /\ DrvAt("push")
  /\ Push(UserEntry)
  /\ drv' = IF drv.pushes > 1 THEN [drv EXCEPT !.pushes = @ - 1]
            ELSE [pc |-> "ib", slots |-> 1, size |-> FenceWords, pushes |-> 0, fence |-> TRUE]
  /\ UNCHANGED <<ringVars, ibGet, get, seg, hung>>

\* The words, and nouveau_channel_kick: FIRE_RING.
Kick ==
  /\ DrvAt("write")
  /\ Push([at |-> put, len |-> cur + drv.size - put])
  /\ cur' = cur + drv.size /\ put' = cur'
  /\ free' = free - drv.size
  /\ drv' = DmaIdle
  /\ UNCHANGED <<ibGet, get, seg, hung>>

-----------------------------------------------------------------------------
(* The GPU.                                                                *)

\* The next entry of the IB.
IbFetch ==
  /\ ~hung /\ seg.len = 0 /\ ibGet # ibPut /\ pend # <<>>
  /\ ibGet' = (ibGet + 1) % (IbMax + 1)
  /\ seg' = Head(pend) /\ get' = seg'.at
  /\ pend' = Tail(pend)
  /\ UNCHANGED <<ringVars, ibPut, ibFree, drv, hung>>

\* The next word.
WordFetch ==
  /\ ~hung /\ seg.len > 0
  /\ seg' = [seg EXCEPT !.len = @ - 1, !.at = IF @ = Outside THEN @ ELSE @ + 1]
  /\ get' = seg'.at
  /\ UNCHANGED <<ringVars, ibPut, ibFree, drv, ibGet, pend, hung>>

Hang == ~hung /\ hung' = TRUE /\ UNCHANGED <<ringVars, ibPut, ibFree, drv, gpuVars>>

-----------------------------------------------------------------------------
DrvStep == IbWait \/ RingWait \/ RingTurn \/ GemPush \/ Kick
DmaNext == DmaCall \/ DrvStep \/ WaitFails \/ IbFetch \/ WordFetch \/ Hang

\* The driver's loops go on, and time out when GET stands still; the GPU goes
\* on until it hangs.
DmaFairness == WF_dmaVars(DrvStep) /\ WF_dmaVars(WaitFails) /\ WF_dmaVars(IbFetch \/ WordFetch)

DmaSpec == DmaInit /\ [][DmaNext]_dmaVars /\ DmaFairness

-----------------------------------------------------------------------------
(* Properties.                                                             *)

\* Words that the GPU has still to fetch.
Unfetched ==
  UNION {IF e.at = Outside THEN {} ELSE e.at .. (e.at + e.len - 1) : e \in ToSet(pend) \cup {seg}}

\* The driver writes inside the push buffer, and over nothing that the GPU has
\* not fetched, wherever GET was when it was read and however often the ring
\* has turned.
RingIntact ==
  DrvAt("write") =>
    LET words == cur .. (cur + drv.size - 1)
    IN  words \cap Unfetched = {} /\ words \subseteq 0..(DmaMax - 1)

\* The IB never overflows: what lies between GET and PUT are the entries that
\* are to be fetched, all of them ("BUG_ON(chan->dma.ib_free < 1)").
IbIntact ==
  /\ Len(pend) = (ibPut - ibGet) % (IbMax + 1)
  /\ drv.pc \in {"push", "write"} => ibFree >= 1

\* A wait for room ends: it does not wait for a GPU that has nothing to do, or
\* whose GET stands outside the push buffer.
WaitEnds == drv.pc \in {"ib", "ring", "turn"} ~> drv.pc \notin {"ib", "ring", "turn"}
=============================================================================
