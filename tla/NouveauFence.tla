---------------------------- MODULE NouveauFence ----------------------------
(***************************************************************************)
(* The fences of one channel of a GPU with fence interrupts (nv84 and      *)
(* later): nouveau_fence.c and nv84_fence.c, the channel that kills or     *)
(* deletes them (nouveau_chan.c), the dma_fence core above them, and the   *)
(* GPU and its non-stall interrupt below (nvkm/engine/fifo).               *)
(*                                                                         *)
(* The handler of the interrupt is the callback of a direct nvif notify,   *)
(* ntfy, so every interrupt and every switch of it on and off goes through *)
(* the steps of NvifNotify and NvkmNotify.  fctx->lock is explicit: a      *)
(* thread keeps it over a call of nvif_notify_get or nvif_notify_put.      *)
(*                                                                         *)
(* Fence s is the s-th that takes a number from fctx->sequence, which      *)
(* starts at what the last context of this channel id left and wraps.      *)
(***************************************************************************)
EXTENDS NvifNotify

CONSTANTS
  ntfy,    \* fctx->notify, a direct notify
  None,    \* no thread
  MaxSeq,  \* bound: fences emitted
  SeqWrap, \* 2^32 in the code
  OldSeq   \* what the semaphore holds when the context is made

\* nvkm_fifo_uevent_ctor gives the notify its type.
ASSUME FenceAssumption ==
  /\ ntfy \in Notifies \ Deferred /\ TypesOf[ntfy] # {}
  /\ None \notin Threads
  /\ MaxSeq \in Nat /\ OldSeq \in 0 .. SeqWrap - 1
  /\ SeqWrap \in Nat /\ SeqWrap % 2 = 0 /\ 2 * MaxSeq <= SeqWrap

VARIABLES
  fctx,       \* the fence context: none, live, dying, freed
  issued,     \* how often fctx->sequence was incremented
  fence,      \* the fences
  pendq,      \* fctx->pending
  notifyRef,  \* fctx->notify_ref
  lock,       \* the holder of fctx->lock
  thr,        \* what each thread is doing
  gpuOps,     \* what the channel has left to execute: s releases the semaphore
              \* with the seqno of fence s, 0 raises the non-stall interrupt
  gpuSeq,     \* the semaphore, which fctx->read() returns
  latch,      \* the non-stall interrupt is latched in the interrupt status
  irq,        \* the interrupt is acknowledged and its event still to be sent
  killed      \* chan->killed: the channel executes no more

fctxVars == <<fctx, issued, fence, pendq, notifyRef>>
gpuVars == <<gpuOps, gpuSeq, latch, irq>>
fenceVars == <<fctxVars, lock, thr, gpuVars, killed>>
sysVars == <<allVars, fenceVars>>

Seqs == 1 .. MaxSeq

\* fctx->sequence when it was incremented s times: fence->base.seqno.
Seqno(s) == (OldSeq + s) % SeqWrap

NewFence == [pub |-> FALSE, channel |-> FALSE, signaled |-> FALSE,
             enabled |-> FALSE, user |-> FALSE]
ThrIdle == [op |-> "none", pc |-> "idle", f |-> 0]

FenceInit ==
  /\ NvifInit
  /\ fctx = "none" /\ issued = 0
  /\ fence = [s \in Seqs |-> NewFence]
  /\ pendq = <<>> /\ notifyRef = 0
  /\ lock = None
  /\ thr = [t \in Threads |-> ThrIdle]
  /\ gpuOps = <<>> /\ gpuSeq = Seqno(0) /\ latch = FALSE /\ irq = FALSE
  /\ killed = FALSE

-----------------------------------------------------------------------------
(* nouveau_fence_update and nouveau_fence_signal.                          *)

\* Numbers compared as they are; and off by one.
CompletedEarlyBug(s) == gpuSeq >= Seqno(s)
CompletedLateBug(s) == gpuSeq # Seqno(s) /\ (gpuSeq - Seqno(s)) % SeqWrap < SeqWrap \div 2

\* (int)(seq - fence->base.seqno) >= 0.
Completed(s) == (gpuSeq - Seqno(s)) % SeqWrap < SeqWrap \div 2

\* The fences that the loop of nouveau_fence_update signals: it stops at the
\* first that is not completed.
Ripe == {i \in DOMAIN pendq : \A j \in 1 .. i : Completed(pendq[j])}

\* nouveau_fence_signal of the first k pending fences.
SignalFirst(k) ==
  LET S == {pendq[i] : i \in 1 .. k}
  IN  /\ fence' = [s \in Seqs |->
            IF s \in S THEN [fence[s] EXCEPT !.signaled = TRUE, !.channel = FALSE] ELSE fence[s]]
      /\ pendq' = SubSeq(pendq, k + 1, Len(pendq))
      /\ notifyRef' = notifyRef - Cardinality({s \in S : fence[s].user})

\* Whether one of these brings notify_ref to 0, and so drops the notify.
Drops(k) ==
  LET users == {i \in 1 .. k : fence[pendq[i]].user}
  IN  users # {} /\ notifyRef = Cardinality(users)

\* Signals, and puts the notify if it is dropped, in a thread with the lock.
SignalAndPut(t, k) ==
  /\ SignalFirst(k)
  /\ IF Drops(k) THEN NvifPut(t, ntfy, FALSE) ELSE UNCHANGED allVars

\* Takes fctx->lock and goes to pc.
Lock(t, op, pc) ==
  /\ thr[t].op = op /\ thr[t].pc = "lock"
  /\ lock = None
  /\ lock' = t
  /\ thr' = [thr EXCEPT ![t].pc = pc]

\* Continues when the call of nvif_notify_get or _put has returned.
Returned(t, op, pc) == thr[t].op = op /\ thr[t].pc = pc /\ call[t].pc = "idle"

Unlock(t, next) == lock' = None /\ thr' = [thr EXCEPT ![t] = next]

Begin(t, op, pc, f) ==
  /\ thr[t] = ThrIdle
  /\ thr' = [thr EXCEPT ![t] = [op |-> op, pc |-> pc, f |-> f]]

Running(op) == \E t \in Threads : thr[t].op = op

-----------------------------------------------------------------------------
(* nv84_fence_context_new and nouveau_fence_emit.  The owner of a channel  *)
(* creates it, emits and deletes it one at a time (cli->mutex).            *)

ContextNew(t) ==
  /\ fctx = "none" /\ thr[t] = ThrIdle
  /\ NvifCtor(t, ntfy)
  /\ fctx' = "live"
  /\ UNCHANGED <<issued, fence, pendq, notifyRef, lock, thr, gpuVars, killed>>

\* A new fence, and its release and interrupt in the push buffer.
EmitPush(t) ==
  /\ fctx = "live" /\ ~Running("emit") /\ issued < MaxSeq
  /\ Begin(t, "emit", "lock", issued + 1)
  /\ issued' = issued + 1
  /\ fence' = [fence EXCEPT ![issued'].channel = TRUE]
  /\ gpuOps' = gpuOps \o <<issued', 0>>
  /\ UNCHANGED <<allVars, fctx, pendq, notifyRef, lock, gpuSeq, latch, irq, killed>>

\* No space in the push buffer: the seqno is gone, the fence is freed.
EmitFail(t) ==
  /\ fctx = "live" /\ ~Running("emit") /\ issued < MaxSeq
  /\ thr[t] = ThrIdle
  /\ issued' = issued + 1
  /\ UNCHANGED <<allVars, fctx, fence, pendq, notifyRef, lock, thr, gpuVars, killed>>

EmitUpdate(t) ==
  /\ Lock(t, "emit", "add")
  /\ SignalAndPut(t, Cardinality(Ripe))
  /\ UNCHANGED <<fctx, issued, gpuVars, killed>>

EmitAdd(t) ==
  /\ Returned(t, "emit", "add")
  /\ pendq' = Append(pendq, thr[t].f)
  /\ fence' = [fence EXCEPT ![thr[t].f].pub = TRUE]
  /\ Unlock(t, ThrIdle)
  /\ UNCHANGED <<allVars, fctx, issued, notifyRef, gpuVars, killed>>

-----------------------------------------------------------------------------
(* nouveau_fence_done, in the loop of nouveau_fence_wait_busy and of       *)
(* nouveau_fence_wait_legacy.                                              *)

PollStart(t, f) ==
  /\ fence[f].pub
  /\ Begin(t, "poll", "lock", f)
  /\ UNCHANGED <<allVars, fctxVars, lock, gpuVars, killed>>

PollUpdate(t) ==
  /\ Lock(t, "poll", "unlock")
  /\ ~fence[thr[t].f].signaled
  /\ SignalAndPut(t, IF fence[thr[t].f].channel THEN Cardinality(Ripe) ELSE 0)
  /\ UNCHANGED <<fctx, issued, gpuVars, killed>>

PollUnlock(t) ==
  /\ Returned(t, "poll", "unlock")
  /\ Unlock(t, [thr[t] EXCEPT !.pc = "lock"])
  /\ UNCHANGED <<allVars, fctxVars, gpuVars, killed>>

PollDone(t) ==
  /\ thr[t].op = "poll" /\ thr[t].pc = "lock"
  /\ fence[thr[t].f].signaled
  /\ thr' = [thr EXCEPT ![t] = ThrIdle]
  /\ UNCHANGED <<allVars, fctxVars, lock, gpuVars, killed>>

\* dma_fence_is_signaled: nouveau_fence_is_signaled reads without the lock, and
\* dma_fence_signal takes it; the fence stays on the list.
IsSignaled(f) ==
  /\ fence[f].pub /\ ~fence[f].signaled
  /\ fence[f].channel /\ Completed(f)
  /\ lock = None
  /\ fence' = [fence EXCEPT ![f].signaled = TRUE]
  /\ UNCHANGED <<allVars, fctx, issued, pendq, notifyRef, lock, thr, gpuVars, killed>>

-----------------------------------------------------------------------------
(* dma_fence_wait, and nouveau_fence_enable_signaling under fctx->lock.    *)

WaitStart(t, f) ==
  /\ fence[f].pub
  /\ Begin(t, "wait", "lock", f)
  /\ UNCHANGED <<allVars, fctxVars, lock, gpuVars, killed>>

\* The first waiter of a fence enables its signalling, the others only sleep.
WaitEnable(t) ==
  LET f == thr[t].f IN
  /\ Lock(t, "wait", "check")
  /\ ~fence[f].signaled /\ ~fence[f].enabled
  /\ fence' = [fence EXCEPT ![f].enabled = TRUE]
  /\ notifyRef' = notifyRef + 1
  /\ IF notifyRef = 0 THEN NvifGet(t, ntfy) ELSE UNCHANGED allVars
  /\ UNCHANGED <<fctx, issued, pendq, gpuVars, killed>>

WaitSleep(t) ==
  LET f == thr[t].f IN
  /\ thr[t].op = "wait" /\ thr[t].pc = "lock" /\ lock = None
  /\ ~fence[f].signaled /\ fence[f].enabled
  /\ thr' = [thr EXCEPT ![t].pc = "sleep"]
  /\ UNCHANGED <<allVars, fctxVars, lock, gpuVars, killed>>

\* nouveau_fence_no_signaling: not completed, the fence will be signalled by
\* the handler.
WaitEnabled(t) ==
  LET f == thr[t].f IN
  /\ Returned(t, "wait", "check")
  /\ ~(fence[f].channel /\ Completed(f))
  /\ fence' = [fence EXCEPT ![f].user = TRUE]
  /\ Unlock(t, [thr[t] EXCEPT !.pc = "sleep"])
  /\ UNCHANGED <<allVars, fctx, issued, pendq, notifyRef, gpuVars, killed>>

\* The reference of enable_signaling is kept.
WaitTooLateBug(t) ==
  LET f == thr[t].f IN
  /\ Returned(t, "wait", "check")
  /\ fence[f].channel /\ Completed(f)
  /\ \E i \in DOMAIN pendq : pendq[i] = f /\ pendq' = RemoveAt(pendq, i)
  /\ thr' = [thr EXCEPT ![t].pc = "signal"]
  /\ UNCHANGED <<allVars, fctx, issued, fence, notifyRef, lock, gpuVars, killed>>

\* It is completed: it leaves the list, and its channel stays set.
WaitTooLate(t) ==
  LET f == thr[t].f IN
  /\ Returned(t, "wait", "check")
  /\ fence[f].channel /\ Completed(f)
  /\ \E i \in DOMAIN pendq : pendq[i] = f /\ pendq' = RemoveAt(pendq, i)
  /\ notifyRef' = notifyRef - 1
  /\ IF notifyRef' = 0 THEN NvifPut(t, ntfy, FALSE) ELSE UNCHANGED allVars
  /\ thr' = [thr EXCEPT ![t].pc = "signal"]
  /\ UNCHANGED <<fctx, issued, fence, lock, gpuVars, killed>>

\* dma_fence signals a fence whose enable_signaling returned false.
WaitSignal(t) ==
  /\ Returned(t, "wait", "signal")
  /\ fence' = [fence EXCEPT ![thr[t].f].signaled = TRUE]
  /\ Unlock(t, ThrIdle)
  /\ UNCHANGED <<allVars, fctx, issued, pendq, notifyRef, gpuVars, killed>>

\* Woken by the signal.
WaitDone(t) ==
  /\ thr[t].op = "wait" /\ thr[t].pc \in {"lock", "sleep"}
  /\ fence[thr[t].f].signaled
  /\ thr' = [thr EXCEPT ![t] = ThrIdle]
  /\ UNCHANGED <<allVars, fctxVars, lock, gpuVars, killed>>

\* nouveau_fence_wait gives up after 15 s.
WaitTimeout(t) ==
  /\ thr[t].op = "wait" /\ thr[t].pc = "sleep"
  /\ thr' = [thr EXCEPT ![t] = ThrIdle]
  /\ UNCHANGED <<allVars, fctxVars, lock, gpuVars, killed>>

-----------------------------------------------------------------------------
(* nouveau_channel_killed and nouveau_channel_del.                         *)

\* The GPU has stopped the channel, and the kill event is delivered.
KillStart(t) ==
  /\ fctx \in {"live", "dying"} /\ ~killed
  /\ Begin(t, "kill", "lock", 0)
  /\ killed' = TRUE
  /\ UNCHANGED <<allVars, fctxVars, lock, gpuVars>>

\* nouveau_fence_context_kill(chan->fence, -ENODEV).  The context may have been
\* freed since chan->fence was read; what the thread does then is undefined,
\* and it goes no further here.
KillAll(t) ==
  /\ fctx # "freed"
  /\ Lock(t, "kill", "unlock")
  /\ SignalAndPut(t, Len(pendq))
  /\ UNCHANGED <<fctx, issued, gpuVars, killed>>

KillUnlock(t) ==
  /\ Returned(t, "kill", "unlock")
  /\ Unlock(t, ThrIdle)
  /\ UNCHANGED <<allVars, fctxVars, gpuVars, killed>>

\* nv84_fence_context_del completes every fence by hand.
DelStart(t) ==
  /\ fctx = "live" /\ ~Running("emit")
  /\ Begin(t, "del", "lock", 0)
  /\ fctx' = "dying"
  /\ gpuSeq' = Seqno(issued)
  /\ UNCHANGED <<allVars, issued, fence, pendq, notifyRef, lock, gpuOps, latch, irq, killed>>

\* Deletion that relies on the semaphore written by hand.
DelKillBug(t) ==
  /\ Lock(t, "del", "unlock")
  /\ SignalAndPut(t, Cardinality(Ripe))
  /\ UNCHANGED <<fctx, issued, gpuVars, killed>>

\* nouveau_fence_context_kill(fctx, 0).
DelKill(t) ==
  /\ Lock(t, "del", "unlock")
  /\ SignalAndPut(t, Len(pendq))
  /\ UNCHANGED <<fctx, issued, gpuVars, killed>>

\* Deletion that keeps fctx->lock over nvif_notify_dtor.
DelUnlockBug(t) ==
  /\ Returned(t, "del", "unlock")
  /\ thr' = [thr EXCEPT ![t].pc = "dtor"]
  /\ UNCHANGED <<allVars, fctxVars, lock, gpuVars, killed>>

DelUnlock(t) ==
  /\ Returned(t, "del", "unlock")
  /\ Unlock(t, [thr[t] EXCEPT !.pc = "dtor"])
  /\ UNCHANGED <<allVars, fctxVars, gpuVars, killed>>

\* nvif_notify_dtor, without fctx->lock: it waits for the handler.
DelDtor(t) ==
  /\ Returned(t, "del", "dtor")
  /\ NvifPut(t, ntfy, TRUE)
  /\ thr' = [thr EXCEPT ![t].pc = "free"]
  /\ UNCHANGED <<fctxVars, lock, gpuVars, killed>>

DelFree(t) ==
  /\ Returned(t, "del", "free")
  /\ fctx' = "freed"
  /\ thr' = [thr EXCEPT ![t] = ThrIdle]
  /\ UNCHANGED <<allVars, issued, fence, pendq, notifyRef, lock, gpuVars, killed>>

-----------------------------------------------------------------------------
(* The GPU, its interrupt, and the callback of ntfy.                       *)

GpuStep ==
  /\ gpuOps # <<>> /\ ~killed /\ fctx # "freed"
  /\ IF Head(gpuOps) = 0
     THEN latch' = TRUE /\ UNCHANGED gpuSeq
     ELSE gpuSeq' = Seqno(Head(gpuOps)) /\ UNCHANGED latch
  /\ gpuOps' = Tail(gpuOps)
  /\ UNCHANGED <<allVars, fctxVars, lock, thr, irq, killed>>

\* gk104_fifo_intr: the interrupt is enabled, and acknowledged before its event
\* is sent.  It does not interrupt itself.
IrqAck ==
  /\ latch /\ \A s \in SlotsOf(ntfy) : hw[s]
  /\ ~irq /\ send.pc = "idle"
  /\ latch' = FALSE /\ irq' = TRUE
  /\ UNCHANGED <<allVars, fctxVars, lock, thr, gpuOps, gpuSeq, killed>>

\* nvkm_fifo_uevent.
IrqSend ==
  /\ irq /\ SendStart(IndexOf[ntfy], TypesOf[ntfy])
  /\ irq' = FALSE
  /\ UNCHANGED <<nvifVars, fctxVars, lock, thr, gpuOps, gpuSeq, latch, killed>>

\* nouveau_fence_wait_uevent_handler: DROP if it has brought notify_ref to 0.
Handler ==
  /\ lock = None
  /\ LET k == Cardinality(Ripe)
     IN  SignalFirst(k) /\ CbFunc(~Drops(k))
  /\ UNCHANGED <<fctx, issued, lock, thr, gpuVars, killed>>

-----------------------------------------------------------------------------
\* What a thread has begun, it goes on with.
ThreadStep(t) ==
  \/ EmitUpdate(t)
  \/ EmitAdd(t)
  \/ PollUpdate(t)
  \/ PollUnlock(t)
  \/ PollDone(t)
  \/ WaitEnable(t)
  \/ WaitSleep(t)
  \/ WaitEnabled(t)
  \/ WaitTooLate(t)
  \/ WaitSignal(t)
  \/ WaitDone(t)
  \/ KillAll(t)
  \/ KillUnlock(t)
  \/ DelKill(t)
  \/ DelUnlock(t)
  \/ DelDtor(t)
  \/ DelFree(t)
  \/ NvifStep(t) /\ UNCHANGED fenceVars

ThreadCall(t) ==
  \/ ContextNew(t)
  \/ EmitPush(t)
  \/ EmitFail(t)
  \/ \E f \in Seqs : PollStart(t, f) \/ WaitStart(t, f)
  \/ WaitTimeout(t)
  \/ KillStart(t)
  \/ DelStart(t)

IrqStep ==
  \/ IrqAck
  \/ IrqSend
  \/ Handler
  \/ (NvkmSend \/ CbInc \/ CbClear \/ CbDec) /\ UNCHANGED fenceVars

FenceNext ==
  \/ \E t \in Threads : ThreadCall(t) \/ ThreadStep(t)
  \/ \E f \in Seqs : IsSignaled(f)
  \/ GpuStep
  \/ IrqStep

FenceSpec == FenceInit /\ [][FenceNext]_sysVars

\* A thread goes on, the GPU executes, an interrupt is served; fctx->lock and
\* list_lock, queued spinlocks, are granted in turn.
FenceFairSpec ==
  /\ FenceSpec
  /\ \A t \in Threads :
       /\ WF_sysVars(ThreadStep(t))
       /\ SF_sysVars(EmitUpdate(t) \/ PollUpdate(t) \/ WaitEnable(t) \/ WaitSleep(t)
                       \/ KillAll(t) \/ DelKill(t))
       /\ SF_sysVars(UserListDel(t) /\ UNCHANGED nvifVars /\ UNCHANGED fenceVars)
  /\ WF_sysVars(GpuStep)
  /\ WF_sysVars(IrqStep) /\ SF_sysVars(Handler)

-----------------------------------------------------------------------------
(* Properties.                                                             *)

\* The values of every variable; notify_ref does not underflow when fences are
\* signalled (nouveau_fence.c:64-66).
FenceTypeOK ==
  /\ NvifTypeOK
  /\ fctx \in {"none", "live", "dying", "freed"}
  /\ issued \in 0 .. MaxSeq
  /\ fence \in [Seqs -> [pub : BOOLEAN, channel : BOOLEAN, signaled : BOOLEAN,
                         enabled : BOOLEAN, user : BOOLEAN]]
  /\ pendq \in Seq(Seqs)
  /\ notifyRef \in Nat
  /\ lock \in Threads \cup {None}
  /\ thr \in [Threads -> [op : {"none", "emit", "poll", "wait", "kill", "del"},
                          pc : {"idle", "lock", "add", "unlock", "check", "sleep", "signal",
                                "dtor", "free"},
                          f : 0 .. MaxSeq]]
  /\ gpuOps \in Seq(0 .. MaxSeq) /\ gpuSeq \in 0 .. SeqWrap - 1
  /\ latch \in BOOLEAN /\ irq \in BOOLEAN /\ killed \in BOOLEAN

\* fctx->notify_ref counts the pending fences that a waiter has enabled, and the
\* one that is being enabled (nouveau_fence.c:64, 520, 526).
NotifyRefExact ==
  /\ FenceTypeOK
  /\ notifyRef = Cardinality({s \in Range(pendq) : fence[s].user})
                 + Cardinality({t \in Threads : thr[t].op = "wait" /\ thr[t].pc = "check"})

\* What nouveau_fence_update relies on: the pending fences are in the order of
\* their seqnos, so that it may stop at the first that is not completed; each has
\* the channel that the handler reads through the first (nouveau_fence.c:166);
\* and no fence is pending once its context is gone.
PendingSound ==
  /\ \A i, j \in DOMAIN pendq : i < j => pendq[i] < pendq[j]
  /\ \A s \in Range(pendq) : fence[s].channel
  /\ fctx = "freed" => pendq = <<>>

\* The fences that the channel has not reached, and the last that it has.
Left == {gpuOps[i] : i \in DOMAIN gpuOps} \ {0}
Reached == IF Left = {} THEN issued ELSE (CHOOSE s \in Left : \A r \in Left : s <= r) - 1

\* A fence is signalled only if the channel has executed up to it or was stopped.
Timeline ==
  INSTANCE FenceTimeline WITH
    emitted <- issued,
    reached <- Reached,
    signaled <- {s \in Seqs : fence[s].signaled},
    stopped <- killed \/ fctx \in {"dying", "freed"}

TimelineRefined == Timeline!TimelineSpec

\* nouveau_fence_emit and nouveau_channel_del return: what they do under
\* fctx->lock never waits for an interrupt handler that waits for the lock.
OpsReturn ==
  \A t \in Threads : thr[t].op \in {"emit", "del"} ~> thr[t].op = "none"

\* A thread that polls a fence of a running channel sees it signalled.
PollReturns ==
  \A t \in Threads : thr[t].op = "poll" ~> thr[t].op = "none" \/ killed

\* nouveau_fence.c:480-484 of a fence whose signalling is enabled: "It will still
\* get signaled eventually, just not right away."
EventuallySignaled ==
  \A f \in Seqs : fence[f].user ~> fence[f].signaled \/ killed

\* nouveau_fence.c:114-117 in nouveau_fence_context_del: "Ensure that all accesses
\* to fence->channel complete before freeing the channel."  No fence points to
\* the channel when it is freed, or nouveau_fence_sync would read it.
NoStaleChannel ==
  fctx = "freed" => \A f \in Seqs : fence[f].pub => ~fence[f].channel
=============================================================================
