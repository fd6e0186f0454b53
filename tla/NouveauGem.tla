----------------------------- MODULE NouveauGem -----------------------------
(***************************************************************************)
(* Submitting commands with buffers: nouveau_gem_ioctl_pushbuf and what it *)
(* calls in nouveau_gem.c, nouveau_bo.c and nouveau_fence.c.               *)
(*                                                                         *)
(* A client reserves the buffers of its commands in the order it names     *)
(* them, validates them (they move to where the commands want them, others *)
(* are evicted), makes the GPU wait for their fences, pushes the commands, *)
(* and attaches a fence of its own to each while it releases them.  Moves  *)
(* are jobs of the kernel's channel.                                       *)
(*                                                                         *)
(* A fence is a channel and a number: the n-th of the fences that the      *)
(* channel has still to execute, 0 for one that has signalled.  TTM and    *)
(* the reservations (ww_mutex, wait-die) are outside of the repository.    *)
(***************************************************************************)
EXTENDS Integers, SequencesExt, TLC

CONSTANTS
  Clients,    \* each with a channel, and in one call at a time (cli->mutex)
  Kernel,     \* drm->ttm.chan
  Bos,        \* buffers
  VramRoom,   \* how many of them VRAM has room for
  Families,   \* of the GPUs looked at: "tesla" and later, or "older"
  Requests,   \* what clients of each family submit: for each buffer whether it is
              \* written and the valid domains, and whether to wait for the end
  Homes,      \* where each buffer was when it was created
  Presumable, \* where clients presume their buffers
  VmaLess,    \* a client and a buffer of whose mapping it may have none
  TryLimit,   \* 100000
  MaxQueued,  \* bound on what the ring of a client holds when a call of it begins
  Lost,       \* the holder of a reservation that nobody gives back
  Nil

Places == {"vram", "gart"}
Channels == Clients \cup {Kernel}

ASSUME GemAssumption ==
  /\ Kernel \notin Clients /\ Nil \notin Clients \cup Bos \cup Channels \X Nat
  /\ Lost \notin Clients \cup {Nil} /\ VmaLess \subseteq Clients \X Bos
  /\ VramRoom \in Nat /\ TryLimit \in Nat /\ MaxQueued \in Nat
  /\ Families \subseteq {"tesla", "older"}
  /\ Homes \in [Bos -> Places] /\ Presumable \subseteq Places
  /\ \A f \in Families : \A r \in Requests[f] :
       r # Nil /\ r.bos \in Seq([bo : Bos, write : BOOLEAN, valid : (SUBSET Places) \ {{}}])

VARIABLES
  bos,       \* the holder of each reservation, the place, and the fences
  push,      \* the call of each client
  ring,      \* what each channel has still to execute
  executing, \* the channels that are executing the job at their head
  tickets,   \* the clients with an acquire context, the oldest first
  family

gemVars == <<bos, push, ring, executing, tickets, family>>

Idle == [pc |-> "idle", req |-> Nil, i |-> 1, res |-> Nil, got |-> <<>>, k |-> 1, tries |-> 0,
         fence |-> Nil, then |-> "idle", reloc |-> FALSE, relocs |-> FALSE, invalid |-> {},
         presumed |-> <<>>, cmds |-> <<>>]

GemInit ==
  /\ bos = [b \in Bos |-> [holder |-> Nil, place |-> Homes[b], excl |-> Nil, shared |-> {}]]
  /\ push = [t \in Clients |-> Idle]
  /\ ring = [c \in Channels |-> <<>>] /\ executing = {}
  /\ tickets = <<>>
  /\ family \in Families

At(t, pc) == push[t].pc = pc
PushTo(t, pc) == push' = [push EXCEPT ![t].pc = pc]

-----------------------------------------------------------------------------
(* Fences and rings.                                                       *)

Signalled(f) == f # Nil => f[2] = 0
FencesOf(b) == bos[b].shared \cup {bos[b].excl}
BoIdle(b) == \A f \in FencesOf(b) : Signalled(f)      \* ttm_bo_wait

Acquire(f) == [k |-> "acquire", fence |-> f]
FenceItem == [k |-> "fence"]
Job(uses, at) == [k |-> "job", uses |-> uses, place |-> [b \in DOMAIN uses |-> bos[b].place],
                  at |-> at, loose |-> FALSE]

Queued(c) == Cardinality({i \in DOMAIN ring[c] : ring[c][i] = FenceItem})
NextFence(c) == <<c, Queued(c) + 1>>

\* A writer waits for the last writer only.
NeededExclBug(b, c, exclusive) ==
  {f \in {bos[b].excl} \ {Nil} : ~Signalled(f) /\ f[1] # c}

\* The fences of buffer b that a job of channel c has to wait for, in
\* nouveau_fence_sync; those of its own channel are in order.
Needed(b, c, exclusive) ==
  LET first == bos[b].excl # Nil /\ (~exclusive \/ bos[b].shared = {})
      fences == IF first THEN {bos[b].excl} ELSE IF exclusive THEN bos[b].shared ELSE {}
  IN  {f \in fences : ~Signalled(f) /\ f[1] # c}

\* nouveau_fence_sync, with a semaphore for each; where there is none, or it
\* cannot be emitted, the client waits, until none is needed any more.
FenceSync(b, c, exclusive) == SetToSeq({Acquire(f) : f \in Needed(b, c, exclusive)})

\* nouveau_bo_fence.
Attach(v, f, exclusive) ==
  IF exclusive THEN [v EXCEPT !.excl = f, !.shared = {}]
  ELSE [v EXCEPT !.shared = {g \in @ : ~Signalled(g) /\ g[1] # f[1]} \cup {f}]

-----------------------------------------------------------------------------
(* The list of a call.                                                     *)

Entry(t, i) == push[t].req.bos[i]
BoAt(t) == Entry(t, push[t].i).bo
Allowed(t, i) == Entry(t, i).valid

\* The elements of s that are in S, in order.
Those(s, S) ==
  LET upTo[n \in 0..Len(s)] == IF n = 0 THEN <<>>
                               ELSE IF s[n] \in S THEN Append(upTo[n - 1], s[n]) ELSE upTo[n - 1]
  IN  upTo[Len(s)]

\* op->list, in the order of validate_init: entries for VRAM, for GART, for both.
OpList(t) ==
  LET of(valid) == Those(push[t].got, {i \in ToSet(push[t].got) : Allowed(t, i) = valid})
  IN  of({"vram"}) \o of({"gart"}) \o of(Places)

Uses(t) ==
  LET r == push[t].req.bos
  IN  [b \in {r[i].bo : i \in DOMAIN r} |-> \E i \in DOMAIN r : r[i].bo = b /\ r[i].write]

\* To the end of the call with fence f, by way of validate_fini.
Finish(t, pc, f) ==
  LET p == push[t]
  IN  push' = [push EXCEPT ![t] =
                 [Idle EXCEPT !.pc = pc, !.req = p.req, !.got = p.got, !.fence = f]]
Fail(t) == Finish(t, "fini", Nil)

Older(s, t) ==
  \E i, j \in DOMAIN tickets : tickets[i] = s /\ tickets[j] = t /\ i < j

-----------------------------------------------------------------------------
(* nouveau_gem_ioctl_pushbuf up to validation, and validate_init.          *)

\* The client built its commands for where it presumes the buffers.
PushStart(t) ==
  /\ At(t, "idle") /\ Len(ring[t]) <= MaxQueued
  /\ \E r \in Requests[family] :
       LET named == {r.bos[i].bo : i \in DOMAIN r.bos}
       IN \E p \in [named -> Presumable] :
            push' = [push EXCEPT ![t] = [Idle EXCEPT !.pc = "reserve", !.req = r, !.tries = 1,
                                                     !.presumed = p, !.cmds = p]]
  /\ tickets' = Append(tickets, t)
  /\ UNCHANGED <<bos, ring, executing, family>>

OfReserve == UNCHANGED <<ring, executing, tickets, family>>
More(t) == At(t, "reserve") /\ push[t].i <= Len(push[t].req.bos)

\* The buffer that the slow path has reserved already.
SkipReserved(t) ==
  /\ More(t) /\ BoAt(t) = push[t].res
  /\ push' = [push EXCEPT ![t].res = Nil, ![t].i = @ + 1]
  /\ UNCHANGED bos /\ OfReserve

\* "multiple instances of buffer on validation list".
Duplicate(t) ==
  /\ More(t) /\ BoAt(t) # push[t].res /\ bos[BoAt(t)].holder = t
  /\ Fail(t)
  /\ UNCHANGED bos /\ OfReserve

Reserve(t) ==
  /\ More(t) /\ bos[BoAt(t)].holder = Nil
  /\ bos' = [bos EXCEPT ![BoAt(t)].holder = t]
  /\ push' = [push EXCEPT ![t].got = Append(@, push[t].i), ![t].i = @ + 1]
  /\ OfReserve

\* nouveau_vma_find finds none: the buffer that ttm_bo_reserve, or the slow path,
\* has just reserved is on no list of the call, nor marked with reserved_by.
NoVma(t) ==
  /\ More(t) \/ At(t, "slow")
  /\ family = "tesla" /\ <<t, BoAt(t)>> \in VmaLess
  /\ bos[BoAt(t)].holder = Nil
  /\ bos' = [bos EXCEPT ![BoAt(t)].holder = Lost]
  /\ Fail(t)
  /\ OfReserve

\* ttm_bo_reserve of a buffer of an older client, while holding others: -EDEADLK.
\* The acquire context of a lost reservation is gone; it may look older or not.
MayBeOlder(s, t) == s = Lost \/ Older(s, t)

MustBackOff(t) ==
  /\ More(t) /\ push[t].got # <<>>
  /\ MayBeOlder(bos[BoAt(t)].holder, t)

\* The reservations are kept.
BackOffBug(t) ==
  /\ MustBackOff(t)
  /\ PushTo(t, "slow")
  /\ UNCHANGED bos /\ OfReserve

\* All reservations are given back.
BackOff(t) ==
  /\ MustBackOff(t)
  /\ push' = [push EXCEPT ![t].pc = "fini", ![t].then = "slow"]
  /\ UNCHANGED bos /\ OfReserve

\* ttm_bo_reserve_slowpath; then the list is gone through once more.  That it is
\* given up after TryLimit times (with this buffer reserved) is left out,
\* as NoStandstill says that it does not come to pass.
SlowPath(t) ==
  /\ At(t, "slow") /\ bos[BoAt(t)].holder = Nil
  /\ bos' = [bos EXCEPT ![BoAt(t)].holder = t]
  /\ push' = [push EXCEPT ![t].pc = "reserve", ![t].then = "idle", ![t].res = BoAt(t),
                          ![t].got = <<push[t].i>>, ![t].i = 1, ![t].tries = @ + 1]
  /\ OfReserve

AllReserved(t) ==
  /\ At(t, "reserve") /\ ~More(t)
  /\ push' = [push EXCEPT ![t].pc = "list", ![t].i = 1, ![t].k = 1, ![t].tries = 1]
  /\ UNCHANGED bos /\ OfReserve

-----------------------------------------------------------------------------
(* validate_list.                                                          *)

Listing(t) == At(t, "list") /\ push[t].k <= Len(OpList(t))
Ith(t) == OpList(t)[push[t].k]
BoOf(t) == Entry(t, Ith(t)).bo
InPlace(t) == bos[BoOf(t)].place \in Allowed(t, Ith(t))
Room == Cardinality({b \in Bos : bos[b].place = "vram"}) < VramRoom

MoveJob(b, place) ==
  LET at == [x \in {b} |-> place]
  IN  [k |-> "job", uses |-> [x \in {b} |-> TRUE], place |-> at, at |-> at, loose |-> FALSE]

\* nouveau_bo_move, nouveau_bo_move_m2mf: the buffer is idle, the kernel's
\* channel copies it, and its fence is the buffer's exclusive fence.
MoveTo(b, place) ==
  /\ BoIdle(b)
  /\ ring' = [ring EXCEPT ![Kernel] =
                @ \o FenceSync(b, Kernel, TRUE)
                  \o <<MoveJob(b, place), FenceItem>>]
  /\ bos' = [bos EXCEPT ![b] = [Attach(@, NextFence(Kernel), TRUE) EXCEPT !.place = place]]

\* nouveau_gem_set_domain and nouveau_bo_validate of a buffer that is
\* somewhere else; the fence of a move can be emitted.
Move(t) ==
  /\ Listing(t) /\ ~InPlace(t)
  /\ \E place \in Allowed(t, Ith(t)) :
       /\ place = "vram" => Room
       /\ MoveTo(BoOf(t), place)
  /\ UNCHANGED <<push, executing, tickets, family>>

Victims == {b \in Bos : bos[b].holder = Nil /\ bos[b].place = "vram"}

\* TTM makes room: a buffer that nobody has reserved goes to GART.
Evict(t) ==
  /\ Listing(t) /\ ~InPlace(t) /\ "vram" \in Allowed(t, Ith(t)) /\ ~Room
  /\ \E b \in Victims : MoveTo(b, "gart")
  /\ UNCHANGED <<push, executing, tickets, family>>

\* TTM finds nothing to evict; it would wait for a younger client's buffer.
NoSpace(t) ==
  /\ Listing(t) /\ ~InPlace(t) /\ Allowed(t, Ith(t)) = {"vram"} /\ ~Room
  /\ \A b \in Bos : bos[b].place = "vram" => bos[b].holder = t \/ MayBeOlder(bos[b].holder, t)
  /\ Fail(t)
  /\ UNCHANGED <<bos, ring, executing, tickets, family>>

\* A signal ends the wait for a reservation, or for a buffer to be moved:
\* -ERESTARTSYS.  So does a stale context for one's own: -EALREADY.
Interrupted(t) ==
  /\ \/ (More(t) \/ At(t, "slow")) /\ bos[BoAt(t)].holder \notin {t, Nil}
     \/ Listing(t) /\ ~InPlace(t)
  /\ Fail(t)
  /\ UNCHANGED bos /\ OfReserve

\* nouveau_fence_sync, and on older GPUs whether the commands need relocation.
Validated(t) ==
  /\ Listing(t) /\ InPlace(t)
  /\ LET b == BoOf(t)
         wrong == family = "older" /\ push[t].presumed[b] # bos[b].place
     IN  /\ ring' = [ring EXCEPT ![t] = @ \o FenceSync(b, t, Entry(t, Ith(t)).write)]
         /\ push' = [push EXCEPT ![t].k = @ + 1,
                                 ![t].presumed[b] = IF wrong THEN bos[b].place ELSE @,
                                 ![t].invalid = IF wrong THEN @ \cup {b} ELSE @,
                                 ![t].reloc = @ \/ wrong]
  /\ UNCHANGED <<bos, executing, tickets, family>>

-----------------------------------------------------------------------------
(* Relocations, submission, the fence, and validate_fini.                  *)

AllValidated(t) == At(t, "list") /\ ~Listing(t)
OfCall == UNCHANGED <<bos, executing, tickets, family>>

\* The relocations are copied from user space with nothing reserved ...
DropForRelocs(t) ==
  /\ AllValidated(t) /\ push[t].reloc /\ ~push[t].relocs
  /\ push' = [push EXCEPT ![t].pc = "fini", ![t].then = "copy"]
  /\ UNCHANGED ring /\ OfCall

\* ... and everything is validated again: with what this found is presumed.
Revalidate(t) ==
  /\ At(t, "copy")
  /\ push' = [push EXCEPT ![t].pc = "reserve", ![t].i = 1, ![t].res = Nil, ![t].tries = 1,
                          ![t].relocs = TRUE, ![t].reloc = FALSE, ![t].k = 1, ![t].then = "idle"]
  /\ tickets' = Append(tickets, t)
  /\ UNCHANGED <<bos, ring, executing, family>>

CopyFails(t) ==
  /\ At(t, "copy")
  /\ push' = [push EXCEPT ![t] = Idle]
  /\ UNCHANGED ring /\ OfCall

\* nouveau_gem_pushbuf_reloc_apply, to commands in the first buffer.
RelocApply(t) ==
  /\ AllValidated(t) /\ push[t].reloc /\ push[t].relocs
  /\ BoIdle(Entry(t, 1).bo)
  /\ push' = [push EXCEPT ![t].pc = "submit",
                          ![t].cmds = [b \in DOMAIN @ |-> IF b \in push[t].invalid
                                                          THEN push[t].presumed[b] ELSE @[b]]]
  /\ UNCHANGED ring /\ OfCall

\* It refuses relocations that are malformed.
RelocFails(t) ==
  /\ AllValidated(t) /\ push[t].reloc /\ push[t].relocs
  /\ Fail(t)
  /\ UNCHANGED ring /\ OfCall

Ready(t) == At(t, "submit") \/ (AllValidated(t) /\ ~push[t].reloc)

UserJob(t) == Job(Uses(t), push[t].cmds)

\* nouveau_dma_wait and nv50_dma_push.  On older GPUs the commands only reach
\* the ring, and are executed once the fence is emitted.
Submit(t) ==
  /\ Ready(t)
  /\ PushTo(t, "fence")
  /\ ring' = IF family = "tesla" THEN [ring EXCEPT ![t] = Append(@, UserJob(t))] ELSE ring
  /\ OfCall

\* There is no room in the push buffer, and the GPU hangs.
SubmitFails(t) ==
  /\ Ready(t)
  /\ Fail(t)
  /\ UNCHANGED ring /\ OfCall

\* nouveau_fence_new.
FenceNew(t) ==
  /\ At(t, "fence")
  /\ ring' = [ring EXCEPT ![t] = IF family = "tesla" THEN Append(@, FenceItem)
                                 ELSE @ \o <<UserJob(t), FenceItem>>]
  /\ Finish(t, IF push[t].req.sync THEN "wait" ELSE "fini", NextFence(t))
  /\ OfCall

\* WIND_RING takes the commands of older GPUs back; an entry of the IB that
\* the GPU has been told of stays.
FenceNewFails(t) ==
  /\ At(t, "fence")
  /\ ring' = IF family = "tesla" /\ ring[t] # <<>>
             THEN [ring EXCEPT ![t][Len(ring[t])].loose = TRUE] ELSE ring
  /\ Fail(t)
  /\ OfCall

\* NOUVEAU_GEM_PUSHBUF_SYNC: the buffers stay reserved meanwhile.
SyncDone(t) ==
  /\ At(t, "wait") /\ Signalled(push[t].fence)
  /\ PushTo(t, "fini")
  /\ UNCHANGED ring /\ OfCall

\* A turn of validate_fini_no_ticket.
FiniStep(t) ==
  /\ At(t, "fini") /\ push[t].got # <<>>
  /\ LET i == OpList(t)[1]
         b == Entry(t, i).bo
         f == push[t].fence
         v == IF f = Nil THEN bos[b] ELSE Attach(bos[b], f, Entry(t, i).write)
     IN  /\ bos' = [bos EXCEPT ![b] = [v EXCEPT !.holder = Nil]]
         /\ push' = [push EXCEPT ![t].got = Those(@, ToSet(@) \ {i})]
  /\ UNCHANGED <<ring, executing, tickets, family>>

\* ww_acquire_fini, unless the call backs off to come again.
FiniEnd(t) ==
  /\ At(t, "fini") /\ push[t].got = <<>>
  /\ tickets' = IF push[t].then = "slow" THEN tickets ELSE SelectSeq(tickets, LAMBDA s : s # t)
  /\ push' = IF push[t].then = "idle" THEN [push EXCEPT ![t] = Idle]
             ELSE [push EXCEPT ![t].pc = push[t].then]
  /\ UNCHANGED <<bos, ring, executing, family>>

-----------------------------------------------------------------------------
(* The GPU.                                                                *)

HeadIs(c, k) == ring[c] # <<>> /\ Head(ring[c]).k = k
Pop(c) == [ring EXCEPT ![c] = Tail(@)]

GpuAcquire(c) ==
  /\ HeadIs(c, "acquire") /\ Signalled(Head(ring[c]).fence)
  /\ ring' = Pop(c)
  /\ UNCHANGED <<bos, push, executing, tickets, family>>

GpuStart(c) ==
  /\ HeadIs(c, "job") /\ c \notin executing
  /\ executing' = executing \cup {c}
  /\ UNCHANGED <<bos, push, ring, tickets, family>>

GpuFinish(c) ==
  /\ c \in executing
  /\ executing' = executing \ {c}
  /\ ring' = Pop(c)
  /\ UNCHANGED <<bos, push, tickets, family>>

\* The fence signals, and those of channel c after it are a number nearer.
Nearer(c, f) == IF f # Nil /\ f[1] = c /\ f[2] > 0 THEN <<c, f[2] - 1>> ELSE f

GpuFence(c) ==
  /\ HeadIs(c, "fence")
  /\ ring' = [d \in Channels |->
                [i \in DOMAIN Pop(c)[d] |->
                   LET x == Pop(c)[d][i]
                   IN  IF x.k = "acquire" THEN Acquire(Nearer(c, x.fence)) ELSE x]]
  /\ bos' = [b \in Bos |-> [bos[b] EXCEPT !.excl = Nearer(c, @), !.shared = {Nearer(c, f) : f \in @}]]
  /\ push' = [t \in Clients |-> [push[t] EXCEPT !.fence = Nearer(c, @)]]
  /\ UNCHANGED <<executing, tickets, family>>

-----------------------------------------------------------------------------

CallStep(t) ==
  \/ SkipReserved(t) \/ Duplicate(t) \/ Reserve(t) \/ NoVma(t) \/ BackOff(t) \/ SlowPath(t) \/ AllReserved(t)
  \/ Move(t) \/ Evict(t) \/ NoSpace(t) \/ Validated(t)
  \/ DropForRelocs(t) \/ Revalidate(t) \/ CopyFails(t) \/ RelocApply(t) \/ RelocFails(t)
  \/ Submit(t) \/ SubmitFails(t) \/ FenceNew(t) \/ FenceNewFails(t) \/ SyncDone(t)
  \/ FiniStep(t) \/ FiniEnd(t)

ChannelStep(c) == GpuAcquire(c) \/ GpuStart(c) \/ GpuFinish(c) \/ GpuFence(c)

GemNext ==
  \/ \E t \in Clients : PushStart(t) \/ CallStep(t) \/ Interrupted(t)
  \/ \E c \in Channels : ChannelStep(c)

GemSpec == GemInit /\ [][GemNext]_gemVars

-----------------------------------------------------------------------------
(* Properties.                                                             *)

Fenced(c) == {ring[c][i] : i \in {j \in DOMAIN ring[c] : ring[c][j].k = "job" /\ ~ring[c][j].loose}}

\* A reservation and a fence keep a buffer where the commands that were
\* validated with it find it, from validation until the GPU has executed them
\* (validate_list, validate_fini, nouveau_bo_move), ...
Stays ==
  \A c \in Channels : \A j \in Fenced(c) : \A b \in DOMAIN j.uses : j.place[b] = bos[b].place

\* ... and no two channels work on a buffer at a time that one of them writes,
\* or that is being moved (nouveau_fence_sync).  Commands whose fence could not
\* be emitted are not tracked.
Ordered ==
  \A c, d \in executing : c # d =>
    LET j == Head(ring[c])
        l == Head(ring[d])
    IN  j.loose \/ l.loose
          \/ \A b \in DOMAIN j.uses \cap DOMAIN l.uses : ~j.uses[b] /\ ~l.uses[b]

GpuCoherent == Stays /\ Ordered

\* What a client has reserved is what it has to release, and nothing is
\* reserved while it waits for a reservation on the slow path; ...
ReservedExact ==
  /\ \A t \in Clients :
       /\ {b \in Bos : bos[b].holder = t} = {Entry(t, i).bo : i \in ToSet(push[t].got)}
       /\ At(t, "slow") => push[t].got = <<>>
       /\ t \in ToSet(tickets) <=> push[t].pc \notin {"idle", "copy"}
  /\ IsInjective(tickets)

\* ... so that calls that want the buffers of each other never stand still, with
\* whatever waits they are in, and validate_init never comes near to giving up.
\* Exempt is what follows a reservation lost by NoVma (nouveau_gem.c:446-451):
\* whoever wants the buffer then waits for good, or until a signal.
NobodyLost == \A b \in Bos : bos[b].holder # Lost
Waits(t) == push[t].pc \in {"idle", "reserve", "slow", "list", "wait"}
NoStandstill ==
  /\ ReservedExact
  /\ \A t \in Clients : push[t].tries <= TryLimit
  /\ NobodyLost /\ executing = {} /\ (\A t \in Clients : Waits(t)) /\ (\E t \in Clients : ~At(t, "idle")) =>
       ENABLED ((\E t \in Clients : CallStep(t)) \/ (\E c \in Channels : ChannelStep(c)))

\* "Apply any relocations that are required" (nouveau_gem_ioctl_pushbuf): what
\* the GPU is given to execute refers to each buffer where it is.
RelocsApplied ==
  family = "older" =>
    \A t \in Clients : \A j \in Fenced(t) : j.at = j.place
=============================================================================
