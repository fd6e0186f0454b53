---------------------------- MODULE NvkmRunlist ----------------------------
(***************************************************************************)
(* Runlists and the recovery of channels: nvkm/engine/fifo/gk104.c and     *)
(* gpfifogk104.c.                                                          *)
(*                                                                         *)
(* A runlist is a list of channels, changed and walked under the mutex of  *)
(* the subdev, but by the recovery of a channel, which holds the spinlock  *)
(* fifo->base.lock instead.  `walk` is the walk of                         *)
(* gk104_fifo_runlist_update, `sect` the section under the spinlock, with  *)
(* the calls it has still to make; nvkm_mask of a register both sides      *)
(* change is a read and a write.  A channel is killed by the interrupt or  *)
(* by its own thread when preempting it times out; the worker then resets  *)
(* its engines and gives the hardware the list without it.                 *)
(***************************************************************************)
EXTENDS Integers, Sequences, SequencesExt, FiniteSetsExt, Functions

CONSTANTS
  Chans,      \* channels, each with a thread that initialises and finishes it
  Runlists,   \* numbers of the runlists
  Engines,    \* numbers of the engines
  RunlOf,     \* the runlist of each channel
  EngRunl,    \* the runlist of each engine
  Residents,  \* channels that are there from the start and stay
  Nobody,
  MaxEvents   \* bound on the inits of channels, faults and hangs

Recovery == "worker"
Intr == "intr"
Over == "over"

ASSUME RunlistAssumption ==
  /\ Runlists \subseteq Nat /\ Engines \subseteq Nat
  /\ IsFiniteSet(Chans) /\ IsFiniteSet(Engines)
  /\ RunlOf \in [Chans -> Runlists] /\ EngRunl \in [Engines -> Runlists]
  /\ Residents \subseteq Chans
  /\ {Nobody, Recovery, Intr, Over} \cap Chans = {}
  /\ Nobody \notin Runlists /\ Nobody \notin {Recovery, Intr}

VARIABLES
  runlist,   \* fifo->runlist[].chan
  dead,      \* the channels with chan->killed
  bound,     \* 0x800000: the channels whose instance the hardware has
  usable,    \* 0x800004: the channels the hardware may run
  blocked,   \* 0x002630: the runlists the hardware may not schedule from
  hwlist,    \* the list the hardware was last given of each runlist
  on, stuck, \* the channel on each engine; the engines that are stuck
  holder,    \* who has the mutex of the subdev
  walk,      \* the walk of gk104_fifo_runlist_update
  recover,   \* fifo->recover: engm, runm, and whether the work is queued
  sect,      \* the section under fifo->base.lock
  worker,    \* gk104_fifo_recover_work
  owner,     \* where the thread of each channel is
  events     \* how many inits, faults and hangs there have been

hostVars == <<bound, usable, blocked, hwlist, on, stuck>>
listVars == <<runlist, dead>>
mutexVars == <<holder, walk>>
lockVars == <<recover, sect>>
swVars == <<listVars, mutexVars, lockVars, worker, owner, events>>
runlVars == <<hostVars, swVars>>

NoWalk == [runl |-> Nobody, at |-> Over, buf |-> <<>>]
NoSect == [by |-> Nobody, calls |-> <<>>, seen |-> {}]
NoWork == [pc |-> "idle", engm |-> {}, runm |-> {}, todo |-> {}, seen |-> {}]

RunlInit ==
  /\ hwlist = [r \in Runlists |-> {c \in Residents : RunlOf[c] = r}]
  /\ runlist = [r \in Runlists |-> SetToSeq(hwlist[r])] /\ dead = {}
  /\ bound = Residents /\ usable = Residents /\ blocked = {}
  /\ on = [e \in Engines |-> Nobody] /\ stuck = {}
  /\ holder = Nobody /\ walk = NoWalk
  /\ recover = [engm |-> {}, runm |-> {}, queued |-> FALSE]
  /\ sect = NoSect /\ worker = NoWork
  /\ owner = [c \in Chans |-> IF c \in Residents THEN "on" ELSE "off"]
  /\ events = 0

OwnerAt(c, pc) == owner[c] = pc
Happens == events < MaxEvents /\ events' = events + 1
MoveTo(c, pc) == owner' = [owner EXCEPT ![c] = pc]
Listed(c) == c \in Range(runlist[RunlOf[c]])

-----------------------------------------------------------------------------
(* gk104_fifo_runlist_update, by a thread or by the worker.                *)

FirstOf(r) == IF runlist[r] = <<>> THEN Over ELSE Head(runlist[r])

UpdateBegin(x, r) ==
  /\ holder = Nobody /\ holder' = x
  /\ walk' = [runl |-> r, at |-> FirstOf(r), buf |-> <<>>]

\* The walk stands on a channel that recovery has taken off: its next is
\* itself, and the walk never ends.
Lost == walk.at # Over /\ walk.at \notin Range(runlist[walk.runl])

After(c, list) ==
  LET i == CHOOSE j \in DOMAIN list : list[j] = c
  IN  IF i = Len(list) THEN Over ELSE list[i + 1]

WalkStep ==
  /\ walk.at # Over /\ ~Lost
  /\ walk' = [walk EXCEPT !.at = After(walk.at, runlist[walk.runl]),
                          !.buf = Append(@, walk.at)]
  /\ UNCHANGED <<hostVars, listVars, holder, lockVars, worker, owner, events>>

\* The hardware takes the list when it is told to.
Commit(x) ==
  /\ holder = x /\ walk.runl # Nobody /\ walk.at = Over
  /\ hwlist' = [hwlist EXCEPT ![walk.runl] = Range(walk.buf)]
  /\ walk' = NoWalk /\ holder' = Nobody

-----------------------------------------------------------------------------
(* Sections under fifo->base.lock: nvkm_fifo_recover_chan, and the handlers *)
(* of faults and of scheduling errors.                                      *)

Chan(c) == [k |-> "chan", of |-> c]
Engn(e) == [k |-> "engn", of |-> e, chan |-> Nobody]
EngnIf(e, c) == [k |-> "engn", of |-> e, chan |-> c]
Status(e) == [k |-> "status", of |-> e]
Mask(r) == [k |-> "mask", of |-> r]

Enter(x, calls) ==
  /\ sect.by = Nobody
  /\ sect' = [by |-> x, calls |-> calls, seen |-> {}]

Calling(k) == sect.calls # <<>> /\ Head(sect.calls).k = k
Of == Head(sect.calls).of
Then(calls) ==
  sect' = IF calls \o Tail(sect.calls) = <<>> /\ sect.by = Intr THEN NoSect
          ELSE [sect EXCEPT !.calls = calls \o Tail(@), !.seen = {}]
Returns == Then(<<>>)

\* gk104_fifo_recover_runl, up to the read of its nvkm_mask; then the calls.
RecoverRunl(r, engm, calls) ==
  /\ recover' = [recover EXCEPT !.engm = engm, !.runm = @ \cup {r}]
  /\ IF r \in recover.runm THEN Then(calls)
     ELSE sect' = [sect EXCEPT !.calls = <<Mask(r)>> \o calls \o Tail(@), !.seen = blocked]

\* The write, and the work is scheduled.
RecoverMask ==
  /\ Calling("mask") /\ Returns
  /\ blocked' = sect.seen \cup {Of}
  /\ recover' = [recover EXCEPT !.queued = TRUE]
  /\ UNCHANGED <<bound, usable, hwlist, on, stuck, listVars, mutexVars, worker, owner, events>>

\* for_each_set_bit.
InOrder(S) ==
  [i \in 1 .. Cardinality(S) |-> CHOOSE e \in S : Cardinality({f \in S : f <= e}) = i]

EnginesOf(r) == InOrder({e \in Engines : EngRunl[e] = r})

\* gk104_fifo_recover_chan.
RecoverChan ==
  /\ Calling("chan")
  /\ LET r == RunlOf[Of] IN
     IF Of \notin usable THEN Returns /\ UNCHANGED <<listVars, usable, recover>>
     ELSE /\ runlist' = [runlist EXCEPT ![r] = RemoveFirst(@, Of)]
          /\ dead' = IF Listed(Of) THEN dead \cup {Of} ELSE dead
          /\ usable' = usable \ {Of}
          /\ RecoverRunl(r, recover.engm,
               [i \in DOMAIN EnginesOf(r) |-> EngnIf(EnginesOf(r)[i], Of)])
  /\ UNCHANGED <<bound, blocked, hwlist, on, stuck, mutexVars, worker, owner, events>>

\* gk104_fifo_recover_engn, of gk104_fifo_recover_chan only if the channel is
\* on the engine.
RecoverEngn ==
  /\ Calling("engn")
  /\ IF Of \in recover.engm \/ Head(sect.calls).chan \notin {Nobody, on[Of]}
     THEN Returns /\ UNCHANGED recover
     ELSE RecoverRunl(EngRunl[Of], recover.engm \cup {Of}, <<Status(Of)>>)
  /\ UNCHANGED <<hostVars, listVars, mutexVars, worker, owner, events>>

\* The rest of it: the channel on the engine is killed, the work scheduled.
RecoverStatus ==
  /\ Calling("status")
  /\ Then(IF on[Of] # Nobody THEN <<Chan(on[Of])>> ELSE <<>>)
  /\ recover' = [recover EXCEPT !.queued = TRUE]
  /\ UNCHANGED <<hostVars, listVars, mutexVars, worker, owner, events>>

SectStep == RecoverChan \/ RecoverEngn \/ RecoverStatus \/ RecoverMask

\* gk104_fifo_fault: the engine of the fault, and the channel if it is known.
Fault(e) ==
  /\ Happens
  /\ \E found \in BOOLEAN :
       Enter(Intr, (IF found /\ on[e] # Nobody THEN <<Chan(on[e])>> ELSE <<>>) \o <<Engn(e)>>)
  /\ UNCHANGED <<hostVars, listVars, mutexVars, recover, worker, owner>>

\* gk104_fifo_intr_sched_ctxsw.
SchedCtxsw ==
  /\ stuck # {}
  /\ \E e \in stuck : e \notin recover.engm
  /\ Enter(Intr, LET s == InOrder(stuck) IN [i \in DOMAIN s |-> Engn(s[i])])
  /\ UNCHANGED <<hostVars, listVars, mutexVars, recover, worker, owner, events>>

-----------------------------------------------------------------------------
(* gk104_fifo_recover_work.                                                 *)

Working(pc) == worker.pc = pc
OfWork == UNCHANGED <<bound, usable, listVars, sect, owner, events>>

WorkDequeue ==
  /\ Working("idle") /\ recover.queued
  /\ recover' = [recover EXCEPT !.queued = FALSE]
  /\ worker' = [worker EXCEPT !.pc = "take"]
  /\ OfWork /\ UNCHANGED <<blocked, hwlist, on, stuck, mutexVars>>

\* The runlists are not forgotten.
WorkTakeBug ==
  /\ Working("take") /\ sect.by = Nobody
  /\ worker' = [worker EXCEPT !.pc = "block", !.engm = recover.engm, !.runm = recover.runm,
                          !.todo = recover.runm]
  /\ recover' = [recover EXCEPT !.engm = {}]
  /\ OfWork /\ UNCHANGED <<blocked, hwlist, on, stuck, mutexVars>>

WorkTake ==
  /\ Working("take") /\ sect.by = Nobody
  /\ worker' = [worker EXCEPT !.pc = "block", !.engm = recover.engm, !.runm = recover.runm,
                          !.todo = recover.runm]
  /\ recover' = [recover EXCEPT !.engm = {}, !.runm = {}]
  /\ OfWork /\ UNCHANGED <<blocked, hwlist, on, stuck, mutexVars>>

\* nvkm_mask of 0x002630, before and after: a read, then a write.
WorkRead ==
  /\ \/ Working("block") /\ worker' = [worker EXCEPT !.pc = "blocking", !.seen = blocked]
     \/ /\ Working("engines") /\ worker.engm = {} /\ worker.todo = {} /\ holder # Recovery
        /\ worker' = [worker EXCEPT !.pc = "unblocking", !.seen = blocked]
  /\ OfWork /\ UNCHANGED <<blocked, hwlist, on, stuck, mutexVars, recover>>

WorkWrite ==
  /\ \/ /\ Working("blocking") /\ blocked' = worker.seen \cup worker.runm
        /\ worker' = [worker EXCEPT !.pc = "engines", !.seen = {}]
     \/ /\ Working("unblocking") /\ blocked' = worker.seen \ worker.runm
        /\ worker' = NoWork
  /\ OfWork /\ UNCHANGED <<hwlist, on, stuck, mutexVars, recover>>

\* nvkm_subdev_fini and nvkm_subdev_init of an engine reset it.
WorkReset ==
  /\ Working("engines") /\ worker.engm # {}
  /\ LET e == Min(worker.engm) IN
       /\ on' = [on EXCEPT ![e] = Nobody] /\ stuck' = stuck \ {e}
       /\ worker' = [worker EXCEPT !.engm = @ \ {e}]
  /\ OfWork /\ UNCHANGED <<blocked, hwlist, mutexVars, recover>>

WorkUpdate ==
  /\ Working("engines") /\ worker.engm = {} /\ worker.todo # {}
  /\ UpdateBegin(Recovery, Min(worker.todo))
  /\ worker' = [worker EXCEPT !.todo = @ \ {Min(@)}]
  /\ OfWork /\ UNCHANGED <<blocked, hwlist, on, stuck, recover>>

WorkCommit ==
  /\ Commit(Recovery)
  /\ OfWork /\ UNCHANGED <<blocked, on, stuck, recover, worker>>

RecoverWorkStep == WorkDequeue \/ WorkTake \/ WorkRead \/ WorkWrite \/ WorkReset \/ WorkUpdate \/ WorkCommit

-----------------------------------------------------------------------------
(* gk104_fifo_gpfifo_init of a channel.                                     *)

\* The checks of chan->head and chan->killed take no lock.
ChanInit(c) ==
  /\ OwnerAt(c, "off") /\ Happens
  /\ bound' = bound \cup {c}
  /\ MoveTo(c, IF ~Listed(c) /\ c \notin dead THEN "insert" ELSE "on")
  /\ UNCHANGED <<usable, blocked, hwlist, on, stuck, listVars, mutexVars, lockVars, worker>>

RunlistInsert(c) ==
  /\ OwnerAt(c, "insert") /\ MoveTo(c, "enable") /\ holder = Nobody
  /\ runlist' = [runlist EXCEPT ![RunlOf[c]] = Append(@, c)]
  /\ UNCHANGED <<hostVars, dead, mutexVars, lockVars, worker, events>>

\* Before the update, and once more after it.
Enable(c) ==
  /\ \/ OwnerAt(c, "enable") /\ MoveTo(c, "insertUpdate")
     \/ OwnerAt(c, "enableAgain") /\ MoveTo(c, "on")
  /\ usable' = usable \cup {c}
  /\ UNCHANGED <<bound, blocked, hwlist, on, stuck, listVars, mutexVars, lockVars, worker, events>>

ChanUpdate(c) ==
  /\ \/ OwnerAt(c, "insertUpdate") /\ MoveTo(c, "inserted")
     \/ OwnerAt(c, "removeUpdate") /\ MoveTo(c, "removed")
  /\ UpdateBegin(c, RunlOf[c])
  /\ UNCHANGED <<hostVars, listVars, lockVars, worker, events>>

ChanCommit(c) ==
  /\ \/ OwnerAt(c, "inserted") /\ MoveTo(c, "enableAgain")
     \/ OwnerAt(c, "removed") /\ MoveTo(c, "unbind")
  /\ Commit(c)
  /\ UNCHANGED <<bound, usable, blocked, on, stuck, listVars, lockVars, worker, events>>

-----------------------------------------------------------------------------
(* nvkm_fifo_chan_child_fini of the last context, then                      *)
(* gk104_fifo_gpfifo_fini, of a channel that is suspended or goes.          *)

ChanFini(c) ==
  /\ OwnerAt(c, "on") /\ c \notin Residents /\ MoveTo(c, "detach")
  /\ UNCHANGED <<hostVars, listVars, mutexVars, lockVars, worker, events>>

\* gk104_fifo_gpfifo_kick: the engines that are not stuck let go of the
\* channel; if one is, its thread waits, under the mutex.
StuckOn(c) == \E e \in stuck : on[e] = c

GpfifoKick(c) ==
  /\ holder = Nobody
  /\ on' = [e \in Engines |-> IF on[e] = c /\ e \notin stuck THEN Nobody ELSE on[e]]
  /\ IF StuckOn(c)
     THEN /\ holder' = c
          /\ \/ OwnerAt(c, "detach") /\ MoveTo(c, "detaching")
             \/ OwnerAt(c, "kick") /\ MoveTo(c, "kicking")
     ELSE /\ UNCHANGED holder
          /\ \/ OwnerAt(c, "detach") /\ MoveTo(c, "fini")
             \/ OwnerAt(c, "kick") /\ MoveTo(c, "removeUpdate")
  /\ UNCHANGED <<bound, usable, blocked, hwlist, stuck, listVars, walk, lockVars, worker, events>>

\* The engine has been reset meanwhile, or the wait times out.
Kicked(c) ==
  /\ ~StuckOn(c) /\ sect.by # c
  /\ \/ OwnerAt(c, "detaching") /\ MoveTo(c, "fini")
     \/ OwnerAt(c, "kicking") /\ MoveTo(c, "removeUpdate")
  /\ holder' = Nobody
  /\ UNCHANGED <<hostVars, listVars, walk, lockVars, worker, events>>

KickTimesOut(c) ==
  /\ (OwnerAt(c, "detaching") \/ OwnerAt(c, "kicking")) /\ StuckOn(c)
  /\ Enter(c, <<Chan(c)>>)
  /\ UNCHANGED <<hostVars, listVars, mutexVars, recover, worker, owner, events>>

\* -ETIMEDOUT ends a suspend, and is ignored otherwise.
KickFails(c) ==
  /\ sect.by = c /\ sect.calls = <<>> /\ sect' = NoSect
  /\ \/ OwnerAt(c, "detaching") /\ \E pc \in {"on", "fini"} : MoveTo(c, pc)
     \/ OwnerAt(c, "kicking") /\ MoveTo(c, "removeUpdate")
  /\ holder' = Nobody
  /\ UNCHANGED <<hostVars, listVars, walk, recover, worker, events>>

GpfifoFini(c) ==
  /\ OwnerAt(c, "fini") /\ MoveTo(c, IF Listed(c) THEN "remove" ELSE "unbind")
  /\ UNCHANGED <<hostVars, listVars, mutexVars, lockVars, worker, events>>

RunlistRemove(c) ==
  /\ OwnerAt(c, "remove") /\ MoveTo(c, "disable") /\ holder = Nobody
  /\ runlist' = [runlist EXCEPT ![RunlOf[c]] = RemoveFirst(@, c)]
  /\ UNCHANGED <<hostVars, dead, mutexVars, lockVars, worker, events>>

Disable(c) ==
  /\ OwnerAt(c, "disable") /\ MoveTo(c, "kick")
  /\ usable' = usable \ {c}
  /\ UNCHANGED <<bound, blocked, hwlist, on, stuck, listVars, mutexVars, lockVars, worker, events>>

Unbind(c) ==
  /\ OwnerAt(c, "unbind") /\ MoveTo(c, "off")
  /\ bound' = bound \ {c}
  /\ UNCHANGED <<usable, blocked, hwlist, on, stuck, listVars, mutexVars, lockVars, worker, events>>

OwnerStep(c) ==
  \/ ChanInit(c) \/ RunlistInsert(c) \/ ChanUpdate(c) \/ ChanCommit(c) \/ Enable(c)
  \/ ChanFini(c) \/ GpfifoKick(c) \/ Kicked(c) \/ KickTimesOut(c) \/ KickFails(c)
  \/ GpfifoFini(c) \/ RunlistRemove(c) \/ Disable(c) \/ Unbind(c)

-----------------------------------------------------------------------------
(* The GPU.                                                                 *)

Load(e, c) ==
  /\ on[e] = Nobody /\ EngRunl[e] \notin blocked
  /\ c \in hwlist[EngRunl[e]] /\ c \in usable
  /\ on' = [on EXCEPT ![e] = c]
  /\ UNCHANGED <<bound, usable, blocked, hwlist, stuck, swVars>>

Yield(e) ==
  /\ on[e] # Nobody /\ e \notin stuck /\ EngRunl[e] \notin blocked
  /\ on' = [on EXCEPT ![e] = Nobody]
  /\ UNCHANGED <<bound, usable, blocked, hwlist, stuck, swVars>>

EngineHangs(e) ==
  /\ on[e] # Nobody /\ e \notin stuck
  /\ Happens
  /\ stuck' = stuck \cup {e}
  /\ UNCHANGED <<bound, usable, blocked, hwlist, on, listVars, mutexVars, lockVars, worker, owner>>

-----------------------------------------------------------------------------

RunlNext ==
  \/ \E c \in Chans : OwnerStep(c)
  \/ WalkStep \/ RecoverWorkStep \/ SectStep
  \/ \E e \in Engines : Fault(e) \/ Yield(e) \/ EngineHangs(e) \/ \E c \in Chans : Load(e, c)
  \/ SchedCtxsw

RunlSpec == RunlInit /\ [][RunlNext]_runlVars

-----------------------------------------------------------------------------

RunlTypeOK ==
  /\ runlist \in [Runlists -> Seq(Chans)] /\ \A r \in Runlists : IsInjective(runlist[r])
  /\ dead \subseteq Chans /\ bound \subseteq Chans /\ usable \subseteq Chans
  /\ blocked \subseteq Runlists /\ hwlist \in [Runlists -> SUBSET Chans]
  /\ on \in [Engines -> Chans \cup {Nobody}] /\ stuck \subseteq Engines
  /\ walk.runl # Nobody => holder # Nobody

\* The worker has yet to give the hardware the list of r.
Pending(r) ==
  \/ r \in recover.runm /\ (recover.queued \/ Working("take") \/ Calling("mask"))
  \/ r \in worker.todo
  \/ holder = Recovery /\ walk.runl = r

\* A killed channel is off its list, and will be off that of the hardware:
\* while the hardware has it, or is about to be given it by a walk that had
\* passed it, the worker still has to give the hardware the list of that
\* runlist (gk104_fifo_recover_chan, gk104_fifo_recover_work).
DeadLeaving ==
  \A c \in dead : LET r == RunlOf[c] IN
    /\ ~Listed(c)
    /\ c \in hwlist[r] => Pending(r)
    /\ walk.runl = r /\ c \in Range(walk.buf) => r \in recover.runm \cup worker.todo

\* An engine on a channel whose instance is gone will be reset, or is stuck
\* and will raise a scheduling error, unless the thread of the channel enabled
\* it when it was killed already.  A section under way is waited for before
\* the instance is freed (nvkm_fifo_chan_dtor).
UnboundReset ==
  sect.by = Nobody => \A e \in Engines :
    on[e] # Nobody /\ on[e] \notin bound =>
      e \in recover.engm \cup worker.engm \cup stuck \/ on[e] \in dead \cap usable

ChannelRetired == DeadLeaving /\ UnboundReset

\* Channel assignments are blocked "from changing during recovery"
\* (gk104_fifo_recover_runl): once no recovery is left to be done, no runlist
\* is blocked any more.
Unblocked ==
  ~recover.queued /\ Working("idle") /\ sect.by = Nobody => blocked = {}
=============================================================================
