----------------------------- MODULE NvkmNotify -----------------------------
(***************************************************************************)
(* The event and notification core of NVKM: nvkm/core/event.c and          *)
(* nvkm/core/notify.c.                                                     *)
(*                                                                         *)
(* An nvkm_event counts, for every (index, type) slot, the notifies that   *)
(* want it, and switches its source on and off (func->init, func->fini)    *)
(* as that count leaves and reaches zero.  A notify is switched by its     *)
(* users (nvkm_notify_get, nvkm_notify_put) through the USER bit, and by   *)
(* every delivery, which blocks the notify until its callback has          *)
(* answered KEEP or DROP.  Two spinlocks protect this: refs_lock, whose    *)
(* sections are short and are single steps here, and list_lock, which a    *)
(* send holds over all its callbacks and which is therefore explicit: it   *)
(* is held exactly when send.pc # "idle".                                  *)
(*                                                                         *)
(* What a thread reads without a lock (the USER bit, by test_and_set_bit   *)
(* and test_and_clear_bit) is a step of its own, so every interleaving of  *)
(* users, the sender and the workers that the code allows is a behaviour.  *)
(*                                                                         *)
(* An operator whose name ends in Bug is a mistake that the definition     *)
(* after it does not make; nothing uses it, and the README says which      *)
(* property each one breaks.                                               *)
(***************************************************************************)
EXTENDS Integers, FiniteSets, SequencesExt

CONSTANTS
  Notifies,    \* the nvkm_notify structures attached to the event
  NoNotify,    \* what an idle user works on
  Users,       \* threads that call get, put, init and fini
  Work,        \* the notifies initialised with work = true
  Index,       \* event->index_nr indices
  Type,        \* event->types_nr types
  IndexOf,     \* IndexOf[n]: notify->index, set by the event's ctor
  TypesOf,     \* TypesOf[n]: notify->types, a set of types
  Serialized   \* TRUE: the callers never operate on one notify concurrently

ASSUME NotifyAssumption ==
  /\ IsFiniteSet(Notifies)
  /\ IsFiniteSet(Users)
  /\ NoNotify \notin Notifies
  /\ Work \subseteq Notifies
  /\ IndexOf \in [Notifies -> Index]
  /\ TypesOf \in [Notifies -> SUBSET Type]
  /\ Serialized \in BOOLEAN

VARIABLES
  live,   \* notify->event # NULL
  flag,   \* NVKM_NOTIFY_USER
  block,  \* notify->block
  refs,   \* event->refs, one counter per slot
  hw,     \* whether the source of a slot is on (last func->init or fini)
  queue,  \* event->list, in registration order
  send,   \* the nvkm_event_send in progress, if any: it holds list_lock
  work,   \* the work item of a notify of Work: pending, and its worker
  user    \* what each thread is doing

vars == <<live, flag, block, refs, hw, queue, send, work, user>>

Slots == Index \X Type

SlotsOf(n) == {IndexOf[n]} \X TypesOf[n]

SendIdle == [pc |-> "idle", slots |-> {}, pos |-> 0]
WorkIdle == [pc |-> "idle", pending |-> FALSE]
UserIdle == [pc |-> "idle", n |-> NoNotify, fini |-> FALSE]

Init ==
  /\ live = [n \in Notifies |-> FALSE]
  /\ flag = [n \in Notifies |-> FALSE]
  /\ block = [n \in Notifies |-> 1]
  /\ refs = [s \in Slots |-> 0]
  /\ hw = [s \in Slots |-> FALSE]
  /\ queue = <<>>
  /\ send = SendIdle
  /\ work = [n \in Notifies |-> WorkIdle]
  /\ user = [u \in Users |-> UserIdle]

-----------------------------------------------------------------------------
(* The sections under refs_lock.                                           *)

\* nvkm_event_get: the first reference to a slot switches its source on.
EventGet(n) ==
  /\ refs' = [s \in Slots |-> IF s \in SlotsOf(n) THEN refs[s] + 1 ELSE refs[s]]
  /\ hw' = [s \in Slots |->
              IF s \in SlotsOf(n) /\ refs[s] + 1 = 1 THEN TRUE ELSE hw[s]]

\* nvkm_event_put: the last reference to a slot switches its source off.
EventPut(n) ==
  /\ refs' = [s \in Slots |-> IF s \in SlotsOf(n) THEN refs[s] - 1 ELSE refs[s]]
  /\ hw' = [s \in Slots |->
              IF s \in SlotsOf(n) /\ refs[s] - 1 = 0 THEN FALSE ELSE hw[s]]

GetLocked(n) ==
  /\ block' = [block EXCEPT ![n] = @ - 1]
  /\ IF block[n] - 1 = 0 THEN EventGet(n) ELSE UNCHANGED <<refs, hw>>

\* ++block where the code has block++.
PutLockedBug(n) ==
  /\ block' = [block EXCEPT ![n] = @ + 1]
  /\ IF block[n] + 1 = 0 THEN EventPut(n) ELSE UNCHANGED <<refs, hw>>

PutLocked(n) ==
  /\ block' = [block EXCEPT ![n] = @ + 1]
  /\ IF block[n] = 0 THEN EventPut(n) ELSE UNCHANGED <<refs, hw>>

-----------------------------------------------------------------------------
(* The users of a notify.                                                  *)

\* nvkm_notify_init.  The list insertion waits for list_lock.  The memory of
\* a notify is reused only when nothing refers to it.
NotifyInit(u, n) ==
  /\ user[u].pc = "idle" /\ ~live[n]
  /\ send.pc = "idle" /\ work[n] = WorkIdle
  /\ live' = [live EXCEPT ![n] = TRUE]
  /\ flag' = [flag EXCEPT ![n] = FALSE]
  /\ block' = [block EXCEPT ![n] = 1]
  /\ queue' = Append(queue, n)
  /\ UNCHANGED <<refs, hw, send, work, user>>

\* nvkm_notify_get up to refs_lock: test_and_set_bit(USER).
NotifyGet(u, n) ==
  /\ user[u].pc = "idle"
  /\ IF live[n] /\ ~flag[n]
     THEN /\ flag' = [flag EXCEPT ![n] = TRUE]
          /\ user' = [user EXCEPT ![u] = [pc |-> "get", n |-> n, fini |-> FALSE]]
     ELSE UNCHANGED <<flag, user>>
  /\ UNCHANGED <<live, block, refs, hw, queue, send, work>>

\* nvkm_notify_put up to refs_lock: test_and_clear_bit(USER); with fini, the
\* put that nvkm_notify_fini starts with, after which it goes on to list_del.
NotifyPut(u, n, fini) ==
  /\ user[u].pc = "idle"
  /\ LET next == IF live[n] /\ flag[n] THEN "put"
                 ELSE IF live[n] /\ fini THEN "del" ELSE "idle"
     IN  /\ flag' = [flag EXCEPT ![n] = @ /\ ~live[n]]
         /\ user' = [user EXCEPT ![u] =
               IF next = "idle" THEN UserIdle
               ELSE [pc |-> next, n |-> n, fini |-> fini]]
  /\ UNCHANGED <<live, block, refs, hw, queue, send, work>>

\* nvkm_notify_get_locked under refs_lock.
UserGetLocked(u) ==
  /\ user[u].pc = "get"
  /\ GetLocked(user[u].n)
  /\ user' = [user EXCEPT ![u] = UserIdle]
  /\ UNCHANGED <<live, flag, queue, send, work>>

AfterPut(u) == IF user[u].fini THEN [user[u] EXCEPT !.pc = "del"] ELSE UserIdle

\* nvkm_notify_put_locked under refs_lock.
UserPutLocked(u) ==
  /\ user[u].pc = "put"
  /\ PutLocked(user[u].n)
  /\ user' = [user EXCEPT ![u] =
        IF @.n \in Work THEN [@ EXCEPT !.pc = "flush"] ELSE AfterPut(u)]
  /\ UNCHANGED <<live, flag, queue, send, work>>

\* flush_work: waits for the work item that is pending or running now.
UserFlush(u) ==
  /\ user[u].pc = "flush"
  /\ work[user[u].n] = WorkIdle
  /\ user' = [user EXCEPT ![u] = AfterPut(u)]
  /\ UNCHANGED <<live, flag, block, refs, hw, queue, send, work>>

\* list_del without list_lock.
UserListDelBug(u) ==
  /\ user[u].pc = "del"
  /\ \E k \in DOMAIN queue :
       /\ queue[k] = user[u].n
       /\ queue' = RemoveAt(queue, k)
  /\ live' = [live EXCEPT ![user[u].n] = FALSE]
  /\ user' = [user EXCEPT ![u] = UserIdle]
  /\ UNCHANGED <<flag, block, refs, hw, send, work>>

\* The rest of nvkm_notify_fini: list_del under list_lock, event = NULL.
UserListDel(u) ==
  /\ user[u].pc = "del"
  /\ send.pc = "idle"
  /\ \E k \in DOMAIN queue :
       /\ queue[k] = user[u].n
       /\ queue' = RemoveAt(queue, k)
  /\ live' = [live EXCEPT ![user[u].n] = FALSE]
  /\ user' = [user EXCEPT ![u] = UserIdle]
  /\ UNCHANGED <<flag, block, refs, hw, send, work>>

-----------------------------------------------------------------------------
(* The sender: nvkm_event_send walks event->list under list_lock and calls *)
(* nvkm_notify_send for every notify of the index and types.               *)

Cur == queue[send.pos]

\* Takes list_lock, at the head of the list.
SendStart(i, ts) ==
  /\ send.pc = "idle"
  /\ send' = [pc |-> "next", slots |-> {i} \X ts, pos |-> 1]
  /\ UNCHANGED <<live, flag, block, refs, hw, queue, work, user>>

\* A return that leaves list_lock held.
SendEndBug ==
  /\ send.pc = "next" /\ send.pos > Len(queue)
  /\ send' = [send EXCEPT !.pc = "leaked"]
  /\ UNCHANGED <<live, flag, block, refs, hw, queue, work, user>>

\* The end of the list: drops list_lock.
SendEnd ==
  /\ send.pc = "next" /\ send.pos > Len(queue)
  /\ send' = SendIdle
  /\ UNCHANGED <<live, flag, block, refs, hw, queue, work, user>>

Wanted(n) == SlotsOf(n) \cap send.slots # {}

SendNext == send' = [send EXCEPT !.pc = "next", !.pos = @ + 1]

\* A notify of another slot, or one that is blocked, is passed over.
SendSkip ==
  /\ send.pc = "next" /\ send.pos \in DOMAIN queue
  /\ Wanted(Cur) => block[Cur] # 0
  /\ SendNext
  /\ UNCHANGED <<live, flag, block, refs, hw, queue, work, user>>

\* A delivery that does not block its notify.
SendBlockBug ==
  /\ send.pc = "next" /\ send.pos \in DOMAIN queue
  /\ Wanted(Cur) /\ block[Cur] = 0
  /\ send' = [send EXCEPT !.pc = IF Cur \in Work THEN "queue" ELSE "func"]
  /\ UNCHANGED <<live, flag, block, refs, hw, queue, work, user>>

\* An armed one is blocked for the time of its delivery.
SendBlock ==
  /\ send.pc = "next" /\ send.pos \in DOMAIN queue
  /\ Wanted(Cur) /\ block[Cur] = 0
  /\ PutLocked(Cur)
  /\ send' = [send EXCEPT !.pc = IF Cur \in Work THEN "queue" ELSE "func"]
  /\ UNCHANGED <<live, flag, queue, work, user>>

\* Deferred delivery: the data is copied and the work item scheduled, which
\* does nothing if it is pending already.
SendQueue ==
  /\ send.pc = "queue"
  /\ work' = [work EXCEPT ![Cur].pending = TRUE]
  /\ SendNext
  /\ UNCHANGED <<live, flag, block, refs, hw, queue, user>>

\* KEEP that forgets to re-arm.
SendFuncBug(keep) ==
  /\ send.pc = "func"
  /\ IF keep THEN SendNext ELSE send' = [send EXCEPT !.pc = "clear"]
  /\ UNCHANGED <<live, flag, block, refs, hw, queue, work, user>>

\* Direct delivery: notify->func returns, and KEEP goes on to refs_lock.
SendFunc(keep) ==
  /\ send.pc = "func"
  /\ send' = [send EXCEPT !.pc = IF keep THEN "rearm" ELSE "clear"]
  /\ UNCHANGED <<live, flag, block, refs, hw, queue, work, user>>

\* DROP that takes a notify its user has put for one it drops itself.
SendClearBug ==
  /\ send.pc = "clear"
  /\ flag' = [flag EXCEPT ![Cur] = FALSE]
  /\ SendNext
  /\ UNCHANGED <<live, block, refs, hw, queue, work, user>>

\* DROP: test_and_clear_bit(USER).  If a put has cleared it already, that put
\* has blocked the notify (or will), and this delivery undoes its own block.
SendClear ==
  /\ send.pc = "clear"
  /\ flag' = [flag EXCEPT ![Cur] = FALSE]
  /\ IF flag[Cur] THEN SendNext ELSE send' = [send EXCEPT !.pc = "rearm"]
  /\ UNCHANGED <<live, block, refs, hw, queue, work, user>>

SendRearm ==
  /\ send.pc = "rearm"
  /\ GetLocked(Cur)
  /\ SendNext
  /\ UNCHANGED <<live, flag, queue, work, user>>

-----------------------------------------------------------------------------
(* The worker of a notify of Work: nvkm_notify_work runs the same          *)
(* nvkm_notify_func outside every lock.                                    *)

WorkRun(n) ==
  /\ work[n].pending /\ work[n].pc = "idle"
  /\ work' = [work EXCEPT ![n] = [pc |-> "func", pending |-> FALSE]]
  /\ UNCHANGED <<live, flag, block, refs, hw, queue, send, user>>

\* A worker that outlives its notify (event = NULL) goes no further.
WorkFunc(n, keep) ==
  /\ work[n].pc = "func" /\ live[n]
  /\ work' = [work EXCEPT ![n].pc = IF keep THEN "rearm" ELSE "clear"]
  /\ UNCHANGED <<live, flag, block, refs, hw, queue, send, user>>

WorkClear(n) ==
  /\ work[n].pc = "clear" /\ live[n]
  /\ flag' = [flag EXCEPT ![n] = FALSE]
  /\ work' = [work EXCEPT ![n].pc = IF flag[n] THEN "idle" ELSE "rearm"]
  /\ UNCHANGED <<live, block, refs, hw, queue, send, user>>

WorkRearm(n) ==
  /\ work[n].pc = "rearm" /\ live[n]
  /\ GetLocked(n)
  /\ work' = [work EXCEPT ![n].pc = "idle"]
  /\ UNCHANGED <<live, flag, queue, send, user>>

-----------------------------------------------------------------------------
(* nvkm_notify_init and nvkm_notify_fini are never concurrent with another *)
(* operation on their notify; get and put are concurrent with each other   *)
(* unless the callers serialise them.                                      *)

MayCall(u, n, alone) ==
  \A v \in Users \ {u} :
     user[v].n = n => ~alone /\ ~Serialized /\ ~user[v].fini

UserStep(u) ==
  \/ UserGetLocked(u)
  \/ UserPutLocked(u)
  \/ UserFlush(u)
  \/ UserListDel(u)

UserCall(u) ==
  \E n \in Notifies :
    \/ MayCall(u, n, TRUE) /\ NotifyInit(u, n)
    \/ MayCall(u, n, FALSE) /\ NotifyGet(u, n)
    \/ MayCall(u, n, FALSE) /\ NotifyPut(u, n, FALSE)
    \/ MayCall(u, n, TRUE) /\ NotifyPut(u, n, TRUE)

SendStep ==
  \/ SendEnd
  \/ SendSkip
  \/ SendBlock
  \/ SendQueue
  \/ \E keep \in BOOLEAN : SendFunc(keep)
  \/ SendClear
  \/ SendRearm

WorkStep(n) ==
  \/ WorkRun(n)
  \/ \E keep \in BOOLEAN : WorkFunc(n, keep)
  \/ WorkClear(n)
  \/ WorkRearm(n)

Event == \E i \in Index, ts \in (SUBSET Type) \ {{}} : SendStart(i, ts)

Next ==
  \/ \E u \in Users : UserCall(u) \/ UserStep(u)
  \/ Event
  \/ SendStep
  \/ \E n \in Notifies : WorkStep(n)

Spec == Init /\ [][Next]_vars

\* Spinlock sections and callbacks end, the workqueue runs, and a flush
\* returns; nobody is obliged to call, and no event is obliged to happen.
\* list_lock, a queued spinlock, is granted in turn: the one who waits for it
\* gets it however often events are sent (strong fairness).
Fairness ==
  /\ \A u \in Users : WF_vars(UserStep(u)) /\ SF_vars(UserListDel(u))
  /\ WF_vars(SendStep)
  /\ \A n \in Notifies : WF_vars(WorkStep(n))

FairSpec == Spec /\ Fairness

-----------------------------------------------------------------------------
(* Properties.                                                             *)

B(b) == IF b THEN 1 ELSE 0

Busy == {"queue", "func", "clear", "rearm"}

\* A delivery to n is between its block and its re-arm (or its drop).
Sending(n) == send.pc \in Busy /\ Cur = n
Getting(n) == {u \in Users : user[u].pc = "get" /\ user[u].n = n}
Putting(n) == {u \in Users : user[u].pc = "put" /\ user[u].n = n}

Armed(n) == block[n] <= 0

\* The values of every variable, and that the walk of nvkm_event_send stays on the
\* list (event.c:61) while notifies are added to it and deleted from it.
TypeOK ==
  /\ live \in [Notifies -> BOOLEAN]
  /\ flag \in [Notifies -> BOOLEAN]
  /\ block \in [Notifies -> Int]
  /\ refs \in [Slots -> Int]
  /\ hw \in [Slots -> BOOLEAN]
  /\ queue \in Seq(Notifies)
  /\ send \in [pc : {"idle", "next"} \cup Busy, slots : SUBSET Slots, pos : Nat]
  /\ send.pc # "idle" => send.pos \in 1 .. Len(queue) + 1
  /\ send.pc \in Busy => send.pos \in DOMAIN queue
  /\ work \in [Notifies -> [pc : {"idle", "func", "clear", "rearm"}, pending : BOOLEAN]]
  /\ user \in [Users -> [pc : {"idle", "get", "put", "flush", "del"},
                         n : Notifies \cup {NoNotify}, fini : BOOLEAN]]
  /\ \A u \in Users : user[u].pc # "idle" <=> user[u].n \in Notifies

\* event->refs counts exactly the armed notifies of each slot, and the source
\* of a slot is on exactly while somebody wants it (event.c:26-49): no
\* interleaving of get, put, fini and deliveries leaks or loses a reference.
RefsExact ==
  \A s \in Slots :
    /\ refs[s] = Cardinality({n \in Notifies : s \in SlotsOf(n) /\ Armed(n)})
    /\ hw[s] <=> refs[s] > 0

\* notify->block says why a notify is blocked (notify.c:30, 52): one for not
\* being wanted, one for every delivery under way, corrected by the gets and
\* puts that have changed the USER bit and wait for refs_lock.
Account(n) ==
  1 - B(flag[n]) + B(Sending(n)) + B(work[n].pending) + B(work[n].pc # "idle")
    + Cardinality(Getting(n)) - Cardinality(Putting(n))

\* Concurrent callers of a deferred notify can re-arm it while its work item is
\* pending, and the next delivery is then merged into the pending one: its
\* block is never undone.  Nothing else makes block exceed the account.
BlockAccounts ==
  \A n \in Notifies :
    /\ block[n] >= Account(n)
    /\ Serialized \/ n \notin Work => block[n] = Account(n)

\* nvkm_event_send never calls back a notify after its nvkm_notify_fini has
\* returned, and its list holds the live notifies, each once (notify.c:117-129
\* against the walk at event.c:61-71).
NoCallbackAfterFini ==
  /\ send.pc \in Busy => send.pos \in DOMAIN queue /\ live[Cur]
  /\ \A n \in Notifies : live[n] <=> n \in Range(queue)
  /\ \A j, k \in DOMAIN queue : queue[j] = queue[k] => j = k

\* The data of a deferred notify is not overwritten while an earlier delivery
\* still has to read it (memcpy at notify.c:108 against nvkm_notify_work).
PayloadStable ==
  send.pc = "queue" => ~work[Cur].pending /\ work[Cur].pc # "func"

\* A wanted notify does not stay blocked: after a KEEP, and after a get, it is
\* armed again unless somebody has dropped it (notify.c:75-80).
Rearmed ==
  \A n \in Notifies : live[n] /\ flag[n] ~> ~flag[n] \/ Armed(n)

\* nvkm_notify_put and nvkm_notify_fini return.
CallReturns == \A u \in Users : user[u].pc # "idle" ~> user[u].pc = "idle"
=============================================================================
