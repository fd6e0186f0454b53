-------------------------- MODULE NvifNotifyProofs --------------------------
(***************************************************************************)
(* Proofs about NvkmNotify and NvifNotify, for any notifies, direct and    *)
(* deferred, any users, threads, indices and types.                        *)
(*                                                                         *)
(* First NVKM, for serialised and concurrent callers alike: its types and  *)
(* list, and then its counts, what notify->block says of each notify and   *)
(* what event->refs says of each slot.  Then NVIF: it calls NVKM only as   *)
(* NvkmNotify allows, so that all that is proved of NVKM holds below NVIF, *)
(* and the counts of NVIF itself are sound.                                *)
(***************************************************************************)
EXTENDS NvifNotify, FiniteSetTheorems, SequenceTheorems, TLAPS

-----------------------------------------------------------------------------
(* NVKM: the list.                                                         *)

\* Removing the k-th entry of a list.
LEMMA RemoveAtEntries ==
  ASSUME NEW S, NEW q \in Seq(S), NEW k \in DOMAIN q
  PROVE  /\ RemoveAt(q, k) \in Seq(S)
         /\ Len(RemoveAt(q, k)) = Len(q) - 1
         /\ \A j \in 1 .. Len(q) - 1 :
              RemoveAt(q, k)[j] = IF j < k THEN q[j] ELSE q[j + 1]
<1>1. k \in 1 .. Len(q) /\ Len(q) \in Nat
  OBVIOUS
<1>2. SubSeq(q, 1, k - 1) \in Seq(S) /\ SubSeq(q, k + 1, Len(q)) \in Seq(S)
  BY <1>1, SubSeqProperties
<1>3. Len(SubSeq(q, 1, k - 1)) = k - 1 /\ Len(SubSeq(q, k + 1, Len(q))) = Len(q) - k
  BY <1>1, SubSeqProperties
<1>4. \A j \in 1 .. k - 1 : SubSeq(q, 1, k - 1)[j] = q[j]
  BY <1>1, SubSeqProperties
<1>5. \A j \in 1 .. Len(q) - k : SubSeq(q, k + 1, Len(q))[j] = q[k + j]
  BY <1>1, SubSeqProperties
<1>. DEFINE a == SubSeq(q, 1, k - 1)
            b == SubSeq(q, k + 1, Len(q))
<1>6. a \in Seq(S) /\ b \in Seq(S) /\ Len(a) = k - 1 /\ Len(b) = Len(q) - k
  BY <1>2, <1>3
<1>7. RemoveAt(q, k) = a \o b
  BY DEF RemoveAt
<1>8. /\ \A j \in 1 .. k - 1 : a[j] = q[j]
      /\ \A j \in 1 .. Len(q) - k : b[j] = q[k + j]
  BY <1>4, <1>5
<1>. HIDE DEF a, b
<1>9. /\ a \o b \in Seq(S)
      /\ Len(a \o b) = Len(q) - 1
      /\ \A j \in 1 .. Len(q) - 1 :
           (a \o b)[j] = IF j <= k - 1 THEN a[j] ELSE b[j - (k - 1)]
  <2>1. /\ a \o b \in Seq(S)
        /\ Len(a \o b) = Len(a) + Len(b)
        /\ \A j \in 1 .. Len(a) + Len(b) :
             (a \o b)[j] = IF j <= Len(a) THEN a[j] ELSE b[j - Len(a)]
    BY <1>6, ConcatProperties
  <2>2. Len(a) + Len(b) = Len(q) - 1
    BY <1>1, <1>6
  <2>. QED  BY <2>1, <2>2, <1>6
<1>10. ASSUME NEW j \in 1 .. Len(q) - 1
       PROVE  (a \o b)[j] = IF j < k THEN q[j] ELSE q[j + 1]
  <2>1. CASE j < k
    <3>1. j <= k - 1 /\ j \in 1 .. k - 1
      BY <2>1, <1>1
    <3>. QED  BY <3>1, <2>1, <1>8, <1>9
  <2>2. CASE ~(j < k)
    <3>1. /\ ~(j <= k - 1) /\ j - (k - 1) \in 1 .. Len(q) - k
          /\ k + (j - (k - 1)) = j + 1
      BY <2>2, <1>1
    <3>2. b[j - (k - 1)] = q[j + 1]
      BY <3>1, <1>8
    <3>. QED  BY <3>1, <3>2, <2>2, <1>9
  <2>. QED  BY <2>1, <2>2
<1>. QED  BY <1>7, <1>9, <1>10

-----------------------------------------------------------------------------
(* Type correctness.                                                       *)

\* Its parts.
TypeData ==
  /\ live \in [Notifies -> BOOLEAN]
  /\ flag \in [Notifies -> BOOLEAN]

TypeCount ==
  /\ block \in [Notifies -> Int]
  /\ refs \in [Slots -> Int]
  /\ hw \in [Slots -> BOOLEAN]

TypeSend ==
  /\ queue \in Seq(Notifies)
  /\ send \in [pc : {"idle", "next"} \cup Busy, slots : SUBSET Slots, pos : Nat]
  /\ send.pc # "idle" => send.pos \in 1 .. Len(queue) + 1
  /\ send.pc \in Busy => send.pos \in DOMAIN queue

TypeWork ==
  work \in [Notifies -> [pc : {"idle", "func", "clear", "rearm"}, pending : BOOLEAN]]

TypeUser ==
  /\ user \in [Users -> [pc : {"idle", "get", "put", "flush", "del"},
                         n : Notifies \cup {NoNotify}, fini : BOOLEAN]]
  /\ \A u \in Users : user[u].pc # "idle" <=> user[u].n \in Notifies

LEMMA TypeParts ==
  /\ TypeOK <=> TypeData /\ TypeCount /\ TypeSend /\ TypeWork /\ TypeUser
  /\ TypeOK' <=> TypeData' /\ TypeCount' /\ TypeSend' /\ TypeWork' /\ TypeUser'
  BY DEF TypeOK, TypeData, TypeCount, TypeSend, TypeWork, TypeUser

\* A part depends on its own variables only.
LEMMA Kept ==
  ASSUME TypeOK
  PROVE  /\ UNCHANGED <<live, flag>> => TypeData'
         /\ UNCHANGED <<block, refs, hw>> => TypeCount'
         /\ UNCHANGED <<queue, send>> => TypeSend'
         /\ UNCHANGED work => TypeWork'
         /\ UNCHANGED user => TypeUser'
<1>1. UNCHANGED <<live, flag>> => TypeData'
  BY TypeParts DEF TypeData
<1>2. UNCHANGED <<block, refs, hw>> => TypeCount'
  BY TypeParts DEF TypeCount
<1>3. UNCHANGED <<queue, send>> => TypeSend'
  BY TypeParts DEF TypeSend
<1>4. UNCHANGED work => TypeWork'
  BY TypeParts DEF TypeWork
<1>5. UNCHANGED user => TypeUser'
  BY TypeParts DEF TypeUser
<1>. QED  BY <1>1, <1>2, <1>3, <1>4, <1>5

\* The sections under refs_lock keep the counters in their types.
LEMMA LockedTypes ==
  ASSUME TypeCount, NEW n \in Notifies, GetLocked(n) \/ PutLocked(n)
  PROVE  TypeCount'
<1>1. block' \in [Notifies -> Int]
  BY DEF TypeCount, GetLocked, PutLocked
<1>2. EventGet(n) \/ EventPut(n) \/ UNCHANGED <<refs, hw>>
  BY DEF GetLocked, PutLocked
<1>3. CASE EventGet(n)
  <2>1. refs' = [s \in Slots |-> IF s \in SlotsOf(n) THEN refs[s] + 1 ELSE refs[s]]
    BY <1>3 DEF EventGet
  <2>2. refs' \in [Slots -> Int]
    BY <2>1 DEF TypeCount
  <2>3. hw' \in [Slots -> BOOLEAN]
    BY <1>3, Zenon DEF TypeCount, EventGet
  <2>. QED  BY <1>1, <2>2, <2>3 DEF TypeCount
<1>4. CASE EventPut(n)
  <2>1. refs' = [s \in Slots |-> IF s \in SlotsOf(n) THEN refs[s] - 1 ELSE refs[s]]
    BY <1>4 DEF EventPut
  <2>2. refs' \in [Slots -> Int]
    BY <2>1 DEF TypeCount
  <2>3. hw' \in [Slots -> BOOLEAN]
    BY <1>4, Zenon DEF TypeCount, EventPut
  <2>. QED  BY <1>1, <2>2, <2>3 DEF TypeCount
<1>5. CASE UNCHANGED <<refs, hw>>
  BY <1>1, <1>5 DEF TypeCount
<1>. QED  BY <1>2, <1>3, <1>4, <1>5

UserRec == [pc : {"idle", "get", "put", "flush", "del"},
            n : Notifies \cup {NoNotify}, fini : BOOLEAN]

LEMMA UserUpdate ==
  ASSUME TypeUser, NEW u \in Users, NEW r \in UserRec,
         r.pc # "idle" <=> r.n \in Notifies,
         user' = [user EXCEPT ![u] = r]
  PROVE  TypeUser'
<1>1. user' \in [Users -> UserRec]
  BY DEF TypeUser, UserRec
<1>2. \A v \in Users : user'[v] = IF v = u THEN r ELSE user[v]
  BY DEF TypeUser
<1>. QED  BY <1>1, <1>2 DEF TypeUser, UserRec

\* The users' steps.
LEMMA UserTypes ==
  ASSUME TypeOK, NEW u \in Users, UserCall(u) \/ UserStep(u)
  PROVE  TypeOK'
<1>. USE NotifyAssumption, TypeParts
<1>0. UserIdle \in UserRec /\ UserIdle.pc = "idle" /\ UserIdle.n \notin Notifies
  BY DEF UserIdle, UserRec
<1>00. user[u] \in UserRec /\ (user[u].pc # "idle" <=> user[u].n \in Notifies)
  BY DEF TypeUser, UserRec
<1>1. ASSUME NEW n \in Notifies, NotifyInit(u, n) PROVE TypeOK'
  <2>1. TypeData'
    BY <1>1, Zenon DEF NotifyInit, TypeData
  <2>2. TypeCount'
    BY <1>1 DEF NotifyInit, TypeCount
  <2>3. TypeSend'
    BY <1>1 DEF NotifyInit, TypeSend, Busy
  <2>. QED  BY <1>1, <2>1, <2>2, <2>3, Kept DEF NotifyInit
<1>2. ASSUME NEW n \in Notifies, NotifyGet(u, n) PROVE TypeOK'
  <2>1. CASE live[n] /\ ~flag[n]
    <3>. DEFINE r == [pc |-> "get", n |-> n, fini |-> FALSE]
    <3>1. r \in UserRec /\ r.pc # "idle" /\ r.n \in Notifies
      BY DEF UserRec
    <3>2. user' = [user EXCEPT ![u] = r]
      BY <1>2, <2>1 DEF NotifyGet
    <3>3. TypeUser'
      <4>. HIDE DEF r
      <4>. QED  BY <3>1, <3>2, UserUpdate
    <3>4. TypeData'
      BY <1>2, <2>1, Zenon DEF NotifyGet, TypeData
    <3>. QED  BY <1>2, <3>3, <3>4, Kept DEF NotifyGet
  <2>2. CASE ~(live[n] /\ ~flag[n])
    BY <1>2, <2>2, Kept DEF NotifyGet
  <2>. QED  BY <2>1, <2>2
<1>3. ASSUME NEW n \in Notifies, NEW fini \in BOOLEAN, NotifyPut(u, n, fini)
      PROVE  TypeOK'
  <2>1. TypeData'
    BY <1>3, Zenon DEF NotifyPut, TypeData
  <2>2. PICK r \in UserRec :
           /\ r.pc # "idle" <=> r.n \in Notifies
           /\ user' = [user EXCEPT ![u] = r]
    <3>. DEFINE r(pc) == [pc |-> pc, n |-> n, fini |-> fini]
    <3>1. \A pc \in {"put", "del"} :
             r(pc) \in UserRec /\ r(pc).pc # "idle" /\ r(pc).n \in Notifies
      BY DEF UserRec
    <3>2. \/ user' = [user EXCEPT ![u] = UserIdle]
          \/ user' = [user EXCEPT ![u] = r("put")]
          \/ user' = [user EXCEPT ![u] = r("del")]
      BY <1>3 DEF NotifyPut
    <3>. HIDE DEF r
    <3>. QED  BY <1>0, <3>1, <3>2
  <2>3. TypeUser'
    BY <2>2, UserUpdate
  <2>. QED  BY <1>3, <2>1, <2>3, Kept DEF NotifyPut
<1>4. CASE UserGetLocked(u)
  <2>1. user[u].n \in Notifies
    BY <1>4, <1>00 DEF UserGetLocked
  <2>2. TypeCount'
    BY <1>4, <2>1, LockedTypes DEF UserGetLocked
  <2>3. TypeUser'
    BY <1>4, <1>0, UserUpdate DEF UserGetLocked
  <2>. QED  BY <1>4, <2>2, <2>3, Kept DEF UserGetLocked
<1>5. AfterPut(u) \in UserRec /\ (user[u].pc # "idle" => (AfterPut(u).pc # "idle" <=> AfterPut(u).n \in Notifies))
  BY <1>0, <1>00 DEF AfterPut, UserRec
<1>6. CASE UserPutLocked(u)
  <2>1. user[u].n \in Notifies /\ user[u].pc # "idle"
    BY <1>6, <1>00 DEF UserPutLocked
  <2>2. TypeCount'
    BY <1>6, <2>1, LockedTypes DEF UserPutLocked
  <2>. DEFINE f == [user[u] EXCEPT !.pc = "flush"]
  <2>3. f \in UserRec /\ f.pc # "idle" /\ f.n \in Notifies
    BY <1>00, <2>1 DEF UserRec
  <2>4. user' = [user EXCEPT ![u] = f] \/ user' = [user EXCEPT ![u] = AfterPut(u)]
    BY <1>6 DEF UserPutLocked
  <2>. HIDE DEF f
  <2>5. TypeUser'
    BY <1>5, <2>1, <2>3, <2>4, UserUpdate
  <2>. QED  BY <1>6, <2>2, <2>5, Kept DEF UserPutLocked
<1>7. CASE UserFlush(u)
  <2>1. TypeUser'
    BY <1>7, <1>5, UserUpdate DEF UserFlush
  <2>. QED  BY <1>7, <2>1, Kept DEF UserFlush
<1>8. CASE UserListDel(u)
  <2>1. queue' \in Seq(Notifies)
    BY <1>8, RemoveAtEntries DEF UserListDel, TypeSend
  <2>2. TypeSend'
    BY <1>8, <2>1 DEF UserListDel, TypeSend, Busy
  <2>3. TypeUser'
    BY <1>8, <1>0, UserUpdate DEF UserListDel
  <2>4. TypeData'
    BY <1>8, Zenon DEF UserListDel, TypeData
  <2>. QED  BY <1>8, <2>2, <2>3, <2>4, Kept DEF UserListDel
<1>. QED  BY <1>1, <1>2, <1>3, <1>4, <1>6, <1>7, <1>8 DEF UserCall, UserStep

\* The sender's steps.
LEMMA SendTypes ==
  ASSUME TypeOK, SendStep \/ Event
  PROVE  TypeOK'
<1>. USE NotifyAssumption, TypeParts
<1>1. CASE Event
  <2>1. PICK i \in Index, ts \in SUBSET Type : SendStart(i, ts)
    BY <1>1 DEF Event
  <2>2. {i} \X ts \subseteq Slots
    BY <2>1 DEF Slots
  <2>3. TypeSend'
    BY <2>1, <2>2 DEF SendStart, TypeSend, Busy
  <2>. QED  BY <2>1, <2>3, Kept DEF SendStart
<1>2. send.pc # "idle" /\ send.pos \in DOMAIN queue => Cur \in Notifies
  BY DEF TypeSend, Cur
<1>3. ASSUME SendNext, UNCHANGED queue, send.pos \in DOMAIN queue
      PROVE  TypeSend'
  <2>1. /\ send' = [pc |-> "next", slots |-> send.slots, pos |-> send.pos + 1]
        /\ send.slots \in SUBSET Slots
    BY <1>3 DEF SendNext, TypeSend
  <2>2. Len(queue) \in Nat /\ send.pos \in 1 .. Len(queue)
    BY <1>3 DEF TypeSend
  <2>3. send.pos + 1 \in 1 .. Len(queue) + 1 /\ send.pos + 1 \in Nat
    BY <2>2
  <2>. QED  BY <1>3, <2>1, <2>3 DEF TypeSend, Busy
<1>4. send.pc \in Busy => send.pos \in DOMAIN queue /\ Cur \in Notifies
  BY <1>2 DEF TypeSend, Busy
<1>5. ASSUME NEW pc \in Busy, send' = [send EXCEPT !.pc = pc], UNCHANGED queue,
             send.pos \in DOMAIN queue
      PROVE  TypeSend'
  BY <1>5 DEF TypeSend, Busy
<1>6. CASE SendEnd
  <2>1. TypeSend'
    BY <1>6 DEF SendEnd, SendIdle, TypeSend, Busy
  <2>. QED  BY <1>6, <2>1, Kept DEF SendEnd
<1>7. CASE SendSkip
  BY <1>7, <1>3, Kept DEF SendSkip
<1>8. CASE SendBlock
  <2>1. Cur \in Notifies
    BY <1>8, <1>2 DEF SendBlock
  <2>2. TypeCount'
    BY <1>8, <2>1, LockedTypes DEF SendBlock
  <2>3. TypeSend'
    BY <1>8, <1>5 DEF SendBlock, Busy
  <2>. QED  BY <1>8, <2>2, <2>3, Kept DEF SendBlock
<1>9. CASE SendQueue
  <2>1. TypeWork'
    BY <1>9 DEF SendQueue, TypeWork
  <2>2. TypeSend'
    BY <1>9, <1>3, <1>4 DEF SendQueue, Busy
  <2>. QED  BY <1>9, <2>1, <2>2, Kept DEF SendQueue
<1>10. ASSUME NEW keep \in BOOLEAN, SendFunc(keep) PROVE TypeOK'
  <2>1. TypeSend'
    BY <1>10, <1>4, <1>5 DEF SendFunc, Busy
  <2>. QED  BY <1>10, <2>1, Kept DEF SendFunc
<1>11. CASE SendClear
  <2>1. TypeSend'
    BY <1>11, <1>3, <1>4, <1>5 DEF SendClear, Busy
  <2>2. TypeData'
    BY <1>11, Zenon DEF SendClear, TypeData
  <2>. QED  BY <1>11, <2>1, <2>2, Kept DEF SendClear
<1>12. CASE SendRearm
  <2>1. send.pos \in DOMAIN queue /\ Cur \in Notifies
    BY <1>12, <1>4 DEF SendRearm, Busy
  <2>2. TypeCount'
    BY <1>12, <2>1, LockedTypes DEF SendRearm
  <2>3. TypeSend'
    BY <1>12, <2>1, <1>3 DEF SendRearm
  <2>. QED  BY <1>12, <2>2, <2>3, Kept DEF SendRearm
<1>. QED  BY <1>1, <1>6, <1>7, <1>8, <1>9, <1>10, <1>11, <1>12 DEF SendStep

\* The workers' steps.
LEMMA WorkTypes ==
  ASSUME TypeOK, NEW n \in Notifies, WorkStep(n)
  PROVE  TypeOK'
<1>. USE TypeParts
<1>1. CASE WorkRun(n)
  <2>1. TypeWork'
    BY <1>1 DEF WorkRun, TypeWork
  <2>. QED  BY <1>1, <2>1, Kept DEF WorkRun
<1>2. ASSUME NEW keep \in BOOLEAN, WorkFunc(n, keep) PROVE TypeOK'
  <2>1. TypeWork'
    BY <1>2 DEF WorkFunc, TypeWork
  <2>. QED  BY <1>2, <2>1, Kept DEF WorkFunc
<1>3. CASE WorkClear(n)
  <2>1. TypeData'
    BY <1>3, Zenon DEF WorkClear, TypeData
  <2>2. TypeWork'
    BY <1>3 DEF WorkClear, TypeWork
  <2>. QED  BY <1>3, <2>1, <2>2, Kept DEF WorkClear
<1>4. CASE WorkRearm(n)
  <2>1. TypeCount'
    BY <1>4, LockedTypes DEF WorkRearm
  <2>2. TypeWork'
    BY <1>4 DEF WorkRearm, TypeWork
  <2>. QED  BY <1>4, <2>1, <2>2, Kept DEF WorkRearm
<1>. QED  BY <1>1, <1>2, <1>3, <1>4 DEF WorkStep

\* Every step keeps every variable in its type, the sender on event->list
\* while it holds list_lock (event.c:61-71).
LEMMA TypeStep == TypeOK /\ [Next]_vars => TypeOK'
<1>. SUFFICES ASSUME TypeOK, [Next]_vars PROVE TypeOK'
  OBVIOUS
<1>1. CASE UNCHANGED vars
  BY <1>1 DEF vars, TypeOK
<1>. QED  BY <1>1, UserTypes, SendTypes, WorkTypes DEF Next

\* Every variable keeps its type, and while a send holds list_lock it stands on
\* an entry of event->list: nothing shortens the list under it (event.c:61-71,
\* notify.c:123-125).
THEOREM TypeCorrect == Spec => []TypeOK
<1>1. Init => TypeOK
  BY NotifyAssumption DEF Init, TypeOK, SendIdle, WorkIdle, UserIdle, Busy
<1>. QED  BY <1>1, TypeStep, PTL DEF Spec

-----------------------------------------------------------------------------
(* The list holds the live notifies, each once.                            *)

Listed ==
  /\ \A n \in Notifies : live[n] <=> \E k \in DOMAIN queue : queue[k] = n
  /\ \A j, k \in DOMAIN queue : queue[j] = queue[k] => j = k

LEMMA ListedSafe == TypeOK /\ Listed => NoCallbackAfterFini
<1>. SUFFICES ASSUME TypeOK, Listed PROVE NoCallbackAfterFini
  OBVIOUS
<1>1. send.pc \in Busy => send.pos \in DOMAIN queue /\ Cur \in Notifies
  BY DEF TypeOK, Cur
<1>. QED  BY <1>1 DEF NoCallbackAfterFini, Listed, Range, Cur

\* nvkm_notify_init appends a notify that is not on the list.
LEMMA InitListed ==
  ASSUME TypeOK, Listed, NEW u \in Users, NEW n \in Notifies, NotifyInit(u, n)
  PROVE  Listed'
<1>1. queue \in Seq(Notifies) /\ Len(queue) \in Nat /\ DOMAIN queue = 1 .. Len(queue)
  BY DEF TypeOK
<1>2. /\ DOMAIN queue' = 1 .. Len(queue) + 1
      /\ \A k \in 1 .. Len(queue) : queue'[k] = queue[k]
      /\ queue'[Len(queue) + 1] = n
  BY <1>1 DEF NotifyInit
<1>3. ~live[n] /\ \A m \in Notifies : live'[m] <=> (m = n \/ live[m])
  BY Zenon DEF NotifyInit, TypeOK
<1>4. \A k \in 1 .. Len(queue) + 1 : k \in 1 .. Len(queue) \/ k = Len(queue) + 1
  BY <1>1
<1>5. \A k \in 1 .. Len(queue) : k \in 1 .. Len(queue) + 1 /\ queue[k] # n
  BY <1>1, <1>3 DEF Listed
<1>6. Len(queue) + 1 \in 1 .. Len(queue) + 1
  BY <1>1
<1>7. ASSUME NEW m \in Notifies
      PROVE  live'[m] <=> \E k \in DOMAIN queue' : queue'[k] = m
  <2>1. CASE m = n
    BY <2>1, <1>2, <1>3, <1>6
  <2>2. CASE m # n
    <3>1. (\E k \in DOMAIN queue : queue[k] = m) => \E k \in DOMAIN queue' : queue'[k] = m
      BY <1>1, <1>2, <1>5
    <3>2. ASSUME NEW k \in DOMAIN queue', queue'[k] = m
          PROVE  k \in DOMAIN queue /\ queue[k] = m
      BY <3>2, <2>2, <1>1, <1>2, <1>4
    <3>. QED  BY <3>1, <3>2, <2>2, <1>3 DEF Listed
  <2>. QED  BY <2>1, <2>2
<1>8. ASSUME NEW j \in DOMAIN queue', NEW k \in DOMAIN queue', queue'[j] = queue'[k]
      PROVE  j = k
  <2>1. CASE queue'[j] = n
    BY <2>1, <1>2, <1>4, <1>5, <1>8
  <2>2. CASE queue'[j] # n
    <3>1. j \in DOMAIN queue /\ k \in DOMAIN queue /\ queue[j] = queue[k]
      BY <2>2, <1>1, <1>2, <1>4, <1>8
    <3>. QED  BY <3>1 DEF Listed
  <2>. QED  BY <2>1, <2>2
<1>. QED  BY <1>7, <1>8 DEF Listed

\* nvkm_notify_fini takes exactly its notify off the list.
LEMMA FiniListed ==
  ASSUME TypeOK, Listed, NEW u \in Users, UserListDel(u)
  PROVE  Listed'
<1>1. queue \in Seq(Notifies) /\ Len(queue) \in Nat /\ DOMAIN queue = 1 .. Len(queue)
  BY DEF TypeOK
<1>. DEFINE n == user[u].n
<1>2. PICK k \in DOMAIN queue : queue[k] = n /\ queue' = RemoveAt(queue, k)
  BY DEF UserListDel
<1>3. /\ queue' \in Seq(Notifies)
      /\ Len(queue') = Len(queue) - 1
      /\ \A j \in 1 .. Len(queue) - 1 :
            queue'[j] = IF j < k THEN queue[j] ELSE queue[j + 1]
  BY <1>1, <1>2, RemoveAtEntries
<1>4. DOMAIN queue' = 1 .. Len(queue) - 1
  BY <1>3
<1>. DEFINE old(j) == IF j < k THEN j ELSE j + 1
            new(j) == IF j < k THEN j ELSE j - 1
<1>5. \A j \in DOMAIN queue' :
         old(j) \in DOMAIN queue /\ old(j) # k /\ queue'[j] = queue[old(j)]
  BY <1>1, <1>2, <1>3, <1>4
<1>6. \A j \in DOMAIN queue \ {k} : new(j) \in DOMAIN queue' /\ old(new(j)) = j
  BY <1>1, <1>2, <1>4
<1>7. \A i, j \in DOMAIN queue' : old(i) = old(j) => i = j
  BY <1>1, <1>2, <1>4
<1>8. n \in Notifies /\ \A m \in Notifies : live'[m] <=> (m # n /\ live[m])
  <2>1. n \in Notifies
    BY <1>1, <1>2
  <2>. HIDE DEF n
  <2>2. live' = [live EXCEPT ![n] = FALSE]
    BY DEF UserListDel, n
  <2>. QED  BY <2>1, <2>2, Zenon DEF TypeOK
<1>. HIDE DEF old, new, n
<1>9. ASSUME NEW m \in Notifies
      PROVE  live'[m] <=> \E j \in DOMAIN queue' : queue'[j] = m
  <2>1. CASE m = n
    BY <2>1, <1>2, <1>5, <1>8, Zenon DEF Listed
  <2>2. CASE m # n
    <3>1. ASSUME live[m] PROVE \E j \in DOMAIN queue' : queue'[j] = m
      <4>1. PICK j \in DOMAIN queue : queue[j] = m
        BY <3>1 DEF Listed
      <4>2. j \in DOMAIN queue \ {k}
        BY <4>1, <1>2, <2>2
      <4>3. new(j) \in DOMAIN queue' /\ queue'[new(j)] = m
        BY <4>1, <4>2, <1>5, <1>6
      <4>. QED  BY <4>3
    <3>2. ASSUME NEW j \in DOMAIN queue', queue'[j] = m PROVE live[m]
      BY <3>2, <1>5 DEF Listed
    <3>. QED  BY <3>1, <3>2, <2>2, <1>8
  <2>. QED  BY <2>1, <2>2
<1>10. ASSUME NEW i \in DOMAIN queue', NEW j \in DOMAIN queue', queue'[i] = queue'[j]
       PROVE  i = j
  <2>1. /\ old(i) \in DOMAIN queue /\ old(j) \in DOMAIN queue
        /\ queue[old(i)] = queue[old(j)]
    BY <1>5, <1>10
  <2>2. old(i) = old(j)
    BY <2>1 DEF Listed
  <2>. QED  BY <2>2, <1>7
<1>. QED  BY <1>9, <1>10 DEF Listed

LEMMA ListedStep == TypeOK /\ Listed /\ [Next]_vars => Listed'
<1>. SUFFICES ASSUME TypeOK, Listed, [Next]_vars PROVE Listed'
  OBVIOUS
<1>1. UNCHANGED <<live, queue>> => Listed'
  BY DEF Listed
<1>2. CASE UNCHANGED vars
  BY <1>1, <1>2 DEF vars
<1>3. ASSUME NEW u \in Users, UserCall(u) PROVE Listed'
  <2>1. PICK n \in Notifies : \/ NotifyInit(u, n)
                              \/ NotifyGet(u, n)
                              \/ \E fini \in BOOLEAN : NotifyPut(u, n, fini)
    BY <1>3 DEF UserCall
  <2>2. CASE NotifyInit(u, n)
    BY <2>2, InitListed
  <2>3. CASE NotifyGet(u, n)
    BY <2>3, <1>1 DEF NotifyGet
  <2>4. CASE \E fini \in BOOLEAN : NotifyPut(u, n, fini)
    BY <2>4, <1>1 DEF NotifyPut
  <2>. QED  BY <2>1, <2>2, <2>3, <2>4
<1>4. ASSUME NEW u \in Users, UserStep(u) PROVE Listed'
  <2>1. CASE UserListDel(u)
    BY <2>1, FiniListed
  <2>2. CASE UserGetLocked(u) \/ UserPutLocked(u) \/ UserFlush(u)
    BY <2>2, <1>1 DEF UserGetLocked, UserPutLocked, UserFlush
  <2>. QED  BY <1>4, <2>1, <2>2 DEF UserStep
<1>5. CASE Event
  BY <1>5, <1>1 DEF Event, SendStart
<1>6. CASE SendStep
  BY <1>6, <1>1 DEF SendStep, SendEnd, SendSkip, SendBlock, SendQueue, SendFunc,
                    SendClear, SendRearm
<1>7. ASSUME NEW n \in Notifies, WorkStep(n) PROVE Listed'
  BY <1>7, <1>1 DEF WorkStep, WorkRun, WorkFunc, WorkClear, WorkRearm
<1>. QED  BY <1>2, <1>3, <1>4, <1>5, <1>6, <1>7 DEF Next

\* nvkm_event_send calls back only notifies whose nvkm_notify_fini has not
\* returned, whatever the order of list_add, list_del and the walk
\* (notify.c:117-129, event.c:61-71).
THEOREM NoCallback == Spec => []NoCallbackAfterFini
<1>1. Init => Listed
  BY DEF Init, Listed
<1>. QED  BY <1>1, ListedSafe, ListedStep, TypeCorrect, PTL DEF Spec

-----------------------------------------------------------------------------
(* Counting.                                                               *)

\* Sets that differ in one element.
LEMMA CountChange ==
  ASSUME NEW S, IsFiniteSet(S), NEW T, NEW x, S \ {x} = T \ {x}
  PROVE  /\ IsFiniteSet(T)
         /\ Cardinality(S) \in Nat
         /\ Cardinality(T) = Cardinality(S) - B(x \in S) + B(x \in T)
<1>. DEFINE R == S \ {x}
<1>0. Cardinality(S) \in Nat
  BY FS_CardinalityType
<1>1. IsFiniteSet(R) /\ Cardinality(R) = Cardinality(S) - B(x \in S)
  BY <1>0, FS_RemoveElement DEF B
<1>2. CASE x \in T
  <2>1. T = R \cup {x} /\ x \notin R
    BY <1>2
  <2>2. IsFiniteSet(T) /\ Cardinality(T) = Cardinality(R) + 1
    BY <2>1, <1>1, FS_AddElement
  <2>. QED  BY <1>0, <1>1, <1>2, <2>2 DEF B
<1>3. CASE x \notin T
  <2>1. T = R
    BY <1>3
  <2>. QED  BY <1>0, <1>1, <1>3, <2>1 DEF B
<1>. QED  BY <1>2, <1>3

Getters(n) == Cardinality(Getting(n))
Putters(n) == Cardinality(Putting(n))

\* A user that moves counts where it was no more, and where it is now.
Moved(u, r, n) ==
  /\ Getters(n) \in Nat /\ Putters(n) \in Nat
  /\ Getters(n)' = Getters(n) - B(user[u].pc = "get" /\ user[u].n = n)
                     + B(r.pc = "get" /\ r.n = n)
  /\ Putters(n)' = Putters(n) - B(user[u].pc = "put" /\ user[u].n = n)
                     + B(r.pc = "put" /\ r.n = n)

LEMMA UserCounts ==
  ASSUME TypeOK, NEW u \in Users, NEW r \in UserRec,
         user' = [user EXCEPT ![u] = r], NEW n \in Notifies
  PROVE  Moved(u, r, n)
<1>1. \A v \in Users : user'[v] = IF v = u THEN r ELSE user[v]
  BY DEF TypeOK
<1>2. IsFiniteSet(Getting(n)) /\ IsFiniteSet(Putting(n))
  BY NotifyAssumption, FS_Subset DEF Getting, Putting
<1>3. /\ Getting(n) \ {u} = Getting(n)' \ {u}
      /\ Putting(n) \ {u} = Putting(n)' \ {u}
  BY <1>1 DEF Getting, Putting
<1>4. /\ u \in Getting(n) <=> user[u].pc = "get" /\ user[u].n = n
      /\ u \in Putting(n) <=> user[u].pc = "put" /\ user[u].n = n
      /\ u \in Getting(n)' <=> r.pc = "get" /\ r.n = n
      /\ u \in Putting(n)' <=> r.pc = "put" /\ r.n = n
  BY <1>1 DEF Getting, Putting
<1>5. /\ Getters(n) \in Nat
      /\ Getters(n)' = Getters(n) - B(u \in Getting(n)) + B(u \in Getting(n)')
  BY <1>2, <1>3, CountChange DEF Getters
<1>6. /\ Putters(n) \in Nat
      /\ Putters(n)' = Putters(n) - B(u \in Putting(n)) + B(u \in Putting(n)')
  BY <1>2, <1>3, CountChange DEF Putters
<1>. QED  BY <1>4, <1>5, <1>6 DEF B, Moved

\* Steps that leave the users alone.
LEMMA SameUsers ==
  ASSUME TypeOK, UNCHANGED user, NEW n \in Notifies
  PROVE  /\ Getters(n) \in Nat /\ Putters(n) \in Nat
         /\ Getters(n)' = Getters(n) /\ Putters(n)' = Putters(n)
<1>1. IsFiniteSet(Getting(n)) /\ IsFiniteSet(Putting(n))
  BY NotifyAssumption, FS_Subset DEF Getting, Putting
<1>. QED  BY <1>1, FS_CardinalityType DEF Getters, Putters, Getting, Putting

-----------------------------------------------------------------------------
(* The references.                                                         *)

ArmedAt(s) == {n \in Notifies : s \in SlotsOf(n) /\ Armed(n)}

\* A section under refs_lock moves one notify in or out of the armed ones, or
\* none, and the references with it.
LEMMA LockedRefs ==
  ASSUME TypeOK, RefsExact, NEW n \in Notifies, GetLocked(n) \/ PutLocked(n)
  PROVE  RefsExact'
<1>1. /\ block \in [Notifies -> Int] /\ refs \in [Slots -> Int] /\ hw \in [Slots -> BOOLEAN]
  BY DEF TypeOK
<1>2. \A m \in Notifies \ {n} : block'[m] = block[m]
  BY <1>1 DEF GetLocked, PutLocked
<1>. SUFFICES ASSUME NEW s \in Slots
              PROVE  /\ refs'[s] = Cardinality(ArmedAt(s)')
                     /\ hw'[s] <=> refs'[s] > 0
  BY DEF RefsExact, ArmedAt
<1>3. refs[s] = Cardinality(ArmedAt(s)) /\ (hw[s] <=> refs[s] > 0)
  BY DEF RefsExact, ArmedAt
<1>4. /\ IsFiniteSet(ArmedAt(s)')
      /\ refs[s] \in Nat
      /\ Cardinality(ArmedAt(s)') = refs[s] - B(n \in ArmedAt(s)) + B(n \in ArmedAt(s)')
  <2>1. IsFiniteSet(ArmedAt(s))
    BY NotifyAssumption, FS_Subset DEF ArmedAt
  <2>2. ArmedAt(s) \ {n} = ArmedAt(s)' \ {n}
    BY <1>2 DEF ArmedAt, Armed
  <2>. QED  BY <1>3, <2>1, <2>2, CountChange
<1>5. Cardinality(ArmedAt(s)') \in Nat
  BY <1>4, FS_CardinalityType
<1>6. CASE GetLocked(n) /\ block[n] - 1 = 0
  <2>1. block'[n] = 0 /\ block[n] = 1
    BY <1>1, <1>6 DEF GetLocked
  <2>2. n \notin ArmedAt(s) /\ (n \in ArmedAt(s)' <=> s \in SlotsOf(n))
    BY <2>1 DEF ArmedAt, Armed
  <2>3. /\ refs'[s] = IF s \in SlotsOf(n) THEN refs[s] + 1 ELSE refs[s]
        /\ hw'[s] = IF s \in SlotsOf(n) /\ refs[s] + 1 = 1 THEN TRUE ELSE hw[s]
    BY <1>6 DEF GetLocked, EventGet
  <2>4. hw'[s] <=> (s \in SlotsOf(n) /\ refs[s] + 1 = 1) \/ hw[s]
    BY <2>3, Zenon
  <2>. QED  BY <1>3, <1>4, <2>2, <2>3, <2>4 DEF B
<1>7. CASE PutLocked(n) /\ block[n] = 0
  <2>1. block'[n] = 1
    BY <1>1, <1>7 DEF PutLocked
  <2>2. n \notin ArmedAt(s)' /\ (n \in ArmedAt(s) <=> s \in SlotsOf(n))
    BY <2>1, <1>7 DEF ArmedAt, Armed
  <2>3. /\ refs'[s] = IF s \in SlotsOf(n) THEN refs[s] - 1 ELSE refs[s]
        /\ hw'[s] = IF s \in SlotsOf(n) /\ refs[s] - 1 = 0 THEN FALSE ELSE hw[s]
    BY <1>7 DEF PutLocked, EventPut
  <2>4. hw'[s] <=> ~(s \in SlotsOf(n) /\ refs[s] - 1 = 0) /\ hw[s]
    BY <2>3, Zenon
  <2>. QED  BY <1>3, <1>4, <1>5, <2>2, <2>3, <2>4 DEF B
<1>8. CASE \/ GetLocked(n) /\ block[n] - 1 # 0
           \/ PutLocked(n) /\ block[n] # 0
  <2>1. Armed(n)' <=> Armed(n)
    BY <1>1, <1>8 DEF Armed, GetLocked, PutLocked
  <2>2. n \in ArmedAt(s)' <=> n \in ArmedAt(s)
    BY <2>1 DEF ArmedAt
  <2>3. UNCHANGED <<refs, hw>>
    BY <1>8 DEF GetLocked, PutLocked
  <2>. QED  BY <1>3, <1>4, <2>2, <2>3 DEF B
<1>. QED  BY <1>6, <1>7, <1>8

-----------------------------------------------------------------------------
(* The account of each notify.                                             *)

\* By how much a notify is blocked more often than there are reasons for.
Surplus(n) == block[n] - Account(n)

LEMMA SurplusSum ==
  /\ \A n \in Notifies :
        Surplus(n) = block[n] - (1 - B(flag[n]) + B(Sending(n)) + B(work[n].pending)
                       + B(work[n].pc # "idle") + Getters(n) - Putters(n))
  /\ \A n \in Notifies :
        Surplus(n)' = block'[n] - (1 - B(flag'[n]) + B(Sending(n)') + B(work'[n].pending)
                       + B(work'[n].pc # "idle") + Getters(n)' - Putters(n)')
  BY DEF Surplus, Account, Getters, Putters

\* Only a delivery that finds its work item pending adds to it.
Merged(n) ==
  /\ send.pc = "queue" /\ Cur = n
  /\ work[n].pending
  /\ Surplus(n)' = Surplus(n) + 1

Change(n) == Surplus(n)' = Surplus(n) \/ Surplus(n)' = 0 \/ Merged(n)

LEMMA UserSurplus ==
  ASSUME TypeOK, NEW u \in Users, UserCall(u) \/ UserStep(u), NEW m \in Notifies
  PROVE  Surplus(m)' = Surplus(m) \/ Surplus(m)' = 0
<1>0. /\ block \in [Notifies -> Int]
      /\ user \in [Users -> UserRec]
      /\ user[u].pc # "idle" <=> user[u].n \in Notifies
      /\ UserIdle \in UserRec /\ UserIdle.pc = "idle"
  BY NotifyAssumption DEF TypeOK, UserRec, UserIdle
<1>1. ASSUME NEW n \in Notifies, MayCall(u, n, TRUE), NotifyInit(u, n)
      PROVE  Surplus(m)' = Surplus(m) \/ Surplus(m)' = 0
  <2>1. /\ Getters(m) \in Nat /\ Putters(m) \in Nat
        /\ Getters(m)' = Getters(m) /\ Putters(m)' = Putters(m)
    BY <1>1, SameUsers DEF NotifyInit
  <2>2. ~Sending(m) /\ ~Sending(m)'
    BY <1>1 DEF NotifyInit, Sending, Busy
  <2>3. CASE m = n
    <3>1. \A v \in Users : user[v].n # n
      BY NotifyAssumption, <1>0, <1>1 DEF MayCall, NotifyInit
    <3>2. Getters(n) = 0 /\ Putters(n) = 0
      BY <3>1, FS_EmptySet DEF Getters, Putters, Getting, Putting
    <3>3. block'[n] = 1 /\ work'[n] = WorkIdle
      BY <1>0, <1>1 DEF NotifyInit
    <3>4. ~flag'[n]
      <4>1. flag' = [flag EXCEPT ![n] = FALSE] /\ n \in DOMAIN flag
        BY <1>1 DEF NotifyInit, TypeOK
      <4>. QED  BY <4>1, Zenon
    <3>. QED  BY <2>1, <2>2, <2>3, <3>2, <3>3, <3>4, SurplusSum DEF B, WorkIdle
  <2>4. CASE m # n
    <3>1. flag'[m] = flag[m]
      BY <1>1, <2>4, Zenon DEF NotifyInit, TypeOK
    <3>2. block'[m] = block[m] /\ work' = work
      BY <1>0, <1>1, <2>4 DEF NotifyInit
    <3>. QED  BY <2>1, <2>2, <3>1, <3>2, SurplusSum DEF B
  <2>. QED  BY <2>3, <2>4
<1>2. ASSUME NEW n \in Notifies, NotifyGet(u, n) PROVE Surplus(m)' = Surplus(m)
  <2>1. UNCHANGED <<block, work>> /\ (Sending(m)' <=> Sending(m)) /\ user[u].pc = "idle"
    BY <1>2 DEF NotifyGet, Sending, Cur
  <2>2. CASE live[n] /\ ~flag[n]
    <3>. DEFINE r == [pc |-> "get", n |-> n, fini |-> FALSE]
    <3>1. r \in UserRec /\ r.pc = "get" /\ r.n = n /\ user' = [user EXCEPT ![u] = r]
      BY <1>2, <2>2 DEF UserRec, NotifyGet
    <3>. HIDE DEF r
    <3>2. /\ Getters(m) \in Nat /\ Putters(m) \in Nat
          /\ Getters(m)' = Getters(m) + B(m = n) /\ Putters(m)' = Putters(m)
      <4>1. /\ B(user[u].pc = "get" /\ user[u].n = m) = 0
            /\ B(user[u].pc = "put" /\ user[u].n = m) = 0
            /\ B(r.pc = "get" /\ r.n = m) = B(m = n)
            /\ B(r.pc = "put" /\ r.n = m) = 0
            /\ B(m = n) \in Int
        BY <2>1, <3>1 DEF B
      <4>2. Moved(u, r, m)
        BY <3>1, UserCounts
      <4>. QED  BY <4>1, <4>2 DEF Moved
    <3>3. flag'[m] <=> flag[m] \/ m = n
      BY <1>2, <2>2, Zenon DEF NotifyGet, TypeOK
    <3>. QED  BY <1>0, <2>1, <2>2, <3>2, <3>3, SurplusSum DEF B
  <2>3. CASE ~(live[n] /\ ~flag[n])
    <3>1. UNCHANGED <<flag, user>>
      BY <1>2, <2>3 DEF NotifyGet
    <3>. QED  BY <2>1, <3>1, SameUsers, SurplusSum DEF B
  <2>. QED  BY <2>2, <2>3
<1>3. ASSUME NEW n \in Notifies, NEW fini \in BOOLEAN, NotifyPut(u, n, fini)
      PROVE  Surplus(m)' = Surplus(m)
  <2>1. UNCHANGED <<block, work>> /\ (Sending(m)' <=> Sending(m)) /\ user[u].pc = "idle"
    BY <1>3 DEF NotifyPut, Sending, Cur
  <2>2. flag'[m] <=> flag[m] /\ ~(m = n /\ live[n])
    <3>1. flag' = [flag EXCEPT ![n] = flag[n] /\ ~live[n]] /\ m \in DOMAIN flag
      BY <1>3 DEF NotifyPut, TypeOK
    <3>. QED  BY <3>1, Zenon
  <2>. DEFINE r(pc) == [pc |-> pc, n |-> n, fini |-> fini]
  <2>3. /\ r("put") \in UserRec /\ r("put").pc = "put" /\ r("put").n = n
        /\ r("del") \in UserRec /\ r("del").pc = "del"
    BY DEF UserRec
  <2>4. CASE live[n] /\ flag[n]
    <3>1. user' = [user EXCEPT ![u] = r("put")]
      BY <1>3, <2>4 DEF NotifyPut
    <3>. HIDE DEF r
    <3>2. /\ Getters(m) \in Nat /\ Putters(m) \in Nat
          /\ Getters(m)' = Getters(m) /\ Putters(m)' = Putters(m) + B(m = n)
      <4>1. /\ B(user[u].pc = "get" /\ user[u].n = m) = 0
            /\ B(user[u].pc = "put" /\ user[u].n = m) = 0
            /\ B(r("put").pc = "get" /\ r("put").n = m) = 0
            /\ B(r("put").pc = "put" /\ r("put").n = m) = B(m = n)
            /\ B(m = n) \in Int
        BY <2>1, <2>3 DEF B
      <4>2. Moved(u, r("put"), m)
        BY <2>3, <3>1, UserCounts
      <4>. QED  BY <4>1, <4>2 DEF Moved
    <3>. QED  BY <1>0, <2>1, <2>2, <2>4, <3>2, SurplusSum DEF B
  <2>5. CASE ~(live[n] /\ flag[n])
    <3>1. user' = [user EXCEPT ![u] = r("del")] \/ user' = [user EXCEPT ![u] = UserIdle]
      BY <1>3, <2>5 DEF NotifyPut
    <3>. HIDE DEF r
    <3>2. Getters(m) \in Nat /\ Putters(m) \in Nat
          /\ Getters(m)' = Getters(m) /\ Putters(m)' = Putters(m)
      <4>1. Moved(u, r("del"), m) \/ Moved(u, UserIdle, m)
        BY <1>0, <2>3, <3>1, UserCounts
      <4>. QED  BY <1>0, <2>1, <2>3, <4>1 DEF B, Moved
    <3>3. flag'[m] <=> flag[m]
      BY <2>2, <2>5
    <3>. QED  BY <2>1, <3>2, <3>3, SurplusSum DEF B
  <2>. QED  BY <2>4, <2>5
<1>4. CASE UserGetLocked(u)
  <2>1. UNCHANGED <<flag, work>> /\ (Sending(m)' <=> Sending(m)) /\ user[u].pc = "get"
    BY <1>4 DEF UserGetLocked, Sending, Cur
  <2>2. block'[m] = block[m] - B(user[u].n = m)
    BY <1>0, <1>4 DEF UserGetLocked, GetLocked, B
  <2>3. /\ Getters(m) \in Nat /\ Putters(m) \in Nat
        /\ Getters(m)' = Getters(m) - B(user[u].n = m) /\ Putters(m)' = Putters(m)
    <3>1. user' = [user EXCEPT ![u] = UserIdle]
      BY <1>4 DEF UserGetLocked
    <3>2. Moved(u, UserIdle, m)
      BY <1>0, <3>1, UserCounts
    <3>. QED  BY <1>0, <2>1, <3>2 DEF B, Moved
  <2>. QED  BY <1>0, <2>1, <2>2, <2>3, SurplusSum DEF B
<1>5. AfterPut(u) \in UserRec /\ AfterPut(u).pc \in {"del", "idle"}
  BY <1>0 DEF AfterPut, UserRec
<1>6. CASE UserPutLocked(u)
  <2>1. UNCHANGED <<flag, work>> /\ (Sending(m)' <=> Sending(m)) /\ user[u].pc = "put"
    BY <1>6 DEF UserPutLocked, Sending, Cur
  <2>2. block'[m] = block[m] + B(user[u].n = m)
    BY <1>0, <1>6 DEF UserPutLocked, PutLocked, B
  <2>. DEFINE f == [user[u] EXCEPT !.pc = "flush"]
  <2>3. f \in UserRec /\ f.pc = "flush"
    BY <1>0 DEF UserRec
  <2>4. user' = [user EXCEPT ![u] = f] \/ user' = [user EXCEPT ![u] = AfterPut(u)]
    BY <1>6 DEF UserPutLocked
  <2>. HIDE DEF f
  <2>5. /\ Getters(m) \in Nat /\ Putters(m) \in Nat
        /\ Getters(m)' = Getters(m) /\ Putters(m)' = Putters(m) - B(user[u].n = m)
    <3>1. Moved(u, f, m) \/ Moved(u, AfterPut(u), m)
      BY <1>5, <2>3, <2>4, UserCounts
    <3>. QED  BY <1>5, <2>1, <2>3, <3>1 DEF B, Moved
  <2>. QED  BY <1>0, <2>1, <2>2, <2>5, SurplusSum DEF B
<1>7. CASE UserFlush(u)
  <2>1. UNCHANGED <<flag, block, work>> /\ (Sending(m)' <=> Sending(m)) /\ user[u].pc = "flush"
    BY <1>7 DEF UserFlush, Sending, Cur
  <2>2. /\ Getters(m) \in Nat /\ Putters(m) \in Nat
        /\ Getters(m)' = Getters(m) /\ Putters(m)' = Putters(m)
    <3>1. user' = [user EXCEPT ![u] = AfterPut(u)]
      BY <1>7 DEF UserFlush
    <3>2. Moved(u, AfterPut(u), m)
      BY <1>5, <3>1, UserCounts
    <3>. QED  BY <1>5, <2>1, <3>2 DEF B, Moved
  <2>. QED  BY <2>1, <2>2, SurplusSum DEF B
<1>8. CASE UserListDel(u)
  <2>1. UNCHANGED <<flag, block, work>> /\ ~Sending(m) /\ ~Sending(m)' /\ user[u].pc = "del"
    BY <1>8 DEF UserListDel, Sending, Busy
  <2>2. /\ Getters(m) \in Nat /\ Putters(m) \in Nat
        /\ Getters(m)' = Getters(m) /\ Putters(m)' = Putters(m)
    <3>1. user' = [user EXCEPT ![u] = UserIdle]
      BY <1>8 DEF UserListDel
    <3>2. Moved(u, UserIdle, m)
      BY <1>0, <3>1, UserCounts
    <3>. QED  BY <1>0, <2>1, <3>2 DEF B, Moved
  <2>. QED  BY <2>1, <2>2, SurplusSum DEF B
<1>. QED  BY <1>1, <1>2, <1>3, <1>4, <1>6, <1>7, <1>8 DEF UserCall, UserStep

LEMMA SendSurplus ==
  ASSUME TypeOK, SendStep \/ Event, NEW m \in Notifies
  PROVE  Surplus(m)' = Surplus(m) \/ Merged(m)
<1>1. /\ block \in [Notifies -> Int]
      /\ work \in [Notifies -> [pc : {"idle", "func", "clear", "rearm"}, pending : BOOLEAN]]
      /\ send.pc \in Busy => Cur \in Notifies
  BY DEF TypeOK, Cur, Busy
<1>2. UNCHANGED user /\ UNCHANGED queue
  BY DEF Event, SendStart, SendStep, SendEnd, SendSkip, SendBlock, SendQueue, SendFunc,
         SendClear, SendRearm
<1>3. /\ Getters(m) \in Nat /\ Putters(m) \in Nat
      /\ Getters(m)' = Getters(m) /\ Putters(m)' = Putters(m)
  BY <1>2, SameUsers
<1>4. send \in [pc : {"idle", "next"} \cup Busy, slots : SUBSET Slots, pos : Nat]
  BY DEF TypeOK
<1>5. CASE Event \/ SendEnd \/ SendSkip
  <2>1. UNCHANGED <<flag, block, work>>
    BY <1>5 DEF Event, SendStart, SendEnd, SendSkip
  <2>2. ~Sending(m) /\ ~Sending(m)'
    <3>1. send.pc \notin Busy
      BY <1>5 DEF Event, SendStart, SendEnd, SendSkip, Busy
    <3>2. send'.pc \in {"idle", "next"}
      <4>1. CASE Event
        BY <4>1 DEF Event, SendStart
      <4>2. CASE SendEnd
        BY <4>2 DEF SendEnd, SendIdle
      <4>3. CASE SendSkip
        BY <1>4, <4>3 DEF SendSkip, SendNext
      <4>. QED  BY <1>5, <4>1, <4>2, <4>3
    <3>. QED  BY <3>1, <3>2 DEF Sending, Busy
  <2>. QED  BY <1>3, <2>1, <2>2, SurplusSum DEF B
<1>6. CASE SendBlock
  <2>1. UNCHANGED <<flag, work>>
    BY <1>6 DEF SendBlock
  <2>2. ~Sending(m) /\ (Sending(m)' <=> Cur = m)
    BY <1>2, <1>4, <1>6 DEF SendBlock, Sending, Busy, Cur
  <2>3. block'[m] = block[m] + B(Cur = m)
    BY <1>1, <1>6 DEF SendBlock, PutLocked, B
  <2>. QED  BY <1>1, <1>3, <2>1, <2>2, <2>3, SurplusSum, SMTT(20) DEF B
<1>7. CASE SendQueue
  <2>1. UNCHANGED <<flag, block>> /\ send.pc = "queue"
    BY <1>7 DEF SendQueue
  <2>2. (Sending(m) <=> Cur = m) /\ ~Sending(m)'
    BY <1>4, <1>7 DEF SendQueue, SendNext, Sending, Busy
  <2>3. CASE Cur = m
    <3>1. work'[m] = [work[m] EXCEPT !.pending = TRUE]
      BY <1>1, <1>7, <2>3 DEF SendQueue
    <3>2. work'[m].pending /\ work'[m].pc = work[m].pc
      BY <1>1, <3>1
    <3>. QED  BY <1>1, <1>3, <2>1, <2>2, <2>3, <3>2, SurplusSum DEF B, Merged
  <2>4. CASE Cur # m
    <3>1. work'[m] = work[m]
      BY <1>1, <1>7, <2>4 DEF SendQueue
    <3>. QED  BY <1>3, <2>1, <2>2, <2>4, <3>1, SurplusSum DEF B
  <2>. QED  BY <2>3, <2>4
<1>8. CASE \E keep \in BOOLEAN : SendFunc(keep)
  <2>1. UNCHANGED <<flag, block, work>> /\ (Sending(m)' <=> Sending(m))
    BY <1>2, <1>4, <1>8 DEF SendFunc, Sending, Busy, Cur
  <2>. QED  BY <1>3, <2>1, SurplusSum DEF B
<1>9. CASE SendClear
  <2>1. UNCHANGED <<block, work>> /\ (Sending(m) <=> Cur = m)
    BY <1>9 DEF SendClear, Sending, Busy
  <2>2. flag'[m] <=> flag[m] /\ Cur # m
    <3>1. flag' = [flag EXCEPT ![Cur] = FALSE] /\ m \in DOMAIN flag
      BY <1>9 DEF SendClear, TypeOK
    <3>. QED  BY <3>1, Zenon
  <2>3. CASE flag[Cur]
    <3>1. ~Sending(m)'
      <4>1. SendNext
        BY <1>9, <2>3, Zenon DEF SendClear
      <4>. QED  BY <1>4, <4>1 DEF SendNext, Sending, Busy
    <3>. QED  BY <1>1, <1>3, <2>1, <2>2, <2>3, <3>1, SurplusSum DEF B
  <2>4. CASE ~flag[Cur]
    <3>1. Sending(m)' <=> Cur = m
      BY <1>2, <1>4, <1>9, <2>4 DEF SendClear, Sending, Busy, Cur
    <3>2. flag'[m] <=> flag[m]
      BY <2>2, <2>4
    <3>. QED  BY <1>3, <2>1, <3>1, <3>2, SurplusSum DEF B
  <2>. QED  BY <2>3, <2>4
<1>10. CASE SendRearm
  <2>1. UNCHANGED <<flag, work>>
    BY <1>10 DEF SendRearm
  <2>2. (Sending(m) <=> Cur = m) /\ ~Sending(m)'
    BY <1>4, <1>10 DEF SendRearm, SendNext, Sending, Busy
  <2>3. block'[m] = block[m] - B(Cur = m)
    BY <1>1, <1>10 DEF SendRearm, GetLocked, B
  <2>4. B(Sending(m)') = B(Sending(m)) - B(Cur = m) /\ B(Cur = m) \in Int
    BY <2>2 DEF B
  <2>5. /\ B(Sending(m)) \in Int /\ B(flag[m]) \in Int
        /\ B(work[m].pending) \in Int /\ B(work[m].pc # "idle") \in Int
    BY DEF B
  <2>. QED  BY <1>1, <1>3, <2>1, <2>3, <2>4, <2>5, SurplusSum
<1>. QED  BY <1>5, <1>6, <1>7, <1>8, <1>9, <1>10 DEF SendStep

LEMMA WorkSurplus ==
  ASSUME TypeOK, NEW n \in Notifies, WorkStep(n), NEW m \in Notifies
  PROVE  Surplus(m)' = Surplus(m)
<1>1. /\ block \in [Notifies -> Int]
      /\ work \in [Notifies -> [pc : {"idle", "func", "clear", "rearm"}, pending : BOOLEAN]]
  BY DEF TypeOK
<1>2. UNCHANGED <<queue, send, user>>
  BY DEF WorkStep, WorkRun, WorkFunc, WorkClear, WorkRearm
<1>3. /\ Getters(m) \in Nat /\ Putters(m) \in Nat
      /\ Getters(m)' = Getters(m) /\ Putters(m)' = Putters(m)
      /\ Sending(m)' <=> Sending(m)
  BY <1>2, SameUsers DEF Sending, Cur
<1>4. CASE WorkRun(n)
  <2>1. UNCHANGED <<flag, block>>
    BY <1>4 DEF WorkRun
  <2>2. B(work'[m].pending) + B(work'[m].pc # "idle") = B(work[m].pending) + B(work[m].pc # "idle")
    BY <1>1, <1>4 DEF WorkRun, B
  <2>. QED  BY <1>1, <1>3, <2>1, <2>2, SurplusSum DEF B
<1>5. CASE \E keep \in BOOLEAN : WorkFunc(n, keep)
  <2>1. UNCHANGED <<flag, block>>
    BY <1>5 DEF WorkFunc
  <2>2. /\ work'[m].pending = work[m].pending
        /\ work'[m].pc # "idle" <=> work[m].pc # "idle"
    BY <1>1, <1>5 DEF WorkFunc
  <2>. QED  BY <1>3, <2>1, <2>2, SurplusSum DEF B
<1>6. CASE WorkClear(n)
  <2>1. UNCHANGED block
    BY <1>6 DEF WorkClear
  <2>2. flag'[m] <=> flag[m] /\ m # n
    <3>1. flag' = [flag EXCEPT ![n] = FALSE] /\ m \in DOMAIN flag
      BY <1>6 DEF WorkClear, TypeOK
    <3>. QED  BY <3>1, Zenon
  <2>3. /\ work'[m].pending = work[m].pending
        /\ m # n => work'[m].pc = work[m].pc
        /\ m = n => work[m].pc # "idle" /\ (work'[m].pc # "idle" <=> ~flag[m])
    BY <1>1, <1>6 DEF WorkClear
  <2>. QED  BY <1>1, <1>3, <2>1, <2>2, <2>3, SurplusSum DEF B
<1>7. CASE WorkRearm(n)
  <2>1. UNCHANGED flag
    BY <1>7 DEF WorkRearm
  <2>2. block'[m] = block[m] - B(m = n)
    BY <1>1, <1>7 DEF WorkRearm, GetLocked, B
  <2>3. /\ work'[m].pending = work[m].pending
        /\ m # n => work'[m].pc = work[m].pc
        /\ m = n => work[m].pc # "idle" /\ work'[m].pc = "idle"
    BY <1>1, <1>7 DEF WorkRearm
  <2>4. /\ B(work'[m].pc # "idle") = B(work[m].pc # "idle") - B(m = n)
        /\ B(m = n) \in Int
    BY <2>3 DEF B
  <2>5. /\ B(Sending(m)) \in Int /\ B(flag[m]) \in Int
        /\ B(work[m].pending) \in Int /\ B(work[m].pc # "idle") \in Int
        /\ B(Sending(m)') = B(Sending(m))
    BY <1>3 DEF B
  <2>. QED  BY <1>1, <1>3, <2>1, <2>2, <2>3, <2>4, <2>5, SurplusSum
<1>. QED  BY <1>4, <1>5, <1>6, <1>7 DEF WorkStep

\* A step of nobody but a merged delivery unbalances a notify, and
\* nvkm_notify_init balances it again.
LEMMA SurplusStep ==
  ASSUME TypeOK, [Next]_vars, NEW m \in Notifies
  PROVE  Change(m)
<1>1. CASE UNCHANGED vars
  BY <1>1, SameUsers, SurplusSum DEF vars, Sending, Cur, Change
<1>. QED  BY <1>1, UserSurplus, SendSurplus, WorkSurplus DEF Next, Change

-----------------------------------------------------------------------------
(* Who uses a notify.                                                      *)

\* An operation is of a live notify.  Nobody shares a notify with a fini, nor
\* with anybody if the callers are serialised, so nobody sets USER again after
\* the put of a fini, or that of serialised callers.
Exclusive ==
  /\ \A u \in Users : user[u].pc # "idle" => live[user[u].n]
  /\ \A u, v \in Users :
        u # v /\ user[u].n = user[v].n /\ user[u].n \in Notifies =>
          ~Serialized /\ ~user[u].fini
  /\ \A u \in Users : user[u].n \in Notifies /\ user[u].fini => ~flag[user[u].n]
  /\ \A u \in Users : user[u].pc = "del" => user[u].fini
  /\ Serialized => \A u \in Users : user[u].pc = "put" => ~flag[user[u].n]

\* Steps that start no operation: USER is only cleared, and a user who is not
\* done goes on as it began.
LEMMA StillExclusive ==
  ASSUME TypeOK, TypeOK', Exclusive,
         \A n \in Notifies : live[n] => live'[n],
         \A n \in Notifies : flag'[n] => flag[n],
         \A u \in Users : user'[u].pc # "idle" =>
           /\ user[u].pc # "idle" /\ user'[u].n = user[u].n /\ user'[u].fini = user[u].fini
           /\ user'[u].pc = "del" => user[u].fini
           /\ user'[u].pc = "put" => user[u].pc = "put"
  PROVE  Exclusive'
<1>1. \A u \in Users : /\ user[u].pc # "idle" <=> user[u].n \in Notifies
                       /\ user'[u].pc # "idle" <=> user'[u].n \in Notifies
  BY DEF TypeOK
<1>. QED  BY <1>1 DEF Exclusive

\* A call of nvkm_notify_get, put or fini that goes on past the USER bit.
LEMMA CallExclusive ==
  ASSUME TypeOK, TypeOK', Exclusive, NEW u \in Users, NEW r \in UserRec,
         user[u].pc = "idle", user' = [user EXCEPT ![u] = r],
         r.n \in Notifies, r.pc = "del" => r.fini,
         MayCall(u, r.n, r.fini), live[r.n], UNCHANGED live,
         \A m \in Notifies \ {r.n} : flag'[m] => flag[m],
         r.pc = "put" \/ r.fini => ~flag'[r.n]
  PROVE  Exclusive'
<1>1. \A v \in Users : user'[v] = IF v = u THEN r ELSE user[v]
  BY DEF TypeOK
<1>2. \A v \in Users : user[v].pc # "idle" <=> user[v].n \in Notifies
  BY DEF TypeOK
<1>3. user[u].n \notin Notifies
  BY <1>2
<1>4. \A v \in Users \ {u} : user[v].n = r.n => ~r.fini /\ ~Serialized /\ ~user[v].fini
  BY DEF MayCall
<1>5. \A v \in Users : user'[v].pc # "idle" => live'[user'[v].n]
  BY <1>1 DEF Exclusive
<1>6. ASSUME NEW v \in Users, NEW w \in Users, v # w,
             user'[v].n = user'[w].n, user'[v].n \in Notifies
      PROVE  ~Serialized /\ ~user'[v].fini
  BY <1>1, <1>4, <1>6 DEF Exclusive
<1>7. ASSUME NEW v \in Users, user'[v].n \in Notifies, user'[v].fini
      PROVE  ~flag'[user'[v].n]
  BY <1>1, <1>4, <1>7 DEF Exclusive
<1>8. \A v \in Users : user'[v].pc = "del" => user'[v].fini
  BY <1>1 DEF Exclusive
<1>9. ASSUME Serialized, NEW v \in Users, user'[v].pc = "put"
      PROVE  ~flag'[user'[v].n]
  BY <1>1, <1>2, <1>4, <1>9 DEF Exclusive
<1>. QED  BY <1>5, <1>6, <1>7, <1>8, <1>9 DEF Exclusive

LEMMA ExclusiveStep == TypeOK /\ Exclusive /\ [Next]_vars => Exclusive'
<1>. SUFFICES ASSUME TypeOK, Exclusive, [Next]_vars PROVE Exclusive'
  OBVIOUS
<1>0. TypeOK'
  BY TypeStep
<1>00. /\ user \in [Users -> UserRec]
       /\ live \in [Notifies -> BOOLEAN]
       /\ flag \in [Notifies -> BOOLEAN]
  BY DEF TypeOK, UserRec
<1>. DEFINE Cleared == \A m \in Notifies : flag'[m] => flag[m]
<1>1. ASSUME UNCHANGED <<live, user>>, Cleared PROVE Exclusive'
  BY <1>0, <1>1, StillExclusive DEF Exclusive
<1>2. CASE UNCHANGED vars
  BY <1>1, <1>2 DEF vars
<1>3. ASSUME NEW u \in Users, NEW n \in Notifies, NotifyInit(u, n) PROVE Exclusive'
  <2>1. \A m \in Notifies : (live[m] => live'[m]) /\ (flag'[m] => flag[m])
    <3>1. live' = [live EXCEPT ![n] = TRUE] /\ flag' = [flag EXCEPT ![n] = FALSE]
      BY <1>3 DEF NotifyInit
    <3>. QED  BY <1>00, <3>1, Zenon
  <2>2. UNCHANGED user
    BY <1>3 DEF NotifyInit
  <2>. QED  BY <1>0, <2>1, <2>2, StillExclusive DEF Exclusive
<1>4. ASSUME NEW u \in Users, NEW n \in Notifies, MayCall(u, n, FALSE), NotifyGet(u, n)
      PROVE  Exclusive'
  <2>1. CASE live[n] /\ ~flag[n]
    <3>. DEFINE r == [pc |-> "get", n |-> n, fini |-> FALSE]
    <3>1. /\ r \in UserRec /\ r.n = n /\ r.pc = "get" /\ r.fini = FALSE
          /\ user' = [user EXCEPT ![u] = r] /\ user[u].pc = "idle" /\ UNCHANGED live
      BY <1>4, <2>1 DEF UserRec, NotifyGet
    <3>2. \A m \in Notifies \ {n} : flag'[m] => flag[m]
      <4>1. flag' = [flag EXCEPT ![n] = TRUE]
        BY <1>4, <2>1, Zenon DEF NotifyGet
      <4>. QED  BY <1>00, <4>1, Zenon
    <3>. HIDE DEF r
    <3>. QED  BY <1>0, <1>4, <2>1, <3>1, <3>2, CallExclusive
  <2>2. CASE ~(live[n] /\ ~flag[n])
    BY <1>1, <1>4, <2>2 DEF NotifyGet
  <2>. QED  BY <2>1, <2>2
<1>5. ASSUME NEW u \in Users, NEW n \in Notifies, NEW fini \in BOOLEAN,
             MayCall(u, n, fini), NotifyPut(u, n, fini)
      PROVE  Exclusive'
  <2>1. \A m \in Notifies : flag'[m] <=> flag[m] /\ ~(m = n /\ live[n])
    <3>1. flag' = [flag EXCEPT ![n] = flag[n] /\ ~live[n]]
      BY <1>5 DEF NotifyPut
    <3>. QED  BY <1>00, <3>1, Zenon
  <2>. DEFINE next == IF live[n] /\ flag[n] THEN "put"
                      ELSE IF live[n] /\ fini THEN "del" ELSE "idle"
  <2>2. /\ user[u].pc = "idle" /\ UNCHANGED live
        /\ user' = [user EXCEPT ![u] =
             IF next = "idle" THEN UserIdle ELSE [pc |-> next, n |-> n, fini |-> fini]]
    BY <1>5 DEF NotifyPut
  <2>3. CASE live[n] /\ (flag[n] \/ fini)
    <3>. DEFINE r == [pc |-> next, n |-> n, fini |-> fini]
    <3>1. /\ r \in UserRec /\ r.n = n /\ r.fini = fini
          /\ user' = [user EXCEPT ![u] = r]
          /\ r.pc = "del" => r.fini
      BY <2>2, <2>3 DEF UserRec
    <3>. HIDE DEF r, next
    <3>. QED  BY <1>0, <1>5, <2>1, <2>2, <2>3, <3>1, CallExclusive
  <2>4. CASE ~(live[n] /\ (flag[n] \/ fini))
    <3>1. user' = [user EXCEPT ![u] = UserIdle]
      BY <2>2, <2>4
    <3>2. \A v \in Users : user'[v] = IF v = u THEN UserIdle ELSE user[v]
      BY <1>00, <3>1
    <3>3. UserIdle.pc = "idle"
      BY DEF UserIdle
    <3>4. ASSUME NEW v \in Users, user'[v].pc # "idle" PROVE user'[v] = user[v]
      BY <3>2, <3>3, <3>4
    <3>5. \A m \in Notifies : (live[m] => live'[m]) /\ (flag'[m] => flag[m])
      BY <2>1, <2>2
    <3>6. \A v \in Users : user[v].pc = "del" => user[v].fini
      BY DEF Exclusive
    <3>. QED  BY <1>0, <3>4, <3>5, <3>6, StillExclusive
  <2>. QED  BY <2>3, <2>4
<1>6. ASSUME NEW u \in Users, UserGetLocked(u) \/ UserPutLocked(u) \/ UserFlush(u)
      PROVE  Exclusive'
  <2>1. UNCHANGED <<live, flag>>
    BY <1>6 DEF UserGetLocked, UserPutLocked, UserFlush
  <2>2. PICK r : /\ user' = [user EXCEPT ![u] = r]
                 /\ \/ r = UserIdle
                    \/ r = [user[u] EXCEPT !.pc = "flush"]
                    \/ user[u].fini /\ r = [user[u] EXCEPT !.pc = "del"]
    BY <1>6 DEF UserGetLocked, UserPutLocked, UserFlush, AfterPut
  <2>3. user[u].pc # "idle"
    BY <1>6 DEF UserGetLocked, UserPutLocked, UserFlush
  <2>4. /\ r.pc # "idle" => r.n = user[u].n /\ r.fini = user[u].fini
        /\ r.pc # "put" /\ (r.pc = "del" => user[u].fini)
    BY <1>00, <2>2 DEF UserIdle, UserRec
  <2>5. \A v \in Users : user'[v] = IF v = u THEN r ELSE user[v]
    BY <1>00, <2>2
  <2>. QED  BY <1>0, <2>1, <2>3, <2>4, <2>5, StillExclusive DEF Exclusive
<1>7. ASSUME NEW u \in Users, UserListDel(u) PROVE Exclusive'
  <2>1. user[u].pc = "del" /\ UNCHANGED flag /\ user[u].n \in Notifies /\ user[u].fini
    BY <1>7 DEF UserListDel, Exclusive, TypeOK
  <2>2. \A m \in Notifies : live'[m] <=> live[m] /\ m # user[u].n
    <3>1. live' = [live EXCEPT ![user[u].n] = FALSE]
      BY <1>7 DEF UserListDel
    <3>. QED  BY <1>00, <3>1, Zenon
  <2>3. \A v \in Users : user'[v] = IF v = u THEN UserIdle ELSE user[v]
    BY <1>00, <1>7 DEF UserListDel
  <2>4. \A v \in Users \ {u} : user[v].n # user[u].n
    BY <2>1 DEF Exclusive
  <2>5. \A v \in Users : user[v].pc # "idle" <=> user[v].n \in Notifies
    BY DEF TypeOK
  <2>6. UserIdle.pc = "idle" /\ UserIdle.n \notin Notifies /\ UserIdle.fini = FALSE
    BY NotifyAssumption DEF UserIdle
  <2>. QED  BY <2>1, <2>2, <2>3, <2>4, <2>5, <2>6 DEF Exclusive
<1>8. CASE Event
  BY <1>1, <1>8 DEF Event, SendStart
<1>9. CASE SendStep
  <2>1. UNCHANGED <<live, user>>
    BY <1>9 DEF SendStep, SendEnd, SendSkip, SendBlock, SendQueue, SendFunc, SendClear, SendRearm
  <2>2. UNCHANGED flag \/ flag' = [flag EXCEPT ![Cur] = FALSE]
    BY <1>9 DEF SendStep, SendEnd, SendSkip, SendBlock, SendQueue, SendFunc, SendClear, SendRearm
  <2>3. Cleared
    BY <1>00, <2>2, Zenon
  <2>. QED  BY <1>1, <2>1, <2>3
<1>10. ASSUME NEW n \in Notifies, WorkStep(n) PROVE Exclusive'
  <2>1. UNCHANGED <<live, user>>
    BY <1>10 DEF WorkStep, WorkRun, WorkFunc, WorkClear, WorkRearm
  <2>2. UNCHANGED flag \/ flag' = [flag EXCEPT ![n] = FALSE]
    BY <1>10 DEF WorkStep, WorkRun, WorkFunc, WorkClear, WorkRearm
  <2>3. Cleared
    BY <1>00, <2>2, Zenon
  <2>. QED  BY <1>1, <2>1, <2>3
<1>. QED  BY <1>2, <1>3, <1>4, <1>5, <1>6, <1>7, <1>8, <1>9, <1>10 DEF Next, UserCall, UserStep

-----------------------------------------------------------------------------
(* Why a notify is blocked.                                                *)

Balanced ==
  \A n \in Notifies :
    /\ Surplus(n) >= 0
    /\ Serialized \/ n \notin Work => Surplus(n) = 0

\* What is about to be scheduled: with serialised callers, an idle work item.
Fresh ==
  send.pc = "queue" => Cur \in Work /\ (Serialized => work[Cur] = WorkIdle)

LEMMA SurplusTypes ==
  ASSUME TypeOK, NEW n \in Notifies
  PROVE  /\ Surplus(n) \in Int /\ Account(n) \in Int /\ block[n] = Surplus(n) + Account(n)
         /\ Getters(n) \in Nat /\ Putters(n) \in Nat
         /\ IsFiniteSet(Getting(n)) /\ IsFiniteSet(Putting(n))
<1>1. IsFiniteSet(Getting(n)) /\ IsFiniteSet(Putting(n))
  BY NotifyAssumption, FS_Subset DEF Getting, Putting
<1>2. Getters(n) \in Nat /\ Putters(n) \in Nat
  BY <1>1, FS_CardinalityType DEF Getters, Putters
<1>3. Account(n) \in Int
  BY <1>2 DEF Account, Getters, Putters, B
<1>4. block[n] \in Int
  BY DEF TypeOK
<1>. QED  BY <1>1, <1>2, <1>3, <1>4 DEF Surplus

\* With serialised callers, an armed notify has no delivery under way.
LEMMA ArmedIdle ==
  ASSUME TypeOK, Exclusive, Balanced, NEW n \in Notifies, Serialized, block[n] = 0
  PROVE  work[n] = WorkIdle
<1>1. Surplus(n) = 0
  BY DEF Balanced
<1>2. work[n] \in [pc : {"idle", "func", "clear", "rearm"}, pending : BOOLEAN]
  BY DEF TypeOK
<1>3. Putters(n) <= 1 - B(flag[n]) \/ Putters(n) = 0
  <2>1. CASE Putting(n) = {}
    BY <2>1, FS_EmptySet DEF Putters
  <2>2. ASSUME NEW u \in Putting(n) PROVE Putters(n) = 1 /\ ~flag[n]
    <3>1. Putting(n) = {u}
      BY <2>2 DEF Putting, Exclusive
    <3>2. Putters(n) = 1
      BY <3>1, FS_Singleton DEF Putters
    <3>. QED  BY <2>2, <3>2 DEF Putting, Exclusive
  <2>. QED  BY <2>1, <2>2 DEF B
<1>4. /\ Getters(n) \in Nat /\ Putters(n) \in Nat
      /\ 0 = 1 - B(flag[n]) + B(Sending(n)) + B(work[n].pending)
               + B(work[n].pc # "idle") + Getters(n) - Putters(n)
  BY <1>1, SurplusTypes, SurplusSum DEF B
<1>5. ~work[n].pending /\ work[n].pc = "idle"
  BY <1>3, <1>4 DEF B
<1>. QED  BY <1>2, <1>5 DEF WorkIdle

LEMMA FreshStep == TypeOK /\ Exclusive /\ Balanced /\ Fresh /\ [Next]_vars => Fresh'
<1>. SUFFICES ASSUME TypeOK, Exclusive, Balanced, Fresh, [Next]_vars PROVE Fresh'
  OBVIOUS
<1>1. ASSUME UNCHANGED <<queue, send, work>> PROVE Fresh'
  BY <1>1 DEF Fresh, Cur
<1>2. ASSUME send'.pc # "queue" PROVE Fresh'
  BY <1>2 DEF Fresh
<1>3. send \in [pc : {"idle", "next"} \cup Busy, slots : SUBSET Slots, pos : Nat]
  BY DEF TypeOK
<1>4. CASE UNCHANGED vars
  BY <1>1, <1>4 DEF vars
<1>5. ASSUME NEW u \in Users, UserCall(u) \/ UserStep(u) PROVE Fresh'
  <2>1. CASE UNCHANGED <<queue, send, work>>
    BY <1>1, <2>1
  <2>2. CASE send.pc = "idle" /\ UNCHANGED send
    BY <1>2, <2>2
  <2>. QED  BY <1>5, <2>1, <2>2 DEF UserCall, NotifyInit, NotifyGet, NotifyPut,
                 UserStep, UserGetLocked, UserPutLocked, UserFlush, UserListDel
<1>6. CASE Event
  BY <1>2, <1>6 DEF Event, SendStart
<1>7. CASE SendBlock
  <2>1. Cur \in Notifies /\ block[Cur] = 0
    BY <1>7 DEF SendBlock, TypeOK, Cur
  <2>2. Cur' = Cur /\ UNCHANGED work /\ (send'.pc = "queue" => Cur \in Work)
    BY <1>3, <1>7 DEF SendBlock, Cur
  <2>3. Serialized => work[Cur] = WorkIdle
    BY <2>1, ArmedIdle
  <2>. QED  BY <2>2, <2>3 DEF Fresh
<1>8. CASE SendEnd \/ SendSkip \/ SendQueue \/ (\E keep \in BOOLEAN : SendFunc(keep)) \/ SendRearm
  <2>1. \/ send' = SendIdle
        \/ send' = [send EXCEPT !.pc = "next", !.pos = @ + 1]
        \/ send' = [send EXCEPT !.pc = "rearm"]
        \/ send' = [send EXCEPT !.pc = "clear"]
    BY <1>8 DEF SendEnd, SendSkip, SendQueue, SendFunc, SendRearm, SendNext
  <2>2. send'.pc \in {"idle", "next", "rearm", "clear"}
    <3>1. CASE send' = SendIdle
      BY <3>1 DEF SendIdle
    <3>2. CASE \E pc \in {"next", "rearm", "clear"}, pos \in Nat : send' = [send EXCEPT !.pc = pc, !.pos = pos]
      BY <1>3, <3>2
    <3>3. CASE \E pc \in {"rearm", "clear"} : send' = [send EXCEPT !.pc = pc]
      BY <1>3, <3>3
    <3>. QED  BY <1>3, <2>1, <3>1, <3>2, <3>3
  <2>. QED  BY <1>2, <2>2
<1>9. CASE SendClear
  <2>1. SendNext \/ send' = [send EXCEPT !.pc = "rearm"]
    BY <1>9, Zenon DEF SendClear
  <2>. QED  BY <1>2, <1>3, <2>1 DEF SendNext
<1>10. ASSUME NEW n \in Notifies, WorkStep(n) PROVE Fresh'
  <2>1. UNCHANGED <<queue, send>> /\ work[n] # WorkIdle
    BY <1>10 DEF WorkStep, WorkRun, WorkFunc, WorkClear, WorkRearm, WorkIdle
  <2>2. \A m \in Notifies \ {n} : work'[m] = work[m]
    BY <1>10 DEF WorkStep, WorkRun, WorkFunc, WorkClear, WorkRearm, TypeOK
  <2>3. send.pc = "queue" => Cur \in Notifies
    BY DEF TypeOK, Busy, Cur
  <2>. QED  BY <2>1, <2>2, <2>3 DEF Fresh, Cur
<1>. QED  BY <1>4, <1>5, <1>6, <1>7, <1>8, <1>9, <1>10 DEF Next, SendStep

LEMMA BalancedStep == TypeOK /\ Balanced /\ Fresh /\ [Next]_vars => Balanced'
<1>. SUFFICES ASSUME TypeOK, Balanced, Fresh, [Next]_vars, NEW n \in Notifies
              PROVE  /\ Surplus(n)' >= 0
                     /\ Serialized \/ n \notin Work => Surplus(n)' = 0
  BY DEF Balanced
<1>1. Surplus(n) \in Int
  BY SurplusTypes
<1>2. Merged(n) => ~Serialized /\ n \in Work
  BY DEF Merged, Fresh, WorkIdle
<1>. QED  BY <1>1, <1>2, SurplusStep DEF Balanced, Change, Merged

-----------------------------------------------------------------------------
(* References.                                                             *)

\* What is not registered holds no reference.
Retired == \A n \in Notifies : ~live[n] => block[n] > 0

LEMMA RetiredStep ==
  TypeOK /\ Listed /\ Exclusive /\ Balanced /\ Retired /\ [Next]_vars => Retired'
<1>. SUFFICES ASSUME TypeOK, Listed, Exclusive, Balanced, Retired, [Next]_vars,
                     NEW n \in Notifies, ~live'[n]
              PROVE  block'[n] > 0
  BY DEF Retired
<1>1. block \in [Notifies -> Int] /\ live \in [Notifies -> BOOLEAN]
  BY DEF TypeOK
<1>2. ASSUME ~live[n], block'[n] >= block[n] PROVE block'[n] > 0
  <2>1. block'[n] \in Int
    BY TypeStep DEF TypeOK
  <2>. QED  BY <1>1, <1>2, <2>1 DEF Retired
<1>3. ASSUME UNCHANGED <<live, block>> PROVE block'[n] > 0
  BY <1>2, <1>3, <1>1
<1>4. ASSUME UNCHANGED live, NEW m \in Notifies, live[m], GetLocked(m) PROVE block'[n] > 0
  BY <1>1, <1>2, <1>4 DEF GetLocked
<1>5. ASSUME UNCHANGED live, NEW m \in Notifies, PutLocked(m)
      PROVE  block'[n] > 0
  <2>1. block'[n] >= block[n]
    BY <1>1, <1>5 DEF PutLocked
  <2>. QED  BY <1>2, <1>5, <2>1
<1>6. CASE UNCHANGED vars
  BY <1>3, <1>6 DEF vars
<1>7. ASSUME NEW u \in Users, UserCall(u) PROVE block'[n] > 0
  <2>1. CASE UNCHANGED <<live, block>>
    BY <1>3, <2>1
  <2>2. ASSUME NEW m \in Notifies, NotifyInit(u, m) PROVE block'[n] > 0
    <3>1. live' = [live EXCEPT ![m] = TRUE] /\ block' = [block EXCEPT ![m] = 1]
      BY <2>2 DEF NotifyInit
    <3>2. ~live[n] /\ n # m
      BY <1>1, <3>1, Zenon
    <3>. QED  BY <1>1, <1>2, <3>1, <3>2
  <2>. QED  BY <1>7, <2>1, <2>2 DEF UserCall, NotifyGet, NotifyPut
<1>8. ASSUME NEW u \in Users, UserStep(u) PROVE block'[n] > 0
  <2>0. user[u].pc # "idle" => user[u].n \in Notifies /\ live[user[u].n]
    BY DEF TypeOK, Exclusive
  <2>1. CASE UserGetLocked(u)
    BY <1>4, <2>0, <2>1 DEF UserGetLocked
  <2>2. CASE UserPutLocked(u)
    BY <1>5, <2>0, <2>2 DEF UserPutLocked
  <2>3. CASE UserFlush(u)
    BY <1>3, <2>3 DEF UserFlush
  <2>4. CASE UserListDel(u)
    <3>1. UNCHANGED block /\ user[u].pc = "del" /\ user[u].n \in Notifies /\ user[u].fini
      BY <2>0, <2>4 DEF UserListDel, Exclusive
    <3>2. CASE n # user[u].n
      <4>1. live' = [live EXCEPT ![user[u].n] = FALSE]
        BY <2>4 DEF UserListDel
      <4>2. ~live[n]
        BY <1>1, <3>2, <4>1, Zenon
      <4>. QED  BY <1>1, <1>2, <3>1, <4>2
    <3>3. CASE n = user[u].n
      <4>1. Putting(n) = {} /\ ~flag[n]
        BY <3>1, <3>3 DEF Putting, Exclusive
      <4>2. Putters(n) = 0
        BY <4>1, FS_EmptySet DEF Putters
      <4>3. /\ Surplus(n) >= 0 /\ Surplus(n) \in Int /\ Getters(n) \in Nat
            /\ Surplus(n) = block[n] - (1 - B(flag[n]) + B(Sending(n)) + B(work[n].pending)
                              + B(work[n].pc # "idle") + Getters(n) - Putters(n))
        BY SurplusTypes, SurplusSum DEF Balanced
      <4>4. block[n] > 0
        BY <1>1, <4>1, <4>2, <4>3 DEF B
      <4>. QED  BY <3>1, <4>4
    <3>. QED  BY <3>2, <3>3
  <2>. QED  BY <1>8, <2>1, <2>2, <2>3, <2>4 DEF UserStep
<1>9. CASE Event
  BY <1>3, <1>9 DEF Event, SendStart
<1>10. CASE SendStep
  <2>1. send.pc \in Busy => Cur \in Notifies /\ live[Cur]
    <3>1. send.pc \in Busy => send.pos \in DOMAIN queue /\ Cur \in Notifies
      BY DEF TypeOK, Cur
    <3>. QED  BY <3>1 DEF Listed, Cur
  <2>2. CASE SendBlock
    <3>1. Cur \in Notifies
      BY <2>2 DEF SendBlock, TypeOK, Cur
    <3>. QED  BY <1>5, <2>2, <3>1 DEF SendBlock
  <2>3. CASE SendRearm
    BY <1>4, <2>1, <2>3 DEF SendRearm, Busy
  <2>4. CASE ~SendBlock /\ ~SendRearm
    BY <1>3, <1>10, <2>4 DEF SendStep, SendEnd, SendSkip, SendQueue, SendFunc, SendClear
  <2>. QED  BY <2>2, <2>3, <2>4
<1>11. ASSUME NEW m \in Notifies, WorkStep(m) PROVE block'[n] > 0
  <2>1. CASE WorkRearm(m)
    BY <1>4, <2>1 DEF WorkRearm
  <2>2. CASE ~WorkRearm(m)
    BY <1>3, <1>11, <2>2 DEF WorkStep, WorkRun, WorkFunc, WorkClear
  <2>. QED  BY <2>1, <2>2
<1>. QED  BY <1>6, <1>7, <1>8, <1>9, <1>10, <1>11 DEF Next

LEMMA RefsStep == TypeOK /\ Retired /\ RefsExact /\ [Next]_vars => RefsExact'
<1>. SUFFICES ASSUME TypeOK, Retired, RefsExact, [Next]_vars PROVE RefsExact'
  OBVIOUS
<1>1. ASSUME UNCHANGED <<block, refs, hw>> PROVE RefsExact'
  BY <1>1 DEF RefsExact, Armed
<1>2. CASE UNCHANGED vars
  BY <1>1, <1>2 DEF vars
<1>3. ASSUME NEW u \in Users, NEW n \in Notifies, NotifyInit(u, n) PROVE RefsExact'
  <2>1. block[n] > 0 /\ block' = [block EXCEPT ![n] = 1] /\ UNCHANGED <<refs, hw>>
    BY <1>3 DEF NotifyInit, Retired
  <2>2. \A m \in Notifies : Armed(m)' <=> Armed(m)
    BY <2>1 DEF Armed, TypeOK
  <2>3. \A s \in Slots : ArmedAt(s)' = ArmedAt(s)
    BY <2>2 DEF ArmedAt
  <2>. QED  BY <2>1, <2>3 DEF RefsExact, ArmedAt
<1>4. ASSUME NEW u \in Users, UserCall(u) PROVE RefsExact'
  BY <1>1, <1>3, <1>4 DEF UserCall, NotifyGet, NotifyPut
<1>5. ASSUME NEW u \in Users, UserStep(u) PROVE RefsExact'
  <2>1. user[u].pc # "idle" => user[u].n \in Notifies
    BY DEF TypeOK
  <2>2. CASE UserGetLocked(u) \/ UserPutLocked(u)
    BY <2>1, <2>2, LockedRefs DEF UserGetLocked, UserPutLocked
  <2>3. CASE UserFlush(u) \/ UserListDel(u)
    BY <1>1, <2>3 DEF UserFlush, UserListDel
  <2>. QED  BY <1>5, <2>2, <2>3 DEF UserStep
<1>6. CASE Event
  BY <1>1, <1>6 DEF Event, SendStart
<1>7. CASE SendStep
  <2>1. send.pc # "idle" /\ send.pos \in DOMAIN queue => Cur \in Notifies
    BY DEF TypeOK, Cur
  <2>2. send.pc \in Busy => Cur \in Notifies
    BY DEF TypeOK, Cur
  <2>3. CASE SendBlock \/ SendRearm
    BY <2>1, <2>2, <2>3, LockedRefs DEF SendBlock, SendRearm, Busy
  <2>4. CASE ~SendBlock /\ ~SendRearm
    BY <1>1, <1>7, <2>4 DEF SendStep, SendEnd, SendSkip, SendQueue, SendFunc, SendClear
  <2>. QED  BY <2>3, <2>4
<1>8. ASSUME NEW n \in Notifies, WorkStep(n) PROVE RefsExact'
  <2>1. CASE WorkRearm(n)
    BY <2>1, LockedRefs DEF WorkRearm
  <2>2. CASE ~WorkRearm(n)
    BY <1>1, <1>8, <2>2 DEF WorkStep, WorkRun, WorkFunc, WorkClear
  <2>. QED  BY <2>1, <2>2
<1>. QED  BY <1>2, <1>4, <1>5, <1>6, <1>7, <1>8 DEF Next

-----------------------------------------------------------------------------
(* The theorems.                                                           *)

Counts == Listed /\ Exclusive /\ Balanced /\ Fresh /\ Retired /\ RefsExact

LEMMA CountsInit == Init => Counts
<1>. SUFFICES ASSUME Init PROVE Counts
  OBVIOUS
<1>1. TypeOK
  BY NotifyAssumption DEF Init, TypeOK, SendIdle, WorkIdle, UserIdle, Busy
<1>2. /\ send.pc = "idle" /\ live = [n \in Notifies |-> FALSE] /\ queue = <<>>
      /\ \A u \in Users : user[u].pc = "idle" /\ user[u].n \notin Notifies
  BY NotifyAssumption DEF Init, SendIdle, UserIdle
<1>3. Listed
  BY DEF Init, Listed
<1>4. Exclusive
  BY <1>2 DEF Exclusive
<1>5. Balanced
  <2>. SUFFICES ASSUME NEW n \in Notifies PROVE Surplus(n) = 0
    BY DEF Balanced
  <2>1. Getters(n) = 0 /\ Putters(n) = 0
    <3>1. Getting(n) = {} /\ Putting(n) = {}
      BY <1>2 DEF Getting, Putting
    <3>. QED  BY <3>1, FS_EmptySet DEF Getters, Putters
  <2>2. ~Sending(n)
    BY <1>2 DEF Sending, Busy
  <2>3. block[n] = 1 /\ ~flag[n] /\ work[n] = WorkIdle
    BY DEF Init
  <2>. QED  BY <2>1, <2>2, <2>3, SurplusSum DEF B, WorkIdle
<1>6. Fresh
  BY <1>2 DEF Fresh
<1>7. Retired
  BY DEF Init, Retired
<1>8. RefsExact
  <2>. SUFFICES ASSUME NEW s \in Slots
                PROVE  refs[s] = Cardinality(ArmedAt(s)) /\ (hw[s] <=> refs[s] > 0)
    BY DEF RefsExact, ArmedAt
  <2>1. ArmedAt(s) = {}
    BY DEF ArmedAt, Armed, Init
  <2>2. refs[s] = 0 /\ ~hw[s]
    BY DEF Init
  <2>. QED  BY <2>1, <2>2, FS_EmptySet
<1>. QED  BY <1>3, <1>4, <1>5, <1>6, <1>7, <1>8 DEF Counts

LEMMA CountsCorrect == Spec => []Counts
<1>1. TypeOK /\ Counts /\ [Next]_vars => Counts'
  BY ListedStep, ExclusiveStep, BalancedStep, FreshStep, RetiredStep, RefsStep DEF Counts
<1>. QED  BY <1>1, CountsInit, TypeCorrect, PTL DEF Spec

\* event->refs counts the armed notifies of every slot and the source of a slot
\* is on exactly while it has one, whatever gets, puts, finis, deliveries and
\* workers do at once (event.c:26-49).
THEOREM References == Spec => []RefsExact
<1>1. Counts => RefsExact
  BY DEF Counts
<1>. QED  BY <1>1, CountsCorrect, PTL

\* notify->block is never less than the reasons there are to block a notify, and
\* exactly that many, merged deliveries of unserialised callers apart
\* (notify.c:27-67, 99-110).
THEOREM Blocks == Spec => []BlockAccounts
<1>1. TypeOK /\ Counts => BlockAccounts
  <2>. SUFFICES ASSUME TypeOK, Counts, NEW n \in Notifies
                PROVE  /\ block[n] >= Account(n)
                       /\ Serialized \/ n \notin Work => block[n] = Account(n)
    BY DEF BlockAccounts
  <2>. QED  BY SurplusTypes DEF Counts, Balanced
<1>. QED  BY <1>1, CountsCorrect, TypeCorrect, PTL

\* If the callers are serialised, no delivery overwrites the data of an earlier
\* one that nvkm_notify_work has not read (notify.c:107-110).
THEOREM Payload == ASSUME Serialized PROVE Spec => []PayloadStable
<1>1. Counts => PayloadStable
  BY DEF Counts, Fresh, PayloadStable, WorkIdle
<1>. QED  BY <1>1, CountsCorrect, PTL

-----------------------------------------------------------------------------
(* The inductive invariant.                                                *)

CallPcs == {"idle", "dec", "getIoctl", "getWait", "inc", "putIoctl", "putWait", "flush",
            "delIoctl", "delWait", "func", "clear"}
CallRec == [pc : CallPcs, n : Notifies \cup {NoNotify}, dtor : BOOLEAN]

\* In a put: between test_and_clear_bit and the end of flush_work.
PutPcs == {"inc", "putIoctl", "putWait", "flush"}

\* What the call c of t can be.
CallerOK(t, c) ==
  /\ c.pc = "idle" => c = CallIdle
  /\ c.pc # "idle" => c.n \in Notifies
  /\ t \in Threads => c.pc \notin {"func", "clear"}
  /\ t \in Deferred /\ c.pc # "idle" =>
       c.n = t /\ ~c.dtor /\ c.pc \in {"func", "clear", "dec", "getIoctl", "getWait"}
  /\ c.pc \in {"delIoctl", "delWait"} => c.dtor
  /\ c.pc \in {"dec", "getIoctl", "getWait"} => ~c.dtor
  /\ c.pc = "flush" => c.n \in Deferred

Callers == \A t \in Users : CallerOK(t, call[t])

\* What a thread in call c can be doing in NVKM.
BelowOK(c, u) ==
  u.pc # "idle" =>
    /\ u.n = c.n
    /\ \/ u.pc = "get" /\ ~u.fini /\ c.pc = "getWait"
       \/ u.pc = "put" /\ ~u.fini /\ c.pc = "putWait"
       \/ u.pc \in {"put", "del"} /\ u.fini /\ c.pc = "delWait"

Below == \A t \in Users : BelowOK(call[t], user[t])

\* nvif_notify_dtor is never concurrent with another call for its notify.
Alone ==
  \A t, v \in Threads :
    t # v /\ call[t].pc # "idle" /\ call[t].n = call[v].n => ~call[t].dtor

\* A call finds its notify constructed, and NVKM's does not outlive NVIF's.
Lives ==
  /\ \A t \in Threads : call[t].pc # "idle" => object[call[t].n]
  /\ \A n \in Notifies : live[n] => object[n]
  /\ \A t \in Threads : call[t].pc = "delWait" /\ user[t].pc = "idle" => ~live[call[t].n]
  /\ \A t \in Threads : call[t].dtor => ~nflag[call[t].n]

\* A callback takes the branch of its notify.
Branches ==
  /\ cb.pc = "queue" => Cur \in Deferred
  /\ cb.pc \in {"func", "clear"} => Cur \notin Deferred

\* A worker re-arms its notify only while somebody wants it, or before the put
\* that says otherwise has flushed the worker.
Rearming ==
  \A n \in Deferred :
    call[n].pc \in {"getIoctl", "getWait"} =>
      nflag[n] \/ \E t \in Threads : call[t].n = n /\ call[t].pc \in PutPcs

NvifInv ==
  /\ PutcntAccounts /\ Listed
  /\ Callers /\ Below /\ Alone /\ Lives /\ Branches /\ Rearming

USE NotifyAssumption, NvifAssumption

\* The types, in the form the proofs below use.
LEMMA NvifFacts ==
  ASSUME NvifInv
  PROVE  /\ TypeOK
         /\ Users = Threads \cup Deferred /\ Threads \cap Deferred = {}
         /\ call \in [Users -> CallRec] /\ user \in [Users -> UserRec]
         /\ CallIdle \in CallRec /\ CallIdle.pc = "idle" /\ CallIdle.n \notin Notifies /\ ~CallIdle.dtor
         /\ \A t \in Users : user[t].pc # "idle" <=> user[t].n \in Notifies
         /\ send.pc = "func" => Cur \in Notifies
         /\ object \in [Notifies -> BOOLEAN] /\ live \in [Notifies -> BOOLEAN]
         /\ nflag \in [Notifies -> BOOLEAN] /\ pending \in [Notifies -> BOOLEAN]
         /\ putcnt \in [Notifies -> Int]
         /\ cb \in [pc : {"enter", "queue", "func", "clear", "dec"}, keep : BOOLEAN]
         /\ cb.pc # "enter" => send.pc = "func"
<1>1. NvifTypeOK /\ TypeOK
  BY DEF NvifInv, PutcntAccounts, NvifTypeOK
<1>2. send.pc = "func" => Cur \in Notifies
  BY <1>1 DEF TypeOK, Busy, Cur
<1>3. user \in [Users -> UserRec] /\ live \in [Notifies -> BOOLEAN]
      /\ \A t \in Users : user[t].pc # "idle" <=> user[t].n \in Notifies
  BY <1>1 DEF TypeOK, UserRec
<1>4. call \in [Users -> CallRec]
  BY <1>1 DEF NvifTypeOK, CallRec, CallPcs
<1>5. CallIdle \in CallRec /\ CallIdle.pc = "idle" /\ CallIdle.n \notin Notifies /\ ~CallIdle.dtor
  BY DEF CallIdle, CallRec, CallPcs
<1>. QED  BY <1>1, <1>2, <1>3, <1>4, <1>5 DEF NvifTypeOK

-----------------------------------------------------------------------------
(* Every step of NVIF is a step of NVKM, or leaves NVKM alone.             *)

\* A thread in NVKM is there for the notify of its call.
LEMMA InNvkm ==
  ASSUME NvifInv, NEW v \in Users, NEW n \in Notifies, user[v].n = n
  PROVE  /\ call[v].n = n
         /\ call[v].pc \in {"getWait", "putWait", "delWait"}
         /\ user[v].fini => call[v].pc = "delWait" /\ call[v].dtor /\ v \in Threads
         /\ v \in Deferred => v = n /\ call[v].pc = "getWait"
<1>1. user[v].pc # "idle" /\ BelowOK(call[v], user[v]) /\ CallerOK(v, call[v])
  BY NvifFacts DEF NvifInv, Below, Callers
<1>. QED  BY <1>1, NvifFacts DEF BelowOK, CallerOK

\* The worker is not re-arming a notify that is being deleted.
LEMMA NoRearm ==
  ASSUME NvifInv, NEW t \in Threads, call[t].pc \in {"delIoctl", "delWait"},
         call[t].n \in Deferred
  PROVE  call[call[t].n].pc \notin {"getIoctl", "getWait"}
<1>1. call[t].dtor /\ t \in Users
  BY NvifFacts DEF NvifInv, Callers, CallerOK
<1>2. ~nflag[call[t].n]
  BY <1>1 DEF NvifInv, Lives
<1>3. ASSUME NEW v \in Threads, call[v].n = call[t].n, call[v].pc \in PutPcs PROVE FALSE
  BY <1>1, <1>3 DEF NvifInv, Alone, PutPcs
<1>. QED  BY <1>2, <1>3 DEF NvifInv, Rearming

\* The ioctls obey the rule of NVKM for concurrent calls.
LEMMA IoctlsMayCall ==
  ASSUME NvifInv, NEW t \in Users
  PROVE  /\ call[t].pc \in {"getIoctl", "putIoctl"} => MayCall(t, call[t].n, FALSE)
         /\ call[t].pc = "delIoctl" => MayCall(t, call[t].n, TRUE)
<1>1. ASSUME call[t].pc \in {"getIoctl", "putIoctl"}, NEW v \in Users \ {t},
             user[v].n = call[t].n, user[v].fini
      PROVE  FALSE
  <2>1. call[t].n \in Notifies /\ CallerOK(t, call[t])
    BY <1>1 DEF NvifInv, Callers, CallerOK
  <2>2. call[v].n = call[t].n /\ call[v].pc = "delWait" /\ call[v].dtor /\ v \in Threads
    BY <1>1, <2>1, InNvkm, NvifFacts DEF NvifInv, Callers, CallerOK
  <2>3. CASE t \in Threads
    BY <1>1, <2>2, <2>3 DEF NvifInv, Alone
  <2>4. CASE t \in Deferred
    BY <1>1, <2>1, <2>2, <2>4, NoRearm DEF CallerOK
  <2>. QED  BY <2>3, <2>4, NvifFacts
<1>2. ASSUME call[t].pc = "delIoctl", NEW v \in Users \ {t}, user[v].n = call[t].n
      PROVE  FALSE
  <2>1. call[t].n \in Notifies /\ call[t].dtor /\ t \in Threads
    BY <1>2, NvifFacts DEF NvifInv, Callers, CallerOK
  <2>2. call[v].n = call[t].n /\ (v \in Deferred => v = call[t].n /\ call[v].pc = "getWait")
    BY <1>2, <2>1, InNvkm
  <2>3. CASE v \in Threads
    BY <1>2, <2>1, <2>2, <2>3 DEF NvifInv, Alone
  <2>4. CASE v \in Deferred
    BY <1>2, <2>1, <2>2, <2>4, NoRearm
  <2>. QED  BY <2>3, <2>4, NvifFacts
<1>. QED  BY <1>1, <1>2 DEF MayCall

\* A constructor is alone.
LEMMA CtorMayCall ==
  ASSUME NvifInv, NEW t \in Threads, NEW n \in Notifies, NvifMayCall(t, n, TRUE),
         NvifCtor(t, n)
  PROVE  MayCall(t, n, TRUE)
<1>. SUFFICES ASSUME NEW v \in Users \ {t}, user[v].n = n PROVE FALSE
  BY DEF MayCall
<1>1. call[v].n = n /\ (v \in Deferred => v = n /\ call[v].pc = "getWait")
  BY InNvkm
<1>. QED  BY <1>1, NvifFacts DEF NvifMayCall, NvifCtor

\* A step of NVIF is a step of NVKM or leaves it unchanged.
LEMMA Drives == ASSUME NvifInv, [NvifNext]_allVars PROVE [Next]_vars
<1>. USE DEF Next
<1>1. CASE UNCHANGED allVars
  BY <1>1 DEF allVars
<1>2. ASSUME NEW t \in Threads, NvifCall(t) PROVE [Next]_vars
  <2>0. t \in Users
    BY NvifFacts
  <2>1. PICK n \in Notifies : \/ NvifMayCall(t, n, TRUE) /\ NvifCtor(t, n)
                              \/ NvifGet(t, n) \/ NvifPut(t, n, FALSE) \/ NvifPut(t, n, TRUE)
    BY <1>2 DEF NvifCall
  <2>2. CASE NvifMayCall(t, n, TRUE) /\ NvifCtor(t, n)
    <3>1. MayCall(t, n, TRUE) /\ NotifyInit(t, n)
      BY <2>2, CtorMayCall DEF NvifCtor
    <3>. QED  BY <2>0, <3>1 DEF UserCall
  <2>3. CASE NvifGet(t, n) \/ NvifPut(t, n, FALSE) \/ NvifPut(t, n, TRUE)
    BY <2>3 DEF NvifGet, NvifPut, vars
  <2>. QED  BY <2>1, <2>2, <2>3
<1>3. ASSUME NEW t \in Users, NvifStep(t) PROVE [Next]_vars
  <2>0. call[t].pc # "idle" => call[t].n \in Notifies
    BY DEF NvifInv, Callers, CallerOK
  <2>1. CASE GetIoctl(t)
    BY <2>0, <2>1, IoctlsMayCall DEF GetIoctl, UserCall
  <2>2. CASE PutIoctl(t)
    BY <2>0, <2>2, IoctlsMayCall DEF PutIoctl, UserCall
  <2>3. CASE DelIoctl(t)
    BY <2>0, <2>3, IoctlsMayCall DEF DelIoctl, UserCall
  <2>4. CASE NvkmUser(t)
    BY <2>4 DEF NvkmUser, UserStep
  <2>5. CASE Dec(t) \/ Inc(t) \/ IoctlReturn(t) \/ Flush(t) \/ DelReturn(t)
    BY <2>5 DEF Dec, Inc, IoctlReturn, Flush, DelReturn, vars
  <2>. QED  BY <1>3, <2>1, <2>2, <2>3, <2>4, <2>5 DEF NvifStep
<1>4. CASE NvifEvent
  BY <1>4 DEF NvifEvent
<1>5. CASE NvkmSend
  BY <1>5 DEF NvkmSend, SendStep
<1>6. CASE CbStep
  <2>1. UNCHANGED vars \/ \E keep \in BOOLEAN : SendFunc(keep)
    <3>1. cb.keep \in BOOLEAN
      BY NvifFacts
    <3>. QED  BY <1>6, <3>1 DEF CbStep, CbInc, CbQueue, CbFunc, CbClear, CbDec
  <2>. QED  BY <2>1 DEF SendStep
<1>7. ASSUME NEW n \in Deferred, NvifWorkStep(n) PROVE [Next]_vars
  BY <1>7 DEF NvifWorkStep, NvifWorkRun, NvifWorkFunc, NvifWorkClear, vars
<1>. QED  BY <1>1, <1>2, <1>3, <1>4, <1>5, <1>6, <1>7 DEF NvifNext

-----------------------------------------------------------------------------
(* What the callers are doing.                                             *)

\* A step of t in nvif code, after which its call is r.
Turn(t, r) == r \in CallRec /\ call' = [call EXCEPT ![t] = r]

\* The calls of the other threads stay.
LEMMA TurnFacts ==
  ASSUME NvifInv, NEW t \in Users, NEW r, Turn(t, r)
  PROVE  /\ call' \in [Users -> CallRec] /\ call'[t] = r
         /\ \A v \in Users \ {t} : call'[v] = call[v]
  BY NvifFacts DEF Turn

\* The steps that go on with a call that has begun.
LEMMA Continue ==
  ASSUME NvifInv, NEW t \in Users, NEW r, Turn(t, r), CallerOK(t, r),
         call[t].pc # "idle",
         r = CallIdle \/ (r.n = call[t].n /\ r.dtor = call[t].dtor),
         UNCHANGED <<object, nflag, live>>,
         \A v \in Users \ {t} : user'[v] = user[v],
         BelowOK(r, user'[t]),
         r.pc = "delWait" /\ user'[t].pc = "idle" => ~live[r.n],
         call[t].pc \in PutPcs /\ call[t].n \in Deferred =>
            r.pc \in PutPcs \/ call[call[t].n].pc = "idle",
         t \in Deferred /\ r.pc \in {"getIoctl", "getWait"} =>
            \/ call[t].pc \in {"getIoctl", "getWait"}
            \/ nflag[t]
            \/ \E v \in Threads : call[v].n = t /\ call[v].pc \in PutPcs
  PROVE  Callers' /\ Below' /\ Alone' /\ Lives' /\ Rearming'
<1>1. /\ call'[t] = r
      /\ \A v \in Users \ {t} : call'[v] = call[v]
  BY TurnFacts
<1>2. Callers'
  BY <1>1 DEF NvifInv, Callers, CallerOK
<1>3. Below'
  BY <1>1 DEF NvifInv, Below, BelowOK
<1>4. \A v \in Threads : /\ v \in Users
                         /\ call'[v].pc # "idle" =>
                              /\ call[v].pc # "idle"
                              /\ call'[v].n = call[v].n /\ call'[v].dtor = call[v].dtor
  BY <1>1, NvifFacts
<1>5. \A v \in Threads : call'[v].n \in Notifies => call'[v].pc # "idle"
  BY <1>1, NvifFacts DEF NvifInv, Callers, CallerOK
<1>6. \A v \in Threads : call'[v].pc # "idle" => call'[v].n \in Notifies
  BY <1>2, <1>4 DEF Callers, CallerOK
<1>7. Alone'
  BY <1>4, <1>5, <1>6 DEF NvifInv, Alone
<1>8. \A v \in Threads : call'[v].pc = "idle" => ~call'[v].dtor
  BY <1>2, <1>4 DEF Callers, CallerOK, CallIdle
<1>9. Lives'
  BY <1>1, <1>4, <1>8 DEF NvifInv, Lives
<1>10. Rearming'
  <2>. SUFFICES ASSUME NEW n \in Deferred, call'[n].pc \in {"getIoctl", "getWait"}, ~nflag[n]
                PROVE  \E v \in Threads : call'[v].n = n /\ call'[v].pc \in PutPcs
    BY DEF Rearming
  <2>1. n \in Users /\ n \notin Threads
    BY NvifFacts
  <2>2. PICK v \in Threads : call[v].n = n /\ call[v].pc \in PutPcs
    BY <1>1, <2>1 DEF NvifInv, Rearming
  <2>3. CASE v # t
    BY <1>1, <1>4, <2>2, <2>3
  <2>4. CASE v = t
    <3>1. call[n].pc # "idle"
      BY <1>1, <2>1, <2>4, NvifFacts
    <3>2. r.pc \in PutPcs
      BY <2>2, <2>4, <3>1
    <3>3. call'[v].n = n
      BY <1>1, <2>2, <2>4, <3>2, NvifFacts DEF PutPcs
    <3>. QED  BY <1>1, <2>4, <3>2, <3>3
  <2>. QED  BY <2>3, <2>4
<1>. QED  BY <1>2, <1>3, <1>7, <1>9, <1>10

\* A thread that is not in an ioctl is not in NVKM.
LEMMA AboveNvkm ==
  ASSUME NvifInv, NEW t \in Users, call[t].pc \notin {"getWait", "putWait", "delWait"}
  PROVE  user[t].pc = "idle"
  BY DEF NvifInv, Below, BelowOK

\* Where a call goes next, and where it ends.
Back(t) == IF call[t].dtor THEN [call[t] EXCEPT !.pc = "delIoctl"] ELSE CallIdle

\* The call goes to pc, or returns.
LEMMA Nexts ==
  ASSUME NvifInv, NEW t \in Users, call[t].pc # "idle"
  PROVE  /\ \A pc \in CallPcs :
              /\ [call[t] EXCEPT !.pc = pc] \in CallRec
              /\ [call[t] EXCEPT !.pc = pc].pc = pc
              /\ [call[t] EXCEPT !.pc = pc].n = call[t].n
              /\ [call[t] EXCEPT !.pc = pc].dtor = call[t].dtor
         /\ \A pc \in CallPcs : Goto(t, pc) => Turn(t, [call[t] EXCEPT !.pc = pc])
         /\ Return(t) => Turn(t, Back(t))
         /\ \/ Back(t) = CallIdle
            \/ /\ Back(t).pc = "delIoctl" /\ call[t].dtor
               /\ Back(t).n = call[t].n /\ Back(t).dtor = call[t].dtor
         /\ CallerOK(t, Back(t))
<1>1. call[t] \in CallRec /\ CallIdle \in CallRec /\ call[t].n \in Notifies
  BY NvifFacts DEF NvifInv, Callers, CallerOK
<1>2. \A pc \in CallPcs :
              /\ [call[t] EXCEPT !.pc = pc] \in CallRec
              /\ [call[t] EXCEPT !.pc = pc].pc = pc
              /\ [call[t] EXCEPT !.pc = pc].n = call[t].n
              /\ [call[t] EXCEPT !.pc = pc].dtor = call[t].dtor
  BY <1>1 DEF CallRec
<1>3. ASSUME NEW pc \in CallPcs, Goto(t, pc) PROVE Turn(t, [call[t] EXCEPT !.pc = pc])
  BY <1>2, <1>3, NvifFacts DEF Goto, Turn
<1>4. "delIoctl" \in CallPcs
  BY DEF CallPcs
<1>5. Back(t) \in CallRec
  BY <1>1, <1>2, <1>4 DEF Back
<1>6. ASSUME Return(t) PROVE Turn(t, Back(t))
  BY <1>5, <1>6, NvifFacts DEF Return, Turn, Back
<1>7. /\ \/ Back(t) = CallIdle
         \/ /\ Back(t).pc = "delIoctl" /\ call[t].dtor
            /\ Back(t).n = call[t].n /\ Back(t).dtor = call[t].dtor
      /\ CallerOK(t, Back(t))
  <2>1. CASE call[t].dtor
    <3>. DEFINE r == [call[t] EXCEPT !.pc = "delIoctl"]
    <3>1. r.pc = "delIoctl" /\ r.n = call[t].n /\ r.dtor = call[t].dtor /\ Back(t) = r
      BY <1>2, <1>4, <2>1 DEF Back
    <3>. HIDE DEF r
    <3>2. t \notin Deferred
      BY <2>1 DEF NvifInv, Callers, CallerOK, CallIdle
    <3>. QED  BY <1>1, <2>1, <3>1, <3>2 DEF CallerOK
  <2>2. CASE ~call[t].dtor
    <3>1. Back(t) = CallIdle
      BY <2>2 DEF Back
    <3>2. CallerOK(t, CallIdle)
      BY DEF CallerOK, CallIdle
    <3>. QED  BY <3>1, <3>2, Zenon
  <2>. QED  BY <2>1, <2>2
<1>. QED  BY <1>2, <1>3, <1>6, <1>7, Zenon

\* A worker whose decrement reaches 0 sees a notify that is wanted, or a put that
\* has not incremented yet.
LEMMA LastDec ==
  ASSUME NvifInv, NEW t \in Deferred, call[t].pc = "dec", putcnt[t] - 1 = 0
  PROVE  nflag[t] \/ \E v \in Threads : call[v].n = t /\ call[v].pc \in PutPcs
<1>. DEFINE D == In(t, {"func", "clear", "dec"})
            I == In(t, {"inc"})
<1>1. t \in Notifies /\ t \in Users /\ call[t].n = t
  BY NvifFacts DEF NvifInv, Callers, CallerOK
<1>2. putcnt[t] >= 1 - B(nflag[t]) + B(cb.pc # "enter" /\ Cur = t) + B(pending[t])
                     + Cardinality(D) - Cardinality(I)
  BY <1>1 DEF NvifInv, PutcntAccounts
<1>3. IsFiniteSet(D) /\ IsFiniteSet(I) /\ t \in D
  BY <1>1, FS_Subset DEF In
<1>4. Cardinality(D) \in Nat /\ Cardinality(I) \in Nat /\ Cardinality(D) # 0
  BY <1>3, FS_CardinalityType, FS_EmptySet
<1>5. I # {} \/ Cardinality(I) = 0
  BY FS_EmptySet
<1>6. \A v \in I : v \in Threads /\ call[v].n = t /\ call[v].pc \in PutPcs
  BY NvifFacts DEF NvifInv, Callers, CallerOK, In, PutPcs
<1>. HIDE DEF D, I
<1>7. nflag[t] \/ I # {}
  BY <1>1, <1>2, <1>4, <1>5, NvifFacts DEF B
<1>. QED  BY <1>6, <1>7

\* The steps of a call.
LEMMA StepCalls ==
  ASSUME NvifInv, NEW t \in Users,
         Dec(t) \/ GetIoctl(t) \/ Inc(t) \/ PutIoctl(t) \/ IoctlReturn(t) \/ Flush(t) \/ DelIoctl(t)
  PROVE  Callers' /\ Below' /\ Alone' /\ Lives' /\ Rearming'
<1>0. /\ call[t].pc # "idle" => CallerOK(t, call[t]) /\ call[t].n \in Notifies
      /\ \A v \in Users : v \notin Deferred => v \in Threads
  BY NvifFacts DEF NvifInv, Callers, CallerOK
<1>. DEFINE go(pc) == [call[t] EXCEPT !.pc = pc]
<1>1. \A u \in UserRec : u.pc = "idle" => \A r \in CallRec : BelowOK(r, u)
  BY DEF BelowOK
<1>2. CASE Dec(t)
  <2>1. /\ call[t].pc = "dec" /\ UNCHANGED <<object, nflag, live, user>>
        /\ IF putcnt[call[t].n] - 1 = 0 THEN Goto(t, "getIoctl") ELSE Return(t)
    BY <1>0, <1>2, NvifFacts DEF Dec, vars
  <2>2. user'[t].pc = "idle" /\ user[t] \in UserRec
    BY <2>1, AboveNvkm, NvifFacts
  <2>3. CASE putcnt[call[t].n] - 1 = 0
    <3>1. Turn(t, go("getIoctl")) /\ go("getIoctl").pc = "getIoctl"
          /\ go("getIoctl").n = call[t].n /\ go("getIoctl").dtor = call[t].dtor
      BY <2>1, <2>3, Nexts, ZenonT(30) DEF CallPcs
    <3>. HIDE DEF go
    <3>2. CallerOK(t, go("getIoctl"))
      BY <1>0, <2>1, <3>1 DEF CallerOK
    <3>3. t \in Deferred => call[t].n = t
      BY <1>0, <2>1 DEF CallerOK
    <3>4. t \in Deferred => nflag[t] \/ \E v \in Threads : call[v].n = t /\ call[v].pc \in PutPcs
      BY <2>1, <2>3, <3>3, LastDec
    <3>5. BelowOK(go("getIoctl"), user'[t])
      BY <2>2 DEF BelowOK
    <3>6. call[t].pc \notin PutPcs
      BY <2>1 DEF PutPcs
    <3>. QED  BY <2>1, <2>2, <3>1, <3>2, <3>4, <3>5, <3>6, Continue
  <2>4. CASE putcnt[call[t].n] - 1 # 0
    <3>1. Turn(t, Back(t)) /\ CallerOK(t, Back(t))
          /\ (Back(t) = CallIdle \/ (Back(t).n = call[t].n /\ Back(t).dtor = call[t].dtor))
          /\ Back(t).pc \in {"idle", "delIoctl"}
      BY <2>1, <2>4, Nexts, NvifFacts
    <3>. QED  BY <1>0, <1>1, <2>1, <2>2, <3>1, Continue DEF PutPcs, Turn
  <2>. QED  BY <2>3, <2>4
<1>3. CASE GetIoctl(t)
  <2>1. /\ call[t].pc = "getIoctl" /\ UNCHANGED <<object, nflag, live>> /\ Goto(t, "getWait")
        /\ \A v \in Users \ {t} : user'[v] = user[v]
        /\ user'[t].pc = "idle" \/ user'[t] = [pc |-> "get", n |-> call[t].n, fini |-> FALSE]
    BY <1>3, NvifFacts, ZenonT(30) DEF GetIoctl, NotifyGet
  <2>2. Turn(t, go("getWait")) /\ go("getWait").pc = "getWait"
          /\ go("getWait").n = call[t].n /\ go("getWait").dtor = call[t].dtor
    BY <2>1, Nexts, ZenonT(30) DEF CallPcs
  <2>. HIDE DEF go
  <2>3. CallerOK(t, go("getWait")) /\ BelowOK(go("getWait"), user'[t])
    BY <1>0, <2>1, <2>2 DEF CallerOK, BelowOK
  <2>. QED  BY <2>1, <2>2, <2>3, Continue DEF PutPcs
<1>4. CASE PutIoctl(t) \/ DelIoctl(t)
  <2>. DEFINE pc == IF call[t].pc = "putIoctl" THEN "putWait" ELSE "delWait"
              fini == call[t].pc = "delIoctl"
  <2>1. /\ call[t].pc \in {"putIoctl", "delIoctl"} /\ UNCHANGED <<object, nflag, live>> /\ Goto(t, pc)
        /\ user[t].pc = "idle" /\ NotifyPut(t, call[t].n, fini)
    BY <1>4 DEF PutIoctl, DelIoctl, NotifyPut
  <2>2. /\ \A v \in Users \ {t} : user'[v] = user[v]
        /\ \/ user'[t].pc = "idle" /\ (fini => ~live[call[t].n])
           \/ /\ user'[t].pc = "put" \/ (fini /\ user'[t].pc = "del")
              /\ user'[t].n = call[t].n /\ user'[t].fini = fini
    <3>. DEFINE next == IF live[call[t].n] /\ flag[call[t].n] THEN "put"
                        ELSE IF live[call[t].n] /\ fini THEN "del" ELSE "idle"
                r == IF next = "idle" THEN UserIdle
                     ELSE [pc |-> next, n |-> call[t].n, fini |-> fini]
    <3>1. user' = [user EXCEPT ![t] = r]
      BY <2>1 DEF NotifyPut
    <3>2. \/ r.pc = "idle" /\ (fini => ~live[call[t].n])
          \/ (r.pc = "put" \/ (fini /\ r.pc = "del")) /\ r.n = call[t].n /\ r.fini = fini
      BY DEF UserIdle
    <3>. HIDE DEF r, fini
    <3>. QED  BY <3>1, <3>2, NvifFacts
  <2>3. Turn(t, go(pc)) /\ go(pc).pc = pc /\ go(pc).n = call[t].n /\ go(pc).dtor = call[t].dtor
    <3>1. pc \in CallPcs
      BY DEF CallPcs
    <3>. QED  BY <2>1, <3>1, Nexts
  <2>. HIDE DEF go
  <2>4. CallerOK(t, go(pc)) /\ BelowOK(go(pc), user'[t])
    BY <1>0, <2>1, <2>2, <2>3 DEF CallerOK, BelowOK
  <2>5. call[t].pc \in PutPcs => pc \in PutPcs
    BY <2>1 DEF PutPcs
  <2>. QED  BY <1>0, <2>1, <2>2, <2>3, <2>4, <2>5, Continue
<1>5. CASE Inc(t) \/ (IoctlReturn(t) /\ call[t].pc = "putWait")
  <2>1. /\ call[t].pc \in {"inc", "putWait"} /\ UNCHANGED <<object, nflag, live, user>>
        /\ user[t].pc = "idle"
        /\ Goto(t, "putIoctl") \/ AfterInc(t)
    BY <1>0, <1>5, AboveNvkm, NvifFacts DEF Inc, IoctlReturn, vars
  <2>2. user'[t].pc = "idle" /\ user[t] \in UserRec /\ user' = user /\ t \notin Deferred
    BY <1>0, <2>1, NvifFacts DEF CallerOK
  <2>3. ASSUME NEW pc \in {"putIoctl", "flush"}, Goto(t, pc), pc = "flush" => call[t].n \in Deferred
        PROVE  Callers' /\ Below' /\ Alone' /\ Lives' /\ Rearming'
    <3>0. pc \in CallPcs
      BY DEF CallPcs
    <3>1. Turn(t, go(pc)) /\ go(pc).pc = pc /\ go(pc).n = call[t].n /\ go(pc).dtor = call[t].dtor
      BY <2>1, <2>3, <3>0, Nexts
    <3>. HIDE DEF go
    <3>2. CallerOK(t, go(pc)) /\ go(pc).pc \in PutPcs
      BY <1>0, <2>1, <2>2, <2>3, <3>1 DEF CallerOK, PutPcs
    <3>3. BelowOK(go(pc), user'[t])
      BY <2>2 DEF BelowOK
    <3>. QED  BY <1>0, <2>1, <2>2, <2>3, <3>1, <3>2, <3>3, Continue
  <2>4. CASE Return(t) /\ call[t].n \notin Deferred
    <3>1. Turn(t, Back(t)) /\ CallerOK(t, Back(t))
          /\ (Back(t) = CallIdle \/ (Back(t).n = call[t].n /\ Back(t).dtor = call[t].dtor))
          /\ Back(t).pc \in {"idle", "delIoctl"}
      BY <2>1, <2>4, Nexts, NvifFacts
    <3>. QED  BY <1>0, <1>1, <2>1, <2>2, <2>4, <3>1, Continue DEF Turn
  <2>. QED  BY <2>1, <2>3, <2>4 DEF AfterInc
<1>6. CASE (IoctlReturn(t) /\ call[t].pc = "getWait") \/ Flush(t)
  <2>1. /\ call[t].pc \in {"getWait", "flush"} /\ UNCHANGED <<object, nflag, live, user>>
        /\ user[t].pc = "idle" /\ Return(t)
        /\ call[t].pc = "flush" => call[call[t].n].pc = "idle"
    BY <1>6, AboveNvkm DEF IoctlReturn, Flush, vars
  <2>2. user'[t].pc = "idle" /\ user[t] \in UserRec /\ user' = user
    BY <2>1, NvifFacts
  <2>3. Turn(t, Back(t)) /\ CallerOK(t, Back(t))
        /\ (Back(t) = CallIdle \/ (Back(t).n = call[t].n /\ Back(t).dtor = call[t].dtor))
        /\ Back(t).pc \in {"idle", "delIoctl"}
    BY <2>1, Nexts, NvifFacts
  <2>. QED  BY <1>0, <1>1, <2>1, <2>2, <2>3, Continue DEF PutPcs, Turn
<1>. QED  BY <1>2, <1>3, <1>4, <1>5, <1>6 DEF IoctlReturn

\* The end of nvif_notify_dtor.
LEMMA DelReturnCalls ==
  ASSUME NvifInv, NEW t \in Users, DelReturn(t)
  PROVE  Callers' /\ Below' /\ Alone' /\ Lives' /\ Rearming'
<1>1. /\ call[t].pc = "delWait" /\ user[t].pc = "idle" /\ call[t].n \in Notifies
      /\ call[t].dtor /\ t \in Threads
      /\ UNCHANGED <<user, live, nflag>>
  BY NvifFacts DEF DelReturn, NvifInv, Callers, CallerOK, vars
<1>2. /\ call'[t] = CallIdle
      /\ \A v \in Users \ {t} : call'[v] = call[v]
  BY NvifFacts DEF DelReturn
<1>3. \A n \in Notifies : object'[n] <=> object[n] /\ n # call[t].n
  <2>1. object' = [object EXCEPT ![call[t].n] = FALSE]
    BY DEF DelReturn
  <2>. QED  BY <2>1, NvifFacts, Zenon
<1>4. \A v \in Threads \ {t} : v \in Users /\ (call[v].pc # "idle" => call[v].n # call[t].n)
  BY <1>1, NvifFacts DEF NvifInv, Alone
<1>5. Callers' /\ Below'
  <2>1. CallerOK(t, CallIdle) /\ BelowOK(CallIdle, user[t])
    BY <1>1, NvifFacts DEF CallerOK, BelowOK, CallIdle
  <2>. QED  BY <1>1, <1>2, <2>1 DEF NvifInv, Callers, CallerOK, Below, BelowOK
<1>6. Alone'
  <2>1. \A v \in Threads : call[v].pc # "idle" => call[v].n \in Notifies
    BY NvifFacts DEF NvifInv, Callers, CallerOK
  <2>. QED  BY <1>1, <1>2, <1>4, <2>1, NvifFacts DEF NvifInv, Alone
<1>7. Lives'
  <2>1. \A v \in Threads : call'[v].pc # "idle" => object'[call'[v].n]
    <3>1. \A v \in Threads \ {t} : call[v].pc # "idle" => object[call[v].n] /\ call[v].n \in Notifies
      BY <1>4 DEF NvifInv, Lives, Callers, CallerOK
    <3>. QED  BY <1>2, <1>3, <1>4, <3>1, NvifFacts
  <2>2. \A n \in Notifies : live'[n] => object'[n]
    BY <1>1, <1>3 DEF NvifInv, Lives
  <2>3. \A v \in Threads : call'[v].pc = "delWait" /\ user'[v].pc = "idle" => ~live'[call'[v].n]
    BY <1>1, <1>2, <1>4, NvifFacts DEF NvifInv, Lives
  <2>4. \A v \in Threads : call'[v].dtor => ~nflag'[call'[v].n]
    BY <1>1, <1>2, <1>4, NvifFacts DEF NvifInv, Lives
  <2>. QED  BY <2>1, <2>2, <2>3, <2>4 DEF Lives
<1>8. Rearming'
  <2>1. call[t].pc \notin PutPcs /\ t \notin Deferred
    BY <1>1, NvifFacts DEF PutPcs
  <2>2. \A n \in Deferred : n \in Users /\ call'[n] = call[n]
    BY <1>2, <2>1, NvifFacts
  <2>3. \A v \in Threads : call[v].pc \in PutPcs => call'[v] = call[v]
    BY <1>2, <1>4, <2>1
  <2>. QED  BY <1>1, <2>2, <2>3 DEF NvifInv, Rearming
<1>. QED  BY <1>5, <1>6, <1>7, <1>8

\* NVKM's part of a call.
LEMMA NvkmCalls ==
  ASSUME NvifInv, NEW t \in Users, NvkmUser(t)
  PROVE  Callers' /\ Below' /\ Alone' /\ Lives' /\ Rearming'
<1>1. /\ UNCHANGED <<call, nflag, object>> /\ user[t].pc # "idle"
      /\ BelowOK(call[t], user[t]) /\ CallerOK(t, call[t])
  BY DEF NvkmUser, nvifVars, UserGetLocked, UserPutLocked, UserListDel, NvifInv, Below, Callers
<1>2. Callers' /\ Alone' /\ Rearming'
  BY <1>1 DEF NvifInv, Callers, CallerOK, Alone, Rearming
<1>3. /\ \A v \in Users \ {t} : user'[v] = user[v]
      /\ \/ user'[t] = UserIdle
         \/ user'[t] = [user[t] EXCEPT !.pc = "del"] /\ user[t].fini /\ user[t].pc = "put"
      /\ user[t].pc = "put" /\ user[t].fini => user'[t].pc # "idle"
  <2>1. CASE UserGetLocked(t) \/ UserListDel(t)
    BY <2>1, NvifFacts DEF UserGetLocked, UserListDel
  <2>2. CASE UserPutLocked(t)
    <3>1. user' = [user EXCEPT ![t] = AfterPut(t)]
      BY <2>2, NvifFacts DEF UserPutLocked
    <3>2. user[t].pc = "put" /\ user[t] \in UserRec
      BY <2>2, NvifFacts DEF UserPutLocked
    <3>3. AfterPut(t) = IF user[t].fini THEN [user[t] EXCEPT !.pc = "del"] ELSE UserIdle
      BY DEF AfterPut
    <3>4. user[t].fini => AfterPut(t).pc = "del"
      BY <3>2, <3>3 DEF UserRec
    <3>5. UserIdle.pc = "idle"
      BY DEF UserIdle
    <3>. QED  BY <3>1, <3>2, <3>3, <3>4, <3>5, NvifFacts
  <2>. QED  BY <1>1, <2>1, <2>2 DEF NvkmUser
<1>4. /\ user'[t].pc = "idle" \/ (user'[t].pc = "del" /\ user'[t].fini /\ user'[t].n = user[t].n
                                    /\ user[t].fini /\ user[t].pc = "put")
      /\ user[t] \in UserRec
  BY <1>3, NvifFacts DEF UserRec, UserIdle
<1>5. Below'
  <2>1. BelowOK(call[t], user'[t])
    BY <1>1, <1>4 DEF BelowOK
  <2>. QED  BY <1>1, <1>3, <2>1 DEF NvifInv, Below, BelowOK
<1>6. \A n \in Notifies : live'[n] <=> live[n] /\ ~(user[t].pc = "del" /\ n = user[t].n)
  <2>1. CASE UserListDel(t)
    <3>1. live' = [live EXCEPT ![user[t].n] = FALSE] /\ user[t].pc = "del"
      BY <2>1 DEF UserListDel
    <3>. QED  BY <3>1, NvifFacts, Zenon
  <2>2. CASE UserGetLocked(t) \/ UserPutLocked(t)
    BY <2>2 DEF UserGetLocked, UserPutLocked
  <2>. QED  BY <2>1, <2>2 DEF NvkmUser
<1>7. Lives'
  <2>1. \A n \in Notifies : live'[n] => object'[n]
    BY <1>1, <1>6 DEF NvifInv, Lives
  <2>2. ASSUME NEW v \in Threads, call'[v].pc = "delWait", user'[v].pc = "idle"
        PROVE  ~live'[call'[v].n]
    <3>1. v \in Users /\ call[v].pc = "delWait" /\ call[v].n \in Notifies
      BY <1>1, <2>2, NvifFacts DEF NvifInv, Callers, CallerOK
    <3>2. CASE v # t
      <4>1. user[v].pc = "idle"
        BY <1>3, <2>2, <3>1, <3>2
      <4>2. ~live[call[v].n]
        BY <3>1, <4>1 DEF NvifInv, Lives
      <4>. QED  BY <1>1, <1>6, <3>1, <4>2
    <3>3. CASE v = t
      <4>1. user[t].pc = "del" /\ user[t].n = call[t].n
        BY <1>1, <1>3, <1>4, <2>2, <3>1, <3>3 DEF BelowOK
      <4>. QED  BY <1>1, <1>6, <3>1, <3>3, <4>1
    <3>. QED  BY <3>2, <3>3
  <2>. QED  BY <1>1, <2>1, <2>2 DEF NvifInv, Lives
<1>. QED  BY <1>2, <1>5, <1>7

\* The sender, its callbacks and the events leave the calls alone.
LEMMA SendCalls ==
  ASSUME NvifInv, NvifEvent \/ NvkmSend \/ CbStep
  PROVE  Callers' /\ Below' /\ Alone' /\ Lives' /\ Rearming'
<1>1. UNCHANGED <<call, user, live, object>>
  <2>1. CASE NvifEvent
    BY <2>1 DEF NvifEvent, Event, SendStart, nvifVars
  <2>2. CASE NvkmSend
    BY <2>2 DEF NvkmSend, SendEnd, SendSkip, SendBlock, SendClear, SendRearm, nvifVars
  <2>3. CASE CbStep
    BY <2>3 DEF CbStep, CbInc, CbQueue, CbFunc, CbClear, CbDec, SendFunc, vars
  <2>. QED  BY <2>1, <2>2, <2>3
<1>2. \A n \in Notifies : /\ nflag'[n] => nflag[n]
                          /\ n \in Deferred => nflag'[n] = nflag[n]
  <2>1. CASE UNCHANGED nflag
    BY <2>1
  <2>2. CASE CbClear
    <3>1. Cur \notin Deferred /\ nflag' = [nflag EXCEPT ![Cur] = FALSE]
      BY <2>2 DEF CbClear, NvifInv, Branches
    <3>. QED  BY <3>1, NvifFacts, Zenon
  <2>. QED  BY <2>1, <2>2 DEF NvifEvent, NvkmSend, CbStep, CbInc, CbQueue, CbFunc, CbDec, nvifVars
<1>3. Callers' /\ Below' /\ Alone'
  BY <1>1 DEF NvifInv, Callers, CallerOK, Below, BelowOK, Alone
<1>4. Lives'
  <2>1. \A v \in Threads : call[v].dtor => call[v].n \in Notifies
    BY NvifFacts DEF NvifInv, Callers, CallerOK
  <2>. QED  BY <1>1, <1>2, <2>1 DEF NvifInv, Lives
<1>5. Rearming'
  BY <1>1, <1>2, NvifAssumption DEF NvifInv, Rearming
<1>. QED  BY <1>3, <1>4, <1>5

\* nvif_notify_ctor makes a notify that no call is for.
LEMMA CtorCalls ==
  ASSUME NvifInv, NEW t \in Threads, NEW n \in Notifies, NvifMayCall(t, n, TRUE), NvifCtor(t, n)
  PROVE  Callers' /\ Below' /\ Alone' /\ Lives' /\ Rearming'
<1>1. /\ call[t].pc = "idle" /\ (n \in Deferred => call[n].pc = "idle")
      /\ UNCHANGED <<call, user>> /\ t \in Users
  BY NvifFacts DEF NvifCtor, NotifyInit
<1>2. \A m \in Notifies : /\ object'[m] <=> object[m] \/ m = n
                          /\ nflag'[m] <=> nflag[m] /\ m # n
                          /\ live'[m] <=> live[m] \/ m = n
  <2>1. /\ object' = [object EXCEPT ![n] = TRUE] /\ nflag' = [nflag EXCEPT ![n] = FALSE]
        /\ live' = [live EXCEPT ![n] = TRUE]
    BY DEF NvifCtor, NotifyInit
  <2>. QED  BY <2>1, NvifFacts, Zenon
<1>3. \A v \in Threads : /\ v \in Users
                         /\ call[v].pc # "idle" => call[v].n \in Notifies /\ call[v].n # n
                         /\ call[v].dtor => call[v].pc # "idle"
  <2>1. \A v \in Threads \ {t} : call[v].n # n
    BY DEF NvifMayCall
  <2>. QED  BY <1>1, <2>1, NvifFacts DEF NvifInv, Callers, CallerOK
<1>4. Callers' /\ Below' /\ Alone'
  BY <1>1 DEF NvifInv, Callers, CallerOK, Below, BelowOK, Alone
<1>5. Lives'
  BY <1>1, <1>2, <1>3 DEF NvifInv, Lives
<1>6. Rearming'
  <2>1. \A m \in Deferred : m \in Notifies /\ (m = n => call[m].pc = "idle")
    BY <1>1, NvifAssumption
  <2>. QED  BY <1>1, <1>2, <2>1 DEF NvifInv, Rearming
<1>. QED  BY <1>4, <1>5, <1>6

\* A call of get, put or dtor begins: the USER bit is changed, and the call is r.
LEMMA Enter ==
  ASSUME NvifInv, NEW t \in Threads, NEW n \in Notifies, NEW dtor \in BOOLEAN, NEW r,
         call[t].pc = "idle", NvifMayCall(t, n, dtor),
         Turn(t, r), CallerOK(t, r), r.n = n, r.dtor = dtor, r.pc \in {"dec", "inc", "delIoctl"},
         UNCHANGED <<object, live, user>>, object[n],
         \A m \in Notifies : m # n => nflag'[m] = nflag[m],
         dtor => ~nflag'[n],
         nflag[n] => nflag'[n] \/ r.pc = "inc"
  PROVE  Callers' /\ Below' /\ Alone' /\ Lives' /\ Rearming'
<1>0. t \in Users /\ t \notin Deferred /\ user[t].pc = "idle"
  BY NvifFacts, AboveNvkm
<1>1. call'[t] = r /\ \A v \in Users \ {t} : call'[v] = call[v]
  BY <1>0, TurnFacts
<1>2. \A v \in Threads \ {t} : /\ v \in Users
                               /\ call[v].n = n => ~dtor /\ ~call[v].dtor
                               /\ call[v].pc # "idle" => call[v].n \in Notifies
                               /\ call[v].dtor => call[v].pc # "idle"
  BY NvifFacts DEF NvifMayCall, NvifInv, Callers, CallerOK
<1>3. Callers'
  BY <1>1 DEF NvifInv, Callers, CallerOK
<1>4. Below'
  BY <1>0, <1>1 DEF NvifInv, Below, BelowOK
<1>5. Alone'
  BY <1>0, <1>1, <1>2 DEF NvifInv, Alone
<1>6. Lives'
  BY <1>0, <1>1, <1>2 DEF NvifInv, Lives
<1>7. Rearming'
  <2>. SUFFICES ASSUME NEW m \in Deferred, call'[m].pc \in {"getIoctl", "getWait"}, ~nflag'[m]
                PROVE  \E v \in Threads : call'[v].n = m /\ call'[v].pc \in PutPcs
    BY DEF Rearming
  <2>0. m \in Users /\ m \in Notifies /\ call[m] = call'[m]
    BY <1>0, <1>1, NvifFacts, NvifAssumption
  <2>1. CASE nflag[m]
    <3>1. m = n /\ r.pc = "inc"
      BY <2>0, <2>1
    <3>. QED  BY <1>1, <3>1 DEF PutPcs
  <2>2. CASE ~nflag[m]
    <3>1. PICK v \in Threads : call[v].n = m /\ call[v].pc \in PutPcs
      BY <2>0, <2>2 DEF NvifInv, Rearming
    <3>2. v # t
      BY <3>1 DEF PutPcs
    <3>. QED  BY <1>1, <1>2, <3>1, <3>2
  <2>. QED  BY <2>1, <2>2
<1>. QED  BY <1>3, <1>4, <1>5, <1>6, <1>7

\* nvif_notify_get.
LEMMA GetCalls ==
  ASSUME NvifInv, NEW t \in Threads, NEW n \in Notifies, NvifMayCall(t, n, FALSE), NvifGet(t, n)
  PROVE  Callers' /\ Below' /\ Alone' /\ Lives' /\ Rearming'
<1>1. call[t].pc = "idle" /\ UNCHANGED <<object, live, user>> /\ t \in Users /\ t \notin Deferred
  BY NvifFacts DEF NvifGet, vars
<1>2. CASE object[n] /\ ~nflag[n]
  <2>. DEFINE r == [pc |-> "dec", n |-> n, dtor |-> FALSE]
  <2>1. /\ r.pc = "dec" /\ r.n = n /\ r.dtor = FALSE /\ Turn(t, r)
        /\ nflag' = [nflag EXCEPT ![n] = TRUE]
    BY <1>2 DEF NvifGet, Turn, CallRec, CallPcs
  <2>2. \A m \in Notifies : m # n => nflag'[m] = nflag[m]
    BY <2>1, NvifFacts
  <2>3. CallerOK(t, r)
    BY <1>1 DEF CallerOK
  <2>. HIDE DEF r
  <2>. QED  BY <1>1, <1>2, <2>1, <2>2, <2>3, Enter
<1>3. CASE ~(object[n] /\ ~nflag[n])
  <2>1. UNCHANGED <<call, user, object, live, nflag>>
    BY <1>1, <1>3 DEF NvifGet
  <2>. QED  BY <2>1 DEF NvifInv, Callers, CallerOK, Below, BelowOK, Alone, Lives, Rearming
<1>. QED  BY <1>2, <1>3

\* nvif_notify_put, and nvif_notify_dtor from its start.
LEMMA PutCalls ==
  ASSUME NvifInv, NEW t \in Threads, NEW n \in Notifies, NEW dtor \in BOOLEAN,
         NvifMayCall(t, n, dtor), NvifPut(t, n, dtor)
  PROVE  Callers' /\ Below' /\ Alone' /\ Lives' /\ Rearming'
<1>1. call[t].pc = "idle" /\ UNCHANGED <<object, live, user>> /\ t \in Users /\ t \notin Deferred
  BY NvifFacts DEF NvifPut, vars
<1>. DEFINE next == IF object[n] /\ nflag[n] THEN "inc"
                    ELSE IF object[n] /\ dtor THEN "delIoctl" ELSE "idle"
            r == [pc |-> next, n |-> n, dtor |-> dtor]
<1>2. \A m \in Notifies : nflag'[m] <=> nflag[m] /\ (m = n => ~object[n])
  <2>1. nflag' = [nflag EXCEPT ![n] = nflag[n] /\ ~object[n]]
    BY DEF NvifPut
  <2>. QED  BY <2>1, NvifFacts, Zenon
<1>3. call' = [call EXCEPT ![t] = IF next = "idle" THEN CallIdle ELSE r]
  BY DEF NvifPut
<1>4. CASE next # "idle"
  <2>1. /\ object[n] /\ next \in {"inc", "delIoctl"}
        /\ next = "inc" <=> nflag[n]
        /\ next = "delIoctl" => dtor
    BY <1>4
  <2>2. r.pc = next /\ r.n = n /\ r.dtor = dtor /\ r \in CallRec
    BY <2>1 DEF CallRec, CallPcs
  <2>3. CallerOK(t, r)
    BY <1>1, <2>1 DEF CallerOK
  <2>4. Turn(t, r)
    BY <1>3, <1>4, <2>2 DEF Turn
  <2>5. \A m \in Notifies : m # n => nflag'[m] = nflag[m]
    <3>1. nflag' = [nflag EXCEPT ![n] = nflag[n] /\ ~object[n]]
      BY DEF NvifPut
    <3>. QED  BY <3>1, NvifFacts, Zenon
  <2>. HIDE DEF r, next
  <2>. QED  BY <1>1, <1>2, <2>1, <2>2, <2>3, <2>4, <2>5, Enter
<1>5. CASE next = "idle"
  <2>1. call' = [call EXCEPT ![t] = CallIdle] /\ call[t] = CallIdle
    BY <1>1, <1>3, <1>5 DEF NvifInv, Callers, CallerOK
  <2>2. call' = call
    BY <2>1, NvifFacts
  <2>3. \A m \in Notifies : nflag'[m] <=> nflag[m]
    BY <1>2, <1>5, Zenon
  <2>4. \A v \in Threads : call[v].dtor => call[v].n \in Notifies
    BY NvifFacts DEF NvifInv, Callers, CallerOK
  <2>. QED  BY <1>1, <2>2, <2>3, <2>4, NvifAssumption
            DEF NvifInv, Callers, CallerOK, Below, BelowOK, Alone, Lives, Rearming
<1>. QED  BY <1>4, <1>5

\* The workers.
LEMMA WorkCalls ==
  ASSUME NvifInv, NEW n \in Deferred, NvifWorkStep(n)
  PROVE  Callers' /\ Below' /\ Alone' /\ Lives' /\ Rearming'
<1>1. /\ UNCHANGED <<user, live, object>> /\ n \in Users /\ n \in Notifies /\ n \notin Threads
      /\ call[n].pc \in {"idle", "func", "clear"} /\ user[n].pc = "idle"
  <2>1. /\ UNCHANGED <<user, live, object>> /\ n \in Users /\ n \in Notifies /\ n \notin Threads
        /\ call[n].pc \in {"idle", "func", "clear"}
    BY NvifFacts, NvifAssumption
       DEF NvifWorkStep, NvifWorkRun, NvifWorkFunc, NvifWorkClear, vars
  <2>. QED  BY <2>1, AboveNvkm
<1>2. \E r : Turn(n, r) /\ CallerOK(n, r) /\ r.pc \notin {"getIoctl", "getWait"}
  <2>1. CASE NvifWorkRun(n)
    <3>. DEFINE r == [pc |-> "func", n |-> n, dtor |-> FALSE]
    <3>1. Turn(n, r) /\ r.pc = "func"
      BY <1>1, <2>1 DEF NvifWorkRun, Turn, CallRec, CallPcs
    <3>2. CallerOK(n, r)
      BY <1>1 DEF CallerOK
    <3>. QED  BY <3>1, <3>2
  <2>2. ASSUME call[n].pc # "idle", NEW pc \in {"dec", "clear"}, Goto(n, pc)
        PROVE  \E r : Turn(n, r) /\ CallerOK(n, r) /\ r.pc \notin {"getIoctl", "getWait"}
    <3>. DEFINE r == [call[n] EXCEPT !.pc = pc]
    <3>0. pc \in CallPcs
      BY DEF CallPcs
    <3>1. Turn(n, r) /\ r.pc = pc /\ r.n = call[n].n /\ r.dtor = call[n].dtor
      BY <1>1, <2>2, <3>0, Nexts
    <3>2. CallerOK(n, call[n])
      BY <1>1 DEF NvifInv, Callers
    <3>. HIDE DEF r
    <3>3. CallerOK(n, r)
      BY <1>1, <2>2, <3>1, <3>2 DEF CallerOK
    <3>. QED  BY <3>1, <3>3
  <2>3. CASE Return(n) /\ call[n].pc # "idle"
    <3>1. Turn(n, Back(n)) /\ CallerOK(n, Back(n)) /\ Back(n).pc \in {"idle", "delIoctl"}
      BY <1>1, <2>3, Nexts, NvifFacts
    <3>. QED  BY <3>1
  <2>. QED  BY <2>1, <2>2, <2>3 DEF NvifWorkStep, NvifWorkFunc, NvifWorkClear
<1>3. PICK r : Turn(n, r) /\ CallerOK(n, r) /\ r.pc \notin {"getIoctl", "getWait"}
  BY <1>2
<1>4. call'[n] = r /\ \A v \in Users \ {n} : call'[v] = call[v]
  BY <1>1, <1>3, TurnFacts
<1>5. \A m \in Notifies : (nflag'[m] => nflag[m]) /\ (m # n => nflag'[m] = nflag[m])
  <2>0. nflag \in [Notifies -> BOOLEAN]
    BY NvifFacts
  <2>1. CASE UNCHANGED nflag
    BY <2>1
  <2>2. CASE nflag' = [nflag EXCEPT ![n] = FALSE]
    BY <2>0, <2>2, Zenon
  <2>. QED  BY <2>1, <2>2 DEF NvifWorkStep, NvifWorkRun, NvifWorkFunc, NvifWorkClear
<1>7. \A v \in Threads : v \in Users /\ call'[v] = call[v] /\ (call[v].dtor => call[v].n \in Notifies)
  BY <1>1, <1>4, NvifFacts DEF NvifInv, Callers, CallerOK
<1>8. Callers'
  BY <1>3, <1>4 DEF NvifInv, Callers, CallerOK
<1>9. Below'
  BY <1>1, <1>4 DEF NvifInv, Below, BelowOK
<1>10. Alone' /\ Lives'
  BY <1>1, <1>5, <1>7 DEF NvifInv, Alone, Lives
<1>11. Rearming'
  <2>1. \A m \in Deferred : m \in Notifies /\ m \in Users
    BY NvifAssumption
  <2>. QED  BY <1>3, <1>4, <1>5, <1>7, <2>1 DEF NvifInv, Rearming
<1>. QED  BY <1>8, <1>9, <1>10, <1>11

\* Every step keeps what the callers are doing.
LEMMA CallsStep ==
  ASSUME NvifInv, NvifNext
  PROVE  Callers' /\ Below' /\ Alone' /\ Lives' /\ Rearming'
<1>1. ASSUME NEW t \in Threads, NvifCall(t)
      PROVE  Callers' /\ Below' /\ Alone' /\ Lives' /\ Rearming'
  BY <1>1, CtorCalls, GetCalls, PutCalls, Zenon DEF NvifCall
<1>2. ASSUME NEW t \in Users, NvifStep(t)
      PROVE  Callers' /\ Below' /\ Alone' /\ Lives' /\ Rearming'
  BY <1>2, StepCalls, DelReturnCalls, NvkmCalls DEF NvifStep
<1>. QED  BY <1>1, <1>2, SendCalls, WorkCalls DEF NvifNext

-----------------------------------------------------------------------------
(* Types and branches.                                                     *)

\* The list does not move under a callback, nor the sender but through it.
LEMMA CurStays ==
  ASSUME NvifInv, NvifNext, send.pc = "func"
  PROVE  Cur' = Cur /\ (UNCHANGED send \/ cb' # cb)
<1>1. ASSUME UNCHANGED <<queue, send>> PROVE Cur' = Cur /\ (UNCHANGED send \/ cb' # cb)
  BY <1>1 DEF Cur
<1>2. ASSUME NEW t \in Threads, NvifCall(t)
      PROVE  Cur' = Cur /\ (UNCHANGED send \/ cb' # cb)
  BY <1>1, <1>2 DEF NvifCall, NvifCtor, NvifGet, NvifPut, NotifyInit, vars
<1>3. ASSUME NEW t \in Users, NvifStep(t)
      PROVE  Cur' = Cur /\ (UNCHANGED send \/ cb' # cb)
  <2>1. CASE NvkmUser(t)
    BY <1>1, <2>1 DEF NvkmUser, UserGetLocked, UserPutLocked, UserListDel
  <2>2. CASE ~NvkmUser(t)
    BY <1>1, <1>3, <2>2 DEF NvifStep, Dec, GetIoctl, Inc, PutIoctl, IoctlReturn, Flush, DelIoctl,
          DelReturn, NotifyGet, NotifyPut, vars
  <2>. QED  BY <2>1, <2>2
<1>4. ~NvifEvent /\ ~NvkmSend
  BY DEF NvifEvent, Event, SendStart, NvkmSend, SendEnd, SendSkip, SendBlock, SendClear, SendRearm
<1>5. CASE CbStep
  <2>1. UNCHANGED vars \/ ((\E keep \in BOOLEAN : SendFunc(keep)) /\ cb' = CbIdle /\ cb.pc # "enter")
    <3>1. cb.keep \in BOOLEAN
      BY NvifFacts
    <3>2. CbInc \/ (\E keep \in BOOLEAN : CbFunc(keep)) => UNCHANGED vars
      BY DEF CbInc, CbFunc
    <3>3. CASE CbQueue
      BY <3>3 DEF CbQueue
    <3>4. CASE CbClear
      BY <3>4 DEF CbClear
    <3>5. CASE CbDec
      BY <3>1, <3>5 DEF CbDec
    <3>. QED  BY <1>5, <3>2, <3>3, <3>4, <3>5 DEF CbStep
  <2>2. ASSUME NEW keep \in BOOLEAN, SendFunc(keep) PROVE Cur' = Cur
    <3>1. send \in [pc : {"idle", "next"} \cup Busy, slots : SUBSET Slots, pos : Nat]
      BY NvifFacts DEF TypeOK
    <3>2. send'.pos = send.pos /\ UNCHANGED queue
      BY <2>2, <3>1 DEF SendFunc
    <3>. QED  BY <3>2 DEF Cur
  <2>3. UNCHANGED vars => UNCHANGED <<queue, send>>
    BY DEF vars
  <2>. QED  BY <1>1, <2>1, <2>2, <2>3 DEF CbIdle
<1>6. ASSUME NEW n \in Deferred, NvifWorkStep(n)
      PROVE  Cur' = Cur /\ (UNCHANGED send \/ cb' # cb)
  BY <1>1, <1>6 DEF NvifWorkStep, NvifWorkRun, NvifWorkFunc, NvifWorkClear, vars
<1>. QED  BY <1>2, <1>3, <1>4, <1>5, <1>6 DEF NvifNext

\* Every step keeps the callback in the branch of its notify.
LEMMA BranchStep == ASSUME NvifInv, NvifNext PROVE Branches'
<1>1. CASE UNCHANGED cb
  <2>1. cb.pc # "enter" => Cur' = Cur
    BY CurStays, NvifFacts
  <2>. QED  BY <1>1, <2>1 DEF NvifInv, Branches
<1>2. CASE CbStep
  <2>1. send.pc = "func"
    BY <1>2, NvifFacts DEF CbStep, CbInc, CbQueue, CbFunc, CbClear, CbDec
  <2>2. Cur' = Cur
    BY <2>1, CurStays
  <2>3. CASE CbInc
    <3>1. cb'.pc = IF Cur \in Deferred THEN "queue" ELSE "func"
      <4>. DEFINE pc == IF Cur \in Deferred THEN "queue" ELSE "func"
      <4>1. cb' = [cb EXCEPT !.pc = pc]
        BY <2>3 DEF CbInc
      <4>. HIDE DEF pc
      <4>2. cb'.pc = pc
        BY <4>1, NvifFacts
      <4>. QED  BY <4>2 DEF pc
    <3>. QED  BY <2>2, <3>1 DEF Branches
  <2>4. ASSUME NEW keep \in BOOLEAN, CbFunc(keep) PROVE Branches'
    BY <2>2, <2>4 DEF CbFunc, NvifInv, Branches
  <2>5. CASE CbQueue \/ CbClear \/ CbDec
    <3>1. cb' = CbIdle \/ cb' = [cb EXCEPT !.pc = "dec"]
      BY <2>5 DEF CbQueue, CbClear, CbDec
    <3>2. cb'.pc \in {"enter", "dec"}
      BY <3>1, NvifFacts DEF CbIdle
    <3>. QED  BY <3>2 DEF Branches
  <2>. QED  BY <1>2, <2>3, <2>4, <2>5 DEF CbStep
<1>. QED  BY <1>1, <1>2 DEF NvifNext, NvifCall, NvifCtor, NvifGet, NvifPut, NvifStep, Dec, GetIoctl,
       Inc, PutIoctl, IoctlReturn, Flush, DelIoctl, DelReturn, NvkmUser, NvkmSend, NvifEvent,
       NvifWorkStep, NvifWorkRun, NvifWorkFunc, NvifWorkClear, nvifVars

\* A step moves one call, or none.
LEMMA OneTurn ==
  ASSUME NvifInv, NvifNext
  PROVE  UNCHANGED call \/ \E t \in Users, r \in CallRec : Turn(t, r)
<1>. DEFINE P == \E t \in Users, r \in CallRec : Turn(t, r)
<1>1. ASSUME NEW t \in Users, call[t].pc # "idle", Return(t) \/ \E pc \in CallPcs : Goto(t, pc)
      PROVE  P
  <2>1. CASE Return(t)
    <3>1. Turn(t, Back(t))
      BY <1>1, <2>1, Nexts
    <3>. QED  BY <3>1 DEF Turn
  <2>2. ASSUME NEW pc \in CallPcs, Goto(t, pc) PROVE P
    <3>. DEFINE r == [call[t] EXCEPT !.pc = pc]
    <3>1. Turn(t, r)
      BY <1>1, <2>2, Nexts
    <3>. HIDE DEF r
    <3>. QED  BY <3>1 DEF Turn
  <2>. QED  BY <1>1, <2>1, <2>2
<1>2. ASSUME NEW t \in Threads, NvifCall(t) PROVE UNCHANGED call \/ P
  <2>1. t \in Users /\ CallIdle \in CallRec
    BY NvifFacts
  <2>2. PICK n \in Notifies : NvifCtor(t, n) \/ NvifGet(t, n) \/ \E dtor \in BOOLEAN : NvifPut(t, n, dtor)
    BY <1>2 DEF NvifCall
  <2>3. CASE NvifCtor(t, n) \/ NvifGet(t, n)
    BY <2>1, <2>3 DEF NvifCtor, NvifGet, Turn, CallRec, CallPcs
  <2>4. ASSUME NEW dtor \in BOOLEAN, NvifPut(t, n, dtor) PROVE P
    <3>. DEFINE next == IF object[n] /\ nflag[n] THEN "inc"
                        ELSE IF object[n] /\ dtor THEN "delIoctl" ELSE "idle"
                r == IF next = "idle" THEN CallIdle ELSE [pc |-> next, n |-> n, dtor |-> dtor]
    <3>1. call' = [call EXCEPT ![t] = r]
      BY <2>4 DEF NvifPut
    <3>2. r \in CallRec
      BY <2>1 DEF CallRec, CallPcs
    <3>. HIDE DEF r
    <3>. QED  BY <2>1, <3>1, <3>2 DEF Turn
  <2>. QED  BY <2>2, <2>3, <2>4
<1>3. ASSUME NEW t \in Users, NvifStep(t) PROVE UNCHANGED call \/ P
  <2>1. CASE NvkmUser(t)
    BY <2>1 DEF NvkmUser, nvifVars
  <2>2. CASE DelReturn(t)
    BY <2>2, NvifFacts DEF DelReturn, Turn
  <2>3. CASE ~NvkmUser(t) /\ ~DelReturn(t)
    <3>1. call[t].pc # "idle" /\ (Return(t) \/ \E pc \in CallPcs : Goto(t, pc))
      BY <1>3, <2>3 DEF NvifStep, Dec, GetIoctl, Inc, PutIoctl, IoctlReturn, Flush, DelIoctl,
         AfterInc, CallPcs
    <3>. QED  BY <1>1, <3>1
  <2>. QED  BY <2>1, <2>2, <2>3
<1>4. ASSUME NEW n \in Deferred, NvifWorkStep(n) PROVE P
  <2>1. n \in Users /\ n \in Notifies
    BY NvifFacts, NvifAssumption
  <2>2. CASE NvifWorkRun(n)
    BY <2>1, <2>2 DEF NvifWorkRun, Turn, CallRec, CallPcs
  <2>3. CASE ~NvifWorkRun(n)
    <3>1. call[n].pc # "idle" /\ (Return(n) \/ \E pc \in CallPcs : Goto(n, pc))
      BY <1>4, <2>3 DEF NvifWorkStep, NvifWorkFunc, NvifWorkClear, CallPcs
    <3>. QED  BY <1>1, <2>1, <3>1
  <2>. QED  BY <2>2, <2>3
<1>5. NvifEvent \/ NvkmSend \/ CbStep => UNCHANGED call
  BY DEF NvifEvent, NvkmSend, CbStep, CbInc, CbQueue, CbFunc, CbClear, CbDec, nvifVars
<1>. QED  BY <1>2, <1>3, <1>4, <1>5 DEF NvifNext

\* Every step keeps the types.
LEMMA NvifTypeStep == ASSUME NvifInv, NvifNext, TypeOK' PROVE NvifTypeOK'
<1>1. call' \in [Users -> CallRec]
  BY OneTurn, TurnFacts, NvifFacts
<1>2. object' \in [Notifies -> BOOLEAN] /\ pending' \in [Notifies -> BOOLEAN]
  <2>1. \/ UNCHANGED object
        \/ \E n \in Notifies, b \in BOOLEAN : object' = [object EXCEPT ![n] = b]
    <3>1. ASSUME NEW t \in Users, DelReturn(t)
          PROVE  \E n \in Notifies, b \in BOOLEAN : object' = [object EXCEPT ![n] = b]
      <4>1. call[t].n \in Notifies /\ object' = [object EXCEPT ![call[t].n] = FALSE]
        BY <3>1 DEF DelReturn, NvifInv, Callers, CallerOK
      <4>. QED  BY <4>1
    <3>2. ASSUME NEW t, NEW n \in Notifies, NvifCtor(t, n)
          PROVE  \E b \in BOOLEAN : object' = [object EXCEPT ![n] = b]
      BY <3>2 DEF NvifCtor
    <3>. QED  BY <3>1, <3>2 DEF NvifNext, NvifCall, NvifGet, NvifPut, NvifStep, Dec, GetIoctl, Inc,
            PutIoctl, IoctlReturn, Flush, DelIoctl, NvkmUser, NvkmSend, NvifEvent, CbStep, CbInc,
            CbQueue, CbFunc, CbClear, CbDec, NvifWorkStep, NvifWorkRun, NvifWorkFunc,
            NvifWorkClear, nvifVars
  <2>2. \/ UNCHANGED pending
        \/ \E n : \E b \in BOOLEAN : pending' = [pending EXCEPT ![n] = b]
    <3>1. CbQueue => \E n : \E b \in BOOLEAN : pending' = [pending EXCEPT ![n] = b]
      BY DEF CbQueue
    <3>2. \A n : NvifWorkRun(n) => \E b \in BOOLEAN : pending' = [pending EXCEPT ![n] = b]
      BY DEF NvifWorkRun
    <3>. QED  BY <3>1, <3>2 DEF NvifNext, NvifCall, NvifCtor, NvifGet, NvifPut, NvifStep, Dec,
            GetIoctl, Inc, PutIoctl, IoctlReturn, Flush, DelIoctl, DelReturn, NvkmUser, NvkmSend,
            NvifEvent, CbStep, CbInc, CbFunc, CbClear, CbDec, NvifWorkStep, NvifWorkFunc,
            NvifWorkClear, nvifVars
  <2>. QED  BY <2>1, <2>2, NvifFacts
<1>3. nflag' \in [Notifies -> BOOLEAN]
  <2>1. UNCHANGED nflag \/ \E n : \E b \in BOOLEAN : nflag' = [nflag EXCEPT ![n] = b]
    <3>1. ASSUME NEW t, NEW n \in Notifies, NEW dtor, NvifPut(t, n, dtor)
          PROVE  \E b \in BOOLEAN : nflag' = [nflag EXCEPT ![n] = b]
      BY <3>1, NvifFacts DEF NvifPut
    <3>2. ASSUME NEW t, NEW n, NvifCtor(t, n) \/ NvifGet(t, n) \/ NvifWorkClear(n)
          PROVE  UNCHANGED nflag \/ \E b \in BOOLEAN : nflag' = [nflag EXCEPT ![n] = b]
      BY <3>2 DEF NvifCtor, NvifGet, NvifWorkClear
    <3>3. CbClear => \E b \in BOOLEAN : nflag' = [nflag EXCEPT ![Cur] = b]
      BY DEF CbClear
    <3>. QED  BY <3>1, <3>2, <3>3 DEF NvifNext, NvifCall, NvifStep, Dec, GetIoctl, Inc,
            PutIoctl, IoctlReturn, Flush, DelIoctl, DelReturn, NvkmUser, NvkmSend, NvifEvent, CbStep,
            CbInc, CbQueue, CbFunc, CbDec, NvifWorkStep, NvifWorkRun, NvifWorkFunc, nvifVars
  <2>. QED  BY <2>1, NvifFacts
<1>4. putcnt' \in [Notifies -> Int]
  <2>1. ASSUME NEW t \in Users, Dec(t) \/ Inc(t) PROVE putcnt' \in [Notifies -> Int]
    <3>1. call[t].n \in Notifies
      BY <2>1 DEF Dec, Inc, NvifInv, Callers, CallerOK
    <3>. QED  BY <2>1, <3>1, NvifFacts DEF Dec, Inc
  <2>2. ASSUME NEW t, NEW n \in Notifies, NvifCtor(t, n) PROVE putcnt' \in [Notifies -> Int]
    <3>1. putcnt' = [putcnt EXCEPT ![n] = 1]
      BY <2>2 DEF NvifCtor
    <3>. QED  BY <3>1, NvifFacts
  <2>3. CASE CbInc \/ CbDec
    <3>1. putcnt' = [putcnt EXCEPT ![Cur] = @ + 1] \/ putcnt' = [putcnt EXCEPT ![Cur] = @ - 1]
      BY <2>3 DEF CbInc, CbDec
    <3>2. Cur \in Notifies
      BY <2>3, NvifFacts DEF CbInc, CbDec
    <3>. QED  BY <3>1, <3>2, NvifFacts
  <2>. QED  BY <2>1, <2>2, <2>3, NvifFacts DEF NvifNext, NvifCall, NvifGet, NvifPut, NvifStep,
            GetIoctl, PutIoctl, IoctlReturn, Flush, DelIoctl, DelReturn, NvkmUser, NvkmSend,
            NvifEvent, CbStep, CbQueue, CbFunc, CbClear, NvifWorkStep, NvifWorkRun, NvifWorkFunc,
            NvifWorkClear, nvifVars
<1>5. /\ cb' \in [pc : {"enter", "queue", "func", "clear", "dec"}, keep : BOOLEAN]
      /\ cb'.pc # "enter" => send'.pc = "func"
  <2>1. CASE UNCHANGED cb
    BY <2>1, CurStays, NvifFacts
  <2>2. CASE CbStep
    <3>1. send.pc = "func"
      BY <2>2, NvifFacts DEF CbStep, CbInc, CbQueue, CbFunc, CbClear, CbDec
    <3>2. CASE CbInc
      <4>. DEFINE pc == IF Cur \in Deferred THEN "queue" ELSE "func"
      <4>1. cb' = [cb EXCEPT !.pc = pc] /\ pc \in {"queue", "func"} /\ UNCHANGED vars
        BY <3>2 DEF CbInc
      <4>. HIDE DEF pc
      <4>. QED  BY <3>1, <4>1, NvifFacts DEF vars
    <3>3. ASSUME NEW keep \in BOOLEAN, CbFunc(keep)
          PROVE  /\ cb' \in [pc : {"enter", "queue", "func", "clear", "dec"}, keep : BOOLEAN]
                 /\ cb'.pc # "enter" => send'.pc = "func"
      <4>. DEFINE pc == IF keep THEN "dec" ELSE "clear"
      <4>1. cb' = [pc |-> pc, keep |-> keep] /\ pc \in {"dec", "clear"} /\ UNCHANGED vars
        BY <3>3 DEF CbFunc
      <4>. HIDE DEF pc
      <4>. QED  BY <3>1, <4>1 DEF vars
    <3>4. CASE CbQueue \/ CbClear \/ CbDec
      <4>1. CbIdle \in [pc : {"enter", "queue", "func", "clear", "dec"}, keep : BOOLEAN]
            /\ CbIdle.pc = "enter"
        BY DEF CbIdle
      <4>2. CASE cb' = CbIdle
        BY <4>1, <4>2
      <4>3. CASE cb' = [cb EXCEPT !.pc = "dec"] /\ UNCHANGED vars
        BY <3>1, <4>3, NvifFacts DEF vars
      <4>. QED  BY <3>4, <4>2, <4>3 DEF CbQueue, CbClear, CbDec
    <3>. QED  BY <2>2, <3>2, <3>3, <3>4 DEF CbStep
  <2>. QED  BY <2>1, <2>2 DEF NvifNext, NvifCall, NvifCtor, NvifGet, NvifPut, NvifStep, Dec, GetIoctl,
       Inc, PutIoctl, IoctlReturn, Flush, DelIoctl, DelReturn, NvkmUser, NvkmSend, NvifEvent,
       NvifWorkStep, NvifWorkRun, NvifWorkFunc, NvifWorkClear, nvifVars
<1>. QED  BY <1>1, <1>2, <1>3, <1>4, <1>5 DEF NvifTypeOK, CallRec, CallPcs

-----------------------------------------------------------------------------
(* What putcnt counts.                                                     *)

Callbacks == {"func", "clear", "dec"}

Decs(n) == Cardinality(In(n, Callbacks))
Incs(n) == Cardinality(In(n, {"inc"}))
Calling(n) == cb.pc # "enter" /\ Cur = n

NvifAccount(n) ==
  1 - B(nflag[n]) + B(Calling(n)) + B(pending[n]) + Decs(n) - Incs(n)

\* By how much putcnt exceeds the reasons there are.
Excess(n) == putcnt[n] - NvifAccount(n)

\* Only the callback of a deferred notify whose work is pending adds to it.
ExcessChange(n) ==
  Excess(n)' = Excess(n) \/ Excess(n)' = 0 \/ (n \in Deferred /\ Excess(n)' = Excess(n) + 1)

\* Excess now and in the next state.
LEMMA ExcessSum ==
  /\ \A n \in Notifies :
       Excess(n) = putcnt[n] - (1 - B(nflag[n]) + B(Calling(n)) + B(pending[n])
                                  + Decs(n) - Incs(n))
  /\ \A n \in Notifies :
       Excess(n)' = putcnt'[n] - (1 - B(nflag'[n]) + B(Calling(n)') + B(pending'[n])
                                    + Decs(n)' - Incs(n)')
  BY DEF Excess, NvifAccount

\* The calls that are counted are finitely many.
LEMMA CallSets ==
  ASSUME NEW n \in Notifies
  PROVE  /\ IsFiniteSet(In(n, Callbacks)) /\ IsFiniteSet(In(n, {"inc"}))
         /\ Decs(n) \in Nat /\ Incs(n) \in Nat
<1>1. IsFiniteSet(In(n, Callbacks)) /\ IsFiniteSet(In(n, {"inc"}))
  BY FS_Subset DEF In
<1>. QED  BY <1>1, FS_CardinalityType DEF Decs, Incs

\* A call that moves counts where it was no more, and where it is now.
LEMMA TurnCounts ==
  ASSUME NvifInv, NEW t \in Users, NEW r, Turn(t, r), NEW n \in Notifies
  PROVE  /\ Decs(n) \in Nat /\ Incs(n) \in Nat
         /\ Decs(n)' = Decs(n) - B(call[t].n = n /\ call[t].pc \in Callbacks)
                         + B(r.n = n /\ r.pc \in Callbacks)
         /\ Incs(n)' = Incs(n) - B(call[t].n = n /\ call[t].pc = "inc")
                         + B(r.n = n /\ r.pc = "inc")
<1>1. call'[t] = r /\ \A v \in Users \ {t} : call'[v] = call[v]
  BY TurnFacts
<1>2. /\ In(n, Callbacks) \ {t} = In(n, Callbacks)' \ {t}
      /\ In(n, {"inc"}) \ {t} = In(n, {"inc"})' \ {t}
  BY <1>1 DEF In
<1>3. /\ t \in In(n, Callbacks) <=> call[t].n = n /\ call[t].pc \in Callbacks
      /\ t \in In(n, Callbacks)' <=> r.n = n /\ r.pc \in Callbacks
      /\ t \in In(n, {"inc"}) <=> call[t].n = n /\ call[t].pc = "inc"
      /\ t \in In(n, {"inc"})' <=> r.n = n /\ r.pc = "inc"
  BY <1>1 DEF In
<1>4. Decs(n)' = Decs(n) - B(t \in In(n, Callbacks)) + B(t \in In(n, Callbacks)')
  BY <1>2, CallSets, CountChange DEF Decs
<1>5. Incs(n)' = Incs(n) - B(t \in In(n, {"inc"})) + B(t \in In(n, {"inc"})')
  BY <1>2, CallSets, CountChange DEF Incs
<1>. QED  BY <1>3, <1>4, <1>5, CallSets DEF B

\* Steps that move no call.
LEMMA SameCounts ==
  ASSUME UNCHANGED call, NEW n \in Notifies
  PROVE  Decs(n) \in Nat /\ Incs(n) \in Nat /\ Decs(n)' = Decs(n) /\ Incs(n)' = Incs(n)
  BY CallSets DEF Decs, Incs, In

\* A callback stays where it is, but for the steps of the callback.
LEMMA SameCalling ==
  ASSUME NvifInv, NvifNext, UNCHANGED cb, NEW n \in Notifies
  PROVE  Calling(n)' <=> Calling(n)
<1>1. cb.pc # "enter" => Cur' = Cur
  BY CurStays, NvifFacts
<1>. QED  BY <1>1 DEF Calling

\* Steps that change nothing that is counted.
LEMMA ExcessSame ==
  ASSUME NvifInv, NvifNext, UNCHANGED <<cb, putcnt, nflag, pending>>, NEW n \in Notifies,
         \/ UNCHANGED call
         \/ \E t \in Users, r \in CallRec :
              /\ Turn(t, r)
              /\ call[t].pc \notin Callbacks \cup {"inc"} /\ r.pc \notin Callbacks \cup {"inc"}
  PROVE  Excess(n)' = Excess(n)
<1>1. Decs(n)' = Decs(n) /\ Incs(n)' = Incs(n)
  <2>1. CASE UNCHANGED call
    BY <2>1, SameCounts
  <2>2. ASSUME NEW t \in Users, NEW r \in CallRec, Turn(t, r),
               call[t].pc \notin Callbacks \cup {"inc"}, r.pc \notin Callbacks \cup {"inc"}
        PROVE  Decs(n)' = Decs(n) /\ Incs(n)' = Incs(n)
    BY <2>2, TurnCounts DEF B
  <2>. QED  BY <2>1, <2>2
<1>. QED  BY <1>1, SameCalling, ExcessSum DEF B

\* The callback.
LEMMA CbExcess == ASSUME NvifInv, NvifNext, CbStep, NEW n \in Notifies PROVE ExcessChange(n)
<1>1. /\ UNCHANGED call /\ send.pc = "func" /\ Cur \in Notifies
      /\ putcnt \in [Notifies -> Int]
  BY NvifFacts DEF CbStep, CbInc, CbQueue, CbFunc, CbClear, CbDec
<1>2. Decs(n) \in Nat /\ Incs(n) \in Nat /\ Decs(n)' = Decs(n) /\ Incs(n)' = Incs(n) /\ Cur' = Cur
  BY <1>1, SameCounts, CurStays
<1>3. CASE CbInc
  <2>1. putcnt'[n] = putcnt[n] + B(Cur = n)
    BY <1>1, <1>3 DEF CbInc, B
  <2>2. ~Calling(n)
    BY <1>3 DEF CbInc, Calling
  <2>3. cb'.pc # "enter"
    <3>. DEFINE pc == IF Cur \in Deferred THEN "queue" ELSE "func"
    <3>1. cb' = [cb EXCEPT !.pc = pc] /\ pc # "enter"
      BY <1>3 DEF CbInc
    <3>. HIDE DEF pc
    <3>. QED  BY <3>1, NvifFacts
  <2>4. Calling(n)' <=> Cur = n
    BY <1>2, <2>3 DEF Calling
  <2>5. UNCHANGED <<nflag, pending>>
    BY <1>3 DEF CbInc
  <2>. QED  BY <1>1, <1>2, <2>1, <2>2, <2>4, <2>5, ExcessSum DEF B, ExcessChange
<1>4. CASE CbQueue
  <2>1. /\ cb.pc = "queue" /\ cb' = CbIdle /\ UNCHANGED <<nflag, putcnt>>
        /\ pending' = [pending EXCEPT ![Cur] = TRUE]
    BY <1>4 DEF CbQueue
  <2>2. (Calling(n) <=> Cur = n) /\ ~Calling(n)'
    BY <2>1 DEF Calling, CbIdle
  <2>3. pending'[n] <=> pending[n] \/ Cur = n
    BY <2>1, NvifFacts, Zenon
  <2>4. Cur \in Deferred
    BY <2>1 DEF NvifInv, Branches
  <2>. QED  BY <1>1, <1>2, <2>1, <2>2, <2>3, <2>4, ExcessSum DEF B, ExcessChange
<1>5. ASSUME NEW keep \in BOOLEAN, CbFunc(keep) PROVE ExcessChange(n)
  <2>1. cb.pc # "enter" /\ cb'.pc # "enter" /\ UNCHANGED <<nflag, putcnt, pending>>
    BY <1>5 DEF CbFunc
  <2>2. Calling(n)' <=> Calling(n)
    BY <1>2, <2>1 DEF Calling
  <2>. QED  BY <1>2, <2>1, <2>2, ExcessSum DEF B, ExcessChange
<1>6. CASE CbClear
  <2>1. /\ cb.pc = "clear" /\ UNCHANGED <<putcnt, pending>>
        /\ nflag' = [nflag EXCEPT ![Cur] = FALSE]
    BY <1>6 DEF CbClear
  <2>2. nflag'[n] <=> nflag[n] /\ Cur # n
    BY <2>1, NvifFacts, Zenon
  <2>3. Calling(n) <=> Cur = n
    BY <2>1 DEF Calling
  <2>4. Calling(n)' <=> Cur = n /\ ~nflag[Cur]
    <3>1. CASE nflag[Cur]
      <4>1. cb' = CbIdle
        BY <1>6, <3>1, Zenon DEF CbClear
      <4>. QED  BY <3>1, <4>1 DEF Calling, CbIdle
    <3>2. CASE ~nflag[Cur]
      <4>1. cb' = [cb EXCEPT !.pc = "dec"]
        BY <1>6, <3>2, Zenon DEF CbClear
      <4>2. cb'.pc = "dec"
        BY <4>1, NvifFacts
      <4>. QED  BY <1>2, <3>2, <4>2 DEF Calling
    <3>. QED  BY <3>1, <3>2
  <2>. QED  BY <1>1, <1>2, <2>1, <2>2, <2>3, <2>4, ExcessSum DEF B, ExcessChange
<1>7. CASE CbDec
  <2>1. putcnt'[n] = putcnt[n] - B(Cur = n)
    BY <1>1, <1>7 DEF CbDec, B
  <2>2. cb.pc = "dec" /\ cb' = CbIdle /\ UNCHANGED <<nflag, pending>>
    BY <1>7 DEF CbDec
  <2>3. (Calling(n) <=> Cur = n) /\ ~Calling(n)'
    BY <2>2 DEF Calling, CbIdle
  <2>. QED  BY <1>1, <1>2, <2>1, <2>2, <2>3, ExcessSum DEF B, ExcessChange
<1>. QED  BY <1>3, <1>4, <1>5, <1>6, <1>7 DEF CbStep

\* A constructor starts the account anew.
LEMMA CtorExcess ==
  ASSUME NvifInv, NvifNext, NEW t \in Threads, NEW m \in Notifies, NvifMayCall(t, m, TRUE),
         NvifCtor(t, m), NEW n \in Notifies
  PROVE  ExcessChange(n)
<1>1. /\ UNCHANGED <<call, pending, cb>> /\ send.pc = "idle" /\ ~pending[m]
      /\ call[t].pc = "idle" /\ (m \in Deferred => call[m].pc = "idle")
  BY DEF NvifCtor, NotifyInit
<1>2. ~Calling(n) /\ ~Calling(n)'
  BY <1>1, NvifFacts DEF Calling
<1>3. Decs(n) \in Nat /\ Incs(n) \in Nat /\ Decs(n)' = Decs(n) /\ Incs(n)' = Incs(n)
  BY <1>1, SameCounts
<1>4. CASE n = m
  <2>1. \A v \in Users : ~(call[v].n = n /\ call[v].pc \in Callbacks \cup {"inc"})
    <3>1. \A v \in Threads \ {t} : call[v].n # n
      BY <1>4 DEF NvifMayCall
    <3>2. \A v \in Deferred : call[v].pc # "idle" => call[v].n = v
      BY NvifFacts DEF NvifInv, Callers, CallerOK
    <3>. QED  BY <1>1, <1>4, <3>1, <3>2, NvifFacts DEF Callbacks
  <2>2. In(n, Callbacks) = {} /\ In(n, {"inc"}) = {}
    BY <2>1 DEF In
  <2>3. Decs(n) = 0 /\ Incs(n) = 0
    BY <2>2, FS_EmptySet DEF Decs, Incs
  <2>4. putcnt'[n] = 1 /\ ~pending'[n]
    BY <1>1, <1>4, NvifFacts DEF NvifCtor
  <2>5. ~nflag'[n]
    <3>1. nflag' = [nflag EXCEPT ![m] = FALSE]
      BY DEF NvifCtor
    <3>. QED  BY <1>4, <3>1, NvifFacts, Zenon
  <2>. QED  BY <1>2, <1>3, <2>3, <2>4, <2>5, ExcessSum DEF B, ExcessChange
<1>5. CASE n # m
  <2>1. putcnt'[n] = putcnt[n] /\ pending' = pending
    BY <1>1, <1>5, NvifFacts DEF NvifCtor
  <2>2. nflag'[n] = nflag[n]
    <3>1. nflag' = [nflag EXCEPT ![m] = FALSE]
      BY DEF NvifCtor
    <3>. QED  BY <1>5, <3>1, NvifFacts, Zenon
  <2>. QED  BY <1>2, <1>3, <2>1, <2>2, ExcessSum DEF B, ExcessChange
<1>. QED  BY <1>4, <1>5

\* Changing the USER bit is accounted for by the change of the call.
LEMMA GetExcess ==
  ASSUME NvifInv, NvifNext, NEW t \in Threads, NEW m \in Notifies, NvifGet(t, m), NEW n \in Notifies
  PROVE  ExcessChange(n)
<1>1. /\ UNCHANGED <<putcnt, pending, cb>> /\ call[t].pc = "idle" /\ t \in Users
      /\ putcnt[n] \in Int
  BY NvifFacts DEF NvifGet
<1>2. Calling(n)' <=> Calling(n)
  BY <1>1, SameCalling
<1>3. CASE object[m] /\ ~nflag[m]
  <2>. DEFINE r == [pc |-> "dec", n |-> m, dtor |-> FALSE]
  <2>1. r.pc = "dec" /\ r.n = m /\ Turn(t, r) /\ nflag' = [nflag EXCEPT ![m] = TRUE]
    BY <1>3 DEF NvifGet, Turn, CallRec, CallPcs
  <2>. HIDE DEF r
  <2>2. nflag'[n] <=> nflag[n] \/ n = m
    BY <2>1, NvifFacts, Zenon
  <2>3. /\ Decs(n) \in Nat /\ Incs(n) \in Nat
        /\ Decs(n)' = Decs(n) + B(m = n) /\ Incs(n)' = Incs(n)
    <3>1. /\ B(call[t].n = n /\ call[t].pc \in Callbacks) = 0
          /\ B(call[t].n = n /\ call[t].pc = "inc") = 0
          /\ B(r.n = n /\ r.pc \in Callbacks) = B(m = n)
          /\ B(r.n = n /\ r.pc = "inc") = 0 /\ B(m = n) \in Int
      BY <1>1, <2>1 DEF B, Callbacks
    <3>. QED  BY <1>1, <2>1, <3>1, TurnCounts
  <2>. QED  BY <1>1, <1>2, <1>3, <2>2, <2>3, ExcessSum DEF B, ExcessChange
<1>4. CASE ~(object[m] /\ ~nflag[m])
  <2>1. UNCHANGED <<nflag, call>>
    BY <1>4 DEF NvifGet
  <2>. QED  BY <1>1, <2>1, ExcessSame DEF ExcessChange
<1>. QED  BY <1>3, <1>4

\* Clearing the USER bit is accounted for by the call that goes to increment.
LEMMA PutExcess ==
  ASSUME NvifInv, NvifNext, NEW t \in Threads, NEW m \in Notifies, NEW dtor \in BOOLEAN,
         NvifPut(t, m, dtor), NEW n \in Notifies
  PROVE  ExcessChange(n)
<1>1. /\ UNCHANGED <<putcnt, pending, cb>> /\ call[t].pc = "idle" /\ t \in Users
      /\ putcnt[n] \in Int
  BY NvifFacts DEF NvifPut
<1>2. Calling(n)' <=> Calling(n)
  BY <1>1, SameCalling
<1>3. nflag'[n] <=> nflag[n] /\ ~(n = m /\ object[m])
  <2>1. nflag' = [nflag EXCEPT ![m] = nflag[m] /\ ~object[m]]
    BY DEF NvifPut
  <2>. QED  BY <2>1, NvifFacts, Zenon
<1>. DEFINE next == IF object[m] /\ nflag[m] THEN "inc"
                    ELSE IF object[m] /\ dtor THEN "delIoctl" ELSE "idle"
            r == IF next = "idle" THEN CallIdle ELSE [pc |-> next, n |-> m, dtor |-> dtor]
<1>4. /\ Turn(t, r)
      /\ r.pc = "inc" <=> object[m] /\ nflag[m]
      /\ r.pc = "inc" => r.n = m
      /\ r.pc \notin Callbacks
  <2>1. call' = [call EXCEPT ![t] = r]
    BY DEF NvifPut
  <2>2. r \in CallRec
    BY NvifFacts DEF CallRec, CallPcs
  <2>. QED  BY <2>1, <2>2 DEF CallIdle, Turn, Callbacks
<1>. HIDE DEF r
<1>5. /\ Decs(n) \in Nat /\ Incs(n) \in Nat /\ Decs(n)' = Decs(n)
      /\ Incs(n)' = Incs(n) + B(object[m] /\ nflag[m] /\ m = n)
  <2>1. /\ B(call[t].n = n /\ call[t].pc \in Callbacks) = 0
        /\ B(call[t].n = n /\ call[t].pc = "inc") = 0
        /\ B(r.n = n /\ r.pc \in Callbacks) = 0
        /\ B(r.n = n /\ r.pc = "inc") = B(object[m] /\ nflag[m] /\ m = n)
        /\ B(object[m] /\ nflag[m] /\ m = n) \in Int
    BY <1>1, <1>4 DEF B, Callbacks
  <2>. QED  BY <1>1, <1>4, <2>1, TurnCounts
<1>. QED  BY <1>1, <1>2, <1>3, <1>5, ExcessSum DEF B, ExcessChange

\* The steps of a call: the count changes together with the call that is to change it.
LEMMA StepExcess ==
  ASSUME NvifInv, NvifNext, NEW t \in Users, NvifStep(t), NEW n \in Notifies
  PROVE  ExcessChange(n)
<1>0. /\ UNCHANGED <<pending, nflag, cb>>
      /\ putcnt \in [Notifies -> Int]
      /\ call[t].pc # "idle" => call[t].n \in Notifies /\ CallerOK(t, call[t])
  BY NvifFacts DEF NvifStep, Dec, GetIoctl, Inc, PutIoctl, IoctlReturn, Flush, DelIoctl, DelReturn,
     NvkmUser, nvifVars, NvifInv, Callers, CallerOK
<1>1. Calling(n)' <=> Calling(n)
  BY <1>0, SameCalling
<1>2. ASSUME call[t].pc # "idle", Return(t) \/ \E pc \in CallPcs : Goto(t, pc) /\ pc \notin Callbacks \cup {"inc"}
      PROVE  \E r \in CallRec : Turn(t, r) /\ r.pc \notin Callbacks \cup {"inc"}
  <2>1. CASE Return(t)
    <3>1. Turn(t, Back(t)) /\ Back(t).pc \notin Callbacks \cup {"inc"}
      BY <1>2, <2>1, Nexts, NvifFacts DEF Callbacks
    <3>. QED  BY <3>1 DEF Turn
  <2>2. ASSUME NEW pc \in CallPcs, Goto(t, pc), pc \notin Callbacks \cup {"inc"}
        PROVE  \E r \in CallRec : Turn(t, r) /\ r.pc \notin Callbacks \cup {"inc"}
    <3>. DEFINE r == [call[t] EXCEPT !.pc = pc]
    <3>1. Turn(t, r) /\ r.pc = pc
      BY <1>2, <2>2, Nexts
    <3>. HIDE DEF r
    <3>. QED  BY <2>2, <3>1 DEF Turn
  <2>. QED  BY <1>2, <2>1, <2>2
<1>3. CASE Dec(t)
  <2>1. /\ call[t].pc = "dec"
        /\ Return(t) \/ Goto(t, "getIoctl")
        /\ putcnt'[n] = putcnt[n] - B(call[t].n = n)
    BY <1>0, <1>3 DEF Dec, B
  <2>2. PICK r \in CallRec : Turn(t, r) /\ r.pc \notin Callbacks \cup {"inc"}
    BY <1>2, <2>1 DEF CallPcs, Callbacks
  <2>3. /\ Decs(n) \in Nat /\ Incs(n) \in Nat
        /\ Decs(n)' = Decs(n) - B(call[t].n = n) /\ Incs(n)' = Incs(n)
    <3>1. /\ B(call[t].n = n /\ call[t].pc \in Callbacks) = B(call[t].n = n)
          /\ B(call[t].n = n /\ call[t].pc = "inc") = 0
          /\ B(r.n = n /\ r.pc \in Callbacks) = 0
          /\ B(r.n = n /\ r.pc = "inc") = 0 /\ B(call[t].n = n) \in Int
      BY <2>1, <2>2 DEF B, Callbacks
    <3>. QED  BY <2>2, <3>1, TurnCounts
  <2>. QED  BY <1>0, <1>1, <2>1, <2>3, ExcessSum DEF B, ExcessChange
<1>4. CASE Inc(t)
  <2>1. /\ call[t].pc = "inc"
        /\ Return(t) \/ Goto(t, "putIoctl") \/ Goto(t, "flush")
        /\ putcnt'[n] = putcnt[n] + B(call[t].n = n)
    BY <1>0, <1>4 DEF Inc, AfterInc, B
  <2>2. PICK r \in CallRec : Turn(t, r) /\ r.pc \notin Callbacks \cup {"inc"}
    BY <1>2, <2>1 DEF CallPcs, Callbacks
  <2>3. /\ Decs(n) \in Nat /\ Incs(n) \in Nat
        /\ Decs(n)' = Decs(n) /\ Incs(n)' = Incs(n) - B(call[t].n = n)
    <3>1. /\ B(call[t].n = n /\ call[t].pc \in Callbacks) = 0
          /\ B(call[t].n = n /\ call[t].pc = "inc") = B(call[t].n = n)
          /\ B(r.n = n /\ r.pc \in Callbacks) = 0
          /\ B(r.n = n /\ r.pc = "inc") = 0 /\ B(call[t].n = n) \in Int
      BY <2>1, <2>2 DEF B, Callbacks
    <3>. QED  BY <2>2, <3>1, TurnCounts
  <2>. QED  BY <1>0, <1>1, <2>1, <2>3, ExcessSum DEF B, ExcessChange
<1>5. CASE GetIoctl(t) \/ PutIoctl(t) \/ DelIoctl(t) \/ IoctlReturn(t) \/ Flush(t)
  <2>1. /\ call[t].pc \in {"getIoctl", "putIoctl", "delIoctl", "getWait", "putWait", "flush"}
        /\ \/ Return(t)
           \/ \E pc \in {"getWait", "putWait", "delWait", "flush"} : Goto(t, pc)
        /\ UNCHANGED putcnt
    BY <1>5 DEF GetIoctl, PutIoctl, DelIoctl, IoctlReturn, Flush, AfterInc
  <2>2. PICK r \in CallRec : Turn(t, r) /\ r.pc \notin Callbacks \cup {"inc"}
    BY <1>2, <2>1 DEF CallPcs, Callbacks
  <2>3. call[t].pc \notin Callbacks \cup {"inc"}
    BY <2>1 DEF Callbacks
  <2>. QED  BY <1>0, <2>1, <2>2, <2>3, ExcessSame DEF ExcessChange
<1>6. CASE DelReturn(t)
  <2>1. /\ call[t].pc \notin Callbacks \cup {"inc"} /\ UNCHANGED putcnt
        /\ Turn(t, CallIdle) /\ CallIdle \in CallRec /\ CallIdle.pc \notin Callbacks \cup {"inc"}
    BY <1>6, NvifFacts DEF DelReturn, Turn, Callbacks
  <2>. QED  BY <1>0, <2>1, ExcessSame DEF ExcessChange
<1>7. CASE NvkmUser(t)
  <2>1. UNCHANGED <<call, putcnt>>
    BY <1>7 DEF NvkmUser, nvifVars
  <2>. QED  BY <1>0, <2>1, ExcessSame DEF ExcessChange
<1>. QED  BY <1>3, <1>4, <1>5, <1>6, <1>7 DEF NvifStep

\* The worker of a deferred notify: what was pending runs, and what ran is done.
LEMMA WorkExcess ==
  ASSUME NvifInv, NvifNext, NEW m \in Deferred, NvifWorkStep(m), NEW n \in Notifies
  PROVE  ExcessChange(n)
<1>0. /\ UNCHANGED <<putcnt, cb>> /\ m \in Users /\ m \in Notifies /\ putcnt[n] \in Int
      /\ CallerOK(m, call[m]) /\ (call[m].pc # "idle" => call[m].n = m)
  BY NvifFacts DEF NvifWorkStep, NvifWorkRun, NvifWorkFunc, NvifWorkClear, NvifInv, Callers, CallerOK
<1>1. Calling(n)' <=> Calling(n)
  BY <1>0, SameCalling
<1>2. CASE NvifWorkRun(m)
  <2>. DEFINE r == [pc |-> "func", n |-> m, dtor |-> FALSE]
  <2>1. /\ r.pc = "func" /\ r.n = m /\ Turn(m, r) /\ call[m].pc = "idle"
        /\ pending[m] /\ pending' = [pending EXCEPT ![m] = FALSE] /\ UNCHANGED nflag
    BY <1>0, <1>2 DEF NvifWorkRun, Turn, CallRec, CallPcs
  <2>. HIDE DEF r
  <2>2. pending'[n] <=> pending[n] /\ n # m
    BY <2>1, NvifFacts, Zenon
  <2>3. /\ Decs(n) \in Nat /\ Incs(n) \in Nat
        /\ Decs(n)' = Decs(n) + B(m = n) /\ Incs(n)' = Incs(n)
    <3>1. /\ B(call[m].n = n /\ call[m].pc \in Callbacks) = 0
          /\ B(call[m].n = n /\ call[m].pc = "inc") = 0
          /\ B(r.n = n /\ r.pc \in Callbacks) = B(m = n)
          /\ B(r.n = n /\ r.pc = "inc") = 0 /\ B(m = n) \in Int
      BY <2>1 DEF B, Callbacks
    <3>. QED  BY <1>0, <2>1, <3>1, TurnCounts
  <2>. QED  BY <1>0, <1>1, <2>1, <2>2, <2>3, ExcessSum DEF B, ExcessChange
<1>3. ASSUME NEW keep \in BOOLEAN, NvifWorkFunc(m, keep) PROVE ExcessChange(n)
  <2>. DEFINE pc == IF keep THEN "dec" ELSE "clear"
              r == [call[m] EXCEPT !.pc = pc]
  <2>0. call[m].pc = "func" /\ Goto(m, pc) /\ pc \in CallPcs /\ pc \in Callbacks /\ pc # "inc"
        /\ UNCHANGED <<nflag, pending>>
    BY <1>3 DEF NvifWorkFunc, CallPcs, Callbacks
  <2>. HIDE DEF pc
  <2>1. Turn(m, r) /\ r.pc = pc /\ r.n = m
    BY <1>0, <2>0, Nexts
  <2>. HIDE DEF r
  <2>3. Decs(n) \in Nat /\ Incs(n) \in Nat /\ Decs(n)' = Decs(n) /\ Incs(n)' = Incs(n)
    <3>1. /\ B(call[m].n = n /\ call[m].pc \in Callbacks) = B(m = n)
          /\ B(call[m].n = n /\ call[m].pc = "inc") = 0
          /\ B(r.n = n /\ r.pc \in Callbacks) = B(m = n)
          /\ B(r.n = n /\ r.pc = "inc") = 0 /\ B(m = n) \in Int
      BY <1>0, <2>0, <2>1 DEF B, Callbacks
    <3>. QED  BY <1>0, <2>1, <3>1, TurnCounts
  <2>. QED  BY <1>0, <1>1, <2>0, <2>3, ExcessSum DEF B, ExcessChange
<1>4. CASE NvifWorkClear(m)
  <2>1. /\ call[m].pc = "clear" /\ UNCHANGED pending
        /\ nflag' = [nflag EXCEPT ![m] = FALSE]
    BY <1>4 DEF NvifWorkClear
  <2>2. nflag'[n] <=> nflag[n] /\ n # m
    BY <2>1, NvifFacts, Zenon
  <2>3. /\ Decs(n) \in Nat /\ Incs(n) \in Nat /\ Incs(n)' = Incs(n)
        /\ Decs(n)' = Decs(n) - B(m = n /\ nflag[m])
    <3>1. B(call[m].n = n /\ call[m].pc \in Callbacks) = B(m = n)
          /\ B(call[m].n = n /\ call[m].pc = "inc") = 0 /\ B(m = n) \in Int
      BY <1>0, <2>1 DEF B, Callbacks
    <3>2. CASE nflag[m]
      <4>1. Turn(m, Back(m)) /\ Back(m).pc \notin Callbacks \cup {"inc"}
        BY <1>4, <2>1, <3>2, Nexts, NvifFacts, <1>0 DEF NvifWorkClear, Callbacks
      <4>2. /\ B(Back(m).n = n /\ Back(m).pc \in Callbacks) = 0
            /\ B(Back(m).n = n /\ Back(m).pc = "inc") = 0
            /\ B(m = n /\ nflag[m]) = B(m = n)
        BY <3>2, <4>1 DEF B
      <4>. QED  BY <1>0, <3>1, <4>1, <4>2, TurnCounts
    <3>3. CASE ~nflag[m]
      <4>. DEFINE r == [call[m] EXCEPT !.pc = "dec"]
      <4>1. Turn(m, r) /\ r.pc = "dec" /\ r.n = m
        BY <1>0, <1>4, <2>1, <3>3, Nexts, ZenonT(30) DEF NvifWorkClear, CallPcs
      <4>. HIDE DEF r
      <4>2. /\ B(r.n = n /\ r.pc \in Callbacks) = B(m = n)
            /\ B(r.n = n /\ r.pc = "inc") = 0
            /\ B(m = n /\ nflag[m]) = 0
        BY <3>3, <4>1 DEF B, Callbacks
      <4>. QED  BY <1>0, <3>1, <4>1, <4>2, TurnCounts
    <3>. QED  BY <3>2, <3>3
  <2>. QED  BY <1>0, <1>1, <2>1, <2>2, <2>3, ExcessSum DEF B, ExcessChange
<1>. QED  BY <1>2, <1>3, <1>4 DEF NvifWorkStep

\* No step leaves putcnt below what it accounts for.
LEMMA ExcessStep ==
  ASSUME NvifInv, NvifNext, NEW n \in Notifies PROVE ExcessChange(n)
<1>1. ASSUME NEW t \in Threads, NvifCall(t) PROVE ExcessChange(n)
  BY <1>1, CtorExcess, GetExcess, PutExcess, Zenon DEF NvifCall
<1>2. CASE NvifEvent \/ NvkmSend
  <2>1. UNCHANGED <<cb, putcnt, nflag, pending, call>>
    BY <1>2 DEF NvifEvent, NvkmSend, nvifVars
  <2>. QED  BY <2>1, ExcessSame DEF ExcessChange
<1>. QED  BY <1>1, <1>2, StepExcess, CbExcess, WorkExcess DEF NvifNext

\* So putcnt stays at what it accounts for, or above where it may be.
LEMMA AccountStep == ASSUME NvifInv, NvifNext, TypeOK' PROVE PutcntAccounts'
<1>1. NvifTypeOK'
  BY NvifTypeStep
<1>. SUFFICES ASSUME NEW n \in Notifies
              PROVE  /\ putcnt'[n] >= NvifAccount(n)'
                     /\ n \notin Deferred => putcnt'[n] = NvifAccount(n)'
  BY <1>1 DEF PutcntAccounts, NvifAccount, Decs, Incs, Calling, Callbacks
<1>2. /\ putcnt[n] >= NvifAccount(n)
      /\ n \notin Deferred => putcnt[n] = NvifAccount(n)
  BY DEF NvifInv, PutcntAccounts, NvifAccount, Decs, Incs, Calling, Callbacks
<1>3. putcnt[n] \in Int /\ putcnt'[n] \in Int
  BY <1>1, NvifFacts DEF NvifTypeOK
<1>4. NvifAccount(n) \in Int
  BY CallSets DEF NvifAccount, B
<1>5. NvifAccount(n)' \in Int
  <2>1. Decs(n)' \in Nat /\ Incs(n)' \in Nat
    <3>1. IsFiniteSet(In(n, Callbacks)') /\ IsFiniteSet(In(n, {"inc"})')
      BY FS_Subset DEF In
    <3>. QED  BY <3>1, FS_CardinalityType DEF Decs, Incs
  <2>. QED  BY <2>1 DEF NvifAccount, B
<1>6. ExcessChange(n)
  BY ExcessStep
<1>. QED  BY <1>2, <1>3, <1>4, <1>5, <1>6 DEF ExcessChange, Excess

-----------------------------------------------------------------------------
(* The theorems.                                                           *)

\* Nothing is wanted at first.
LEMMA NvifInitInv == NvifInit => Init /\ NvifInv
<1>. SUFFICES ASSUME NvifInit PROVE Init /\ NvifInv
  OBVIOUS
<1>1. Init /\ TypeOK /\ Listed
  BY DEF NvifInit, Init, TypeOK, SendIdle, WorkIdle, UserIdle, Busy, Listed
<1>2. NvifTypeOK
  BY <1>1 DEF NvifInit, NvifTypeOK, CallIdle, CbIdle
<1>3. PutcntAccounts
  <2>. SUFFICES ASSUME NEW n \in Notifies PROVE putcnt[n] = NvifAccount(n)
    BY <1>2 DEF PutcntAccounts, NvifAccount, Decs, Incs, Calling, Callbacks, NvifTypeOK
  <2>1. In(n, Callbacks) = {} /\ In(n, {"inc"}) = {}
    BY DEF NvifInit, In, CallIdle, Callbacks
  <2>2. Decs(n) = 0 /\ Incs(n) = 0
    BY <2>1, FS_EmptySet DEF Decs, Incs
  <2>3. ~Calling(n) /\ ~nflag[n] /\ ~pending[n] /\ putcnt[n] = 1
    BY DEF NvifInit, Calling, CbIdle
  <2>. QED  BY <2>2, <2>3 DEF NvifAccount, B
<1>4. \A t \in Users : call[t] = CallIdle /\ user[t] = UserIdle
  BY DEF NvifInit, Init
<1>5. Callers /\ Below
  <2>1. \A t \in Users : call[t] = CallIdle /\ call[t].pc = "idle" /\ user[t].pc = "idle"
    <3>1. CallIdle.pc = "idle" /\ UserIdle.pc = "idle"
      BY DEF CallIdle, UserIdle
    <3>. QED  BY <1>4, <3>1
  <2>2. ASSUME NEW t, NEW c, c = CallIdle, c.pc = "idle" PROVE CallerOK(t, c)
    BY <2>2 DEF CallerOK
  <2>3. \A t \in Users : BelowOK(call[t], user[t])
    BY <2>1 DEF BelowOK
  <2>. QED  BY <2>1, <2>2, <2>3 DEF Callers, Below
<1>9. Rearming
  BY <1>4, NvifAssumption DEF Rearming, CallIdle
<1>6. \A t \in Threads : call[t].pc = "idle" /\ ~call[t].dtor
  BY <1>4 DEF CallIdle
<1>7. Alone /\ Lives
  BY <1>6 DEF NvifInit, Init, Alone, Lives
<1>8. Branches
  BY DEF NvifInit, Branches, CbIdle
<1>. QED  BY <1>1, <1>3, <1>5, <1>7, <1>8, <1>9 DEF NvifInv

\* Every step keeps the invariant, and is a step of NVKM.
LEMMA NvifStepInv == NvifInv /\ [NvifNext]_allVars => NvifInv' /\ [Next]_vars
<1>. SUFFICES ASSUME NvifInv, [NvifNext]_allVars PROVE NvifInv' /\ [Next]_vars
  OBVIOUS
<1>1. [Next]_vars
  BY Drives
<1>2. TypeOK' /\ Listed'
  BY <1>1, TypeStep, ListedStep, NvifFacts DEF NvifInv
<1>3. CASE NvifNext
  BY <1>1, <1>2, <1>3, CallsStep, BranchStep, AccountStep DEF NvifInv
<1>4. CASE UNCHANGED allVars
  <2>1. UNCHANGED <<object, nflag, putcnt, pending, call, cb, live, user, queue, send>>
    BY <1>4 DEF allVars, vars, nvifVars
  <2>2. PutcntAccounts'
    BY <1>2, <2>1 DEF NvifInv, PutcntAccounts, NvifTypeOK, In, Cur
  <2>3. Callers' /\ Below'
    BY <2>1 DEF NvifInv, Callers, CallerOK, Below, BelowOK
  <2>4. Alone' /\ Lives' /\ Branches' /\ Rearming'
    BY <2>1 DEF NvifInv, Alone, Lives, Branches, Rearming, Cur
  <2>. QED  BY <1>1, <1>2, <2>2, <2>3, <2>4 DEF NvifInv
<1>. QED  BY <1>3, <1>4

\* Induction, and the refinement with it.
LEMMA NvifAlways == NvifSpec => []NvifInv /\ Spec
<1>1. NvifInv /\ [NvifNext]_allVars => NvifInv' /\ [Next]_vars
  BY NvifStepInv
<1>. QED  BY <1>1, NvifInitInv, PTL DEF NvifSpec, Spec

\* Refinement: every behaviour of NVIF drives NVKM as NvkmNotify allows.
\* nvif_notify_get, _put and _dtor, the callbacks and the workers reach
\* nvkm_notify_get, _put and _fini only in the orders that NVKM is correct for
\* (nvif/notify.c:32-162 over core/notify.c).
THEOREM NvifDrivesNvkm == NvifSpec => Spec
  BY NvifAlways, PTL

\* The types of every variable, and that notify->putcnt accounts for all that
\* masks a notify, for any number of threads and any order of their gets, puts,
\* callbacks and workers (nvif/notify.c:44, 75, 97, 129).
THEOREM PutcntCorrect == NvifSpec => []PutcntAccounts
<1>1. NvifInv => PutcntAccounts
  BY DEF NvifInv
<1>. QED  BY <1>1, NvifAlways, PTL

\* After nvif_notify_dtor of a direct notify has returned, its callback does
\* not run (nvif/notify.c:144-162).
THEOREM NoCallbackAfter == NvifSpec => []NoCallbackAfterDtor
<1>1. NvifInv => NoCallbackAfterDtor
  <2>. SUFFICES ASSUME NvifInv, NEW n \in Notifies, Sending(n) PROVE object[n]
    BY DEF NoCallbackAfterDtor
  <2>1. live[Cur]
    BY NvifFacts, ListedSafe DEF NvifInv, NoCallbackAfterFini, Sending
  <2>. QED  BY <2>1 DEF NvifInv, Lives, Sending
<1>. QED  BY <1>1, NvifAlways, PTL

\* What is proved of NVKM for all of its users holds below NVIF.
COROLLARY NvkmBelowNvif ==
  NvifSpec => [](RefsExact /\ BlockAccounts /\ NoCallbackAfterFini)
  BY NvifDrivesNvkm, References, Blocks, NoCallback, PTL
=============================================================================
