------------------------- MODULE NouveauFenceProofs -------------------------
(***************************************************************************)
(* Proofs about NouveauFence, for any threads, number of fences and width  *)
(* of their numbers: the fences use their notify as NVIF allows, so that   *)
(* all that is proved of NVIF and NVKM holds below them; notify_ref is     *)
(* exact; the pending fences are sound; and no fence is signalled before   *)
(* the channel has executed up to it.                                      *)
(***************************************************************************)
EXTENDS NouveauFence, NvifNotifyProofs

-----------------------------------------------------------------------------
(* The inductive invariant.                                                *)

Fence == [pub : BOOLEAN, channel : BOOLEAN, signaled : BOOLEAN, enabled : BOOLEAN, user : BOOLEAN]
Thr == [op : {"none", "emit", "poll", "wait", "kill", "del"},
        pc : {"idle", "lock", "add", "unlock", "check", "sleep", "signal", "dtor", "free"},
        f : 0 .. MaxSeq]

FenceData ==
  /\ fctx \in {"none", "live", "dying", "freed"}
  /\ issued \in 0 .. MaxSeq
  /\ fence \in [Seqs -> Fence]
  /\ pendq \in Seq(Seqs)
  /\ notifyRef \in Nat
  /\ lock \in Threads \cup {None}
  /\ thr \in [Threads -> Thr]
  /\ gpuOps \in Seq(0 .. MaxSeq) /\ gpuSeq \in 0 .. SeqWrap - 1
  /\ latch \in BOOLEAN /\ irq \in BOOLEAN /\ killed \in BOOLEAN

\* What each operation can be at, and with which fence.
At(r) ==
  /\ r.op = "none" => r = ThrIdle
  /\ r.op = "emit" => r.pc \in {"lock", "add"}
  /\ r.op = "poll" => r.pc \in {"lock", "unlock"}
  /\ r.op = "wait" => r.pc \in {"lock", "check", "sleep", "signal"}
  /\ r.op = "kill" => r.pc \in {"lock", "unlock"}
  /\ r.op = "del" => r.pc \in {"lock", "unlock", "dtor", "free"}

Doing(r) ==
  /\ r.op = "emit" => /\ fctx = "live" /\ r.f = issued /\ r.f \in Seqs
                      /\ fence[r.f].channel /\ ~fence[r.f].pub
  /\ r.op \in {"poll", "wait"} => r.f \in Seqs /\ fence[r.f].pub
  /\ r.op = "kill" => killed
  /\ r.op = "del" => fctx = "dying"
  /\ r.pc \in {"check", "signal"} => ~fence[r.f].signaled
  /\ r.pc = "check" => /\ r.f \in Range(pendq)
                       /\ fence[r.f].enabled /\ ~fence[r.f].user

\* fctx->lock is held by the thread that says so.
Held == {"add", "unlock", "check", "signal"}
Locking == \A t \in Threads : lock = t <=> thr[t].pc \in Held

Workers ==
  /\ \A t \in Threads : At(thr[t]) /\ Doing(thr[t])
  /\ \A t, u \in Threads : thr[t].op = thr[u].op /\ thr[t].op \in {"emit", "del"} => t = u
  /\ fctx = "none" => issued = 0 /\ \A t \in Threads : thr[t] = ThrIdle

\* The pending fences, and those that are not.
Fences ==
  /\ \A i, j \in DOMAIN pendq : i < j => pendq[i] < pendq[j]
  /\ \A s \in Range(pendq) : fence[s].pub /\ fence[s].channel
  /\ \A s \in Seqs :
       /\ fence[s].pub => s <= issued
       /\ ~fence[s].pub => ~fence[s].signaled /\ ~fence[s].enabled
       /\ fence[s].user => fence[s].enabled
       /\ fence[s].pub /\ ~fence[s].signaled =>
            \/ s \in Range(pendq)
            \/ \E t \in Threads : thr[t].pc = "signal" /\ thr[t].f = s

\* nouveau_fence_context_kill has run for the deletion of the context.
Dead == fctx = "freed" \/ \E t \in Threads : thr[t].op = "del" /\ thr[t].pc # "lock"

Buried ==
  Dead => /\ pendq = <<>> /\ fctx \in {"dying", "freed"}
          /\ \A s \in Seqs : fence[s].pub => fence[s].signaled
          /\ \A t \in Threads : call[t].pc # "idle" => thr[t].op = "del"

\* NVIF is called for ntfy, under fctx->lock but for nvif_notify_dtor.
FenceCalls ==
  /\ \A t \in Threads : call[t].pc # "idle" =>
       /\ call[t].n = ntfy
       /\ IF call[t].dtor THEN thr[t].op = "del" /\ thr[t].pc = "free" ELSE lock = t
  /\ \A n \in Notifies \ {ntfy} : ~object[n] /\ putcnt[n] = 1

UsersOf(Q) == {s \in Q : fence[s].user}
Checking == {t \in Threads : thr[t].op = "wait" /\ thr[t].pc = "check"}

RefCount == notifyRef = Cardinality(UsersOf(Range(pendq))) + Cardinality(Checking)

\* What the channel has left to do, in order.
Ops ==
  /\ \A i, j \in DOMAIN gpuOps : i < j /\ gpuOps[i] # 0 /\ gpuOps[j] # 0 => gpuOps[i] < gpuOps[j]
  /\ \A i \in DOMAIN gpuOps : i + 1 \in DOMAIN gpuOps => gpuOps[i] # 0 \/ gpuOps[i + 1] # 0
  /\ \A i \in DOMAIN gpuOps : gpuOps[i] <= issued

Stopped == killed \/ fctx \in {"dying", "freed"}

\* The semaphore holds the number of a fence that the channel has reached.
Executed == Stopped \/ \E g \in 0 .. issued : gpuSeq = Seqno(g) /\ \A s \in Left : g < s

Signalling ==
  \A t \in Threads : thr[t].pc = "signal" => Stopped \/ \A s \in Left : thr[t].f < s

FenceInv ==
  /\ FenceData /\ Locking /\ Workers /\ Fences /\ Buried /\ FenceCalls /\ RefCount
  /\ Ops /\ Executed /\ Signalling

-----------------------------------------------------------------------------
(* Facts about sequences and numbers.                                      *)

Rising(q) == \A i, j \in DOMAIN q : i < j => q[i] < q[j]

LEMMA RestOf ==
  ASSUME NEW S, NEW q \in Seq(S), NEW k \in 0 .. Len(q)
  PROVE  /\ SubSeq(q, k + 1, Len(q)) \in Seq(S)
         /\ Len(SubSeq(q, k + 1, Len(q))) = Len(q) - k
         /\ \A i \in 1 .. Len(q) - k : SubSeq(q, k + 1, Len(q))[i] = q[i + k]
<1>1. Len(q) \in Nat /\ k \in Nat /\ k <= Len(q)
  OBVIOUS
<1>2. SubSeq(q, k + 1, Len(q)) \in Seq(S)
  BY <1>1, SubSeqProperties
<1>3. Len(SubSeq(q, k + 1, Len(q))) = Len(q) - k
  BY <1>1, SubSeqProperties
<1>4. \A i \in 1 .. Len(q) - k : SubSeq(q, k + 1, Len(q))[i] = q[i + k]
  BY <1>1, SubSeqProperties
<1>. QED  BY <1>2, <1>3, <1>4

\* The first k entries leave a queue that is in order.
LEMMA DropFirst ==
  ASSUME NEW q \in Seq(Seqs), Rising(q), NEW k \in 0 .. Len(q)
  PROVE  LET r == SubSeq(q, k + 1, Len(q))
             S == {q[i] : i \in 1 .. k}
         IN  /\ r \in Seq(Seqs) /\ Rising(r)
             /\ S \subseteq Range(q) /\ Range(r) = Range(q) \ S
             /\ k = Len(q) => r = <<>>
<1>. DEFINE r == SubSeq(q, k + 1, Len(q))
            S == {q[i] : i \in 1 .. k}
<1>1. /\ Len(q) \in Nat /\ DOMAIN q = 1 .. Len(q) /\ \A i \in DOMAIN q : q[i] \in Seqs
  OBVIOUS
<1>2. r \in Seq(Seqs) /\ Len(r) = Len(q) - k /\ \A i \in 1 .. Len(q) - k : r[i] = q[i + k]
  BY RestOf
<1>3. DOMAIN r = 1 .. Len(q) - k
  BY <1>2
<1>. HIDE DEF r
<1>4. Rising(r)
  <2>. SUFFICES ASSUME NEW i \in 1 .. Len(q) - k, NEW j \in 1 .. Len(q) - k, i < j
                PROVE  r[i] < r[j]
    BY <1>3 DEF Rising
  <2>1. i + k \in DOMAIN q /\ j + k \in DOMAIN q /\ i + k < j + k
    BY <1>1
  <2>2. r[i] = q[i + k] /\ r[j] = q[j + k]
    BY <1>2
  <2>. QED  BY <2>1, <2>2 DEF Rising
<1>5. Range(r) = Range(q) \ S
  <2>1. ASSUME NEW x \in Range(r) PROVE x \in Range(q) /\ x \notin S
    <3>1. PICK i \in 1 .. Len(q) - k : x = q[i + k]
      BY <1>2, <1>3 DEF Range
    <3>2. i + k \in DOMAIN q
      BY <1>1
    <3>3. ASSUME NEW j \in 1 .. k, q[j] = x PROVE FALSE
      <4>1. j \in DOMAIN q /\ j < i + k
        BY <1>1
      <4>2. q[j] < q[i + k]
        BY <3>2, <4>1 DEF Rising
      <4>3. q[j] \in Nat
        BY <1>1, <4>1 DEF Seqs
      <4>. QED  BY <3>1, <3>3, <4>2, <4>3
    <3>. QED  BY <3>1, <3>2, <3>3 DEF Range
  <2>2. ASSUME NEW x \in Range(q), x \notin S PROVE x \in Range(r)
    <3>1. PICK i \in 1 .. Len(q) : q[i] = x
      BY <1>1 DEF Range
    <3>2. i > k
      BY <2>2, <3>1
    <3>3. i - k \in DOMAIN r /\ r[i - k] = x
      BY <1>1, <1>2, <1>3, <3>1, <3>2
    <3>. QED  BY <3>3 DEF Range
  <2>. QED  BY <2>1, <2>2
<1>6. S \subseteq Range(q)
  BY <1>1 DEF Range
<1>7. k = Len(q) => r = <<>>
  BY <1>2, EmptySeq
<1>. QED  BY <1>2, <1>4, <1>5, <1>6, <1>7 DEF r

\* So does one that is taken out.
LEMMA TakeOut ==
  ASSUME NEW q \in Seq(Seqs), Rising(q), NEW k \in DOMAIN q
  PROVE  LET r == RemoveAt(q, k)
         IN  r \in Seq(Seqs) /\ Rising(r) /\ Range(r) = Range(q) \ {q[k]}
<1>. DEFINE r == RemoveAt(q, k)
<1>1. /\ Len(q) \in Nat /\ DOMAIN q = 1 .. Len(q) /\ \A i \in DOMAIN q : q[i] \in Seqs
  OBVIOUS
<1>2. /\ r \in Seq(Seqs) /\ Len(r) = Len(q) - 1
      /\ \A j \in 1 .. Len(q) - 1 : r[j] = IF j < k THEN q[j] ELSE q[j + 1]
  BY RemoveAtEntries
<1>3. DOMAIN r = 1 .. Len(q) - 1
  BY <1>2
<1>. HIDE DEF r
<1>4. Rising(r)
  <2>. SUFFICES ASSUME NEW i \in DOMAIN r, NEW j \in DOMAIN r, i < j PROVE r[i] < r[j]
    BY DEF Rising
  <2>. DEFINE a == IF i < k THEN i ELSE i + 1
              b == IF j < k THEN j ELSE j + 1
  <2>1. a \in DOMAIN q /\ b \in DOMAIN q /\ a < b
    BY <1>1, <1>3
  <2>2. r[i] = q[a] /\ r[j] = q[b]
    BY <1>2, <1>3
  <2>. QED  BY <2>1, <2>2 DEF Rising
<1>5. \A i, j \in DOMAIN q : q[i] = q[j] => i = j
  <2>. SUFFICES ASSUME NEW i \in DOMAIN q, NEW j \in DOMAIN q, q[i] = q[j], i # j PROVE FALSE
    OBVIOUS
  <2>1. i < j \/ j < i
    BY <1>1
  <2>. QED  BY <1>1, <2>1 DEF Rising, Seqs
<1>6. Range(r) = Range(q) \ {q[k]}
  <2>1. ASSUME NEW x \in Range(r) PROVE x \in Range(q) /\ x # q[k]
    <3>1. PICK j \in 1 .. Len(q) - 1 : x = IF j < k THEN q[j] ELSE q[j + 1]
      BY <1>2, <1>3 DEF Range
    <3>. QED  BY <1>1, <1>5, <3>1 DEF Range
  <2>2. ASSUME NEW x \in Range(q), x # q[k] PROVE x \in Range(r)
    <3>1. PICK i \in 1 .. Len(q) : q[i] = x
      BY <1>1 DEF Range
    <3>. DEFINE j == IF i < k THEN i ELSE i - 1
    <3>2. j \in DOMAIN r /\ r[j] = x
      BY <1>1, <1>2, <1>3, <2>2, <3>1
    <3>. QED  BY <3>2 DEF Range
  <2>. QED  BY <2>1, <2>2
<1>. QED  BY <1>2, <1>4, <1>6 DEF r

\* A set of first positions is that of as many.
LEMMA FirstOnes ==
  ASSUME NEW n \in Nat, NEW R \in SUBSET (1 .. n), \A i \in R : 1 .. i \subseteq R
  PROVE  Cardinality(R) \in 0 .. n /\ R = 1 .. Cardinality(R)
<1>. DEFINE k == Cardinality(R)
<1>1. IsFiniteSet(1 .. n) /\ Cardinality(1 .. n) = n
  BY FS_Interval
<1>2. IsFiniteSet(R) /\ k \in Nat /\ k <= n
  BY <1>1, FS_Subset, FS_CardinalityType, ZenonT(30)
<1>3. IsFiniteSet(1 .. k) /\ Cardinality(1 .. k) = k
  BY <1>2, FS_Interval
<1>4. CASE k = 0
  BY <1>2, <1>4, FS_EmptySet
<1>5. CASE k > 0
  <2>1. k \in R
    <3>. SUFFICES ASSUME k \notin R PROVE FALSE
      OBVIOUS
    <3>1. R \subseteq 1 .. k - 1
      BY <1>2, <1>5
    <3>0. 1 \in Int /\ k - 1 \in Int /\ (1 > k - 1 => k - 1 = 0)
      BY <1>2, <1>5
    <3>. DEFINE m == k - 1
    <3>2. IsFiniteSet(1 .. m) /\ Cardinality(1 .. m) = IF 1 > m THEN 0 ELSE m - 1 + 1
      BY <3>0, FS_Interval
    <3>3. Cardinality(R) <= Cardinality(1 .. m)
      BY <3>1, <3>2, FS_Subset
    <3>4. k <= k - 1
      BY <3>0, <3>2, <3>3
    <3>. QED  BY <1>2, <3>4
  <2>2. 1 .. k \subseteq R
    BY <2>1
  <2>. QED  BY <1>2, <1>3, <2>2, FS_Subset
<1>. QED  BY <1>2, <1>4, <1>5

-----------------------------------------------------------------------------
(* The parts of the invariant, one by one.                                 *)

\* The types and assumptions, in the form the proofs below use.
LEMMA FenceFacts ==
  ASSUME NvifInv, FenceInv
  PROVE  /\ Threads \subseteq Users /\ IsFiniteSet(Threads)
         /\ ntfy \in Notifies /\ ntfy \notin Deferred /\ None \notin Threads /\ MaxSeq \in Nat
         /\ \A s \in Seqs : s \in 1 .. MaxSeq
         /\ Rising(pendq) /\ DOMAIN pendq = 1 .. Len(pendq) /\ Len(pendq) \in Nat
         /\ Range(pendq) \subseteq Seqs /\ IsFiniteSet(Seqs)
         /\ ThrIdle \in Thr /\ ThrIdle.pc = "idle" /\ ThrIdle.op = "none"
         /\ \A t \in Threads : call[t] \in CallRec /\ (call[t].pc = "idle" => call[t] = CallIdle)
         /\ CallIdle.n # ntfy /\ CallIdle.pc = "idle" /\ ~CallIdle.dtor
         /\ \A t \in Threads : thr[t].pc \notin Held \cup {"free"} => call[t].pc = "idle"
<1>1. Threads \subseteq Users /\ ntfy \in Notifies /\ ntfy \notin Deferred /\ None \notin Threads
      /\ MaxSeq \in Nat
  BY FenceAssumption, NvifAssumption
<1>2. IsFiniteSet(Threads)
  BY <1>1, NotifyAssumption, FS_Subset
<1>3. IsFiniteSet(Seqs)
  BY <1>1, FS_Interval DEF Seqs
<1>4. Rising(pendq) /\ DOMAIN pendq = 1 .. Len(pendq) /\ Len(pendq) \in Nat
      /\ Range(pendq) \subseteq Seqs
  BY DEF FenceInv, FenceData, Fences, Rising, Range
<1>5. ThrIdle \in Thr /\ ThrIdle.pc = "idle" /\ ThrIdle.op = "none"
  BY <1>1 DEF ThrIdle, Thr
<1>6. \A t \in Threads : call[t] \in CallRec /\ (call[t].pc = "idle" => call[t] = CallIdle)
  BY <1>1, NvifFacts DEF NvifInv, Callers, CallerOK
<1>7. CallIdle.n # ntfy /\ CallIdle.pc = "idle" /\ ~CallIdle.dtor
  BY <1>1, NvifFacts
<1>8. \A t \in Threads : thr[t].pc \notin Held \cup {"free"} => call[t].pc = "idle"
  BY DEF FenceInv, FenceCalls, Locking
<1>. QED  BY <1>1, <1>2, <1>3, <1>4, <1>5, <1>6, <1>7, <1>8 DEF Seqs

\* A part depends on its own variables only.
LEMMA FenceKept ==
  ASSUME FenceInv
  PROVE  /\ UNCHANGED <<lock, thr>> => Locking'
         /\ UNCHANGED <<thr, fctx, issued, fence, pendq, killed>> => Workers'
         /\ UNCHANGED <<pendq, fence, issued, thr>> => Fences'
         /\ UNCHANGED <<fctx, thr, pendq, fence, call>> => Buried'
         /\ UNCHANGED <<call, thr, lock, object, putcnt>> => FenceCalls'
         /\ UNCHANGED <<notifyRef, pendq, fence, thr>> => RefCount'
         /\ UNCHANGED <<gpuOps, issued>> => Ops'
         /\ UNCHANGED <<killed, fctx, issued, gpuSeq, gpuOps>> => Executed'
         /\ UNCHANGED <<thr, killed, fctx, gpuOps>> => Signalling'
<1>. USE DEF FenceInv
<1>1. UNCHANGED <<lock, thr>> => Locking'
  BY DEF Locking
<1>2. UNCHANGED <<thr, fctx, issued, fence, pendq, killed>> => Workers'
  BY DEF Workers, At, Doing
<1>3. UNCHANGED <<pendq, fence, issued, thr>> => Fences'
  BY DEF Fences
<1>4. UNCHANGED <<fctx, thr, pendq, fence, call>> => Buried'
  BY DEF Buried, Dead
<1>5. UNCHANGED <<call, thr, lock, object, putcnt>> => FenceCalls'
  BY DEF FenceCalls
<1>6. UNCHANGED <<notifyRef, pendq, fence, thr>> => RefCount'
  BY DEF RefCount, UsersOf, Checking
<1>7. UNCHANGED <<gpuOps, issued>> => Ops'
  BY DEF Ops
<1>8. UNCHANGED <<killed, fctx, issued, gpuSeq, gpuOps>> => Executed'
  BY DEF Executed, Stopped, Left
<1>9. UNCHANGED <<thr, killed, fctx, gpuOps>> => Signalling'
  BY DEF Signalling, Stopped, Left
<1>. QED  BY <1>1, <1>2, <1>3, <1>4, <1>5, <1>6, <1>7, <1>8, <1>9

\* A thread that moves on.
Moves(t, r) == r \in Thr /\ thr' = [thr EXCEPT ![t] = r]

\* It takes fctx->lock, keeps it, gives it back, or does without.
LockMoves(t, r) ==
  /\ lock' = lock \/ {lock, lock'} \subseteq {None, t}
  /\ lock' = t <=> r.pc \in Held

LEMMA MoveKeeps ==
  ASSUME NvifInv, FenceInv, NEW t \in Threads, NEW r, Moves(t, r)
  PROVE  /\ thr' \in [Threads -> Thr] /\ thr'[t] = r
         /\ \A u \in Threads : u # t => thr'[u] = thr[u]
         /\ LockMoves(t, r) => Locking' /\ lock' \in Threads \cup {None}
         /\ LockMoves(t, r) /\ UNCHANGED <<call, object, putcnt>> /\ call[t].pc = "idle" => FenceCalls'
         /\ "signal" \notin {r.pc, thr[t].pc} /\ UNCHANGED <<pendq, fence, issued>> => Fences'
         /\ "check" \notin {r.pc, thr[t].pc} => UNCHANGED Checking
         /\ r.pc # "signal" /\ UNCHANGED <<killed, fctx, gpuOps>> => Signalling'
         /\ /\ UNCHANGED <<fctx, pendq, fence, call>> /\ call[t].pc = "idle"
            /\ r.op = "del" => thr[t].op = "del" /\ (thr[t].pc = "lock" => r.pc = "lock")
            => Buried'
<1>. USE DEF FenceInv
<1>1. /\ thr' \in [Threads -> Thr] /\ thr'[t] = r
      /\ \A u \in Threads : u # t => thr'[u] = thr[u]
  BY DEF FenceData, Moves
<1>2. LockMoves(t, r) => Locking' /\ lock' \in Threads \cup {None}
  BY <1>1, FenceFacts DEF Locking, LockMoves, FenceData
<1>3. LockMoves(t, r) /\ UNCHANGED <<call, object, putcnt>> /\ call[t].pc = "idle" => FenceCalls'
  BY <1>1, FenceFacts DEF FenceCalls, LockMoves
<1>4. "signal" \notin {r.pc, thr[t].pc} /\ UNCHANGED <<pendq, fence, issued>> => Fences'
  BY <1>1 DEF Fences
<1>5. "check" \notin {r.pc, thr[t].pc} => UNCHANGED Checking
  BY <1>1 DEF Checking
<1>6. r.pc # "signal" /\ UNCHANGED <<killed, fctx, gpuOps>> => Signalling'
  BY <1>1 DEF Signalling, Stopped, Left
<1>7. ASSUME UNCHANGED <<fctx, pendq, fence, call>>, call[t].pc = "idle",
             r.op = "del" => thr[t].op = "del" /\ (thr[t].pc = "lock" => r.pc = "lock")
      PROVE  Buried'
  <2>1. Dead' => Dead
    BY <1>1, <1>7 DEF Dead
  <2>. QED  BY <1>1, <1>7, <2>1 DEF Buried
<1>. QED  BY <1>1, <1>2, <1>3, <1>4, <1>5, <1>6, <1>7

LEMMA WorkersMove ==
  ASSUME NvifInv, FenceInv, NEW t \in Threads, NEW r, Moves(t, r), At(r), Doing(r)',
         \A u \in Threads : u # t /\ Doing(thr[u]) => Doing(thr[u])',
         r.op \in {"emit", "del"} =>
            thr[t].op = r.op \/ \A u \in Threads : u # t => thr[u].op # r.op,
         fctx' = "none" => issued' = 0 /\ r = ThrIdle /\ fctx = "none"
  PROVE  Workers'
<1>1. /\ thr'[t] = r /\ \A u \in Threads : u # t => thr'[u] = thr[u]
  BY MoveKeeps
<1>2. ASSUME NEW u \in Threads PROVE At(thr[u])' /\ Doing(thr[u])'
  <2>1. CASE u = t
    BY <1>1, <2>1 DEF At, Doing
  <2>2. CASE u # t
    BY <1>1, <2>2 DEF At, Doing, FenceInv, Workers
  <2>. QED  BY <2>1, <2>2
<1>3. ASSUME NEW u \in Threads, NEW v \in Threads,
             thr'[u].op = thr'[v].op, thr'[u].op \in {"emit", "del"}
      PROVE  u = v
  BY <1>1, <1>3 DEF FenceInv, Workers
<1>4. fctx' = "none" => issued' = 0 /\ \A u \in Threads : thr'[u] = ThrIdle
  BY <1>1 DEF FenceInv, Workers
<1>. QED  BY <1>2, <1>3, <1>4 DEF Workers

-----------------------------------------------------------------------------
(* Steps of a thread that change nothing but where it is.                  *)

LEMMA SteadyKeeps ==
  ASSUME NvifInv, FenceInv, NEW t \in Threads, NEW r, Moves(t, r), LockMoves(t, r),
         UNCHANGED <<allVars, fctxVars, gpuVars, killed>>,
         call[t].pc = "idle", {r.pc, thr[t].pc} \cap {"check", "signal"} = {},
         At(r), Doing(r), fctx # "none",
         r.op \in {"emit", "del"} => thr[t].op = r.op,
         r.op = "del" => (thr[t].pc = "lock" => r.pc = "lock")
  PROVE  FenceInv'
<1>1. /\ UNCHANGED <<call, object, putcnt>>
      /\ UNCHANGED <<fctx, issued, fence, pendq, notifyRef, gpuOps, gpuSeq, latch, irq, killed>>
  BY DEF allVars, nvifVars, fctxVars, gpuVars
<1>0. "signal" \notin {r.pc, thr[t].pc} /\ "check" \notin {r.pc, thr[t].pc} /\ r.pc # "signal"
  OBVIOUS
<1>2. Locking' /\ FenceCalls' /\ Fences' /\ Signalling' /\ Buried' /\ UNCHANGED Checking
      /\ thr' \in [Threads -> Thr] /\ lock' \in Threads \cup {None}
  <2>1. /\ thr' \in [Threads -> Thr] /\ UNCHANGED Checking /\ Locking' /\ lock' \in Threads \cup {None}
    BY <1>0, MoveKeeps
  <2>2. UNCHANGED <<call, object, putcnt>> /\ UNCHANGED <<pendq, fence, issued>>
        /\ UNCHANGED <<killed, fctx, gpuOps>> /\ UNCHANGED <<fctx, pendq, fence, call>>
    BY <1>1
  <2>3. FenceCalls' /\ Fences' /\ Signalling'
    BY <1>0, <2>2, MoveKeeps
  <2>4. Buried'
    BY <2>2, MoveKeeps
  <2>. QED  BY <2>1, <2>3, <2>4
<1>3. Ops' /\ Executed'
  BY <1>1, FenceKept
<1>4. RefCount'
  BY <1>1, <1>2 DEF FenceInv, RefCount, UsersOf
<1>5. Workers'
  <2>1. Doing(r)'
    BY <1>1 DEF Doing
  <2>2. ASSUME NEW u \in Threads, u # t, Doing(thr[u]) PROVE Doing(thr[u])'
    <3>1. thr'[u] = thr[u]
      BY <2>2, MoveKeeps
    <3>. QED  BY <1>1, <2>2, <3>1 DEF Doing
  <2>. QED  BY <1>1, <2>1, <2>2, WorkersMove
<1>6. FenceData'
  BY <1>1, <1>2 DEF FenceInv, FenceData
<1>. QED  BY <1>2, <1>3, <1>4, <1>5, <1>6 DEF FenceInv

\* The operation that a thread begins, and where its record goes.
LEMMA ThreadRecs ==
  ASSUME NvifInv, FenceInv, NEW t \in Threads
  PROVE  /\ thr[t] \in Thr /\ At(thr[t]) /\ Doing(thr[t])
         /\ \A pc \in {"lock", "add", "unlock", "check", "sleep", "signal", "dtor", "free"} :
              /\ [thr[t] EXCEPT !.pc = pc] \in Thr
              /\ [thr[t] EXCEPT !.pc = pc].pc = pc
              /\ [thr[t] EXCEPT !.pc = pc].op = thr[t].op
              /\ [thr[t] EXCEPT !.pc = pc].f = thr[t].f
         /\ thr' = [thr EXCEPT ![t] = ThrIdle] => Moves(t, ThrIdle)
         /\ \A pc \in {"lock", "add", "unlock", "check", "sleep", "signal", "dtor", "free"} :
              thr' = [thr EXCEPT ![t].pc = pc] => Moves(t, [thr[t] EXCEPT !.pc = pc])
<1>1. thr[t] \in Thr /\ At(thr[t]) /\ Doing(thr[t]) /\ ThrIdle \in Thr
  BY FenceFacts DEF FenceInv, FenceData, Workers
<1>2. \A pc \in {"lock", "add", "unlock", "check", "sleep", "signal", "dtor", "free"} :
              /\ [thr[t] EXCEPT !.pc = pc] \in Thr
              /\ [thr[t] EXCEPT !.pc = pc].pc = pc
              /\ [thr[t] EXCEPT !.pc = pc].op = thr[t].op
              /\ [thr[t] EXCEPT !.pc = pc].f = thr[t].f
  BY <1>1 DEF Thr
<1>3. \A pc \in {"lock", "add", "unlock", "check", "sleep", "signal", "dtor", "free"} :
              thr' = [thr EXCEPT ![t].pc = pc] => Moves(t, [thr[t] EXCEPT !.pc = pc])
  BY <1>2 DEF FenceInv, FenceData, Moves
<1>. QED  BY <1>1, <1>2, <1>3 DEF Moves

\* What a step of thr[t] to idle or to another pc of its operation needs for that.
LEMMA IdleMove ==
  ASSUME NvifInv, FenceInv, NEW t \in Threads, thr' = [thr EXCEPT ![t] = ThrIdle]
  PROVE  Moves(t, ThrIdle) /\ At(ThrIdle) /\ Doing(ThrIdle) /\ Doing(ThrIdle)'
         /\ ThrIdle.pc \notin Held
  BY ThreadRecs DEF At, Doing, ThrIdle, Held

\* A fence that is polled or waited for: its context is there.
LEMMA Made ==
  ASSUME NvifInv, FenceInv
  PROVE  /\ \A f \in Seqs : fence[f].pub => fctx # "none"
         /\ \A t \in Threads : thr[t].pc # "idle" => fctx # "none"
<1>1. \A f \in Seqs : fence[f].pub => fctx # "none"
  BY FenceFacts DEF FenceInv, Fences, Workers
<1>2. \A t \in Threads : thr[t].pc # "idle" => fctx # "none"
  BY FenceFacts DEF FenceInv, Workers
<1>. QED  BY <1>1, <1>2

LEMMA PollSteps ==
  ASSUME NvifInv, FenceInv, NEW t \in Threads,
         \/ \E f \in Seqs : PollStart(t, f) \/ WaitStart(t, f)
         \/ PollUnlock(t) \/ PollDone(t) \/ WaitSleep(t) \/ WaitDone(t) \/ WaitTimeout(t)
         \/ KillUnlock(t) \/ DelUnlock(t)
  PROVE  FenceInv'
<1>0. thr[t] \in Thr /\ At(thr[t]) /\ Doing(thr[t]) /\ (thr[t].pc # "idle" => fctx # "none")
      /\ (lock = t <=> thr[t].pc \in Held) /\ lock \in Threads \cup {None}
  BY ThreadRecs, Made DEF FenceInv, Locking, FenceData
<1>1. ASSUME NEW f \in Seqs, PollStart(t, f) \/ WaitStart(t, f) PROVE FenceInv'
  <2>. DEFINE op == IF PollStart(t, f) THEN "poll" ELSE "wait"
              r == [op |-> op, pc |-> "lock", f |-> f]
  <2>1. /\ op \in {"poll", "wait"} /\ thr[t] = ThrIdle /\ fence[f].pub
        /\ thr' = [thr EXCEPT ![t] = r]
        /\ UNCHANGED <<allVars, fctxVars, lock, gpuVars, killed>>
    BY <1>1 DEF PollStart, WaitStart, Begin
  <2>. HIDE DEF op
  <2>2. r \in Thr /\ r.op = op /\ r.pc = "lock" /\ r.f = f
    BY <2>1, FenceFacts DEF Thr
  <2>. HIDE DEF r
  <2>3. Moves(t, r) /\ At(r) /\ Doing(r) /\ LockMoves(t, r)
    BY <1>0, <2>1, <2>2, FenceFacts DEF Moves, At, Doing, LockMoves, Held
  <2>4. call[t].pc = "idle" /\ fctx # "none"
    BY <2>1, FenceFacts, Made DEF Held
  <2>5. {r.pc, thr[t].pc} \cap {"check", "signal"} = {}
    BY <2>1, <2>2, FenceFacts
  <2>. QED  BY <2>1, <2>2, <2>3, <2>4, <2>5, SteadyKeeps DEF allVars
<1>2. CASE PollDone(t) \/ WaitDone(t) \/ WaitTimeout(t) \/ KillUnlock(t)
  <2>1. /\ thr' = [thr EXCEPT ![t] = ThrIdle]
        /\ thr[t].pc \in {"lock", "sleep", "unlock"} /\ call[t].pc = "idle"
        /\ UNCHANGED <<allVars, fctxVars, gpuVars, killed>>
        /\ IF thr[t].pc = "unlock" THEN lock' = None ELSE UNCHANGED lock
    BY <1>2, FenceFacts DEF PollDone, WaitDone, WaitTimeout, KillUnlock, Returned, Unlock, Held
  <2>2. LockMoves(t, ThrIdle)
    BY <1>0, <2>1, FenceFacts DEF LockMoves, Held
  <2>3. {ThrIdle.pc, thr[t].pc} \cap {"check", "signal"} = {}
    BY <2>1, FenceFacts
  <2>. QED  BY <1>0, <2>1, <2>2, <2>3, FenceFacts, IdleMove, SteadyKeeps
<1>3. CASE PollUnlock(t) \/ WaitSleep(t) \/ DelUnlock(t)
  <2>. DEFINE pc == IF PollUnlock(t) THEN "lock" ELSE IF WaitSleep(t) THEN "sleep" ELSE "dtor"
              r == [thr[t] EXCEPT !.pc = pc]
  <2>1. /\ pc \in {"lock", "sleep", "dtor"}
        /\ thr' = [thr EXCEPT ![t].pc = pc] \/ thr' = [thr EXCEPT ![t] = r]
        /\ thr[t].pc \in {"lock", "unlock"} /\ call[t].pc = "idle"
        /\ UNCHANGED <<allVars, fctxVars, gpuVars, killed>>
        /\ IF thr[t].pc = "unlock" THEN lock' = None ELSE UNCHANGED lock
        /\ At(r)
        /\ thr[t].op = "del" => thr[t].pc # "lock"
    <3>1. CASE PollUnlock(t)
      BY <1>0, <3>1 DEF PollUnlock, Returned, Unlock, At, Thr, ThrIdle
    <3>2. CASE WaitSleep(t) /\ ~PollUnlock(t)
      BY <1>0, <3>2, FenceFacts DEF WaitSleep, At, Thr, ThrIdle, Held
    <3>3. CASE DelUnlock(t) /\ ~PollUnlock(t) /\ ~WaitSleep(t)
      BY <1>0, <3>3 DEF DelUnlock, Returned, Unlock, At, Thr, ThrIdle
    <3>. QED  BY <1>3, <3>1, <3>2, <3>3
  <2>. HIDE DEF pc
  <2>2. r \in Thr /\ r.pc = pc /\ r.op = thr[t].op /\ r.f = thr[t].f
    <3>1. pc \in {"lock", "add", "unlock", "check", "sleep", "signal", "dtor", "free"}
      BY <2>1
    <3>. QED  BY <3>1, ThreadRecs, Zenon
  <2>5. Moves(t, r)
    BY <2>1, <2>2, ThreadRecs DEF Moves
  <2>. HIDE DEF r
  <2>3. Doing(r) /\ LockMoves(t, r)
    BY <1>0, <2>1, <2>2, FenceFacts DEF Doing, LockMoves, Held
  <2>4. {r.pc, thr[t].pc} \cap {"check", "signal"} = {} /\ fctx # "none"
    BY <1>0, <2>1, <2>2
  <2>. QED  BY <2>1, <2>2, <2>3, <2>4, <2>5, SteadyKeeps
<1>. QED  BY <1>1, <1>2, <1>3
-----------------------------------------------------------------------------
(* The steps that signal the first of the pending fences.                  *)

\* nouveau_fence_update stops at some position.
LEMMA RipeFirst ==
  ASSUME NvifInv, FenceInv
  PROVE  Cardinality(Ripe) \in 0 .. Len(pendq) /\ Ripe = 1 .. Cardinality(Ripe)
<1>1. DOMAIN pendq = 1 .. Len(pendq) /\ Len(pendq) \in Nat
  BY FenceFacts
<1>2. Ripe \in SUBSET (1 .. Len(pendq)) /\ \A i \in Ripe : 1 .. i \subseteq Ripe
  BY <1>1 DEF Ripe
<1>. QED  BY <1>1, <1>2, FirstOnes

\* What SignalFirst does.
LEMMA Signals ==
  ASSUME NvifInv, FenceInv, NEW k \in 0 .. Len(pendq), SignalFirst(k)
  PROVE  LET S == {pendq[i] : i \in 1 .. k}
         IN  /\ S \subseteq Range(pendq)
             /\ fence' \in [Seqs -> Fence]
             /\ \A s \in Seqs :
                  /\ fence'[s].pub = fence[s].pub /\ fence'[s].enabled = fence[s].enabled
                  /\ fence'[s].user = fence[s].user
                  /\ s \notin S => fence'[s] = fence[s]
                  /\ fence'[s].signaled <=> s \in S \/ fence[s].signaled
             /\ pendq' \in Seq(Seqs) /\ Rising(pendq') /\ Range(pendq') = Range(pendq) \ S
             /\ k = Len(pendq) => pendq' = <<>>
             /\ notifyRef' \in Nat
             /\ notifyRef' = Cardinality(UsersOf(Range(pendq))') + Cardinality(Checking)
<1>. DEFINE S == {pendq[i] : i \in 1 .. k}
<1>1. /\ fence' = [s \in Seqs |->
            IF s \in S THEN [fence[s] EXCEPT !.signaled = TRUE, !.channel = FALSE] ELSE fence[s]]
      /\ pendq' = SubSeq(pendq, k + 1, Len(pendq))
      /\ notifyRef' = notifyRef - Cardinality({s \in S : fence[s].user})
  BY DEF SignalFirst
<1>2. pendq \in Seq(Seqs) /\ Rising(pendq) /\ fence \in [Seqs -> Fence]
  BY FenceFacts DEF FenceInv, FenceData
<1>3. /\ pendq' \in Seq(Seqs) /\ Rising(pendq') /\ S \subseteq Range(pendq)
      /\ Range(pendq') = Range(pendq) \ S /\ (k = Len(pendq) => pendq' = <<>>)
  BY <1>1, <1>2, DropFirst
<1>. HIDE DEF S
<1>4. ASSUME NEW s \in Seqs
      PROVE  /\ fence'[s] \in Fence
             /\ fence'[s].pub = fence[s].pub /\ fence'[s].enabled = fence[s].enabled
             /\ fence'[s].user = fence[s].user
             /\ s \notin S => fence'[s] = fence[s]
             /\ fence'[s].signaled <=> s \in S \/ fence[s].signaled
  <2>1. fence[s] \in Fence
    BY <1>2
  <2>2. fence'[s] = IF s \in S THEN [fence[s] EXCEPT !.signaled = TRUE, !.channel = FALSE] ELSE fence[s]
    BY <1>1
  <2>3. CASE s \in S
    BY <2>1, <2>2, <2>3 DEF Fence
  <2>4. CASE s \notin S
    BY <2>1, <2>2, <2>4
  <2>. QED  BY <2>3, <2>4
<1>5. fence' \in [Seqs -> Fence]
  <2>1. DOMAIN fence' = Seqs /\ fence' = [s \in Seqs |-> fence'[s]]
    BY <1>1
  <2>. QED  BY <2>1, <1>4
<1>6. /\ notifyRef' \in Nat
      /\ notifyRef' = Cardinality(UsersOf(Range(pendq))') + Cardinality(Checking)
  <2>. DEFINE U == {s \in S : fence[s].user}
  <2>1. IsFiniteSet(UsersOf(Range(pendq))) /\ U \subseteq UsersOf(Range(pendq))
    BY <1>3, FenceFacts, FS_Subset DEF UsersOf
  <2>2. UsersOf(Range(pendq))' = UsersOf(Range(pendq)) \ U
    BY <1>3, <1>4, FenceFacts DEF UsersOf
  <2>3. /\ Cardinality(UsersOf(Range(pendq)) \ U) = Cardinality(UsersOf(Range(pendq))) - Cardinality(U)
        /\ Cardinality(UsersOf(Range(pendq))) \in Nat /\ Cardinality(U) \in Nat
        /\ Cardinality(UsersOf(Range(pendq)) \ U) \in Nat
    <3>1. IsFiniteSet(U) /\ IsFiniteSet(UsersOf(Range(pendq)) \ U)
      BY <2>1, FS_Subset
    <3>2. UsersOf(Range(pendq)) \cap U = U
      BY <2>1
    <3>. HIDE DEF U
    <3>. QED  BY <2>1, <3>1, <3>2, FS_Difference, FS_CardinalityType
  <2>4. Cardinality(Checking) \in Nat
    <3>1. IsFiniteSet(Checking)
      BY FenceFacts, FS_Subset DEF Checking
    <3>. QED  BY <3>1, FS_CardinalityType
  <2>5. notifyRef = Cardinality(UsersOf(Range(pendq))) + Cardinality(Checking)
    BY DEF FenceInv, RefCount
  <2>6. notifyRef' = notifyRef - Cardinality(U)
    BY <1>1
  <2>. HIDE DEF U
  <2>. QED  BY <2>2, <2>3, <2>4, <2>5, <2>6
<1>. QED  BY <1>3, <1>4, <1>5, <1>6 DEF S

\* What the fences have become, with fctx->lock held by nobody before.
LEMMA SignalledParts ==
  ASSUME NvifInv, FenceInv, NEW k \in 0 .. Len(pendq), SignalFirst(k), lock = None,
         UNCHANGED <<fctx, issued, killed>>,
         \A u \in Threads : thr'[u].pc # "signal"
  PROVE  /\ \A u \in Threads : thr[u].pc \notin Held
         /\ fence' \in [Seqs -> Fence] /\ pendq' \in Seq(Seqs) /\ notifyRef' \in Nat
         /\ Fences' /\ (UNCHANGED Checking => RefCount')
         /\ pendq = <<>> => pendq' = <<>>
         /\ k = Len(pendq) => pendq' = <<>> /\ \A s \in Seqs : fence'[s].pub => fence'[s].signaled
         /\ \A s \in Seqs : (fence[s].pub => fence[s].signaled) => (fence'[s].pub => fence'[s].signaled)
<1>. DEFINE S == {pendq[i] : i \in 1 .. k}
<1>1. /\ S \subseteq Range(pendq)
      /\ fence' \in [Seqs -> Fence]
      /\ \A s \in Seqs :
                  /\ fence'[s].pub = fence[s].pub /\ fence'[s].enabled = fence[s].enabled
                  /\ fence'[s].user = fence[s].user
                  /\ s \notin S => fence'[s] = fence[s]
                  /\ fence'[s].signaled <=> s \in S \/ fence[s].signaled
      /\ pendq' \in Seq(Seqs) /\ Rising(pendq') /\ Range(pendq') = Range(pendq) \ S
      /\ k = Len(pendq) => pendq' = <<>>
      /\ notifyRef' \in Nat
      /\ notifyRef' = Cardinality(UsersOf(Range(pendq))') + Cardinality(Checking)
  BY Signals
<1>. HIDE DEF S
<1>2. \A u \in Threads : thr[u].pc \notin Held
  BY FenceFacts DEF FenceInv, Locking
<1>3. \A u \in Threads : thr[u].pc # "signal"
  BY <1>2 DEF Held
<1>4. Range(pendq) \subseteq Seqs
  BY FenceFacts
<1>5. Fences'
  <2>1. \A s \in Range(pendq') : fence'[s].pub /\ fence'[s].channel
    BY <1>1, <1>4 DEF FenceInv, Fences
  <2>2. ASSUME NEW s \in Seqs
        PROVE /\ fence'[s].pub => s <= issued
              /\ ~fence'[s].pub => ~fence'[s].signaled /\ ~fence'[s].enabled
              /\ fence'[s].user => fence'[s].enabled
              /\ fence'[s].pub /\ ~fence'[s].signaled => s \in Range(pendq')
    BY <1>1, <1>3 DEF FenceInv, Fences
  <2>. QED  BY <1>1, <2>1, <2>2 DEF Fences, Rising
<1>6. UNCHANGED Checking => RefCount'
  BY <1>1 DEF RefCount
<1>7. pendq = <<>> => pendq' = <<>>
  <2>. SUFFICES ASSUME pendq = <<>> PROVE pendq' = <<>>
    OBVIOUS
  <2>1. k = Len(pendq)
    BY FenceFacts
  <2>. QED  BY <1>1, <2>1
<1>8. k = Len(pendq) => \A s \in Seqs : fence'[s].pub => fence'[s].signaled
  <2>. SUFFICES ASSUME k = Len(pendq), NEW s \in Seqs, fence'[s].pub PROVE fence'[s].signaled
    OBVIOUS
  <2>1. Range(pendq') = {}
    BY <1>1 DEF Range
  <2>. QED  BY <1>1, <1>3, <2>1 DEF FenceInv, Fences
<1>. QED  BY <1>1, <1>2, <1>5, <1>6, <1>7, <1>8

\* What a thread is doing stays true.
LEMMA SignalDoing ==
  ASSUME NvifInv, FenceInv, NEW k \in 0 .. Len(pendq), SignalFirst(k),
         UNCHANGED <<fctx, issued, killed>>,
         NEW r, r \in Thr, Doing(r), r.pc \notin {"check", "signal"}
  PROVE  Doing(r)'
<1>. DEFINE S == {pendq[i] : i \in 1 .. k}
<1>1. /\ S \subseteq Range(pendq)
      /\ \A s \in Seqs :
           /\ fence'[s].pub = fence[s].pub
           /\ s \notin S => fence'[s] = fence[s]
  BY Signals
<1>. HIDE DEF S
<1>2. \A s \in Seqs : ~fence[s].pub => fence'[s] = fence[s]
  BY <1>1, FenceFacts DEF FenceInv, Fences
<1>. QED  BY <1>1, <1>2 DEF Doing
\* A thread calls NVIF, or has nothing to call it for.
LEMMA CallStarts ==
  ASSUME NvifInv, FenceInv, NEW t \in Threads, NEW d \in BOOLEAN, call[t].pc = "idle",
         NvifPut(t, ntfy, d) \/ (~d /\ NvifGet(t, ntfy)) \/ UNCHANGED allVars
  PROVE  /\ call'[t].pc # "idle" => call'[t].n = ntfy /\ call'[t].dtor = d
         /\ \A u \in Threads : u # t => call'[u] = call[u]
         /\ UNCHANGED <<object, putcnt, live, send>>
<1>1. CASE NvifPut(t, ntfy, d)
  <2>. DEFINE next == IF object[ntfy] /\ nflag[ntfy] THEN "inc"
                      ELSE IF object[ntfy] /\ d THEN "delIoctl" ELSE "idle"
              r == IF next = "idle" THEN CallIdle ELSE [pc |-> next, n |-> ntfy, dtor |-> d]
  <2>1. call' = [call EXCEPT ![t] = r] /\ UNCHANGED <<object, putcnt, live, send>>
    BY <1>1 DEF NvifPut, vars
  <2>2. r.pc # "idle" => r.n = ntfy /\ r.dtor = d
    BY FenceFacts
  <2>. HIDE DEF r
  <2>3. t \in Users /\ DOMAIN call = Users
    BY FenceFacts, NvifFacts
  <2>. QED  BY <2>1, <2>2, <2>3
<1>2. CASE NvifGet(t, ntfy) /\ ~d
  <2>1. t \in Users /\ DOMAIN call = Users
    BY FenceFacts, NvifFacts
  <2>2. UNCHANGED <<object, putcnt, live, send>>
    BY <1>2 DEF NvifGet, vars
  <2>3. CASE UNCHANGED call
    BY <2>2, <2>3
  <2>4. CASE call' = [call EXCEPT ![t] = [pc |-> "dec", n |-> ntfy, dtor |-> FALSE]]
    <3>. DEFINE r == [pc |-> "dec", n |-> ntfy, dtor |-> FALSE]
    <3>1. call' = [call EXCEPT ![t] = r] /\ r.n = ntfy /\ r.dtor = d
      BY <1>2, <2>4
    <3>. HIDE DEF r
    <3>. QED  BY <2>1, <2>2, <3>1
  <2>. QED  BY <1>2, <2>3, <2>4 DEF NvifGet
<1>3. CASE UNCHANGED allVars
  BY <1>3 DEF allVars, vars, nvifVars
<1>. QED  BY <1>1, <1>2, <1>3

\* A put under fctx->lock: by EmitUpdate, PollUpdate, KillAll and DelKill.
LEMMA SignalSteps ==
  ASSUME NvifInv, FenceInv, NEW t \in Threads, NEW k \in 0 .. Len(pendq),
         NEW op \in {"emit", "poll", "kill", "del"}, NEW pc \in {"add", "unlock"},
         op = "emit" <=> pc = "add", op = "del" => k = Len(pendq),
         Lock(t, op, pc), SignalAndPut(t, k),
         UNCHANGED <<fctx, issued, gpuVars, killed>>
  PROVE  FenceInv'
<1>1. /\ thr[t].op = op /\ thr[t].pc = "lock" /\ lock = None /\ lock' = t
      /\ thr' = [thr EXCEPT ![t].pc = pc]
      /\ SignalFirst(k) /\ (NvifPut(t, ntfy, FALSE) \/ UNCHANGED allVars)
      /\ ~Drops(k) => UNCHANGED allVars
      /\ UNCHANGED <<fctx, issued, gpuOps, gpuSeq, latch, irq, killed>>
  BY DEF Lock, SignalAndPut, gpuVars
<1>2. PICK r : r = [thr[t] EXCEPT !.pc = pc]
  OBVIOUS
<1>3. r \in Thr /\ r.pc = pc /\ r.op = op /\ r.f = thr[t].f /\ Moves(t, r)
  <2>1. pc \in {"lock", "add", "unlock", "check", "sleep", "signal", "dtor", "free"}
    OBVIOUS
  <2>2. r \in Thr /\ r.pc = pc /\ r.op = thr[t].op /\ r.f = thr[t].f
    BY <1>2, <2>1, ThreadRecs, Zenon
  <2>. QED  BY <1>1, <1>2, <2>1, <2>2, ThreadRecs
<1>4. LockMoves(t, r)
  BY <1>1, <1>3 DEF LockMoves, Held
<1>5. /\ thr' \in [Threads -> Thr] /\ thr'[t] = r
      /\ \A u \in Threads : u # t => thr'[u] = thr[u]
      /\ Locking' /\ lock' \in Threads \cup {None}
      /\ UNCHANGED Checking
  <2>1. "check" \notin {r.pc, thr[t].pc}
    BY <1>1, <1>3
  <2>. QED  BY <1>3, <1>4, <2>1, MoveKeeps
<1>6. \A u \in Threads : thr[u].pc \notin Held /\ thr'[u].pc # "signal"
  BY <1>1, <1>3, <1>5, FenceFacts DEF FenceInv, Locking, Held
<1>7. /\ fence' \in [Seqs -> Fence] /\ pendq' \in Seq(Seqs) /\ notifyRef' \in Nat
      /\ Fences' /\ RefCount'
      /\ pendq = <<>> => pendq' = <<>>
      /\ k = Len(pendq) => pendq' = <<>> /\ \A s \in Seqs : fence'[s].pub => fence'[s].signaled
      /\ \A s \in Seqs : (fence[s].pub => fence[s].signaled) => (fence'[s].pub => fence'[s].signaled)
  BY <1>1, <1>5, <1>6, SignalledParts
<1>8. Workers'
  <2>1. thr[t] \in Thr /\ At(thr[t]) /\ Doing(thr[t])
    BY ThreadRecs
  <2>2. At(r)
    BY <1>3, <2>1 DEF At
  <2>3. Doing(r)
    BY <1>1, <1>3, <2>1 DEF Doing
  <2>4. Doing(r)'
    BY <1>1, <1>3, <2>3, SignalDoing
  <2>5. ASSUME NEW u \in Threads, u # t, Doing(thr[u]) PROVE Doing(thr[u])'
    <3>1. PICK x : x = thr[u]
      OBVIOUS
    <3>2. x \in Thr /\ Doing(x) /\ x.pc \notin {"check", "signal"} /\ thr'[u] = x
      BY <1>5, <1>6, <2>5, <3>1, ThreadRecs DEF Held
    <3>3. Doing(x)'
      BY <1>1, <3>2, SignalDoing
    <3>. QED  BY <3>2, <3>3 DEF Doing
  <2>6. fctx # "none"
    BY <1>1, Made
  <2>. QED  BY <1>1, <1>3, <2>2, <2>4, <2>5, <2>6, WorkersMove
<1>9. /\ call[t].pc = "idle" /\ UNCHANGED <<object, putcnt>>
      /\ call'[t].pc # "idle" => call'[t].n = ntfy /\ ~call'[t].dtor
      /\ \A u \in Threads : u # t => call'[u] = call[u]
  <2>1. call[t].pc = "idle"
    BY <1>1, FenceFacts DEF Held
  <2>. QED  BY <1>1, <2>1, CallStarts
<1>10. FenceCalls'
  <2>1. \A u \in Threads : u # t /\ call[u].pc # "idle" =>
          call[u].n = ntfy /\ call[u].dtor /\ thr[u].op = "del" /\ thr[u].pc = "free"
    BY <1>1, FenceFacts DEF FenceInv, FenceCalls
  <2>2. \A n \in Notifies \ {ntfy} : ~object'[n] /\ putcnt'[n] = 1
    BY <1>9 DEF FenceInv, FenceCalls
  <2>. QED  BY <1>1, <1>5, <1>9, <2>1, <2>2 DEF FenceCalls
<1>11. \A u \in Threads : u # t /\ call[u].pc # "idle" => thr[u].op = "del"
  BY <1>1, FenceFacts DEF FenceInv, FenceCalls
<1>12. Buried'
  <2>. SUFFICES ASSUME Dead' PROVE Buried'
    BY DEF Buried
  <2>1. CASE op = "del"
    <3>1. fctx = "dying"
      BY <1>1, <2>1, ThreadRecs, ZenonT(30) DEF Doing
    <3>. QED  BY <1>1, <1>3, <1>5, <1>7, <1>9, <1>11, <2>1, <3>1 DEF Buried
  <2>2. CASE op # "del"
    <3>1. Dead
      BY <1>1, <1>3, <1>5, <2>2 DEF Dead
    <3>2. pendq = <<>> /\ k = 0
      BY <3>1, FenceFacts DEF FenceInv, Buried
    <3>3. UNCHANGED allVars
      BY <1>1, <3>2 DEF Drops
    <3>4. call' = call
      BY <3>3 DEF allVars, nvifVars
    <3>. QED  BY <1>1, <1>3, <1>5, <1>7, <1>9, <3>1, <3>4 DEF FenceInv, Buried
  <2>. QED  BY <2>1, <2>2
<1>13. Ops' /\ Executed'
  BY <1>1, FenceKept
<1>14. Signalling'
  BY <1>6 DEF Signalling
<1>15. FenceData'
  BY <1>1, <1>5, <1>7 DEF FenceInv, FenceData
<1>. QED  BY <1>5, <1>7, <1>8, <1>10, <1>12, <1>13, <1>14, <1>15 DEF FenceInv

\* The handler of the interrupt.
LEMMA HandlerKeeps == ASSUME NvifInv, FenceInv, Handler PROVE FenceInv'
<1>1. PICK k : k = Cardinality(Ripe)
  OBVIOUS
<1>2. /\ lock = None /\ SignalFirst(k) /\ k \in 0 .. Len(pendq)
      /\ UNCHANGED <<fctx, issued, lock, thr, gpuOps, gpuSeq, latch, irq, killed>>
      /\ UNCHANGED <<call, object, putcnt>>
  BY <1>1, RipeFirst DEF Handler, gpuVars, CbFunc
<1>3. \A u \in Threads : thr[u].pc \notin Held /\ thr'[u].pc # "signal"
  BY <1>2, FenceFacts DEF FenceInv, Locking, Held
<1>4. UNCHANGED Checking
  BY <1>2 DEF Checking
<1>5. /\ fence' \in [Seqs -> Fence] /\ pendq' \in Seq(Seqs) /\ notifyRef' \in Nat
      /\ Fences' /\ RefCount'
      /\ pendq = <<>> => pendq' = <<>>
      /\ \A s \in Seqs : (fence[s].pub => fence[s].signaled) => (fence'[s].pub => fence'[s].signaled)
  BY <1>2, <1>3, <1>4, SignalledParts
<1>6. Workers'
  <2>1. ASSUME NEW u \in Threads PROVE At(thr[u])' /\ Doing(thr[u])'
    <3>1. PICK x : x = thr[u]
      OBVIOUS
    <3>2. x \in Thr /\ At(x) /\ Doing(x) /\ x.pc \notin {"check", "signal"} /\ thr'[u] = x
      BY <1>2, <1>3, <3>1, ThreadRecs DEF Held
    <3>3. Doing(x)'
      BY <1>2, <3>2, SignalDoing
    <3>. QED  BY <3>2, <3>3 DEF Doing, At
  <2>. QED  BY <1>2, <2>1 DEF FenceInv, Workers
<1>7. Buried'
  BY <1>2, <1>5 DEF FenceInv, Buried, Dead
<1>8. Locking' /\ FenceCalls' /\ Ops' /\ Executed' /\ Signalling'
  BY <1>2, FenceKept
<1>9. FenceData'
  BY <1>2, <1>5 DEF FenceInv, FenceData
<1>. QED  BY <1>5, <1>6, <1>7, <1>8, <1>9 DEF FenceInv
-----------------------------------------------------------------------------
(* The steps that make the context and emit a fence.                       *)

\* One field of one fence.
LEMMA Marks ==
  ASSUME NvifInv, FenceInv, NEW f \in Seqs,
         \/ fence' = [fence EXCEPT ![f].pub = TRUE]
         \/ fence' = [fence EXCEPT ![f].channel = TRUE]
         \/ fence' = [fence EXCEPT ![f].signaled = TRUE]
         \/ fence' = [fence EXCEPT ![f].enabled = TRUE]
         \/ fence' = [fence EXCEPT ![f].user = TRUE]
  PROVE  /\ fence' \in [Seqs -> Fence]
         /\ \A s \in Seqs : s # f => fence'[s] = fence[s]
         /\ \A s \in Seqs :
              /\ fence[s].pub => fence'[s].pub
              /\ fence[s].channel => fence'[s].channel
              /\ fence[s].signaled => fence'[s].signaled
              /\ fence[s].enabled => fence'[s].enabled
              /\ fence[s].user => fence'[s].user
         /\ fence' = [fence EXCEPT ![f].pub = TRUE] => fence'[f] = [fence[f] EXCEPT !.pub = TRUE]
         /\ fence' = [fence EXCEPT ![f].channel = TRUE] => fence'[f] = [fence[f] EXCEPT !.channel = TRUE]
         /\ fence' = [fence EXCEPT ![f].signaled = TRUE] => fence'[f] = [fence[f] EXCEPT !.signaled = TRUE]
         /\ fence' = [fence EXCEPT ![f].enabled = TRUE] => fence'[f] = [fence[f] EXCEPT !.enabled = TRUE]
         /\ fence' = [fence EXCEPT ![f].user = TRUE] => fence'[f] = [fence[f] EXCEPT !.user = TRUE]
         /\ fence[f] \in Fence
<1>1. fence \in [Seqs -> Fence] /\ fence[f] \in Fence
  BY DEF FenceInv, FenceData
<1>2. ASSUME NEW x \in Fence, fence' = [fence EXCEPT ![f] = x]
      PROVE  /\ fence' \in [Seqs -> Fence]
             /\ \A s \in Seqs : s # f => fence'[s] = fence[s]
             /\ fence'[f] = x
  BY <1>1, <1>2
<1>3. /\ [fence[f] EXCEPT !.pub = TRUE] \in Fence
      /\ [fence[f] EXCEPT !.channel = TRUE] \in Fence
      /\ [fence[f] EXCEPT !.signaled = TRUE] \in Fence
      /\ [fence[f] EXCEPT !.enabled = TRUE] \in Fence
      /\ [fence[f] EXCEPT !.user = TRUE] \in Fence
  BY <1>1 DEF Fence
<1>4. fence' = [fence EXCEPT ![f].pub = TRUE] => fence'[f] = [fence[f] EXCEPT !.pub = TRUE]
  BY <1>1
<1>5. fence' = [fence EXCEPT ![f].channel = TRUE] => fence'[f] = [fence[f] EXCEPT !.channel = TRUE]
  BY <1>1
<1>6. fence' = [fence EXCEPT ![f].signaled = TRUE] => fence'[f] = [fence[f] EXCEPT !.signaled = TRUE]
  BY <1>1
<1>7. fence' = [fence EXCEPT ![f].enabled = TRUE] => fence'[f] = [fence[f] EXCEPT !.enabled = TRUE]
  BY <1>1
<1>8. fence' = [fence EXCEPT ![f].user = TRUE] => fence'[f] = [fence[f] EXCEPT !.user = TRUE]
  BY <1>1
<1>9. fence' \in [Seqs -> Fence] /\ \A s \in Seqs : s # f => fence'[s] = fence[s]
  BY <1>2, <1>3
<1>10. /\ fence[f].pub => fence'[f].pub
       /\ fence[f].channel => fence'[f].channel
       /\ fence[f].signaled => fence'[f].signaled
       /\ fence[f].enabled => fence'[f].enabled
       /\ fence[f].user => fence'[f].user
  BY <1>1, <1>4, <1>5, <1>6, <1>7, <1>8 DEF Fence
<1>. QED  BY <1>1, <1>4, <1>5, <1>6, <1>7, <1>8, <1>9, <1>10

\* What the queue of the channel contains.
LEMMA OpsFacts ==
  ASSUME NvifInv, FenceInv
  PROVE  /\ gpuOps \in Seq(0 .. MaxSeq) /\ issued \in 0 .. MaxSeq /\ MaxSeq \in Nat
         /\ Left \subseteq 1 .. issued
         /\ \A t \in Threads : thr[t].pc = "signal" => thr[t].f \in 1 .. issued
<1>1. gpuOps \in Seq(0 .. MaxSeq) /\ issued \in 0 .. MaxSeq /\ MaxSeq \in Nat
  BY FenceFacts DEF FenceInv, FenceData
<1>2. Left \subseteq 1 .. issued
  <2>. SUFFICES ASSUME NEW s \in Left PROVE s \in 1 .. issued
    OBVIOUS
  <2>1. PICK i \in DOMAIN gpuOps : s = gpuOps[i] /\ s # 0
    BY DEF Left
  <2>2. gpuOps[i] <= issued /\ gpuOps[i] \in 0 .. MaxSeq
    BY <1>1 DEF FenceInv, Ops
  <2>. QED  BY <1>1, <2>1, <2>2
<1>3. ASSUME NEW t \in Threads, thr[t].pc = "signal" PROVE thr[t].f \in 1 .. issued
  <2>1. thr[t].op = "wait"
    BY <1>3, ThreadRecs, FenceFacts DEF At, Thr
  <2>2. thr[t].f \in Seqs /\ fence[thr[t].f].pub
    BY <2>1, ThreadRecs DEF Doing
  <2>3. thr[t].f <= issued
    BY <2>2 DEF FenceInv, Fences
  <2>. QED  BY <1>1, <2>2, <2>3 DEF Seqs
<1>. QED  BY <1>1, <1>2, <1>3

LEMMA ContextKeeps ==
  ASSUME NvifInv, FenceInv, NEW t \in Threads, ContextNew(t) PROVE FenceInv'
<1>1. /\ fctx = "none" /\ fctx' = "live"
      /\ UNCHANGED <<issued, fence, pendq, notifyRef, lock, thr, gpuOps, gpuSeq, latch, irq, killed>>
      /\ UNCHANGED call
      /\ object' = [object EXCEPT ![ntfy] = TRUE] /\ putcnt' = [putcnt EXCEPT ![ntfy] = 1]
  BY DEF ContextNew, NvifCtor, gpuVars
<1>2. \A u \in Threads : thr[u] = ThrIdle /\ thr[u].op = "none"
  BY <1>1, FenceFacts DEF FenceInv, Workers
<1>3. Workers'
  <2>1. ASSUME NEW u \in Threads PROVE At(thr[u])' /\ Doing(thr[u])'
    BY <1>1, <1>2, ThreadRecs DEF At, Doing, ThrIdle
  <2>. QED  BY <1>1, <1>2, <2>1 DEF Workers
<1>4. Buried'
  BY <1>1, <1>2 DEF Buried, Dead
<1>5. FenceCalls'
  <2>1. \A n \in Notifies \ {ntfy} : object'[n] = object[n] /\ putcnt'[n] = putcnt[n]
    BY <1>1, NvifFacts
  <2>2. \A n \in Notifies \ {ntfy} : ~object'[n] /\ putcnt'[n] = 1
    BY <2>1 DEF FenceInv, FenceCalls
  <2>. QED  BY <1>1, <2>2 DEF FenceInv, FenceCalls
<1>6. Locking' /\ Fences' /\ RefCount' /\ Ops'
  BY <1>1, FenceKept
<1>7. Executed' /\ Signalling'
  BY <1>1, <1>2, FenceFacts DEF FenceInv, Executed, Signalling, Stopped, Left
<1>8. FenceData'
  BY <1>1 DEF FenceInv, FenceData
<1>. QED  BY <1>3, <1>4, <1>5, <1>6, <1>7, <1>8 DEF FenceInv

\* The number is taken; what has been emitted so far stays as it was.
LEMMA Issues ==
  ASSUME NvifInv, FenceInv, fctx = "live", ~Running("emit"), issued' = issued + 1,
         UNCHANGED <<fctx, killed, gpuSeq, pendq>>, issued < MaxSeq,
         Left' = Left \/ Left' = Left \cup {issued + 1},
         \A u \in Threads : thr'[u].pc = "signal" => thr'[u] = thr[u]
  PROVE  Executed' /\ Signalling' /\ issued' \in 0 .. MaxSeq
         /\ issued' \in Seqs /\ ~fence[issued'].pub
<1>1. issued \in 0 .. MaxSeq /\ MaxSeq \in Nat /\ Left \subseteq 1 .. issued
  BY OpsFacts
<1>5. \A s \in Left' : s \in Left \/ s = issued + 1
  OBVIOUS
<1>2. Executed'
  <2>1. CASE Stopped
    BY <2>1 DEF Executed, Stopped
  <2>2. CASE ~Stopped
    <3>1. PICK g \in 0 .. issued : gpuSeq = Seqno(g) /\ \A s \in Left : g < s
      BY <2>2 DEF FenceInv, Executed
    <3>2. g \in 0 .. issued' /\ \A s \in Left' : g < s
      <4>1. g \in Nat /\ g < issued + 1 /\ g \in 0 .. issued'
        BY <1>1
      <4>. QED  BY <1>5, <3>1, <4>1
    <3>3. gpuSeq' = Seqno(g)
      BY <3>1
    <3>4. Seqno(g)' = Seqno(g)
      BY DEF Seqno
    <3>. QED  BY <3>2, <3>3, <3>4 DEF Executed
  <2>. QED  BY <2>1, <2>2
<1>3. Signalling'
  <2>. SUFFICES ASSUME NEW u \in Threads, thr'[u].pc = "signal", ~Stopped'
                PROVE  \A s \in Left' : thr'[u].f < s
    BY DEF Signalling
  <2>1. thr'[u] = thr[u] /\ ~Stopped
    BY DEF Stopped
  <2>2. thr[u].f \in 1 .. issued /\ \A s \in Left : thr[u].f < s
    BY <2>1, OpsFacts DEF FenceInv, Signalling
  <2>3. thr[u].f < issued + 1
    BY <1>1, <2>2
  <2>. QED  BY <1>5, <2>1, <2>2, <2>3
<1>4. ~fence[issued'].pub
  BY <1>1 DEF FenceInv, Fences, Seqs
<1>. QED  BY <1>1, <1>2, <1>3, <1>4 DEF Seqs

\* What is left with the release of the next fence, and its interrupt, behind it.
LEMMA Pushes ==
  ASSUME NvifInv, FenceInv, issued < MaxSeq, issued' = issued + 1,
         gpuOps' = gpuOps \o <<issued + 1, 0>>
  PROVE  gpuOps' \in Seq(0 .. MaxSeq) /\ Ops' /\ Left' = Left \cup {issued + 1}
<1>1. issued \in 0 .. MaxSeq /\ MaxSeq \in Nat /\ issued + 1 \in Seqs /\ gpuOps \in Seq(0 .. MaxSeq)
  BY OpsFacts DEF Seqs
<1>2. /\ Len(gpuOps) \in Nat /\ DOMAIN gpuOps = 1 .. Len(gpuOps)
      /\ gpuOps' \in Seq(0 .. MaxSeq) /\ Len(gpuOps') = Len(gpuOps) + 2
      /\ DOMAIN gpuOps' = 1 .. Len(gpuOps) + 2
      /\ \A i \in 1 .. Len(gpuOps) : gpuOps'[i] = gpuOps[i]
      /\ gpuOps'[Len(gpuOps) + 1] = issued + 1 /\ gpuOps'[Len(gpuOps) + 2] = 0
  BY <1>1 DEF Seqs
<1>3. \A i \in DOMAIN gpuOps : gpuOps[i] \in 0 .. issued
  BY <1>1, <1>2 DEF FenceInv, Ops
<1>4. Ops'
  <2>1. \A i \in DOMAIN gpuOps' : gpuOps'[i] <= issued'
    BY <1>1, <1>2, <1>3
  <2>2. ASSUME NEW i \in DOMAIN gpuOps', NEW j \in DOMAIN gpuOps', i < j, gpuOps'[i] # 0, gpuOps'[j] # 0
        PROVE  gpuOps'[i] < gpuOps'[j]
    <3>1. CASE j \in DOMAIN gpuOps
      BY <1>2, <2>2, <3>1 DEF FenceInv, Ops
    <3>2. CASE j = Len(gpuOps) + 1
      BY <1>1, <1>2, <1>3, <2>2, <3>2
    <3>3. j \in DOMAIN gpuOps \/ j = Len(gpuOps) + 1 \/ j = Len(gpuOps) + 2
      BY <1>2
    <3>. QED  BY <1>2, <2>2, <3>1, <3>2, <3>3
  <2>3. ASSUME NEW i \in DOMAIN gpuOps', i + 1 \in DOMAIN gpuOps'
        PROVE  gpuOps'[i] # 0 \/ gpuOps'[i + 1] # 0
    <3>1. CASE i + 1 \in DOMAIN gpuOps
      <4>1. i \in DOMAIN gpuOps /\ gpuOps'[i] = gpuOps[i] /\ gpuOps'[i + 1] = gpuOps[i + 1]
        BY <1>2, <3>1
      <4>. QED  BY <3>1, <4>1 DEF FenceInv, Ops
    <3>2. CASE i + 1 \notin DOMAIN gpuOps
      <4>1. i = Len(gpuOps) \/ i = Len(gpuOps) + 1
        BY <1>2, <2>3, <3>2
      <4>. QED  BY <1>1, <1>2, <4>1
    <3>. QED  BY <3>1, <3>2
  <2>. QED  BY <2>1, <2>2, <2>3 DEF Ops
<1>5. Left' = Left \cup {issued + 1}
  <2>1. ASSUME NEW s \in Left' PROVE s \in Left \/ s = issued + 1
    <3>1. PICK i \in DOMAIN gpuOps' : s = gpuOps'[i] /\ s # 0
      BY DEF Left
    <3>. QED  BY <1>2, <3>1 DEF Left
  <2>2. ASSUME NEW s \in Left \cup {issued + 1} PROVE s \in Left'
    <3>1. CASE s \in Left
      <4>1. PICK i \in DOMAIN gpuOps : s = gpuOps[i] /\ s # 0
        BY <3>1 DEF Left
      <4>. QED  BY <1>2, <4>1 DEF Left
    <3>2. CASE s = issued + 1
      <4>1. Len(gpuOps) + 1 \in DOMAIN gpuOps' /\ issued + 1 # 0
        BY <1>1, <1>2
      <4>. QED  BY <1>2, <3>2, <4>1 DEF Left
    <3>. QED  BY <2>2, <3>1, <3>2
  <2>. QED  BY <2>1, <2>2
<1>. QED  BY <1>2, <1>4, <1>5

LEMMA EmitPushKeeps ==
  ASSUME NvifInv, FenceInv, NEW t \in Threads, EmitPush(t) PROVE FenceInv'
<1>1. /\ fctx = "live" /\ ~Running("emit") /\ issued < MaxSeq /\ issued' = issued + 1
      /\ thr[t] = ThrIdle
      /\ thr' = [thr EXCEPT ![t] = [op |-> "emit", pc |-> "lock", f |-> issued + 1]]
      /\ fence' = [fence EXCEPT ![issued + 1].channel = TRUE]
      /\ gpuOps' = gpuOps \o <<issued + 1, 0>>
      /\ UNCHANGED <<fctx, pendq, notifyRef, lock, gpuSeq, latch, irq, killed>>
      /\ UNCHANGED <<call, object, putcnt>>
  BY DEF EmitPush, Begin, allVars, nvifVars
<1>2. issued \in 0 .. MaxSeq /\ MaxSeq \in Nat /\ issued + 1 \in Seqs /\ gpuOps \in Seq(0 .. MaxSeq)
  BY <1>1, OpsFacts DEF Seqs
<1>3. PICK r : r = [op |-> "emit", pc |-> "lock", f |-> issued + 1]
  OBVIOUS
<1>4. r \in Thr /\ r.op = "emit" /\ r.pc = "lock" /\ r.f = issued + 1 /\ Moves(t, r)
  BY <1>1, <1>2, <1>3 DEF Thr, Moves, Seqs
<1>5. LockMoves(t, r) /\ thr[t].pc = "idle" /\ call[t].pc = "idle" /\ thr[t].op = "none"
  <2>1. thr[t].pc = "idle" /\ thr[t].op = "none"
    BY <1>1, FenceFacts
  <2>2. call[t].pc = "idle" /\ lock # t
    BY <2>1, FenceFacts DEF FenceInv, Locking, Held
  <2>. QED  BY <1>1, <1>4, <2>1, <2>2 DEF LockMoves, Held
<1>6. /\ thr' \in [Threads -> Thr] /\ thr'[t] = r
      /\ \A u \in Threads : u # t => thr'[u] = thr[u]
      /\ Locking' /\ lock' \in Threads \cup {None} /\ FenceCalls'
      /\ UNCHANGED Checking
  <2>1. "check" \notin {r.pc, thr[t].pc}
    BY <1>4, <1>5
  <2>. QED  BY <1>1, <1>4, <1>5, <2>1, MoveKeeps
<1>7. /\ fence' \in [Seqs -> Fence] /\ fence'[issued + 1] = [fence[issued + 1] EXCEPT !.channel = TRUE]
      /\ \A s \in Seqs : s # issued + 1 => fence'[s] = fence[s]
      /\ fence[issued + 1] \in Fence
  BY <1>1, <1>2, Marks
<1>8. \A s \in Seqs : /\ fence'[s].pub = fence[s].pub /\ fence'[s].signaled = fence[s].signaled
                      /\ fence'[s].enabled = fence[s].enabled /\ fence'[s].user = fence[s].user
                      /\ fence[s].channel => fence'[s].channel
  <2>1. /\ fence'[issued + 1].pub = fence[issued + 1].pub
        /\ fence'[issued + 1].signaled = fence[issued + 1].signaled
        /\ fence'[issued + 1].enabled = fence[issued + 1].enabled
        /\ fence'[issued + 1].user = fence[issued + 1].user
        /\ fence'[issued + 1].channel
    BY <1>7 DEF Fence
  <2>. QED  BY <1>7, <2>1
<1>9. gpuOps' \in Seq(0 .. MaxSeq) /\ Ops' /\ Left' = Left \cup {issued + 1}
  BY <1>1, Pushes
<1>10. \A u \in Threads : thr'[u].pc = "signal" => thr'[u] = thr[u]
  BY <1>4, <1>6
<1>11. Executed' /\ Signalling' /\ issued' \in 0 .. MaxSeq /\ ~fence[issued + 1].pub
  BY <1>1, <1>9, <1>10, Issues
<1>12. Workers'
  <2>1. At(r)
    BY <1>4 DEF At
  <2>2. Doing(r)'
    BY <1>1, <1>2, <1>4, <1>7, <1>11 DEF Doing, Fence
  <2>3. ASSUME NEW u \in Threads, u # t, Doing(thr[u]) PROVE Doing(thr[u])'
    <3>1. thr'[u] = thr[u] /\ thr[u].op # "emit" /\ At(thr[u]) /\ thr[u] \in Thr
      BY <1>1, <1>6, <2>3, ThreadRecs DEF Running
    <3>2. thr[u].pc \in {"check", "signal"} => thr[u].f \in Seqs
      BY <2>3, <3>1, FenceFacts DEF At, Doing, Thr
    <3>. QED  BY <1>1, <1>8, <2>3, <3>1, <3>2 DEF Doing
  <2>4. fctx' # "none" /\ \A u \in Threads : u # t => thr[u].op # r.op
    BY <1>1, <1>4 DEF Running
  <2>. QED  BY <1>4, <2>1, <2>2, <2>3, <2>4, WorkersMove
<1>13. Fences'
  <2>1. Range(pendq) \subseteq Seqs /\ \A u \in Threads : thr'[u].pc = "signal" <=> thr[u].pc = "signal"
    BY <1>4, <1>5, <1>6, FenceFacts
  <2>2. \A i, j \in DOMAIN pendq' : i < j => pendq'[i] < pendq'[j]
    BY <1>1 DEF FenceInv, Fences
  <2>3. \A s \in Range(pendq') : fence'[s].pub /\ fence'[s].channel
    BY <1>1, <1>8, <2>1 DEF FenceInv, Fences
  <2>4. \A s \in Seqs : /\ fence'[s].pub => s <= issued'
                        /\ ~fence'[s].pub => ~fence'[s].signaled /\ ~fence'[s].enabled
                        /\ fence'[s].user => fence'[s].enabled
    BY <1>1, <1>2, <1>8 DEF FenceInv, Fences, Seqs
  <2>5. ASSUME NEW s \in Seqs, fence'[s].pub, ~fence'[s].signaled
        PROVE  s \in Range(pendq') \/ \E u \in Threads : thr'[u].pc = "signal" /\ thr'[u].f = s
    <3>1. s \in Range(pendq) \/ \E u \in Threads : thr[u].pc = "signal" /\ thr[u].f = s
      BY <1>8, <2>5 DEF FenceInv, Fences
    <3>. QED  BY <1>1, <1>10, <2>1, <3>1
  <2>. QED  BY <2>2, <2>3, <2>4, <2>5 DEF Fences
<1>14. RefCount'
  <2>1. UsersOf(Range(pendq))' = UsersOf(Range(pendq))
    BY <1>1, <1>8, FenceFacts DEF UsersOf
  <2>. QED  BY <1>1, <1>6, <2>1 DEF FenceInv, RefCount
<1>15. Buried'
  <2>1. ~Dead
    BY <1>1 DEF FenceInv, Buried
  <2>. QED  BY <1>1, <1>4, <1>6, <2>1 DEF Buried, Dead
<1>16. FenceData'
  BY <1>1, <1>6, <1>7, <1>9, <1>11 DEF FenceInv, FenceData
<1>. QED  BY <1>6, <1>9, <1>11, <1>12, <1>13, <1>14, <1>15, <1>16 DEF FenceInv

LEMMA EmitFailKeeps ==
  ASSUME NvifInv, FenceInv, NEW t \in Threads, EmitFail(t) PROVE FenceInv'
<1>1. /\ fctx = "live" /\ ~Running("emit") /\ issued < MaxSeq /\ issued' = issued + 1
      /\ UNCHANGED <<fctx, fence, pendq, notifyRef, lock, thr, gpuOps, gpuSeq, latch, irq, killed>>
      /\ UNCHANGED <<call, object, putcnt>>
  BY DEF EmitFail, allVars, nvifVars, gpuVars
<1>2. Left' = Left
  BY <1>1 DEF Left
<1>3. Executed' /\ Signalling' /\ issued' \in 0 .. MaxSeq
  BY <1>1, <1>2, Issues
<1>4. issued \in Nat /\ issued' \in Nat /\ issued <= issued'
  BY <1>1, OpsFacts
<1>5. Workers'
  <2>1. ASSUME NEW u \in Threads PROVE At(thr[u])' /\ Doing(thr[u])'
    BY <1>1, ThreadRecs DEF At, Doing, Running
  <2>. QED  BY <1>1, <2>1 DEF FenceInv, Workers
<1>6. Fences'
  <2>1. \A s \in Seqs : fence[s].pub => s <= issued'
    BY <1>4 DEF FenceInv, Fences, Seqs
  <2>. QED  BY <1>1, <2>1 DEF FenceInv, Fences
<1>7. Ops'
  <2>1. \A i \in DOMAIN gpuOps : gpuOps[i] <= issued'
    BY <1>4, OpsFacts DEF FenceInv, Ops
  <2>. QED  BY <1>1, <2>1 DEF FenceInv, Ops
<1>8. Locking' /\ Buried' /\ FenceCalls' /\ RefCount'
  BY <1>1, FenceKept
<1>9. FenceData'
  BY <1>1, <1>3 DEF FenceInv, FenceData
<1>. QED  BY <1>3, <1>5, <1>6, <1>7, <1>8, <1>9 DEF FenceInv

LEMMA EmitAddKeeps ==
  ASSUME NvifInv, FenceInv, NEW t \in Threads, EmitAdd(t) PROVE FenceInv'
<1>. DEFINE f == thr[t].f
<1>1. /\ thr[t].op = "emit" /\ thr[t].pc = "add" /\ call[t].pc = "idle"
      /\ pendq' = Append(pendq, f) /\ fence' = [fence EXCEPT ![f].pub = TRUE]
      /\ lock' = None /\ thr' = [thr EXCEPT ![t] = ThrIdle]
      /\ UNCHANGED <<fctx, issued, notifyRef, gpuOps, gpuSeq, latch, irq, killed>>
      /\ UNCHANGED <<call, object, putcnt>>
  BY DEF EmitAdd, Returned, Unlock, allVars, nvifVars, gpuVars
<1>2. /\ fctx = "live" /\ f = issued /\ f \in Seqs /\ fence[f].channel /\ ~fence[f].pub
  BY <1>1, ThreadRecs DEF Doing
<1>. HIDE DEF f
<1>3. Moves(t, ThrIdle) /\ At(ThrIdle) /\ Doing(ThrIdle)' /\ ThrIdle.pc \notin Held
      /\ ThrIdle.pc = "idle" /\ ThrIdle.op = "none"
  BY <1>1, IdleMove, FenceFacts
<1>4. lock = t /\ \A u \in Threads : u # t => thr[u].pc \notin Held
  BY <1>1, FenceFacts DEF FenceInv, Locking, Held
<1>5. LockMoves(t, ThrIdle)
  BY <1>1, <1>3, <1>4, FenceFacts DEF LockMoves
<1>6. /\ thr' \in [Threads -> Thr] /\ thr'[t] = ThrIdle
      /\ \A u \in Threads : u # t => thr'[u] = thr[u]
      /\ Locking' /\ lock' \in Threads \cup {None} /\ FenceCalls'
      /\ UNCHANGED Checking
      /\ UNCHANGED <<killed, fctx, gpuOps>> => Signalling'
  <2>1. "check" \notin {ThrIdle.pc, thr[t].pc} /\ ThrIdle.pc # "signal"
    BY <1>1, <1>3
  <2>2. UNCHANGED <<call, object, putcnt>> /\ call[t].pc = "idle"
    BY <1>1
  <2>. QED  BY <1>3, <1>5, <2>1, <2>2, MoveKeeps
<1>7. /\ fence' \in [Seqs -> Fence] /\ fence'[f] = [fence[f] EXCEPT !.pub = TRUE]
      /\ \A s \in Seqs : s # f => fence'[s] = fence[s]
      /\ fence[f] \in Fence
  BY <1>1, <1>2, Marks
<1>8. /\ fence'[f].pub /\ fence'[f].channel /\ ~fence'[f].signaled
      /\ ~fence'[f].enabled /\ ~fence'[f].user /\ ~fence[f].user
  BY <1>2, <1>7 DEF Fence, FenceInv, Fences
<1>9. /\ pendq \in Seq(Seqs) /\ Len(pendq) \in Nat /\ DOMAIN pendq = 1 .. Len(pendq)
      /\ pendq' \in Seq(Seqs) /\ Len(pendq') = Len(pendq) + 1
      /\ DOMAIN pendq' = 1 .. Len(pendq) + 1
      /\ \A i \in 1 .. Len(pendq) : pendq'[i] = pendq[i]
      /\ pendq'[Len(pendq) + 1] = f
  BY <1>1, <1>2 DEF FenceInv, FenceData
<1>10. Range(pendq') = Range(pendq) \cup {f}
  BY <1>9 DEF Range
<1>11. \A s \in Range(pendq) : s \in Seqs /\ s < f
  <2>. SUFFICES ASSUME NEW s \in Range(pendq) PROVE s \in Seqs /\ s < f
    OBVIOUS
  <2>1. s \in Seqs /\ fence[s].pub
    BY FenceFacts DEF FenceInv, Fences
  <2>2. s <= issued /\ s # f
    BY <1>2, <2>1 DEF FenceInv, Fences
  <2>. QED  BY <1>2, <2>1, <2>2 DEF Seqs
<1>12. Rising(pendq')
  <2>. SUFFICES ASSUME NEW i \in DOMAIN pendq', NEW j \in DOMAIN pendq', i < j
                PROVE  pendq'[i] < pendq'[j]
    BY DEF Rising
  <2>1. CASE j \in DOMAIN pendq
    <3>1. i \in DOMAIN pendq
      BY <1>9, <2>1
    <3>. QED  BY <1>9, <2>1, <3>1, FenceFacts DEF Rising
  <2>2. CASE j = Len(pendq) + 1
    <3>1. i \in DOMAIN pendq
      BY <1>9, <2>2
    <3>. QED  BY <1>9, <1>11, <2>2, <3>1 DEF Range
  <2>. QED  BY <1>9, <2>1, <2>2
<1>13. Fences'
  <2>1. \A s \in Range(pendq') : fence'[s].pub /\ fence'[s].channel
    BY <1>7, <1>8, <1>10, <1>11 DEF FenceInv, Fences
  <2>2. ASSUME NEW s \in Seqs
        PROVE /\ fence'[s].pub => s <= issued'
              /\ ~fence'[s].pub => ~fence'[s].signaled /\ ~fence'[s].enabled
              /\ fence'[s].user => fence'[s].enabled
              /\ fence'[s].pub /\ ~fence'[s].signaled => s \in Range(pendq')
    <3>1. CASE s = f
      BY <1>1, <1>2, <1>8, <1>10, <3>1 DEF Seqs
    <3>2. CASE s # f
      <4>1. \A u \in Threads : thr[u].pc # "signal"
        BY <1>1, <1>4 DEF Held
      <4>. QED  BY <1>1, <1>7, <1>10, <3>2, <4>1 DEF FenceInv, Fences
    <3>. QED  BY <3>1, <3>2
  <2>. QED  BY <1>12, <2>1, <2>2 DEF Fences, Rising
<1>14. RefCount'
  <2>1. UsersOf(Range(pendq))' = UsersOf(Range(pendq))
    BY <1>7, <1>8, <1>10, <1>11 DEF UsersOf
  <2>. QED  BY <1>1, <1>6, <2>1 DEF FenceInv, RefCount
<1>15. Buried'
  <2>1. ~Dead
    BY <1>2 DEF FenceInv, Buried
  <2>. QED  BY <1>1, <1>2, <1>3, <1>6, <2>1 DEF Buried, Dead
<1>16. Workers'
  <2>1. ASSUME NEW u \in Threads, u # t, Doing(thr[u]) PROVE Doing(thr[u])'
    <3>1. thr'[u] = thr[u] /\ thr[u].op # "emit" /\ thr[u].pc \notin {"check", "signal"}
      BY <1>1, <1>4, <1>6, <2>1 DEF FenceInv, Workers, Held
    <3>2. \A s \in Seqs : fence[s].pub => fence'[s].pub
      BY <1>7, <1>8
    <3>. QED  BY <1>1, <2>1, <3>1, <3>2 DEF Doing
  <2>. QED  BY <1>1, <1>2, <1>3, <2>1, WorkersMove
<1>17. Ops' /\ Executed' /\ Signalling'
  <2>1. UNCHANGED <<killed, fctx, gpuOps>> /\ UNCHANGED <<gpuOps, issued>>
        /\ UNCHANGED <<killed, fctx, issued, gpuSeq, gpuOps>>
    BY <1>1
  <2>. QED  BY <1>6, <2>1, FenceKept
<1>18. FenceData'
  BY <1>1, <1>6, <1>7, <1>9 DEF FenceInv, FenceData
<1>. QED  BY <1>6, <1>13, <1>14, <1>15, <1>16, <1>17, <1>18 DEF FenceInv

\* dma_fence_is_signaled.
LEMMA IsSignaledKeeps ==
  ASSUME NvifInv, FenceInv, NEW f \in Seqs, IsSignaled(f) PROVE FenceInv'
<1>1. /\ fence[f].pub /\ lock = None
      /\ fence' = [fence EXCEPT ![f].signaled = TRUE]
      /\ UNCHANGED <<fctx, issued, pendq, notifyRef, lock, thr, gpuOps, gpuSeq, latch, irq, killed>>
      /\ UNCHANGED <<call, object, putcnt>>
  BY DEF IsSignaled, allVars, nvifVars, gpuVars
<1>2. /\ fence' \in [Seqs -> Fence] /\ fence'[f] = [fence[f] EXCEPT !.signaled = TRUE]
      /\ \A s \in Seqs : s # f => fence'[s] = fence[s]
      /\ fence[f] \in Fence
  BY <1>1, Marks
<1>3. \A s \in Seqs : /\ fence'[s].pub = fence[s].pub /\ fence'[s].channel = fence[s].channel
                      /\ fence'[s].enabled = fence[s].enabled /\ fence'[s].user = fence[s].user
                      /\ fence'[s].signaled <=> s = f \/ fence[s].signaled
  <2>1. /\ fence'[f].pub = fence[f].pub /\ fence'[f].channel = fence[f].channel
        /\ fence'[f].enabled = fence[f].enabled /\ fence'[f].user = fence[f].user
        /\ fence'[f].signaled
    BY <1>2 DEF Fence
  <2>. QED  BY <1>2, <2>1
<1>4. \A u \in Threads : thr[u].pc \notin {"check", "signal"}
  BY <1>1, FenceFacts DEF FenceInv, Locking, Held
<1>5. Workers'
  <2>1. ASSUME NEW u \in Threads PROVE At(thr[u])' /\ Doing(thr[u])'
    <3>1. PICK x : x = thr[u]
      OBVIOUS
    <3>2. At(x) /\ Doing(x) /\ x.pc \notin {"check", "signal"} /\ thr'[u] = x
      BY <1>1, <1>4, <3>1, ThreadRecs
    <3>3. Doing(x)'
      BY <1>1, <1>3, <3>2 DEF Doing
    <3>. QED  BY <3>2, <3>3 DEF At, Doing
  <2>. QED  BY <1>1, <2>1 DEF FenceInv, Workers
<1>6. Fences'
  <2>1. Range(pendq) \subseteq Seqs
    BY FenceFacts
  <2>. QED  BY <1>1, <1>3, <2>1 DEF FenceInv, Fences
<1>7. RefCount'
  <2>1. UsersOf(Range(pendq))' = UsersOf(Range(pendq)) /\ UNCHANGED Checking
    BY <1>1, <1>3, FenceFacts DEF UsersOf, Checking
  <2>. QED  BY <1>1, <2>1 DEF FenceInv, RefCount
<1>8. Buried'
  BY <1>1, <1>3 DEF FenceInv, Buried, Dead
<1>9. Locking' /\ FenceCalls' /\ Ops' /\ Executed' /\ Signalling'
  BY <1>1, FenceKept
<1>10. FenceData'
  BY <1>1, <1>2 DEF FenceInv, FenceData
<1>. QED  BY <1>5, <1>6, <1>7, <1>8, <1>9, <1>10 DEF FenceInv
-----------------------------------------------------------------------------
(* The steps of a waiter that change its fence.                            *)

LEMMA WaitEnableKeeps ==
  ASSUME NvifInv, FenceInv, NEW t \in Threads, WaitEnable(t) PROVE FenceInv'
<1>. DEFINE f == thr[t].f
<1>1. /\ thr[t].op = "wait" /\ thr[t].pc = "lock" /\ lock = None /\ lock' = t
      /\ thr' = [thr EXCEPT ![t].pc = "check"]
      /\ ~fence[f].signaled /\ ~fence[f].enabled
      /\ fence' = [fence EXCEPT ![f].enabled = TRUE]
      /\ notifyRef' = notifyRef + 1
      /\ NvifGet(t, ntfy) \/ UNCHANGED allVars
      /\ UNCHANGED <<fctx, issued, pendq, gpuOps, gpuSeq, latch, irq, killed>>
  BY DEF WaitEnable, Lock, gpuVars
<1>2. f \in Seqs /\ fence[f].pub
  BY <1>1, ThreadRecs DEF Doing
<1>3. PICK r : r = [thr[t] EXCEPT !.pc = "check"]
  OBVIOUS
<1>4. r \in Thr /\ r.pc = "check" /\ r.op = "wait" /\ r.f = f /\ Moves(t, r)
  BY <1>1, <1>3, ThreadRecs
<1>. HIDE DEF f
<1>5. \A u \in Threads : thr[u].pc \notin Held
  BY <1>1, FenceFacts DEF FenceInv, Locking
<1>6. f \in Range(pendq)
  BY <1>1, <1>2, <1>5 DEF FenceInv, Fences, Held, f
<1>7. /\ fence' \in [Seqs -> Fence] /\ fence'[f] = [fence[f] EXCEPT !.enabled = TRUE]
      /\ \A s \in Seqs : s # f => fence'[s] = fence[s]
      /\ fence[f] \in Fence
  BY <1>1, <1>2, Marks DEF f
<1>8. \A s \in Seqs : /\ fence'[s].pub = fence[s].pub /\ fence'[s].channel = fence[s].channel
                      /\ fence'[s].signaled = fence[s].signaled /\ fence'[s].user = fence[s].user
                      /\ fence'[s].enabled <=> s = f \/ fence[s].enabled
  <2>1. /\ fence'[f].pub = fence[f].pub /\ fence'[f].channel = fence[f].channel
        /\ fence'[f].signaled = fence[f].signaled /\ fence'[f].user = fence[f].user
        /\ fence'[f].enabled
    BY <1>7 DEF Fence
  <2>. QED  BY <1>7, <2>1
<1>9. LockMoves(t, r)
  BY <1>1, <1>4 DEF LockMoves, Held
<1>10. /\ thr' \in [Threads -> Thr] /\ thr'[t] = r
       /\ \A u \in Threads : u # t => thr'[u] = thr[u]
       /\ Locking' /\ lock' \in Threads \cup {None}
       /\ UNCHANGED <<killed, fctx, gpuOps>> => Signalling'
  <2>1. r.pc # "signal"
    BY <1>4
  <2>. QED  BY <1>4, <1>9, <2>1, MoveKeeps
<1>11. Workers'
  <2>1. At(r) /\ Doing(r)'
    <3>1. ~fence[f].signaled /\ ~fence[f].user
      BY <1>1, <1>2 DEF f, FenceInv, Fences
    <3>. QED  BY <1>1, <1>2, <1>4, <1>6, <1>8, <3>1 DEF At, Doing
  <2>2. ASSUME NEW u \in Threads, u # t, Doing(thr[u]) PROVE Doing(thr[u])'
    <3>1. PICK x : x = thr[u]
      OBVIOUS
    <3>2. Doing(x) /\ x.pc \notin {"check", "signal"} /\ thr'[u] = x
      BY <1>5, <1>10, <2>2, <3>1 DEF Held
    <3>3. Doing(x)'
      BY <1>1, <1>8, <3>2 DEF Doing
    <3>. QED  BY <3>2, <3>3 DEF Doing
  <2>3. fctx # "none"
    BY <1>1, Made
  <2>. QED  BY <1>1, <1>4, <2>1, <2>2, <2>3, WorkersMove
<1>12. Fences'
  <2>1. \A u \in Threads : thr[u].pc # "signal" /\ thr'[u].pc # "signal"
    BY <1>4, <1>5, <1>10 DEF Held
  <2>2. Range(pendq) \subseteq Seqs
    BY FenceFacts
  <2>3. \A s \in Range(pendq') : fence'[s].pub /\ fence'[s].channel
    BY <1>1, <1>8, <2>2 DEF FenceInv, Fences
  <2>4. ASSUME NEW s \in Seqs
        PROVE /\ fence'[s].pub => s <= issued'
              /\ ~fence'[s].pub => ~fence'[s].signaled /\ ~fence'[s].enabled
              /\ fence'[s].user => fence'[s].enabled
              /\ fence'[s].pub /\ ~fence'[s].signaled => s \in Range(pendq')
    BY <1>1, <1>2, <1>8, <2>1 DEF FenceInv, Fences
  <2>5. Rising(pendq')
    BY <1>1 DEF FenceInv, Fences, Rising
  <2>. QED  BY <2>3, <2>4, <2>5 DEF Fences, Rising
<1>13. RefCount' /\ notifyRef' \in Nat
  <2>1. UsersOf(Range(pendq))' = UsersOf(Range(pendq))
    BY <1>1, <1>8, FenceFacts DEF UsersOf
  <2>2. Checking' = Checking \cup {t} /\ t \notin Checking
    BY <1>1, <1>4, <1>10 DEF Checking
  <2>3. IsFiniteSet(Checking)
    BY FenceFacts, FS_Subset DEF Checking
  <2>4. Cardinality(Checking') = Cardinality(Checking) + 1 /\ Cardinality(Checking) \in Nat
    BY <2>2, <2>3, FS_AddElement, FS_CardinalityType
  <2>5. IsFiniteSet(UsersOf(Range(pendq)))
    BY FenceFacts, FS_Subset DEF UsersOf
  <2>6. Cardinality(UsersOf(Range(pendq))) \in Nat
    BY <2>5, FS_CardinalityType
  <2>7. notifyRef \in Nat /\ notifyRef = Cardinality(UsersOf(Range(pendq))) + Cardinality(Checking)
    BY DEF FenceInv, FenceData, RefCount
  <2>. QED  BY <1>1, <2>1, <2>4, <2>6, <2>7 DEF RefCount
<1>14. /\ UNCHANGED <<object, putcnt>>
       /\ call'[t].pc # "idle" => call'[t].n = ntfy /\ ~call'[t].dtor
       /\ \A u \in Threads : u # t => call'[u] = call[u]
  <2>1. call[t].pc = "idle"
    BY <1>1, FenceFacts DEF Held
  <2>. QED  BY <1>1, <2>1, CallStarts
<1>15. FenceCalls'
  <2>1. \A u \in Threads : u # t /\ call[u].pc # "idle" =>
          call[u].n = ntfy /\ call[u].dtor /\ thr[u].op = "del" /\ thr[u].pc = "free"
    BY <1>1, FenceFacts DEF FenceInv, FenceCalls
  <2>2. \A n \in Notifies \ {ntfy} : ~object'[n] /\ putcnt'[n] = 1
    BY <1>14 DEF FenceInv, FenceCalls
  <2>. QED  BY <1>1, <1>10, <1>14, <2>1, <2>2 DEF FenceCalls
<1>16. Buried'
  <2>1. ~Dead
    BY <1>1, <1>2 DEF FenceInv, Buried, f
  <2>. QED  BY <1>1, <1>4, <1>10, <2>1 DEF Buried, Dead
<1>17. Ops' /\ Executed' /\ Signalling'
  <2>1. UNCHANGED <<killed, fctx, gpuOps>> /\ UNCHANGED <<gpuOps, issued>>
        /\ UNCHANGED <<killed, fctx, issued, gpuSeq, gpuOps>>
    BY <1>1
  <2>. QED  BY <1>10, <2>1, FenceKept
<1>18. FenceData'
  BY <1>1, <1>7, <1>10, <1>13 DEF FenceInv, FenceData
<1>. QED  BY <1>10, <1>11, <1>12, <1>13, <1>15, <1>16, <1>17, <1>18 DEF FenceInv

LEMMA WaitEnabledKeeps ==
  ASSUME NvifInv, FenceInv, NEW t \in Threads, WaitEnabled(t) PROVE FenceInv'
<1>. DEFINE f == thr[t].f
<1>1. /\ thr[t].op = "wait" /\ thr[t].pc = "check" /\ call[t].pc = "idle" /\ lock' = None
      /\ thr' = [thr EXCEPT ![t] = [thr[t] EXCEPT !.pc = "sleep"]]
      /\ fence' = [fence EXCEPT ![f].user = TRUE]
      /\ UNCHANGED <<fctx, issued, pendq, notifyRef, gpuOps, gpuSeq, latch, irq, killed>>
      /\ UNCHANGED <<call, object, putcnt>>
  BY DEF WaitEnabled, Returned, Unlock, allVars, nvifVars, gpuVars
<1>2. /\ f \in Seqs /\ fence[f].pub /\ f \in Range(pendq)
      /\ ~fence[f].signaled /\ fence[f].enabled /\ ~fence[f].user
  BY <1>1, ThreadRecs DEF Doing
<1>3. PICK r : r = [thr[t] EXCEPT !.pc = "sleep"]
  OBVIOUS
<1>4. r \in Thr /\ r.pc = "sleep" /\ r.op = "wait" /\ r.f = f /\ Moves(t, r)
  BY <1>1, <1>3, ThreadRecs DEF Moves
<1>. HIDE DEF f
<1>5. lock = t /\ \A u \in Threads : u # t => thr[u].pc \notin Held
  BY <1>1, FenceFacts DEF FenceInv, Locking, Held
<1>7. /\ fence' \in [Seqs -> Fence] /\ fence'[f] = [fence[f] EXCEPT !.user = TRUE]
      /\ \A s \in Seqs : s # f => fence'[s] = fence[s]
      /\ fence[f] \in Fence
  BY <1>1, <1>2, Marks DEF f
<1>8. \A s \in Seqs : /\ fence'[s].pub = fence[s].pub /\ fence'[s].channel = fence[s].channel
                      /\ fence'[s].signaled = fence[s].signaled /\ fence'[s].enabled = fence[s].enabled
                      /\ fence'[s].user <=> s = f \/ fence[s].user
  <2>1. /\ fence'[f].pub = fence[f].pub /\ fence'[f].channel = fence[f].channel
        /\ fence'[f].signaled = fence[f].signaled /\ fence'[f].enabled = fence[f].enabled
        /\ fence'[f].user
    BY <1>7 DEF Fence
  <2>. QED  BY <1>7, <2>1
<1>9. LockMoves(t, r)
  BY <1>1, <1>4, <1>5, FenceFacts DEF LockMoves, Held
<1>10. /\ thr' \in [Threads -> Thr] /\ thr'[t] = r
       /\ \A u \in Threads : u # t => thr'[u] = thr[u]
       /\ Locking' /\ lock' \in Threads \cup {None} /\ FenceCalls'
       /\ UNCHANGED <<killed, fctx, gpuOps>> => Signalling'
  <2>1. r.pc # "signal"
    BY <1>4
  <2>2. UNCHANGED <<call, object, putcnt>>
    BY <1>1
  <2>. QED  BY <1>1, <1>4, <1>9, <2>1, <2>2, MoveKeeps
<1>11. Workers'
  <2>1. At(r) /\ Doing(r)'
    BY <1>1, <1>2, <1>4, <1>8 DEF At, Doing
  <2>2. ASSUME NEW u \in Threads, u # t, Doing(thr[u]) PROVE Doing(thr[u])'
    <3>1. PICK x : x = thr[u]
      OBVIOUS
    <3>2. Doing(x) /\ x.pc \notin {"check", "signal"} /\ thr'[u] = x
      BY <1>5, <1>10, <2>2, <3>1 DEF Held
    <3>3. Doing(x)'
      BY <1>1, <1>8, <3>2 DEF Doing
    <3>. QED  BY <3>2, <3>3 DEF Doing
  <2>3. fctx # "none"
    BY <1>1, Made
  <2>. QED  BY <1>1, <1>4, <2>1, <2>2, <2>3, WorkersMove
<1>12. Fences'
  <2>1. \A u \in Threads : thr[u].pc # "signal" /\ thr'[u].pc # "signal"
    BY <1>1, <1>4, <1>5, <1>10 DEF Held
  <2>2. Range(pendq) \subseteq Seqs
    BY FenceFacts
  <2>3. \A s \in Range(pendq') : fence'[s].pub /\ fence'[s].channel
    BY <1>1, <1>8, <2>2 DEF FenceInv, Fences
  <2>4. ASSUME NEW s \in Seqs
        PROVE /\ fence'[s].pub => s <= issued'
              /\ ~fence'[s].pub => ~fence'[s].signaled /\ ~fence'[s].enabled
              /\ fence'[s].user => fence'[s].enabled
              /\ fence'[s].pub /\ ~fence'[s].signaled => s \in Range(pendq')
    BY <1>1, <1>2, <1>8, <2>1 DEF FenceInv, Fences
  <2>5. Rising(pendq')
    BY <1>1 DEF FenceInv, Fences, Rising
  <2>. QED  BY <2>3, <2>4, <2>5 DEF Fences, Rising
<1>13. RefCount'
  <2>1. UsersOf(Range(pendq))' = UsersOf(Range(pendq)) \cup {f} /\ f \notin UsersOf(Range(pendq))
    BY <1>1, <1>2, <1>8, FenceFacts DEF UsersOf
  <2>2. Checking = Checking' \cup {t} /\ t \notin Checking'
    BY <1>1, <1>4, <1>10 DEF Checking
  <2>3. IsFiniteSet(Checking') /\ IsFiniteSet(UsersOf(Range(pendq)))
    BY <2>2, FenceFacts, FS_Subset DEF Checking, UsersOf
  <2>4. Cardinality(Checking) = Cardinality(Checking') + 1 /\ Cardinality(Checking') \in Nat
    BY <2>2, <2>3, FS_AddElement, FS_CardinalityType
  <2>5. /\ Cardinality(UsersOf(Range(pendq)) \cup {f}) = Cardinality(UsersOf(Range(pendq))) + 1
        /\ Cardinality(UsersOf(Range(pendq))) \in Nat
    BY <2>1, <2>3, FS_AddElement, FS_CardinalityType
  <2>6. notifyRef = Cardinality(UsersOf(Range(pendq))) + Cardinality(Checking)
    BY DEF FenceInv, RefCount
  <2>. QED  BY <1>1, <2>1, <2>4, <2>5, <2>6 DEF RefCount
<1>16. Buried'
  <2>1. ~Dead
    BY <1>1, <1>2 DEF FenceInv, Buried, f
  <2>. QED  BY <1>1, <1>4, <1>10, <2>1 DEF Buried, Dead
<1>17. Ops' /\ Executed' /\ Signalling'
  <2>1. UNCHANGED <<killed, fctx, gpuOps>> /\ UNCHANGED <<gpuOps, issued>>
        /\ UNCHANGED <<killed, fctx, issued, gpuSeq, gpuOps>>
    BY <1>1
  <2>. QED  BY <1>10, <2>1, FenceKept
<1>18. FenceData'
  BY <1>1, <1>7, <1>10 DEF FenceInv, FenceData
<1>. QED  BY <1>10, <1>11, <1>12, <1>13, <1>16, <1>17, <1>18 DEF FenceInv
-----------------------------------------------------------------------------
(* The numbers of the fences, which wrap.                                  *)

LEMMA Below2 == ASSUME NEW w \in Nat, w > 0, NEW x \in 0 .. 2 * w - 1
                PROVE  x % w = IF x < w THEN x ELSE x - w
<1>1. CASE x < w
  <2>1. x \in 0 .. w - 1
    BY <1>1
  <2>2. x % w = x
    BY <2>1
  <2>. QED  BY <1>1, <2>2
<1>2. CASE x >= w
  <2>1. x \in w .. 2 * w - 1
    BY <1>2
  <2>2. x % w = x - w
    BY <2>1
  <2>. QED  BY <1>2, <2>2
<1>. QED  BY <1>1, <1>2

LEMMA Above2 == ASSUME NEW w \in Nat, w > 0, NEW x \in -w .. -1 PROVE x % w = x + w
  OBVIOUS

\* The difference of two numbers that are near tells which fence is the first.
LEMMA Wrapped ==
  ASSUME NEW w \in Nat, w > 0, w % 2 = 0, NEW o \in 0 .. w - 1, NEW m \in Nat, 2 * m <= w,
         NEW f \in 0 .. m, NEW g \in 0 .. m,
         (((o + g) % w) - ((o + f) % w)) % w < w \div 2
  PROVE  f <= g
<1>. SUFFICES ASSUME f > g PROVE FALSE
  OBVIOUS
<1>. DEFINE a == (o + g) % w
            b == (o + f) % w
<1>1. w = 2 * (w \div 2) /\ w \div 2 \in Nat
  OBVIOUS
<1>2. o + g \in 0 .. 2 * w - 1 /\ o + f \in 0 .. 2 * w - 1
  BY <1>1
<1>3. /\ a = IF o + g < w THEN o + g ELSE o + g - w
      /\ b = IF o + f < w THEN o + f ELSE o + f - w
  BY <1>2, Below2
<1>. HIDE DEF a, b
<1>4. CASE a < b
  <2>1. a - b \in -w .. -1 /\ b - a = f - g
    BY <1>2, <1>3, <1>4
  <2>2. (a - b) % w = a - b + w
    BY <2>1, Above2
  <2>3. (a - b) % w = w - (f - g)
    BY <1>3, <2>1, <2>2
  <2>. QED  BY <1>1, <2>3 DEF a, b
<1>5. CASE a >= b
  <2>1. a - b = w - (f - g) /\ a - b \in 0 .. w - 1
    BY <1>2, <1>3, <1>5
  <2>2. (a - b) % w = a - b
    BY <2>1
  <2>. QED  BY <1>1, <2>1, <2>2 DEF a, b
<1>6. a \in Int /\ b \in Int
  BY <1>2, <1>3
<1>. QED  BY <1>4, <1>5, <1>6

\* The numbers of the fences are those of the semaphore.
LEMMA Seqnos == \A s \in 0 .. MaxSeq : Seqno(s) \in 0 .. SeqWrap - 1
<1>. SUFFICES ASSUME NEW s \in 0 .. MaxSeq PROVE (OldSeq + s) % SeqWrap \in 0 .. SeqWrap - 1
  BY DEF Seqno
<1>1. SeqWrap \in Nat /\ SeqWrap > 0 /\ MaxSeq \in Nat /\ OldSeq \in Nat
  BY FenceAssumption
<1>2. OldSeq + s \in Int
  BY <1>1
<1>. QED  BY <1>1, <1>2

\* A fence that compares as completed is one the channel has passed: all that
\* it has left to execute comes later.
LEMMA Reaches ==
  ASSUME NvifInv, FenceInv, ~Stopped, NEW f \in Seqs, fence[f].pub, Completed(f)
  PROVE  \A s \in Left : f < s
<1>1. PICK g \in 0 .. issued : gpuSeq = Seqno(g) /\ \A s \in Left : g < s
  BY DEF FenceInv, Executed
<1>2. /\ issued \in 0 .. MaxSeq /\ MaxSeq \in Nat /\ Left \subseteq 1 .. issued
  BY OpsFacts
<1>3. g \in 0 .. MaxSeq /\ f \in 0 .. MaxSeq
  BY <1>2 DEF Seqs
<1>4. (((OldSeq + g) % SeqWrap) - ((OldSeq + f) % SeqWrap)) % SeqWrap < SeqWrap \div 2
  BY <1>1, Zenon DEF Completed, Seqno
<1>5. /\ SeqWrap \in Nat /\ SeqWrap > 0 /\ SeqWrap % 2 = 0
      /\ OldSeq \in 0 .. SeqWrap - 1 /\ 2 * MaxSeq <= SeqWrap
  <2>1. SeqWrap \in Nat /\ OldSeq \in 0 .. SeqWrap - 1 /\ 2 * MaxSeq <= SeqWrap /\ SeqWrap % 2 = 0
    BY FenceAssumption
  <2>. QED  BY <2>1
<1>6. f <= g
  BY <1>2, <1>3, <1>4, <1>5, Wrapped
<1>. QED  BY <1>1, <1>2, <1>3, <1>6

LEMMA WaitTooLateKeeps ==
  ASSUME NvifInv, FenceInv, NEW t \in Threads, WaitTooLate(t) PROVE FenceInv'
<1>. DEFINE f == thr[t].f
<1>1. /\ thr[t].op = "wait" /\ thr[t].pc = "check" /\ call[t].pc = "idle"
      /\ thr' = [thr EXCEPT ![t].pc = "signal"]
      /\ Completed(f)
      /\ notifyRef' = notifyRef - 1
      /\ NvifPut(t, ntfy, FALSE) \/ UNCHANGED allVars
      /\ UNCHANGED <<fctx, issued, fence, lock, gpuOps, gpuSeq, latch, irq, killed>>
  BY DEF WaitTooLate, Returned, gpuVars
<1>2. PICK i \in DOMAIN pendq : pendq[i] = f /\ pendq' = RemoveAt(pendq, i)
  BY DEF WaitTooLate
<1>3. /\ f \in Seqs /\ fence[f].pub /\ f \in Range(pendq)
      /\ ~fence[f].signaled /\ fence[f].enabled /\ ~fence[f].user
  BY <1>1, ThreadRecs DEF Doing
<1>4. PICK r : r = [thr[t] EXCEPT !.pc = "signal"]
  OBVIOUS
<1>5. r \in Thr /\ r.pc = "signal" /\ r.op = "wait" /\ r.f = f /\ Moves(t, r)
  BY <1>1, <1>4, ThreadRecs
<1>6. Completed(f) /\ f = thr[t].f
  BY <1>1
<1>. HIDE DEF f
<1>7. lock = t /\ \A u \in Threads : u # t => thr[u].pc \notin Held
  BY <1>1, FenceFacts DEF FenceInv, Locking, Held
<1>8. pendq' \in Seq(Seqs) /\ Rising(pendq') /\ Range(pendq') = Range(pendq) \ {f}
  BY <1>2, TakeOut, FenceFacts DEF FenceInv, FenceData
<1>9. LockMoves(t, r)
  BY <1>1, <1>5, <1>7 DEF LockMoves, Held
<1>10. /\ thr' \in [Threads -> Thr] /\ thr'[t] = r
       /\ \A u \in Threads : u # t => thr'[u] = thr[u]
       /\ Locking' /\ lock' \in Threads \cup {None}
  BY <1>5, <1>9, MoveKeeps
<1>11. Workers'
  <2>1. At(r) /\ Doing(r)'
    BY <1>1, <1>3, <1>5 DEF At, Doing
  <2>2. ASSUME NEW u \in Threads, u # t, Doing(thr[u]) PROVE Doing(thr[u])'
    <3>1. PICK x : x = thr[u]
      OBVIOUS
    <3>2. Doing(x) /\ x.pc \notin {"check", "signal"} /\ thr'[u] = x
      BY <1>7, <1>10, <2>2, <3>1 DEF Held
    <3>3. Doing(x)'
      BY <1>1, <3>2 DEF Doing
    <3>. QED  BY <3>2, <3>3 DEF Doing
  <2>3. fctx # "none"
    BY <1>1, Made
  <2>. QED  BY <1>1, <1>5, <2>1, <2>2, <2>3, WorkersMove
<1>12. Fences'
  <2>1. \A u \in Threads : thr[u].pc # "signal"
    BY <1>1, <1>7 DEF Held
  <2>2. thr'[t].pc = "signal" /\ thr'[t].f = f
    BY <1>5, <1>10
  <2>3. \A s \in Range(pendq') : fence'[s].pub /\ fence'[s].channel
    BY <1>1, <1>8 DEF FenceInv, Fences
  <2>4. ASSUME NEW s \in Seqs
        PROVE /\ fence'[s].pub => s <= issued'
              /\ ~fence'[s].pub => ~fence'[s].signaled /\ ~fence'[s].enabled
              /\ fence'[s].user => fence'[s].enabled
              /\ fence'[s].pub /\ ~fence'[s].signaled => s \in Range(pendq') \/ s = f
    BY <1>1, <1>8, <2>1 DEF FenceInv, Fences
  <2>. QED  BY <1>8, <2>2, <2>3, <2>4 DEF Fences, Rising
<1>13. RefCount' /\ notifyRef' \in Nat
  <2>1. UsersOf(Range(pendq))' = UsersOf(Range(pendq))
    BY <1>1, <1>3, <1>8 DEF UsersOf
  <2>2. Checking = Checking' \cup {t} /\ t \notin Checking'
    BY <1>1, <1>5, <1>10 DEF Checking
  <2>3. IsFiniteSet(Checking') /\ IsFiniteSet(UsersOf(Range(pendq)))
    BY <2>2, FenceFacts, FS_Subset DEF Checking, UsersOf
  <2>4. Cardinality(Checking) = Cardinality(Checking') + 1 /\ Cardinality(Checking') \in Nat
    BY <2>2, <2>3, FS_AddElement, FS_CardinalityType
  <2>5. Cardinality(UsersOf(Range(pendq))) \in Nat
    BY <2>3, FS_CardinalityType
  <2>6. notifyRef = Cardinality(UsersOf(Range(pendq))) + Cardinality(Checking)
    BY DEF FenceInv, RefCount
  <2>. QED  BY <1>1, <2>1, <2>4, <2>5, <2>6 DEF RefCount
<1>14. /\ UNCHANGED <<object, putcnt>>
       /\ call'[t].pc # "idle" => call'[t].n = ntfy /\ ~call'[t].dtor
       /\ \A u \in Threads : u # t => call'[u] = call[u]
  BY <1>1, CallStarts
<1>15. FenceCalls'
  <2>1. \A u \in Threads : u # t /\ call[u].pc # "idle" =>
          call[u].n = ntfy /\ call[u].dtor /\ thr[u].op = "del" /\ thr[u].pc = "free"
    BY <1>7, FenceFacts DEF FenceInv, FenceCalls
  <2>2. \A n \in Notifies \ {ntfy} : ~object'[n] /\ putcnt'[n] = 1
    BY <1>14 DEF FenceInv, FenceCalls
  <2>. QED  BY <1>1, <1>7, <1>10, <1>14, <2>1, <2>2 DEF FenceCalls
<1>16. Buried'
  <2>1. ~Dead
    BY <1>3 DEF FenceInv, Buried
  <2>. QED  BY <1>1, <1>5, <1>10, <2>1 DEF Buried, Dead
<1>17. Ops' /\ Executed'
  BY <1>1, FenceKept
<1>18. Signalling'
  <2>. SUFFICES ASSUME NEW u \in Threads, thr'[u].pc = "signal", ~Stopped
                PROVE  \A s \in Left : thr'[u].f < s
    BY <1>1 DEF Signalling, Stopped, Left
  <2>1. u = t
    BY <1>7, <1>10 DEF Held
  <2>. QED  BY <1>3, <1>5, <1>6, <1>10, <2>1, Reaches
<1>19. FenceData'
  BY <1>1, <1>8, <1>10, <1>13 DEF FenceInv, FenceData
<1>. QED  BY <1>10, <1>11, <1>12, <1>13, <1>15, <1>16, <1>17, <1>18, <1>19 DEF FenceInv

LEMMA WaitSignalKeeps ==
  ASSUME NvifInv, FenceInv, NEW t \in Threads, WaitSignal(t) PROVE FenceInv'
<1>. DEFINE f == thr[t].f
<1>1. /\ thr[t].pc = "signal" /\ thr[t].op = "wait" /\ call[t].pc = "idle" /\ lock' = None
      /\ thr' = [thr EXCEPT ![t] = ThrIdle]
      /\ fence' = [fence EXCEPT ![f].signaled = TRUE]
      /\ UNCHANGED <<fctx, issued, pendq, notifyRef, gpuOps, gpuSeq, latch, irq, killed>>
      /\ UNCHANGED <<call, object, putcnt>>
  BY DEF WaitSignal, Returned, Unlock, allVars, nvifVars, gpuVars
<1>2. f \in Seqs /\ fence[f].pub /\ ~fence[f].signaled
  BY <1>1, ThreadRecs DEF Doing
<1>3. f = thr[t].f /\ fence' = [fence EXCEPT ![f].signaled = TRUE]
  BY <1>1
<1>. HIDE DEF f
<1>4. Moves(t, ThrIdle) /\ At(ThrIdle) /\ Doing(ThrIdle)' /\ ThrIdle.pc \notin Held
      /\ ThrIdle.pc = "idle" /\ ThrIdle.op = "none"
  BY <1>1, IdleMove, FenceFacts
<1>5. lock = t /\ \A u \in Threads : u # t => thr[u].pc \notin Held
  BY <1>1, FenceFacts DEF FenceInv, Locking, Held
<1>6. LockMoves(t, ThrIdle)
  BY <1>1, <1>4, <1>5, FenceFacts DEF LockMoves
<1>7. /\ thr' \in [Threads -> Thr] /\ thr'[t] = ThrIdle
      /\ \A u \in Threads : u # t => thr'[u] = thr[u]
      /\ Locking' /\ lock' \in Threads \cup {None} /\ FenceCalls' /\ UNCHANGED Checking
      /\ UNCHANGED <<killed, fctx, gpuOps>> => Signalling'
  <2>1. "check" \notin {ThrIdle.pc, thr[t].pc} /\ ThrIdle.pc # "signal"
    BY <1>1, <1>4
  <2>2. UNCHANGED <<call, object, putcnt>> /\ call[t].pc = "idle"
    BY <1>1
  <2>. QED  BY <1>4, <1>6, <2>1, <2>2, MoveKeeps
<1>8. /\ fence' \in [Seqs -> Fence] /\ fence'[f] = [fence[f] EXCEPT !.signaled = TRUE]
      /\ \A s \in Seqs : s # f => fence'[s] = fence[s]
      /\ fence[f] \in Fence
  BY <1>2, <1>3, Marks
<1>9. \A s \in Seqs : /\ fence'[s].pub = fence[s].pub /\ fence'[s].channel = fence[s].channel
                      /\ fence'[s].enabled = fence[s].enabled /\ fence'[s].user = fence[s].user
                      /\ fence'[s].signaled <=> s = f \/ fence[s].signaled
  <2>1. /\ fence'[f].pub = fence[f].pub /\ fence'[f].channel = fence[f].channel
        /\ fence'[f].enabled = fence[f].enabled /\ fence'[f].user = fence[f].user
        /\ fence'[f].signaled
    BY <1>8 DEF Fence
  <2>. QED  BY <1>8, <2>1
<1>10. Workers'
  <2>1. ASSUME NEW u \in Threads, u # t, Doing(thr[u]) PROVE Doing(thr[u])'
    <3>1. PICK x : x = thr[u]
      OBVIOUS
    <3>2. Doing(x) /\ x.pc \notin {"check", "signal"} /\ thr'[u] = x
      BY <1>5, <1>7, <2>1, <3>1 DEF Held
    <3>3. Doing(x)'
      BY <1>1, <1>9, <3>2 DEF Doing
    <3>. QED  BY <3>2, <3>3 DEF Doing
  <2>2. fctx # "none"
    BY <1>1, Made
  <2>. QED  BY <1>1, <1>4, <2>1, <2>2, WorkersMove
<1>11. Fences'
  <2>1. \A u \in Threads : u # t => thr[u].pc # "signal"
    BY <1>5 DEF Held
  <2>2. Range(pendq) \subseteq Seqs
    BY FenceFacts
  <2>3. \A s \in Range(pendq') : fence'[s].pub /\ fence'[s].channel
    BY <1>1, <1>9, <2>2 DEF FenceInv, Fences
  <2>4. ASSUME NEW s \in Seqs
        PROVE /\ fence'[s].pub => s <= issued'
              /\ ~fence'[s].pub => ~fence'[s].signaled /\ ~fence'[s].enabled
              /\ fence'[s].user => fence'[s].enabled
              /\ fence'[s].pub /\ ~fence'[s].signaled => s \in Range(pendq')
    <3>1. \A u \in Threads : thr[u].pc = "signal" /\ thr[u].f = s => s = f
      BY <1>3, <2>1
    <3>. QED  BY <1>1, <1>2, <1>9, <3>1 DEF FenceInv, Fences
  <2>5. Rising(pendq')
    BY <1>1 DEF FenceInv, Fences, Rising
  <2>. QED  BY <2>3, <2>4, <2>5 DEF Fences, Rising
<1>12. RefCount'
  <2>1. UsersOf(Range(pendq))' = UsersOf(Range(pendq))
    BY <1>1, <1>9, FenceFacts DEF UsersOf
  <2>. QED  BY <1>1, <1>7, <2>1 DEF FenceInv, RefCount
<1>13. Buried'
  <2>1. ~Dead
    BY <1>2 DEF FenceInv, Buried
  <2>. QED  BY <1>1, <1>4, <1>7, <2>1 DEF Buried, Dead
<1>14. Ops' /\ Executed' /\ Signalling'
  <2>1. UNCHANGED <<killed, fctx, gpuOps>> /\ UNCHANGED <<gpuOps, issued>>
        /\ UNCHANGED <<killed, fctx, issued, gpuSeq, gpuOps>>
    BY <1>1
  <2>. QED  BY <1>7, <2>1, FenceKept
<1>15. FenceData'
  BY <1>1, <1>7, <1>8 DEF FenceInv, FenceData
<1>. QED  BY <1>7, <1>10, <1>11, <1>12, <1>13, <1>14, <1>15 DEF FenceInv
-----------------------------------------------------------------------------
(* The channel that is killed or deleted.                                  *)

\* A thread that begins to kill or to delete.
LEMMA StopMoves ==
  ASSUME NvifInv, FenceInv, NEW t \in Threads, NEW op \in {"kill", "del"},
         Begin(t, op, "lock", 0), NEW r, r = [op |-> op, pc |-> "lock", f |-> 0]
  PROVE  /\ Moves(t, r) /\ r.op = op /\ r.pc = "lock" /\ At(r)
         /\ UNCHANGED lock => LockMoves(t, r)
         /\ call[t].pc = "idle" /\ thr[t].op = "none" /\ thr[t].pc = "idle"
         /\ thr' \in [Threads -> Thr] /\ thr'[t] = r
         /\ \A u \in Threads : u # t => thr'[u] = thr[u]
         /\ UNCHANGED Checking
<1>1. thr[t] = ThrIdle /\ thr' = [thr EXCEPT ![t] = [op |-> op, pc |-> "lock", f |-> 0]]
  BY DEF Begin
<1>2. thr[t].op = "none" /\ thr[t].pc = "idle" /\ call[t].pc = "idle" /\ lock # t
  <2>1. thr[t].op = "none" /\ thr[t].pc = "idle"
    BY <1>1, FenceFacts
  <2>. QED  BY <2>1, FenceFacts DEF FenceInv, Locking, Held
<1>3. r \in Thr /\ r.op = op /\ r.pc = "lock" /\ Moves(t, r)
  BY <1>1, FenceFacts DEF Thr, Moves
<1>4. At(r)
  BY <1>3 DEF At
<1>5. UNCHANGED lock => LockMoves(t, r)
  BY <1>2, <1>3 DEF LockMoves, Held
<1>6. "check" \notin {r.pc, thr[t].pc}
  BY <1>2, <1>3
<1>. QED  BY <1>2, <1>3, <1>4, <1>5, <1>6, MoveKeeps

LEMMA KillStartKeeps ==
  ASSUME NvifInv, FenceInv, NEW t \in Threads, KillStart(t) PROVE FenceInv'
<1>1. /\ Begin(t, "kill", "lock", 0) /\ killed' = TRUE /\ fctx # "none"
      /\ UNCHANGED <<fctx, issued, fence, pendq, notifyRef, lock, gpuOps, gpuSeq, latch, irq>>
      /\ UNCHANGED <<call, object, putcnt>>
  BY DEF KillStart, allVars, nvifVars, gpuVars, fctxVars
<1>2. PICK r : r = [op |-> "kill", pc |-> "lock", f |-> 0]
  OBVIOUS
<1>3. /\ Moves(t, r) /\ r.op = "kill" /\ r.pc = "lock" /\ At(r) /\ LockMoves(t, r)
      /\ call[t].pc = "idle" /\ thr[t].op = "none" /\ thr[t].pc = "idle"
      /\ thr' \in [Threads -> Thr] /\ thr'[t] = r
      /\ \A u \in Threads : u # t => thr'[u] = thr[u]
      /\ UNCHANGED Checking
  BY <1>1, <1>2, StopMoves
<1>4. "signal" \notin {r.pc, thr[t].pc}
  BY <1>3
<1>5. Locking' /\ lock' \in Threads \cup {None} /\ FenceCalls'
  BY <1>1, <1>3, MoveKeeps
<1>6. Fences'
  BY <1>1, <1>3, <1>4, MoveKeeps
<1>7. Buried'
  <2>1. UNCHANGED <<fctx, pendq, fence, call>> /\ r.op # "del"
    BY <1>1, <1>3
  <2>. QED  BY <1>3, <2>1, MoveKeeps
<1>8. RefCount'
  BY <1>1, <1>3 DEF FenceInv, RefCount, UsersOf
<1>9. Workers'
  <2>1. Doing(r)'
    BY <1>1, <1>3 DEF Doing
  <2>2. ASSUME NEW u \in Threads, u # t, Doing(thr[u]) PROVE Doing(thr[u])'
    <3>1. PICK x : x = thr[u]
      OBVIOUS
    <3>2. Doing(x) /\ thr'[u] = x
      BY <1>3, <2>2, <3>1
    <3>3. Doing(x)'
      BY <1>1, <3>2 DEF Doing
    <3>. QED  BY <3>2, <3>3 DEF Doing
  <2>. QED  BY <1>1, <1>3, <2>1, <2>2, WorkersMove
<1>10. Ops' /\ Executed' /\ Signalling'
  BY <1>1, FenceKept DEF Executed, Signalling, Stopped
<1>11. FenceData'
  BY <1>1, <1>3 DEF FenceInv, FenceData
<1>. QED  BY <1>5, <1>6, <1>7, <1>8, <1>9, <1>10, <1>11 DEF FenceInv

LEMMA DelStartKeeps ==
  ASSUME NvifInv, FenceInv, NEW t \in Threads, DelStart(t) PROVE FenceInv'
<1>1. /\ Begin(t, "del", "lock", 0) /\ fctx = "live" /\ fctx' = "dying" /\ ~Running("emit")
      /\ gpuSeq' = Seqno(issued)
      /\ UNCHANGED <<killed, issued, fence, pendq, notifyRef, lock, gpuOps, latch, irq>>
      /\ UNCHANGED <<call, object, putcnt>>
  BY DEF DelStart, allVars, nvifVars
<1>2. PICK r : r = [op |-> "del", pc |-> "lock", f |-> 0]
  OBVIOUS
<1>3. /\ Moves(t, r) /\ r.op = "del" /\ r.pc = "lock" /\ At(r) /\ LockMoves(t, r)
      /\ call[t].pc = "idle" /\ thr[t].op = "none" /\ thr[t].pc = "idle"
      /\ thr' \in [Threads -> Thr] /\ thr'[t] = r
      /\ \A u \in Threads : u # t => thr'[u] = thr[u]
      /\ UNCHANGED Checking
  BY <1>1, <1>2, StopMoves
<1>4. "signal" \notin {r.pc, thr[t].pc}
  BY <1>3
<1>5. Locking' /\ lock' \in Threads \cup {None} /\ FenceCalls'
  BY <1>1, <1>3, MoveKeeps
<1>6. Fences'
  BY <1>1, <1>3, <1>4, MoveKeeps
<1>7. \A u \in Threads : thr[u].op \notin {"del", "emit"}
  BY <1>1, ThreadRecs DEF Running, Doing
<1>8. Buried'
  BY <1>1, <1>3, <1>7 DEF Buried, Dead
<1>9. RefCount'
  BY <1>1, <1>3 DEF FenceInv, RefCount, UsersOf
<1>10. Workers'
  <2>1. Doing(r)'
    BY <1>1, <1>3 DEF Doing
  <2>2. ASSUME NEW u \in Threads, u # t, Doing(thr[u]) PROVE Doing(thr[u])'
    <3>1. PICK x : x = thr[u]
      OBVIOUS
    <3>2. Doing(x) /\ thr'[u] = x /\ x.op \notin {"del", "emit"}
      BY <1>3, <1>7, <2>2, <3>1
    <3>3. Doing(x)'
      BY <1>1, <3>2 DEF Doing
    <3>. QED  BY <3>2, <3>3 DEF Doing
  <2>3. fctx' # "none" /\ \A u \in Threads : u # t => thr[u].op # r.op
    BY <1>1, <1>3, <1>7
  <2>. QED  BY <1>3, <2>1, <2>2, <2>3, WorkersMove
<1>11. Ops'
  BY <1>1, FenceKept
<1>12. Executed' /\ Signalling'
  BY <1>1 DEF Executed, Signalling, Stopped
<1>13. gpuSeq' \in 0 .. SeqWrap - 1
  BY <1>1, OpsFacts, Seqnos
<1>14. FenceData'
  BY <1>1, <1>3, <1>13 DEF FenceInv, FenceData
<1>. QED  BY <1>5, <1>6, <1>8, <1>9, <1>10, <1>11, <1>12, <1>14 DEF FenceInv

LEMMA DelDtorKeeps ==
  ASSUME NvifInv, FenceInv, NEW t \in Threads, DelDtor(t) PROVE FenceInv'
<1>1. /\ thr[t].op = "del" /\ thr[t].pc = "dtor" /\ call[t].pc = "idle"
      /\ NvifPut(t, ntfy, TRUE) /\ thr' = [thr EXCEPT ![t].pc = "free"]
      /\ UNCHANGED <<fctx, issued, fence, pendq, notifyRef, lock, gpuOps, gpuSeq, latch, irq, killed>>
  BY DEF DelDtor, Returned, fctxVars, gpuVars
<1>2. PICK r : r = [thr[t] EXCEPT !.pc = "free"]
  OBVIOUS
<1>3. r \in Thr /\ r.pc = "free" /\ r.op = "del" /\ r.f = thr[t].f /\ Moves(t, r)
  BY <1>1, <1>2, ThreadRecs
<1>4. lock # t
  BY <1>1 DEF FenceInv, Locking, Held
<1>5. LockMoves(t, r)
  BY <1>1, <1>3, <1>4 DEF LockMoves, Held
<1>6. /\ thr' \in [Threads -> Thr] /\ thr'[t] = r
      /\ \A u \in Threads : u # t => thr'[u] = thr[u]
      /\ Locking' /\ lock' \in Threads \cup {None} /\ UNCHANGED Checking
      /\ Fences' /\ Signalling'
  <2>1. "signal" \notin {r.pc, thr[t].pc} /\ "check" \notin {r.pc, thr[t].pc} /\ r.pc # "signal"
    BY <1>1, <1>3
  <2>2. UNCHANGED <<pendq, fence, issued>> /\ UNCHANGED <<killed, fctx, gpuOps>>
    BY <1>1
  <2>. QED  BY <1>3, <1>5, <2>1, <2>2, MoveKeeps
<1>7. /\ UNCHANGED <<object, putcnt>>
      /\ call'[t].pc # "idle" => call'[t].n = ntfy /\ call'[t].dtor
      /\ \A u \in Threads : u # t => call'[u] = call[u]
  BY <1>1, CallStarts
<1>8. Dead
  BY <1>1 DEF Dead
<1>9. \A u \in Threads : u # t => call[u].pc = "idle"
  BY <1>1, <1>8 DEF FenceInv, Buried, Workers
<1>10. FenceCalls'
  BY <1>3, <1>6, <1>7, <1>9 DEF FenceInv, FenceCalls
<1>11. Buried'
  BY <1>1, <1>3, <1>6, <1>7, <1>8, <1>9 DEF FenceInv, Buried
<1>12. RefCount'
  BY <1>1, <1>6 DEF FenceInv, RefCount, UsersOf
<1>13. Workers'
  <2>1. At(r) /\ Doing(r)
    BY <1>1, <1>3, ThreadRecs DEF At, Doing
  <2>2. Doing(r)'
    BY <1>1, <2>1 DEF Doing
  <2>3. ASSUME NEW u \in Threads, u # t, Doing(thr[u]) PROVE Doing(thr[u])'
    <3>1. PICK x : x = thr[u]
      OBVIOUS
    <3>2. Doing(x) /\ thr'[u] = x
      BY <1>6, <2>3, <3>1
    <3>3. Doing(x)'
      BY <1>1, <3>2 DEF Doing
    <3>. QED  BY <3>2, <3>3 DEF Doing
  <2>4. fctx # "none"
    BY <1>1, Made
  <2>. QED  BY <1>1, <1>3, <2>1, <2>2, <2>3, <2>4, WorkersMove
<1>14. Ops' /\ Executed'
  BY <1>1, FenceKept
<1>15. FenceData'
  BY <1>1, <1>6 DEF FenceInv, FenceData
<1>. QED  BY <1>6, <1>10, <1>11, <1>12, <1>13, <1>14, <1>15 DEF FenceInv

LEMMA DelFreeKeeps ==
  ASSUME NvifInv, FenceInv, NEW t \in Threads, DelFree(t) PROVE FenceInv'
<1>1. /\ thr[t].op = "del" /\ thr[t].pc = "free" /\ call[t].pc = "idle"
      /\ fctx' = "freed" /\ thr' = [thr EXCEPT ![t] = ThrIdle]
      /\ UNCHANGED <<issued, fence, pendq, notifyRef, lock, gpuOps, gpuSeq, latch, irq, killed>>
      /\ UNCHANGED <<call, object, putcnt>>
  BY DEF DelFree, Returned, gpuVars, allVars, nvifVars
<1>2. Moves(t, ThrIdle) /\ At(ThrIdle) /\ Doing(ThrIdle)' /\ ThrIdle.pc \notin Held
      /\ ThrIdle.pc = "idle" /\ ThrIdle.op = "none"
  BY <1>1, IdleMove, FenceFacts
<1>3. lock # t /\ fctx = "dying" /\ Dead
  BY <1>1, ThreadRecs DEF FenceInv, Locking, Held, Doing, Dead
<1>4. LockMoves(t, ThrIdle)
  BY <1>1, <1>2, <1>3 DEF LockMoves
<1>5. /\ thr' \in [Threads -> Thr] /\ thr'[t] = ThrIdle
      /\ \A u \in Threads : u # t => thr'[u] = thr[u]
      /\ Locking' /\ lock' \in Threads \cup {None} /\ UNCHANGED Checking
      /\ Fences' /\ FenceCalls'
  <2>1. "signal" \notin {ThrIdle.pc, thr[t].pc} /\ "check" \notin {ThrIdle.pc, thr[t].pc}
    BY <1>1, <1>2
  <2>2. UNCHANGED <<pendq, fence, issued>> /\ UNCHANGED <<call, object, putcnt>> /\ call[t].pc = "idle"
    BY <1>1
  <2>. QED  BY <1>2, <1>4, <2>1, <2>2, MoveKeeps
<1>6. Buried'
  BY <1>1, <1>3, <1>5 DEF FenceInv, Buried, Workers
<1>7. RefCount'
  BY <1>1, <1>5 DEF FenceInv, RefCount, UsersOf
<1>8. Workers'
  <2>1. ASSUME NEW u \in Threads, u # t, Doing(thr[u]) PROVE Doing(thr[u])'
    <3>1. PICK x : x = thr[u]
      OBVIOUS
    <3>2. Doing(x) /\ thr'[u] = x /\ x.op \notin {"emit", "del"}
      BY <1>1, <1>3, <1>5, <2>1, <3>1 DEF Doing, FenceInv, Workers
    <3>3. Doing(x)'
      BY <1>1, <3>2 DEF Doing
    <3>. QED  BY <3>2, <3>3 DEF Doing
  <2>. QED  BY <1>1, <1>2, <2>1, WorkersMove
<1>9. Ops'
  BY <1>1, FenceKept
<1>10. Executed' /\ Signalling'
  BY <1>1 DEF Executed, Signalling, Stopped
<1>11. FenceData'
  BY <1>1, <1>5 DEF FenceInv, FenceData
<1>. QED  BY <1>5, <1>6, <1>7, <1>8, <1>9, <1>10, <1>11 DEF FenceInv

-----------------------------------------------------------------------------
(* The GPU, its interrupt, and the code of NVIF and NVKM.                  *)

\* The queue of the channel after it has executed one more.
LEMMA Executes ==
  ASSUME NvifInv, FenceInv, gpuOps # <<>>, gpuOps' = Tail(gpuOps), UNCHANGED issued
  PROVE  /\ gpuOps' \in Seq(0 .. MaxSeq) /\ Ops'
         /\ Left' = Left \ {Head(gpuOps)}
         /\ Head(gpuOps) \in 0 .. issued
         /\ Head(gpuOps) # 0 => Head(gpuOps) \in Left /\ \A s \in Left' : Head(gpuOps) < s
         /\ Head(gpuOps) = 0 => Left' = Left
<1>1. /\ gpuOps \in Seq(0 .. MaxSeq) /\ Len(gpuOps) \in Nat /\ DOMAIN gpuOps = 1 .. Len(gpuOps)
      /\ Len(gpuOps) > 0 /\ issued \in 0 .. MaxSeq /\ MaxSeq \in Nat
  BY OpsFacts
<1>2. /\ gpuOps' \in Seq(0 .. MaxSeq) /\ Len(gpuOps') = Len(gpuOps) - 1
      /\ \A i \in 1 .. Len(gpuOps) - 1 : gpuOps'[i] = gpuOps[i + 1]
  BY <1>1
<1>3. Head(gpuOps) = gpuOps[1] /\ 1 \in DOMAIN gpuOps
  BY <1>1
<1>4. DOMAIN gpuOps' = 1 .. Len(gpuOps) - 1
  BY <1>2
<1>5. \A i \in DOMAIN gpuOps' : i \in Nat /\ i > 0 /\ i + 1 \in DOMAIN gpuOps /\ gpuOps'[i] = gpuOps[i + 1]
  BY <1>1, <1>2, <1>4
<1>6. \A i \in DOMAIN gpuOps : gpuOps[i] \in 0 .. issued
  BY <1>1 DEF FenceInv, Ops
<1>7. Ops'
  <2>1. ASSUME NEW i \in DOMAIN gpuOps', NEW j \in DOMAIN gpuOps', i < j, gpuOps'[i] # 0, gpuOps'[j] # 0
        PROVE  gpuOps'[i] < gpuOps'[j]
    <3>1. i + 1 < j + 1
      BY <1>5, <2>1
    <3>. QED  BY <1>5, <2>1, <3>1 DEF FenceInv, Ops
  <2>2. ASSUME NEW i \in DOMAIN gpuOps', i + 1 \in DOMAIN gpuOps'
        PROVE  gpuOps'[i] # 0 \/ gpuOps'[i + 1] # 0
    <3>1. i + 1 \in DOMAIN gpuOps /\ (i + 1) + 1 \in DOMAIN gpuOps
      BY <1>5, <2>2
    <3>. QED  BY <1>5, <2>2, <3>1 DEF FenceInv, Ops
  <2>3. \A i \in DOMAIN gpuOps' : gpuOps'[i] <= issued'
    BY <1>1, <1>5, <1>6
  <2>. QED  BY <2>1, <2>2, <2>3 DEF Ops
<1>8. ASSUME NEW i \in DOMAIN gpuOps, i # 1, gpuOps[1] # 0, gpuOps[i] # 0 PROVE gpuOps[1] < gpuOps[i]
  <2>1. 1 < i
    BY <1>1, <1>8
  <2>. QED  BY <1>3, <1>8, <2>1 DEF FenceInv, Ops
<1>9. ASSUME NEW s \in Left' PROVE s \in Left /\ s # gpuOps[1] /\ (gpuOps[1] # 0 => gpuOps[1] < s)
  <2>1. PICK i \in DOMAIN gpuOps' : s = gpuOps'[i] /\ s # 0
    BY DEF Left
  <2>2. i + 1 \in DOMAIN gpuOps /\ i + 1 # 1 /\ s = gpuOps[i + 1]
    BY <1>5, <2>1
  <2>3. gpuOps[1] # 0 => gpuOps[1] < s
    BY <1>8, <2>1, <2>2
  <2>4. s \in Nat /\ gpuOps[1] \in Nat
    BY <1>1, <1>3, <1>6, <2>2
  <2>. QED  BY <2>1, <2>2, <2>3, <2>4 DEF Left
<1>10. ASSUME NEW s \in Left, s # gpuOps[1] PROVE s \in Left'
  <2>1. PICK i \in DOMAIN gpuOps : s = gpuOps[i] /\ s # 0
    BY DEF Left
  <2>2. i - 1 \in DOMAIN gpuOps' /\ gpuOps'[i - 1] = gpuOps[i]
    BY <1>1, <1>2, <1>4, <1>10, <2>1
  <2>. QED  BY <2>1, <2>2 DEF Left
<1>11. Left' = Left \ {gpuOps[1]}
  BY <1>9, <1>10
<1>12. gpuOps[1] # 0 => gpuOps[1] \in Left
  BY <1>3 DEF Left
<1>13. gpuOps[1] = 0 => Left' = Left
  BY <1>11 DEF Left
<1>. QED  BY <1>2, <1>3, <1>6, <1>7, <1>9, <1>11, <1>12, <1>13

LEMMA GpuKeeps == ASSUME NvifInv, FenceInv, GpuStep PROVE FenceInv'
<1>. DEFINE h == Head(gpuOps)
<1>1. /\ gpuOps # <<>> /\ gpuOps' = Tail(gpuOps)
      /\ IF h = 0 THEN latch' = TRUE /\ UNCHANGED gpuSeq ELSE gpuSeq' = Seqno(h) /\ UNCHANGED latch
      /\ UNCHANGED <<fctx, issued, fence, pendq, notifyRef, lock, thr, irq, killed>>
      /\ UNCHANGED <<call, object, putcnt>>
  BY DEF GpuStep, allVars, nvifVars, fctxVars
<1>2. /\ gpuOps' \in Seq(0 .. MaxSeq) /\ Ops'
      /\ Left' \subseteq Left /\ h \in 0 .. issued
      /\ h # 0 => \A s \in Left' : h < s
      /\ h = 0 => Left' = Left
  BY <1>1, Executes
<1>. HIDE DEF h
<1>3. Executed'
  <2>. SUFFICES ASSUME ~Stopped PROVE \E g \in 0 .. issued : gpuSeq' = Seqno(g) /\ \A s \in Left' : g < s
    BY <1>1 DEF Executed, Stopped, Seqno
  <2>. QED  BY <1>1, <1>2 DEF FenceInv, Executed
<1>4. Signalling'
  BY <1>1, <1>2 DEF FenceInv, Signalling, Stopped
<1>5. gpuSeq' \in 0 .. SeqWrap - 1 /\ latch' \in BOOLEAN
  <2>1. h \in 0 .. MaxSeq
    BY <1>2, OpsFacts
  <2>. QED  BY <1>1, <2>1, Seqnos DEF FenceInv, FenceData
<1>6. Locking' /\ Workers' /\ Fences' /\ Buried' /\ FenceCalls' /\ RefCount'
  BY <1>1, FenceKept
<1>7. FenceData'
  BY <1>1, <1>2, <1>5 DEF FenceInv, FenceData
<1>. QED  BY <1>2, <1>3, <1>4, <1>6, <1>7 DEF FenceInv

\* A step below the fences leaves them alone.
LEMMA BelowKeeps ==
  ASSUME NvifInv, FenceInv, FenceCalls', Buried',
         UNCHANGED <<fctx, issued, fence, pendq, notifyRef, lock, thr, gpuOps, gpuSeq, killed>>,
         latch' \in BOOLEAN, irq' \in BOOLEAN
  PROVE  FenceInv'
<1>1. Locking' /\ Workers' /\ Fences' /\ RefCount' /\ Ops' /\ Executed' /\ Signalling'
  BY FenceKept
<1>2. FenceData'
  BY DEF FenceInv, FenceData
<1>. QED  BY <1>1, <1>2 DEF FenceInv

\* Only the notify of the fences is constructed.
LEMMA OnlyNtfy == ASSUME NvifInv, FenceInv, send.pc = "func" PROVE Cur = ntfy
<1>1. Cur \in Notifies /\ live[Cur]
  BY NvifFacts, ListedSafe DEF NvifInv, NoCallbackAfterFini, Busy
<1>2. object[Cur]
  BY <1>1 DEF NvifInv, Lives
<1>. QED  BY <1>1, <1>2 DEF FenceInv, FenceCalls

LEMMA IrqKeeps ==
  ASSUME NvifInv, FenceInv, IrqStep PROVE FenceInv'
<1>1. CASE Handler
  BY <1>1, HandlerKeeps
<1>2. CASE ~Handler
  <2>1. /\ UNCHANGED <<fctx, issued, fence, pendq, notifyRef, lock, thr, gpuOps, gpuSeq, killed>>
        /\ UNCHANGED <<call, object>> /\ latch' \in BOOLEAN /\ irq' \in BOOLEAN
    <3>0. latch \in BOOLEAN /\ irq \in BOOLEAN
      BY DEF FenceInv, FenceData
    <3>1. CASE IrqAck \/ IrqSend
      BY <3>0, <3>1 DEF IrqAck, IrqSend, allVars, nvifVars, fctxVars
    <3>2. CASE (NvkmSend \/ CbInc \/ CbClear \/ CbDec) /\ UNCHANGED fenceVars
      BY <3>0, <3>2 DEF NvkmSend, CbInc, CbClear, CbDec, nvifVars, fenceVars, fctxVars, gpuVars
    <3>. QED  BY <1>2, <3>1, <3>2 DEF IrqStep
  <2>2. \A n \in Notifies \ {ntfy} : putcnt'[n] = putcnt[n]
    <3>1. CASE IrqAck \/ IrqSend \/ NvkmSend \/ CbClear
      BY <3>1 DEF IrqAck, IrqSend, NvkmSend, CbClear, allVars, nvifVars
    <3>2. CASE CbInc \/ CbDec
      <4>1. Cur = ntfy
        BY <3>2, OnlyNtfy, NvifFacts DEF CbInc, CbDec
      <4>. QED  BY <3>2, <4>1, NvifFacts DEF CbInc, CbDec
    <3>. QED  BY <1>2, <3>1, <3>2 DEF IrqStep
  <2>3. FenceCalls'
    BY <2>1, <2>2 DEF FenceInv, FenceCalls
  <2>4. Buried'
    BY <2>1, FenceKept
  <2>. QED  BY <2>1, <2>3, <2>4, BelowKeeps
<1>. QED  BY <1>1, <1>2

\* A call that goes on in nvif code.
LEMMA NvifGoesOn ==
  ASSUME NvifInv, FenceInv, NEW t \in Threads, NvifStep(t)
  PROVE  /\ \A u \in Threads : u # t => call'[u] = call[u]
         /\ call'[t].pc # "idle" =>
              call[t].pc # "idle" /\ call'[t].n = call[t].n /\ call'[t].dtor = call[t].dtor
         /\ \A n \in Notifies : object'[n] => object[n]
         /\ \A n \in Notifies \ {ntfy} : putcnt'[n] = putcnt[n]
<1>0. t \in Users /\ (call[t].pc # "idle" => call[t].n = ntfy)
  BY FenceFacts DEF FenceInv, FenceCalls
<1>1. CASE NvkmUser(t)
  BY <1>1 DEF NvkmUser, nvifVars
<1>2. CASE ~NvkmUser(t)
  <2>1. call[t].pc # "idle"
    BY <1>2 DEF NvifStep, Dec, GetIoctl, Inc, PutIoctl, IoctlReturn, Flush, DelIoctl, DelReturn
  <2>2. Return(t) \/ (\E pc \in CallPcs : Goto(t, pc)) \/ call' = [call EXCEPT ![t] = CallIdle]
    <3>1. {"getIoctl", "getWait", "flush", "putIoctl", "putWait", "delWait"} \subseteq CallPcs
      BY DEF CallPcs
    <3>. QED  BY <1>2, <3>1 DEF NvifStep, Dec, GetIoctl, Inc, PutIoctl, IoctlReturn, Flush, DelIoctl, DelReturn, AfterInc
  <2>3. PICK r : /\ Turn(t, r)
                 /\ r.pc # "idle" => r.n = call[t].n /\ r.dtor = call[t].dtor
    <3>1. CASE Return(t)
      BY <1>0, <2>1, <3>1, Nexts, NvifFacts
    <3>2. CASE \E pc \in CallPcs : Goto(t, pc)
      <4>1. PICK pc \in CallPcs : Goto(t, pc)
        BY <3>2
      <4>2. PICK r : r = [call[t] EXCEPT !.pc = pc]
        OBVIOUS
      <4>3. Turn(t, r) /\ r.n = call[t].n /\ r.dtor = call[t].dtor
        BY <1>0, <2>1, <4>1, <4>2, Nexts
      <4>. QED  BY <4>3
    <3>3. CASE call' = [call EXCEPT ![t] = CallIdle]
      BY <3>3, NvifFacts DEF Turn
    <3>. QED  BY <2>2, <3>1, <3>2, <3>3
  <2>4. call'[t] = r /\ \A u \in Threads : u # t => call'[u] = call[u]
    BY <1>0, <2>3, TurnFacts, FenceFacts
  <2>5. \A n \in Notifies : object'[n] => object[n]
    BY <1>2, NvifFacts DEF NvifStep, Dec, GetIoctl, Inc, PutIoctl, IoctlReturn, Flush, DelIoctl, DelReturn
  <2>6. \A n \in Notifies \ {ntfy} : putcnt'[n] = putcnt[n]
    <3>1. CASE Dec(t) \/ Inc(t)
      BY <1>0, <2>1, <3>1, NvifFacts DEF Dec, Inc
    <3>2. CASE ~(Dec(t) \/ Inc(t))
      BY <1>2, <3>2 DEF NvifStep, GetIoctl, PutIoctl, IoctlReturn, Flush, DelIoctl, DelReturn
    <3>. QED  BY <3>1, <3>2
  <2>. QED  BY <2>1, <2>3, <2>4, <2>5, <2>6
<1>. QED  BY <1>1, <1>2

LEMMA NvifStepKeeps ==
  ASSUME NvifInv, FenceInv, NEW t \in Threads, NvifStep(t), UNCHANGED fenceVars PROVE FenceInv'
<1>1. /\ UNCHANGED <<fctx, issued, fence, pendq, notifyRef, lock, thr, gpuOps, gpuSeq, killed>>
      /\ latch' \in BOOLEAN /\ irq' \in BOOLEAN
  BY DEF fenceVars, fctxVars, gpuVars, FenceInv, FenceData
<1>2. FenceCalls'
  BY <1>1, NvifGoesOn DEF FenceInv, FenceCalls
<1>3. Buried'
  BY <1>1, NvifGoesOn DEF FenceInv, Buried, Dead
<1>. QED  BY <1>1, <1>2, <1>3, BelowKeeps
-----------------------------------------------------------------------------
(* Every step of the fences is a step of NVIF, or leaves NVIF alone.       *)

\* No fence is left to signal when the notify is being deleted.
LEMMA NoDtor ==
  ASSUME NvifInv, FenceInv, NEW t \in Threads, ~NvifMayCall(t, ntfy, FALSE)
  PROVE  Dead
<1>1. PICK v \in Threads : call[v].n = ntfy /\ call[v].dtor
  BY DEF NvifMayCall
<1>2. call[v].pc # "idle"
  BY <1>1, FenceFacts
<1>3. thr[v].op = "del" /\ thr[v].pc = "free"
  BY <1>1, <1>2 DEF FenceInv, FenceCalls
<1>. QED  BY <1>3 DEF Dead

LEMMA PutDrives ==
  ASSUME NvifInv, FenceInv, NEW t \in Threads, ~Dead,
         NvifPut(t, ntfy, FALSE) \/ NvifGet(t, ntfy) \/ UNCHANGED allVars
  PROVE  [NvifNext]_allVars
<1>1. NvifMayCall(t, ntfy, FALSE) /\ ntfy \in Notifies
  BY NoDtor, FenceFacts
<1>. QED  BY <1>1 DEF NvifNext, NvifCall

LEMMA SignalDrives ==
  ASSUME NvifInv, FenceInv, NEW t \in Threads, NEW k \in 0 .. Len(pendq), SignalAndPut(t, k)
  PROVE  [NvifNext]_allVars
<1>1. CASE ~Dead
  BY <1>1, PutDrives DEF SignalAndPut
<1>2. CASE Dead
  <2>1. k = 0
    BY <1>2, FenceFacts DEF FenceInv, Buried
  <2>2. ~Drops(k)
    BY <2>1 DEF Drops
  <2>. QED  BY <2>2 DEF SignalAndPut
<1>. QED  BY <1>1, <1>2

LEMMA FenceDrives ==
  ASSUME NvifInv, FenceInv, [FenceNext]_sysVars
  PROVE  [NvifNext]_allVars
<1>1. CASE UNCHANGED sysVars
  BY <1>1 DEF sysVars
<1>2. ASSUME NEW t \in Threads, ThreadCall(t) PROVE [NvifNext]_allVars
  <2>1. CASE ContextNew(t)
    <3>1. fctx = "none" /\ NvifCtor(t, ntfy)
      BY <2>1 DEF ContextNew
    <3>2. \A v \in Threads : thr[v] = ThrIdle
      BY <3>1 DEF FenceInv, Workers
    <3>3. \A v \in Threads : call[v] = CallIdle
      BY <3>2, FenceFacts DEF Held
    <3>4. NvifMayCall(t, ntfy, TRUE)
      BY <3>3, FenceFacts DEF NvifMayCall
    <3>. QED  BY <3>1, <3>4, FenceFacts DEF NvifNext, NvifCall
  <2>2. CASE ~ContextNew(t)
    <3>1. UNCHANGED allVars
      BY <1>2, <2>2 DEF ThreadCall, EmitPush, EmitFail, PollStart, WaitStart, WaitTimeout, KillStart, DelStart
    <3>. QED  BY <3>1
  <2>. QED  BY <2>1, <2>2
<1>3. ASSUME NEW t \in Threads, ThreadStep(t) PROVE [NvifNext]_allVars
  <2>1. CASE EmitUpdate(t)
    BY <2>1, SignalDrives, RipeFirst DEF EmitUpdate
  <2>2. CASE PollUpdate(t)
    <3>1. PICK k : k = IF fence[thr[t].f].channel THEN Cardinality(Ripe) ELSE 0
      OBVIOUS
    <3>2. k \in 0 .. Len(pendq)
      BY <3>1, RipeFirst, FenceFacts
    <3>. QED  BY <2>2, <3>1, <3>2, SignalDrives DEF PollUpdate
  <2>3. CASE KillAll(t) \/ DelKill(t)
    <3>1. Len(pendq) \in 0 .. Len(pendq)
      BY FenceFacts
    <3>. QED  BY <2>3, <3>1, SignalDrives DEF KillAll, DelKill
  <2>4. CASE WaitEnable(t) \/ WaitTooLate(t)
    <3>1. thr[t].op = "wait" /\ thr[t].pc \in {"lock", "check"} /\ ~fence[thr[t].f].signaled
      BY <2>4, ThreadRecs DEF WaitEnable, WaitTooLate, Lock, Returned, Doing
    <3>2. thr[t].f \in Seqs /\ fence[thr[t].f].pub
      BY <3>1, ThreadRecs DEF Doing
    <3>3. ~Dead
      BY <3>1, <3>2 DEF FenceInv, Buried
    <3>. QED  BY <2>4, <3>3, PutDrives DEF WaitEnable, WaitTooLate
  <2>5. CASE DelDtor(t)
    <3>1. thr[t].op = "del" /\ thr[t].pc = "dtor" /\ NvifPut(t, ntfy, TRUE)
      BY <2>5 DEF DelDtor, Returned
    <3>2. Dead
      BY <3>1 DEF Dead
    <3>3. \A v \in Threads \ {t} : call[v].n # ntfy
      BY <3>1, <3>2, FenceFacts DEF FenceInv, Buried, Workers
    <3>4. NvifMayCall(t, ntfy, TRUE)
      BY <3>3 DEF NvifMayCall
    <3>. QED  BY <3>1, <3>4, FenceFacts DEF NvifNext, NvifCall
  <2>6. CASE NvifStep(t)
    BY <2>6, FenceFacts DEF NvifNext
  <2>7. CASE \/ EmitAdd(t) \/ PollUnlock(t) \/ PollDone(t) \/ WaitSleep(t) \/ WaitEnabled(t)
             \/ WaitSignal(t) \/ WaitDone(t) \/ KillUnlock(t) \/ DelUnlock(t) \/ DelFree(t)
    <3>1. UNCHANGED allVars
      BY <2>7 DEF EmitAdd, PollUnlock, PollDone, WaitSleep, WaitEnabled, WaitSignal, WaitDone,
                  KillUnlock, DelUnlock, DelFree
    <3>. QED  BY <3>1
  <2>. QED  BY <1>3, <2>1, <2>2, <2>3, <2>4, <2>5, <2>6, <2>7 DEF ThreadStep
<1>4. CASE GpuStep \/ \E f \in Seqs : IsSignaled(f)
  <2>1. UNCHANGED allVars
    BY <1>4 DEF GpuStep, IsSignaled
  <2>. QED  BY <2>1
<1>5. CASE IrqStep
  <2>1. CASE IrqAck
    BY <2>1 DEF IrqAck
  <2>2. CASE IrqSend
    <3>1. SendStart(IndexOf[ntfy], TypesOf[ntfy]) /\ UNCHANGED nvifVars
      BY <2>2 DEF IrqSend
    <3>2. IndexOf[ntfy] \in Index /\ TypesOf[ntfy] \in (SUBSET Type) \ {{}}
      <4>1. TypesOf[ntfy] # {}
        BY FenceAssumption
      <4>2. IndexOf \in [Notifies -> Index] /\ TypesOf \in [Notifies -> SUBSET Type] /\ ntfy \in Notifies
        BY NotifyAssumption, FenceFacts
      <4>. QED  BY <4>1, <4>2
    <3>3. Event
      BY <3>1, <3>2, Zenon DEF Event
    <3>4. \A n \in Deferred : putcnt[n] <= MaxPut
      <4>1. \A n \in Deferred : n \in Notifies \ {ntfy} /\ MaxPut >= 1
        BY NvifAssumption, FenceFacts
      <4>. QED  BY <4>1, NvifAssumption DEF FenceInv, FenceCalls
    <3>. QED  BY <3>1, <3>3, <3>4 DEF NvifNext, NvifEvent
  <2>3. CASE Handler
    <3>1. PICK keep : keep = ~Drops(Cardinality(Ripe))
      OBVIOUS
    <3>2. keep \in BOOLEAN /\ CbFunc(keep)
      BY <2>3, <3>1 DEF Handler
    <3>. QED  BY <3>2 DEF NvifNext, CbStep
  <2>4. CASE NvkmSend \/ CbInc \/ CbClear \/ CbDec
    BY <2>4 DEF NvifNext, CbStep
  <2>. QED  BY <1>5, <2>1, <2>2, <2>3, <2>4 DEF IrqStep
<1>. QED  BY <1>1, <1>2, <1>3, <1>4, <1>5 DEF FenceNext

-----------------------------------------------------------------------------
(* The invariant is inductive.                                             *)

LEMMA FenceInitInv == FenceInit => NvifInit /\ NvifInv /\ FenceInv
<1>. SUFFICES ASSUME FenceInit PROVE NvifInit /\ NvifInv /\ FenceInv
  OBVIOUS
<1>1. NvifInit /\ NvifInv
  BY NvifInitInv DEF FenceInit
<1>2. /\ MaxSeq \in Nat /\ None \notin Threads /\ Threads \subseteq Users
  BY FenceAssumption, NvifAssumption
<1>3. ThrIdle \in Thr /\ ThrIdle.pc = "idle" /\ ThrIdle.op = "none"
  BY <1>2 DEF ThrIdle, Thr
<1>4. NewFence \in Fence /\ ~NewFence.pub /\ ~NewFence.signaled /\ ~NewFence.enabled /\ ~NewFence.user
  BY DEF NewFence, Fence
<1>5. /\ fctx = "none" /\ issued = 0 /\ fence = [s \in Seqs |-> NewFence]
      /\ pendq = <<>> /\ notifyRef = 0 /\ lock = None /\ thr = [t \in Threads |-> ThrIdle]
      /\ gpuOps = <<>> /\ gpuSeq = Seqno(0) /\ ~latch /\ ~irq /\ ~killed
      /\ latch \in BOOLEAN /\ irq \in BOOLEAN /\ killed \in BOOLEAN
  BY DEF FenceInit
<1>6. FenceData
  <2>1. Seqno(0) \in 0 .. SeqWrap - 1
    BY <1>2, Seqnos
  <2>. QED  BY <1>2, <1>3, <1>4, <1>5, <2>1 DEF FenceData
<1>7. Locking
  BY <1>2, <1>3, <1>5 DEF Locking, Held
<1>8. Workers
  <2>1. \A t \in Threads : thr[t] = ThrIdle /\ thr[t].op = "none" /\ thr[t].pc = "idle"
    BY <1>3, <1>5
  <2>2. \A t \in Threads : At(thr[t]) /\ Doing(thr[t])
    BY <2>1 DEF At, Doing
  <2>. QED  BY <1>5, <2>1, <2>2 DEF Workers
<1>9. Fences
  BY <1>4, <1>5 DEF Fences, Range
<1>10. Buried
  BY <1>3, <1>5 DEF Buried, Dead
<1>11. FenceCalls
  <2>1. \A t \in Threads : call[t].pc = "idle"
    <3>1. CallIdle.pc = "idle"
      BY DEF CallIdle
    <3>. QED  BY <1>1, <1>2, <3>1 DEF NvifInit
  <2>. QED  BY <1>1, <2>1 DEF FenceCalls, NvifInit
<1>12. RefCount
  <2>1. UsersOf(Range(pendq)) = {} /\ Checking = {}
    BY <1>3, <1>5 DEF UsersOf, Checking, Range
  <2>. QED  BY <1>5, <2>1, FS_EmptySet DEF RefCount
<1>13. Ops
  BY <1>5 DEF Ops
<1>14. Executed
  <2>1. 0 \in 0 .. issued /\ Left = {}
    BY <1>5 DEF Left
  <2>. QED  BY <1>5, <2>1 DEF Executed
<1>15. Signalling
  BY <1>3, <1>5 DEF Signalling
<1>. QED  BY <1>1, <1>6, <1>7, <1>8, <1>9, <1>10, <1>11, <1>12, <1>13, <1>14, <1>15 DEF FenceInv

LEMMA FenceStep == ASSUME NvifInv, FenceInv, [FenceNext]_sysVars PROVE FenceInv'
<1>1. CASE UNCHANGED sysVars
  <2>1. UNCHANGED <<fctx, issued, fence, pendq, notifyRef, lock, thr, gpuOps, gpuSeq, latch, irq,
                    killed, call, object, putcnt>>
    BY <1>1 DEF sysVars, fenceVars, fctxVars, gpuVars, allVars, nvifVars
  <2>2. FenceCalls' /\ Buried' /\ latch' \in BOOLEAN /\ irq' \in BOOLEAN
    BY <2>1, FenceKept DEF FenceInv, FenceData
  <2>. QED  BY <2>1, <2>2, BelowKeeps
<1>2. ASSUME NEW t \in Threads, ThreadCall(t) PROVE FenceInv'
  BY <1>2, ContextKeeps, EmitPushKeeps, EmitFailKeeps, PollSteps, KillStartKeeps, DelStartKeeps
     DEF ThreadCall
<1>3. ASSUME NEW t \in Threads, ThreadStep(t) PROVE FenceInv'
  <2>1. CASE EmitUpdate(t)
    BY <2>1, SignalSteps, RipeFirst DEF EmitUpdate
  <2>2. CASE PollUpdate(t)
    <3>1. PICK k : k = IF fence[thr[t].f].channel THEN Cardinality(Ripe) ELSE 0
      OBVIOUS
    <3>2. k \in 0 .. Len(pendq)
      BY <3>1, RipeFirst, FenceFacts
    <3>. QED  BY <2>2, <3>1, <3>2, SignalSteps DEF PollUpdate
  <2>3. CASE KillAll(t)
    <3>1. Len(pendq) \in 0 .. Len(pendq)
      BY FenceFacts
    <3>. QED  BY <2>3, <3>1, SignalSteps DEF KillAll
  <2>4. CASE DelKill(t)
    <3>1. Len(pendq) \in 0 .. Len(pendq)
      BY FenceFacts
    <3>. QED  BY <2>4, <3>1, SignalSteps DEF DelKill
  <2>5. CASE \/ EmitAdd(t) \/ WaitEnable(t) \/ WaitEnabled(t) \/ WaitTooLate(t) \/ WaitSignal(t)
             \/ DelDtor(t) \/ DelFree(t)
    BY <2>5, EmitAddKeeps, WaitEnableKeeps, WaitEnabledKeeps, WaitTooLateKeeps, WaitSignalKeeps,
       DelDtorKeeps, DelFreeKeeps
  <2>6. CASE NvifStep(t) /\ UNCHANGED fenceVars
    BY <2>6, NvifStepKeeps
  <2>. QED  BY <1>3, <2>1, <2>2, <2>3, <2>4, <2>5, <2>6, PollSteps DEF ThreadStep
<1>4. CASE GpuStep \/ IrqStep \/ \E f \in Seqs : IsSignaled(f)
  BY <1>4, GpuKeeps, IrqKeeps, IsSignaledKeeps
<1>. QED  BY <1>1, <1>2, <1>3, <1>4 DEF FenceNext

\* Induction, and the refinement of NVIF with it.
LEMMA FenceAlways == FenceSpec => []NvifInv /\ []FenceInv /\ NvifSpec
<1>1. NvifInv /\ FenceInv /\ [FenceNext]_sysVars => NvifInv' /\ FenceInv' /\ [NvifNext]_allVars
  BY FenceStep, FenceDrives, NvifStepInv
<1>. QED  BY <1>1, FenceInitInv, PTL DEF FenceSpec, NvifSpec
-----------------------------------------------------------------------------
(* What the fences promise: FenceTimeline.                                 *)

Signaled == {s \in Seqs : fence[s].signaled}

\* Reached, of the fences L that are left of n.
ReachedOf(L, n) == IF L = {} THEN n ELSE (CHOOSE s \in L : \A r \in L : s <= r) - 1

LEMMA ReachedIs ==
  ASSUME NEW n \in Nat, NEW L \in SUBSET (1 .. n), NEW m \in L, \A r \in L : m <= r
  PROVE  ReachedOf(L, n) = m - 1
<1>. DEFINE c == CHOOSE s \in L : \A r \in L : s <= r
<1>1. c \in L /\ \A r \in L : c <= r
  OBVIOUS
<1>. HIDE DEF c
<1>2. c \in Nat /\ m \in Nat /\ c <= m /\ m <= c
  BY <1>1
<1>3. c = m
  BY <1>2
<1>. QED  BY <1>3 DEF ReachedOf, c

\* What is left is in order, so that the first of it, at the head of the queue
\* or behind an interrupt, is the least.
LEMMA FirstLeft ==
  ASSUME NEW q \in Seq(Nat),
         \A i, j \in DOMAIN q : i < j /\ q[i] # 0 /\ q[j] # 0 => q[i] < q[j],
         \A i \in DOMAIN q : i + 1 \in DOMAIN q => q[i] # 0 \/ q[i + 1] # 0
  PROVE  LET L == {q[i] : i \in DOMAIN q} \ {0}
         IN  L # {} => \E m \in L : \A r \in L : m <= r
<1>. DEFINE L == {q[i] : i \in DOMAIN q} \ {0}
<1>. SUFFICES ASSUME L # {} PROVE \E m \in L : \A r \in L : m <= r
  OBVIOUS
<1>1. PICK k \in DOMAIN q : q[k] # 0
  OBVIOUS
<1>2. DOMAIN q = 1 .. Len(q) /\ Len(q) \in Nat /\ \A i \in DOMAIN q : q[i] \in Nat
  OBVIOUS
<1>3. PICK i \in DOMAIN q : q[i] # 0 /\ \A j \in DOMAIN q : j < i => q[j] = 0
  <2>0. 1 \in DOMAIN q /\ (q[1] = 0 => 2 \in DOMAIN q)
    BY <1>1, <1>2
  <2>1. CASE q[1] # 0
    <3>1. \A j \in DOMAIN q : ~(j < 1)
      BY <1>2
    <3>. QED  BY <2>0, <2>1, <3>1
  <2>2. CASE q[1] = 0
    <3>1. q[2] # 0
      <4>1. 2 \in DOMAIN q /\ 1 + 1 = 2
        BY <2>0, <2>2
      <4>2. 1 + 1 \in DOMAIN q => q[1] # 0 \/ q[1 + 1] # 0
        BY <2>0
      <4>. QED  BY <2>2, <4>1, <4>2
    <3>2. \A j \in DOMAIN q : j < 2 => q[j] = 0
      BY <1>2, <2>2
    <3>. QED  BY <2>0, <2>2, <3>1, <3>2
  <2>. QED  BY <2>1, <2>2
<1>4. q[i] \in L
  BY <1>3
<1>5. ASSUME NEW r \in L PROVE q[i] <= r
  <2>1. PICK j \in DOMAIN q : r = q[j] /\ r # 0
    OBVIOUS
  <2>2. j = i \/ i < j
    BY <1>2, <1>3, <2>1
  <2>. QED  BY <1>2, <1>3, <2>1, <2>2
<1>. QED  BY <1>4, <1>5

\* The channel is before the first fence that it has left.
LEMMA ReachedFacts ==
  ASSUME NvifInv, FenceInv
  PROVE  /\ Reached = ReachedOf(Left, issued)
         /\ Left = {} => Reached = issued
         /\ Left # {} => Reached + 1 \in Left /\ \A s \in Left : Reached + 1 <= s
         /\ Reached \in 0 .. issued
         /\ issued \in Nat /\ Left \in SUBSET (1 .. issued)
<1>1. Reached = ReachedOf(Left, issued)
  BY DEF Reached, ReachedOf
<1>2. issued \in Nat /\ Left \in SUBSET (1 .. issued)
  BY OpsFacts
<1>3. Left = {} => Reached = issued
  BY <1>1 DEF ReachedOf
<1>4. Left # {} => \E m \in Left : \A r \in Left : m <= r
  <2>1. gpuOps \in Seq(Nat)
    BY OpsFacts
  <2>2. Ops
    BY DEF FenceInv
  <2>. QED  BY <2>1, <2>2, FirstLeft DEF Ops, Left
<1>5. ASSUME Left # {} PROVE Reached + 1 \in Left /\ \A s \in Left : Reached + 1 <= s
  <2>1. PICK m \in Left : \A r \in Left : m <= r
    BY <1>4, <1>5
  <2>2. Reached = m - 1 /\ m \in Nat
    BY <1>1, <1>2, <2>1, ReachedIs
  <2>. QED  BY <2>1, <2>2
<1>6. Reached \in 0 .. issued
  <2>1. CASE Left = {}
    BY <1>2, <1>3, <2>1
  <2>2. CASE Left # {}
    <3>1. PICK m \in Left : \A r \in Left : m <= r
      BY <1>4, <2>2
    <3>2. Reached = m - 1 /\ m \in 1 .. issued
      BY <1>1, <1>2, <3>1, ReachedIs
    <3>. QED  BY <1>2, <3>2
  <2>. QED  BY <2>1, <2>2
<1>. QED  BY <1>1, <1>2, <1>3, <1>5, <1>6

\* A step that leaves the promise as it is.
LEMMA TimelineSame ==
  ASSUME UNCHANGED <<issued, gpuOps, Stopped, Signaled>>
  PROVE  UNCHANGED Timeline!timelineVars
<1>1. Reached' = Reached
  BY DEF Reached, Left
<1>. QED  BY <1>1 DEF Timeline!timelineVars, Stopped, Signaled

\* A step that signals fences that the channel has passed.
LEMMA TimelineSignals ==
  ASSUME NvifInv, FenceInv, NEW S \in SUBSET Seqs, Signaled' = Signaled \cup S,
         UNCHANGED <<issued, gpuOps, fctx, killed>>,
         \A f \in S : fence[f].pub, Stopped \/ \A f \in S : \A s \in Left : f < s
  PROVE  [Timeline!TimelineNext]_(Timeline!timelineVars)
<1>1. UNCHANGED <<issued, Reached, Stopped>>
  BY DEF Reached, Left, Stopped
<1>2. CASE S = {}
  BY <1>1, <1>2, TimelineSame
<1>3. CASE S # {}
  <2>1. S \in (SUBSET (1 .. issued)) \ {{}}
    <3>1. ASSUME NEW f \in S PROVE f \in 1 .. issued
      <4>1. f \in Seqs /\ fence[f].pub
        OBVIOUS
      <4>2. f <= issued
        BY <4>1 DEF FenceInv, Fences
      <4>3. f \in Nat /\ 1 <= f /\ issued \in Nat
        BY <4>1, OpsFacts DEF Seqs
      <4>. QED  BY <4>2, <4>3
    <3>. QED  BY <1>3, <3>1
  <2>2. Stopped \/ \A f \in S : f <= Reached
    <3>. SUFFICES ASSUME ~Stopped, NEW f \in S PROVE f <= Reached
      OBVIOUS
    <3>1. \A s \in Left : f < s
      OBVIOUS
    <3>2. f \in 1 .. issued /\ issued \in Nat
      BY <2>1, OpsFacts
    <3>. QED  BY <3>1, <3>2, ReachedFacts
  <2>3. Timeline!TimelineSignal
    BY <1>1, <2>1, <2>2 DEF Timeline!TimelineSignal, Stopped, Signaled
  <2>. QED  BY <2>3 DEF Timeline!TimelineNext
<1>. QED  BY <1>2, <1>3

\* Signalling the first of the pending fences.
LEMMA FirstSignals ==
  ASSUME NvifInv, FenceInv, NEW k \in 0 .. Len(pendq), SignalFirst(k),
         UNCHANGED <<issued, gpuOps, fctx, killed>>, Stopped \/ 1 .. k \subseteq Ripe
  PROVE  [Timeline!TimelineNext]_(Timeline!timelineVars)
<1>. DEFINE S == {pendq[i] : i \in 1 .. k}
<1>1. /\ S \subseteq Range(pendq)
      /\ \A s \in Seqs : fence'[s].signaled <=> s \in S \/ fence[s].signaled
  BY Signals
<1>2. S \subseteq Seqs /\ \A f \in S : fence[f].pub
  BY <1>1, FenceFacts DEF FenceInv, Fences
<1>3. ASSUME ~Stopped, NEW f \in S PROVE \A s \in Left : f < s
  <2>1. PICK i \in 1 .. k : f = pendq[i]
    OBVIOUS
  <2>2. i \in Ripe /\ i \in 1 .. i
    BY <1>3
  <2>3. Completed(f)
    BY <2>1, <2>2 DEF Ripe
  <2>. QED  BY <1>2, <1>3, <2>3, Reaches
<1>. HIDE DEF S
<1>4. Signaled' = Signaled \cup S
  BY <1>1, <1>2 DEF Signaled
<1>. QED  BY <1>2, <1>3, <1>4, TimelineSignals

\* The number that is taken by an emission, with what it has left to execute.
LEMMA TimelineEmits ==
  ASSUME NvifInv, FenceInv, issued < MaxSeq, issued' = issued + 1,
         Left' = Left \/ Left' = Left \cup {issued + 1},
         UNCHANGED <<Signaled, Stopped>>
  PROVE  Timeline!TimelineEmit
<1>1. issued \in Nat /\ Left \in SUBSET (1 .. issued) /\ Reached \in 0 .. issued
  BY ReachedFacts
<1>2. Reached' = ReachedOf(Left', issued')
  BY DEF Reached, ReachedOf
<1>3. issued' \in Nat /\ Left' \in SUBSET (1 .. issued')
  <2>1. 1 .. issued \subseteq 1 .. issued' /\ issued + 1 \in 1 .. issued' /\ issued' \in Nat
    BY <1>1
  <2>. QED  BY <1>1, <2>1
<1>4. CASE Left # {}
  <2>1. Reached + 1 \in Left /\ \A s \in Left : Reached + 1 <= s
    BY <1>4, ReachedFacts
  <2>2. Reached + 1 \in Left' /\ \A s \in Left' : Reached + 1 <= s
    <3>1. Reached + 1 <= issued + 1
      BY <1>1
    <3>. QED  BY <2>1, <3>1
  <2>3. Reached' = Reached
    BY <1>1, <1>2, <1>3, <2>2, ReachedIs
  <2>. QED  BY <1>1, <2>3 DEF Timeline!TimelineEmit, Signaled, Stopped
<1>5. CASE Left = {} /\ Left' = {}
  <2>1. Reached = issued /\ Reached' = issued'
    BY <1>2, <1>5, ReachedFacts DEF ReachedOf
  <2>. QED  BY <1>1, <2>1 DEF Timeline!TimelineEmit, Signaled, Stopped
<1>6. CASE Left = {} /\ Left' # {}
  <2>1. Left' = {issued + 1}
    BY <1>6
  <2>2. Reached = issued /\ Reached' = issued
    <3>1. \A r \in Left' : issued' <= r
      BY <1>1, <2>1
    <3>2. issued' \in Left'
      BY <2>1
    <3>3. Reached' = issued' - 1
      BY <1>2, <1>3, <3>1, <3>2, ReachedIs
    <3>. QED  BY <1>1, <1>6, <3>3, ReachedFacts
  <2>. QED  BY <1>1, <2>2 DEF Timeline!TimelineEmit, Signaled, Stopped
<1>. QED  BY <1>4, <1>5, <1>6

\* The channel executes a release.
LEMMA TimelineExecutes ==
  ASSUME NvifInv, FenceInv, GpuStep
  PROVE  [Timeline!TimelineNext]_(Timeline!timelineVars)
<1>. DEFINE h == Head(gpuOps)
<1>1. /\ gpuOps # <<>> /\ gpuOps' = Tail(gpuOps)
      /\ UNCHANGED <<issued, fence, fctx, killed>>
  BY DEF GpuStep, fctxVars
<1>2. /\ Left' = Left \ {h} /\ h \in 0 .. issued
      /\ h # 0 => h \in Left /\ \A s \in Left' : h < s
      /\ h = 0 => Left' = Left
  BY <1>1, Executes
<1>. HIDE DEF h
<1>3. UNCHANGED <<issued, Signaled, Stopped>>
  BY <1>1 DEF Signaled, Stopped
<1>4. CASE h = 0
  <2>1. Reached = ReachedOf(Left, issued) /\ Reached' = ReachedOf(Left', issued')
    BY DEF Reached, ReachedOf
  <2>2. Left' = Left /\ issued' = issued
    BY <1>2, <1>3, <1>4
  <2>3. Reached' = Reached
    BY <2>1, <2>2
  <2>. QED  BY <1>3, <2>3 DEF Timeline!timelineVars, Signaled, Stopped
<1>5. CASE h # 0
  <2>1. /\ issued \in Nat /\ Left \in SUBSET (1 .. issued)
        /\ Reached = ReachedOf(Left, issued) /\ Reached' = ReachedOf(Left', issued)
    BY <1>3, ReachedFacts DEF Reached, ReachedOf
  <2>2. h \in Nat /\ h <= issued /\ \A r \in Left : h <= r
    BY <1>2, <1>5, <2>1
  <2>3. Reached = h - 1
    BY <1>2, <1>5, <2>1, <2>2, ReachedIs
  <2>4. Reached' \in h .. issued
    <3>1. CASE Left' = {}
      BY <2>1, <2>2, <3>1 DEF ReachedOf
    <3>2. CASE Left' # {}
      <4>1. Reached + 1 \in Left /\ Left' \in SUBSET (1 .. issued)
        BY <1>2, <1>5, <2>1, ReachedFacts
      <4>2. PICK m \in Left' : \A r \in Left' : m <= r
        <5>1. gpuOps' \in Seq(0 .. MaxSeq) /\ Ops'
          BY <1>1, Executes
        <5>2. gpuOps' \in Seq(Nat)
          BY <5>1, OpsFacts
        <5>. QED  BY <3>2, <5>1, <5>2, FirstLeft DEF Ops, Left
      <4>3. Reached' = m - 1 /\ m \in 1 .. issued /\ h < m
        BY <1>2, <1>5, <2>1, <4>1, <4>2, ReachedIs
      <4>. QED  BY <2>1, <2>2, <4>3
    <3>. QED  BY <3>1, <3>2
  <2>5. Timeline!TimelineExecute
    <3>1. Reached' \in Reached + 1 .. issued
      BY <2>2, <2>3, <2>4
    <3>. QED  BY <1>3, <3>1 DEF Timeline!TimelineExecute, Signaled, Stopped
  <2>. QED  BY <2>5 DEF Timeline!TimelineNext
<1>. QED  BY <1>4, <1>5

\* A step that signals no fence.
LEMMA SignaledKept ==
  ASSUME NvifInv, FenceInv,
         \/ UNCHANGED fence
         \/ \E f \in Seqs :
              \/ fence' = [fence EXCEPT ![f].pub = TRUE]
              \/ fence' = [fence EXCEPT ![f].channel = TRUE]
              \/ fence' = [fence EXCEPT ![f].enabled = TRUE]
              \/ fence' = [fence EXCEPT ![f].user = TRUE]
  PROVE  Signaled' = Signaled
<1>1. CASE UNCHANGED fence
  BY <1>1 DEF Signaled
<1>2. ASSUME NEW f \in Seqs,
              \/ fence' = [fence EXCEPT ![f].pub = TRUE]
              \/ fence' = [fence EXCEPT ![f].channel = TRUE]
              \/ fence' = [fence EXCEPT ![f].enabled = TRUE]
              \/ fence' = [fence EXCEPT ![f].user = TRUE]
      PROVE  Signaled' = Signaled
  <2>1. fence[f] \in Fence /\ \A s \in Seqs : s # f => fence'[s] = fence[s]
    BY <1>2, Marks
  <2>2. fence'[f].signaled = fence[f].signaled
    <3>1. \/ fence'[f] = [fence[f] EXCEPT !.pub = TRUE]
          \/ fence'[f] = [fence[f] EXCEPT !.channel = TRUE]
          \/ fence'[f] = [fence[f] EXCEPT !.enabled = TRUE]
          \/ fence'[f] = [fence[f] EXCEPT !.user = TRUE]
      BY <1>2, Marks
    <3>. QED  BY <2>1, <3>1 DEF Fence
  <2>3. \A s \in Seqs : fence'[s].signaled = fence[s].signaled
    BY <2>1, <2>2
  <2>. QED  BY <2>3 DEF Signaled
<1>. QED  BY <1>1, <1>2

\* A fence that is signalled on its own.
LEMMA OneSignals ==
  ASSUME NvifInv, FenceInv, NEW f \in Seqs, fence[f].pub,
         fence' = [fence EXCEPT ![f].signaled = TRUE],
         UNCHANGED <<issued, gpuOps, fctx, killed>>, Stopped \/ \A s \in Left : f < s
  PROVE  [Timeline!TimelineNext]_(Timeline!timelineVars)
<1>1. /\ fence[f] \in Fence /\ fence'[f] = [fence[f] EXCEPT !.signaled = TRUE]
      /\ \A s \in Seqs : s # f => fence'[s] = fence[s]
  BY Marks
<1>2. fence'[f].signaled
  BY <1>1 DEF Fence
<1>3. Signaled' = Signaled \cup {f}
  BY <1>1, <1>2 DEF Signaled
<1>4. {f} \in SUBSET Seqs /\ \A g \in {f} : fence[g].pub
  OBVIOUS
<1>. QED  BY <1>3, <1>4, TimelineSignals

\* The steps that take a number for a new fence.
LEMMA EmitTimeline ==
  ASSUME NvifInv, FenceInv, NEW t \in Threads, EmitPush(t) \/ EmitFail(t)
  PROVE  Timeline!TimelineEmit
<1>1. /\ issued < MaxSeq /\ issued' = issued + 1 /\ issued + 1 \in Seqs
      /\ UNCHANGED <<fctx, killed>>
      /\ \/ UNCHANGED <<fence, gpuOps>>
         \/ /\ fence' = [fence EXCEPT ![issued + 1].channel = TRUE]
            /\ gpuOps' = gpuOps \o <<issued + 1, 0>>
  <2>1. issued < MaxSeq => issued + 1 \in Seqs
    BY OpsFacts DEF Seqs
  <2>2. CASE EmitPush(t)
    BY <2>1, <2>2 DEF EmitPush
  <2>3. CASE EmitFail(t)
    BY <2>1, <2>3 DEF EmitFail, gpuVars
  <2>. QED  BY <2>2, <2>3
<1>2. Signaled' = Signaled /\ Stopped' = Stopped
  BY <1>1, SignaledKept DEF Stopped
<1>3. Left' = Left \/ Left' = Left \cup {issued + 1}
  <2>1. CASE UNCHANGED gpuOps
    BY <2>1 DEF Left
  <2>2. CASE gpuOps' = gpuOps \o <<issued + 1, 0>>
    BY <1>1, <2>2, Pushes
  <2>. QED  BY <1>1, <2>1, <2>2
<1>. QED  BY <1>1, <1>2, <1>3, TimelineEmits

\* The steps of a thread that neither signal, emit nor stop.
LEMMA QuietTimeline ==
  ASSUME NvifInv, FenceInv, NEW t \in Threads,
         \/ ContextNew(t)
         \/ \E f \in Seqs : PollStart(t, f) \/ WaitStart(t, f)
         \/ WaitTimeout(t) \/ EmitAdd(t) \/ PollUnlock(t) \/ PollDone(t)
         \/ WaitEnable(t) \/ WaitSleep(t) \/ WaitEnabled(t) \/ WaitTooLate(t) \/ WaitDone(t)
         \/ KillUnlock(t) \/ DelUnlock(t) \/ DelDtor(t) \/ DelFree(t)
         \/ NvifStep(t) /\ UNCHANGED fenceVars
  PROVE  UNCHANGED Timeline!timelineVars
<1>1. UNCHANGED <<issued, gpuOps>>
  BY DEF ContextNew, PollStart, WaitStart, WaitTimeout, EmitAdd, PollUnlock, PollDone, WaitEnable,
         WaitSleep, WaitEnabled, WaitTooLate, WaitDone, KillUnlock, DelUnlock, DelDtor, DelFree,
         fenceVars, fctxVars, gpuVars
<1>2. UNCHANGED Stopped
  <2>1. CASE ContextNew(t)
    BY <2>1 DEF ContextNew, Stopped
  <2>2. CASE DelFree(t)
    <3>1. thr[t].op = "del" /\ fctx' = "freed"
      BY <2>2 DEF DelFree, Returned
    <3>2. fctx = "dying"
      BY <3>1, ThreadRecs DEF Doing
    <3>. QED  BY <3>1, <3>2 DEF Stopped
  <2>3. CASE ~ContextNew(t) /\ ~DelFree(t)
    <3>1. UNCHANGED <<fctx, killed>>
      BY <2>3 DEF PollStart, WaitStart, WaitTimeout, EmitAdd, PollUnlock, PollDone, WaitEnable,
         WaitSleep, WaitEnabled, WaitTooLate, WaitDone, KillUnlock, DelUnlock, DelDtor,
         fenceVars, fctxVars
    <3>. QED  BY <3>1 DEF Stopped
  <2>. QED  BY <2>1, <2>2, <2>3
<1>3. \/ UNCHANGED fence
      \/ \E f \in Seqs :
           \/ fence' = [fence EXCEPT ![f].pub = TRUE]
           \/ fence' = [fence EXCEPT ![f].enabled = TRUE]
           \/ fence' = [fence EXCEPT ![f].user = TRUE]
  <2>1. CASE EmitAdd(t) \/ WaitEnable(t) \/ WaitEnabled(t)
    <3>1. thr[t].f \in Seqs
      <4>1. thr[t].op \in {"emit", "wait"}
        BY <2>1 DEF EmitAdd, WaitEnable, WaitEnabled, Returned, Lock
      <4>. QED  BY <4>1, ThreadRecs DEF Doing
    <3>. QED  BY <2>1, <3>1 DEF EmitAdd, WaitEnable, WaitEnabled
  <2>2. CASE ~EmitAdd(t) /\ ~WaitEnable(t) /\ ~WaitEnabled(t)
    BY <2>2 DEF ContextNew, PollStart, WaitStart, WaitTimeout, PollUnlock, PollDone,
         WaitSleep, WaitTooLate, WaitDone, KillUnlock, DelUnlock, DelDtor, DelFree,
         fenceVars, fctxVars
  <2>. QED  BY <2>1, <2>2
<1>4. UNCHANGED Signaled
  BY <1>3, SignaledKept
<1>. QED  BY <1>1, <1>2, <1>4, TimelineSame

\* The steps that signal the first of the pending fences under fctx->lock.
LEMMA UpdateTimeline ==
  ASSUME NvifInv, FenceInv, NEW t \in Threads,
         EmitUpdate(t) \/ PollUpdate(t) \/ KillAll(t) \/ DelKill(t)
  PROVE  [Timeline!TimelineNext]_(Timeline!timelineVars)
<1>1. UNCHANGED <<issued, gpuOps, fctx, killed>>
  BY DEF EmitUpdate, PollUpdate, KillAll, DelKill, gpuVars
<1>2. PICK k : /\ SignalFirst(k)
               /\ \/ EmitUpdate(t) /\ k = Cardinality(Ripe)
                  \/ PollUpdate(t) /\ k \in {0, Cardinality(Ripe)}
                  \/ (KillAll(t) \/ DelKill(t)) /\ k = Len(pendq)
  BY DEF EmitUpdate, PollUpdate, KillAll, DelKill, SignalAndPut
<1>3. Len(pendq) \in Nat /\ Cardinality(Ripe) \in 0 .. Len(pendq) /\ Ripe = 1 .. Cardinality(Ripe)
  BY FenceFacts, RipeFirst
<1>4. k \in 0 .. Len(pendq)
  BY <1>2, <1>3
<1>5. Stopped \/ 1 .. k \subseteq Ripe
  <2>1. CASE k = 0 \/ k = Cardinality(Ripe)
    BY <1>3, <2>1
  <2>2. CASE KillAll(t) \/ DelKill(t)
    <3>1. thr[t].op \in {"kill", "del"}
      BY <2>2 DEF KillAll, DelKill, Lock
    <3>. QED  BY <3>1, ThreadRecs DEF Doing, Stopped
  <2>. QED  BY <1>2, <2>1, <2>2
<1>. QED  BY <1>1, <1>2, <1>4, <1>5, FirstSignals

\* The handler of the interrupt.
LEMMA HandlerTimeline ==
  ASSUME NvifInv, FenceInv, Handler
  PROVE  [Timeline!TimelineNext]_(Timeline!timelineVars)
<1>1. UNCHANGED <<issued, gpuOps, fctx, killed>> /\ SignalFirst(Cardinality(Ripe))
  BY DEF Handler, gpuVars
<1>. QED  BY <1>1, RipeFirst, FirstSignals

\* dma_fence_is_signaled, and the waiter that is too late to enable signalling.
LEMMA OneTimeline ==
  ASSUME NvifInv, FenceInv,
         (\E f \in Seqs : IsSignaled(f)) \/ \E t \in Threads : WaitSignal(t)
  PROVE  [Timeline!TimelineNext]_(Timeline!timelineVars)
<1>1. ASSUME NEW f \in Seqs, IsSignaled(f) PROVE [Timeline!TimelineNext]_(Timeline!timelineVars)
  <2>1. /\ fence[f].pub /\ Completed(f) /\ fence' = [fence EXCEPT ![f].signaled = TRUE]
        /\ UNCHANGED <<issued, gpuOps, fctx, killed>>
    BY <1>1 DEF IsSignaled, gpuVars
  <2>2. Stopped \/ \A s \in Left : f < s
    BY <2>1, Reaches
  <2>. QED  BY <2>1, <2>2, OneSignals
<1>2. ASSUME NEW t \in Threads, WaitSignal(t) PROVE [Timeline!TimelineNext]_(Timeline!timelineVars)
  <2>1. /\ thr[t].op = "wait" /\ thr[t].pc = "signal"
        /\ fence' = [fence EXCEPT ![thr[t].f].signaled = TRUE]
        /\ UNCHANGED <<issued, gpuOps, fctx, killed>>
    BY <1>2 DEF WaitSignal, Returned, gpuVars
  <2>2. thr[t].f \in Seqs /\ fence[thr[t].f].pub
    BY <2>1, ThreadRecs DEF Doing
  <2>3. Stopped \/ \A s \in Left : thr[t].f < s
    BY <2>1 DEF FenceInv, Signalling
  <2>. QED  BY <2>1, <2>2, <2>3, OneSignals
<1>. QED  BY <1>1, <1>2

\* nouveau_channel_killed and nouveau_channel_del, which stop the channel.
LEMMA StopTimeline ==
  ASSUME NvifInv, FenceInv, NEW t \in Threads, KillStart(t) \/ DelStart(t)
  PROVE  Timeline!TimelineStop
<1>1. UNCHANGED <<issued, gpuOps, fence>> /\ Stopped'
  BY DEF KillStart, DelStart, fctxVars, gpuVars, Stopped
<1>2. UNCHANGED <<Reached, Signaled>>
  BY <1>1 DEF Reached, Left, Signaled
<1>. QED  BY <1>1, <1>2 DEF Timeline!TimelineStop, Stopped, Signaled

\* Every step of the fences is one of the promise, or leaves it as it is.
LEMMA TimelineStep ==
  ASSUME NvifInv, FenceInv, [FenceNext]_sysVars
  PROVE  [Timeline!TimelineNext]_(Timeline!timelineVars)
<1>1. CASE UNCHANGED sysVars
  <2>1. UNCHANGED <<issued, gpuOps, Stopped, Signaled>>
    BY <1>1 DEF sysVars, fenceVars, fctxVars, gpuVars, Stopped, Signaled
  <2>. QED  BY <2>1, TimelineSame
<1>2. ASSUME NEW t \in Threads, ThreadCall(t)
      PROVE  [Timeline!TimelineNext]_(Timeline!timelineVars)
  <2>1. CASE EmitPush(t) \/ EmitFail(t)
    BY <2>1, EmitTimeline DEF Timeline!TimelineNext
  <2>2. CASE KillStart(t) \/ DelStart(t)
    BY <2>2, StopTimeline DEF Timeline!TimelineNext
  <2>. QED  BY <1>2, <2>1, <2>2, QuietTimeline DEF ThreadCall
<1>3. ASSUME NEW t \in Threads, ThreadStep(t)
      PROVE  [Timeline!TimelineNext]_(Timeline!timelineVars)
  BY <1>3, UpdateTimeline, OneTimeline, QuietTimeline DEF ThreadStep
<1>4. CASE IrqStep
  <2>1. CASE Handler
    BY <2>1, HandlerTimeline
  <2>2. CASE ~Handler
    <3>1. UNCHANGED <<issued, gpuOps, fence, fctx, killed>>
      BY <1>4, <2>2 DEF IrqStep, IrqAck, IrqSend, fenceVars, fctxVars, gpuVars
    <3>2. UNCHANGED <<issued, gpuOps, Stopped, Signaled>>
      BY <3>1 DEF Stopped, Signaled
    <3>. QED  BY <3>2, TimelineSame
  <2>. QED  BY <2>1, <2>2
<1>5. CASE GpuStep \/ \E f \in Seqs : IsSignaled(f)
  BY <1>5, TimelineExecutes, OneTimeline
<1>. QED  BY <1>1, <1>2, <1>3, <1>4, <1>5 DEF FenceNext

LEMMA TimelineStarts == ASSUME FenceInit PROVE Timeline!TimelineInit
<1>1. issued = 0 /\ gpuOps = <<>> /\ fctx = "none" /\ ~killed
      /\ fence = [s \in Seqs |-> NewFence]
  BY DEF FenceInit
<1>2. Left = {}
  BY <1>1 DEF Left
<1>3. Reached = 0
  BY <1>1, <1>2 DEF Reached
<1>4. {s \in Seqs : fence[s].signaled} = {}
  BY <1>1 DEF NewFence
<1>. QED  BY <1>1, <1>3, <1>4 DEF Timeline!TimelineInit

-----------------------------------------------------------------------------
(* What is proved.                                                         *)

\* The fences, their waiters, the channel's deletion and the interrupt use their
\* notify only as NVIF allows: nothing gets, puts or drops it before it is made
\* or once it is destroyed (nouveau_fence.c:64, 123, 519-526; nv84_fence.c:125).
THEOREM FencesDriveNvif == FenceSpec => NvifSpec
BY FenceAlways, PTL

\* So the notify below has the guarantees of NVKM and NVIF: the hardware's
\* references and the block counts are exact, no callback runs after the notify
\* is destroyed, and putcnt accounts for its users.
COROLLARY NotifyBelowFences ==
  FenceSpec => [](RefsExact /\ BlockAccounts /\ NoCallbackAfterFini /\ PutcntAccounts
                    /\ NoCallbackAfterDtor)
BY FencesDriveNvif, NvkmBelowNvif, PutcntCorrect, NoCallbackAfter, PTL

\* fctx->notify_ref never underflows: it is what the waiters have taken and the
\* signals have not given back (nouveau_fence.c:64, 520, 526).
THEOREM NotifyRefCorrect == FenceSpec => []NotifyRefExact
<1>1. NvifInv /\ FenceInv => NotifyRefExact
  <2>. SUFFICES ASSUME NvifInv, FenceInv PROVE NotifyRefExact
    OBVIOUS
  <2>1. NvifTypeOK
    BY DEF NvifInv, PutcntAccounts
  <2>2. FenceTypeOK
    BY <2>1 DEF FenceTypeOK, FenceInv, FenceData, Fence, Thr
  <2>3. notifyRef = Cardinality({s \in Range(pendq) : fence[s].user})
                      + Cardinality({t \in Threads : thr[t].op = "wait" /\ thr[t].pc = "check"})
    BY DEF FenceInv, RefCount, UsersOf, Checking
  <2>. QED  BY <2>2, <2>3 DEF NotifyRefExact
<1>. QED  BY <1>1, FenceAlways, PTL

\* nouveau_fence_update may stop at the first fence that is not completed, the
\* handler may read the channel of the first (nouveau_fence.c:133-176), and the
\* context is freed with nothing pending.
THEOREM PendingCorrect == FenceSpec => []PendingSound
<1>1. FenceInv => PendingSound
  BY DEF PendingSound, FenceInv, Fences, Buried, Dead
<1>. QED  BY <1>1, FenceAlways, PTL

\* A fence is signalled only after the channel has executed up to it, or was
\* killed or deleted, and stays signalled, however the numbers of the fences wrap
\* (nouveau_fence.c:51-81, 133-147, 160-181; nouveau_fence.h's seqno).
THEOREM TimelineHolds == FenceSpec => TimelineRefined
<1>1. NvifInv /\ FenceInv /\ [FenceNext]_sysVars => [Timeline!TimelineNext]_(Timeline!timelineVars)
  BY TimelineStep
<1>2. FenceInit => Timeline!TimelineInit
  BY TimelineStarts
<1>. QED  BY <1>1, <1>2, FenceAlways, PTL DEF TimelineRefined, Timeline!TimelineSpec, FenceSpec
=============================================================================
