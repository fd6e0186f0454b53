------------------------- MODULE FalconQueueProofs -------------------------
(***************************************************************************)
(* Proofs about FalconQueue, for any callers, sizes of the queues and of   *)
(* what is in them, and number of sequences: an answer finds its command,  *)
(* and the ring of commands is the FIFO that FalconChannel describes.      *)
(***************************************************************************)
EXTENDS FalconQueue, FiniteSetTheorems, SequenceTheorems, WellFoundedInduction, NaturalsInduction,
        TLAPS

-----------------------------------------------------------------------------
(* The inductive invariant.                                                *)

Ring == 0 .. RingSize - 1
SizeOf(c) == CmdSize[c.who]

\* The command c stands at p.
Block(p, c) ==
  /\ p + SizeOf(c) <= RingSize
  /\ \A i \in 0 .. SizeOf(c) - 1 : dmem[p + i] = [cmd |-> c, at |-> i]

\* Where the reader goes on from e.
Onward(e) == IF e # head /\ e \in Ring /\ dmem[e] = Rewind THEN 0 ELSE e

\* The reader finds the commands Q at P[0], P[1], ... and comes to head.  None
\* of them reaches into what is free.
Path(P, Q) ==
  /\ Q \in Seq(Command) /\ P \in [0 .. Len(Q) -> Ring]
  /\ P[0] = Onward(tail) /\ P[Len(Q)] = head
  /\ \A i \in 1 .. Len(Q) :
       LET end == P[i - 1] + SizeOf(Q[i]) IN
       /\ Block(P[i - 1], Q[i]) /\ P[i] = Onward(end)
       /\ tail <= head => tail <= P[i - 1] /\ end <= head
       /\ head < tail => tail <= P[i - 1] \/ end <= head

\* There is a REWIND if the ring has wrapped, behind all commands of the first
\* lap, and otherwise one at most, that the holder of the lock has put at head.
Rewinds(P, Q) ==
  /\ \A r \in Ring : dmem[r] = Rewind =>
       \/ head < tail /\ tail <= r /\ \A i \in 1 .. Len(Q) : P[i - 1] < r
       \/ tail <= head /\ r = head /\ cmdqLock # Nothing
  /\ \A r, s \in Ring : dmem[r] = Rewind /\ dmem[s] = Rewind => r = s
  /\ head < tail => \E r \in Ring : dmem[r] = Rewind

Laid == \E P : Path(P, Queued) /\ Rewinds(P, Queued)

\* What the holder of the lock has, from b on.
Reserved(t, b) ==
  \/ /\ b = head /\ dmem[head] # Rewind
     /\ head + CmdSize[t] < IF tail <= head THEN RingSize ELSE tail
  \/ b = 0 /\ tail <= head /\ dmem[head] = Rewind /\ CmdSize[t] < tail

Own(t) == [who |-> t, seq |-> sender[t].seq]

Holders ==
  \A t \in Senders :
    /\ cmdqLock = t <=> sender[t].pc \in {"push", "close"}
    /\ sender[t].pc = "push" => Reserved(t, position)
    /\ sender[t].pc = "close" =>
         LET b == position - CmdSize[t] IN b \in Ring /\ Reserved(t, b) /\ Block(b, Own(t))

\* Before the queue is announced nothing is sent.
Before == {"write", "push", "close"}

Announced ==
  /\ \A t \in Senders : sender[t].pc \in Before => ready
  /\ ~ready => Queued = <<>> /\ fw = {}

Roles ==
  /\ \A t \in Callers : sender[t].pc \notin {"init", "recv"}
  /\ sender[Worker].pc # "wait"

\* The message queue: what has not been read is one message after the other.
Msgs == {p \in DOMAIN mdata : mdata[p] # Nothing}
Answers == {p \in Msgs : mdata[p] # InitMessage}
EndOf(p) == p + mdata[p].size

Messages ==
  /\ \A p \in Msgs : /\ MsgStart <= p /\ EndOf(p) <= mhead
                     /\ EndOf(p) < mhead => EndOf(p) \in Msgs
  /\ \A p, q \in Msgs : p < q => EndOf(p) <= q
  /\ mhead # mtail => MsgStart \in Msgs
  /\ \A p \in Answers : mdata[p].seq \in SeqIds /\ mdata[p].size = AnswerSize

\* A command is in one place.
AnswerOf(p) == [who |-> mdata[p].who, seq |-> mdata[p].seq]

Once ==
  /\ \A i, j \in DOMAIN Queued : Queued[i].seq = Queued[j].seq => i = j
  /\ \A p, q \in Answers : mdata[p].seq = mdata[q].seq => p = q
  /\ \A i \in DOMAIN Queued : Queued[i] \notin fw
  /\ \A p \in Answers : AnswerOf(p) \notin fw /\ \A i \in DOMAIN Queued : AnswerOf(p) # Queued[i]

\* Who uses a sequence, and what is in flight with it.
Using(t) == sender[t].pc \in Before \cup {"wait"}

Sequences ==
  /\ \A c \in InFlight : seq[c.seq].used
  /\ \A c, d \in InFlight : c.seq = d.seq => c = d
  /\ \A t, u \in Senders : Using(t) /\ Using(u) /\ sender[t].seq = sender[u].seq => t = u
  /\ \A t \in Senders : LET s == sender[t].seq IN
       Using(t) =>
         /\ s \in SeqIds /\ seq[s].used /\ (seq[s].async <=> t = Worker)
         /\ sender[t].pc \in Before => ~seq[s].done
         /\ sender[t].pc \in Before \/ seq[s].done => \A c \in InFlight : c.seq # s
         /\ seq[s].done => seq[s].result = t
         /\ \A c \in InFlight : c.seq = s => c.who = t

FalconInv ==
  /\ FalconTypeOK /\ {head, tail} \subseteq Ring
  /\ Laid /\ Holders /\ Announced /\ Roles /\ Messages /\ Once /\ Sequences

-----------------------------------------------------------------------------
(* Numbers and sizes.                                                      *)

LEMMA LeastNat ==
  ASSUME NEW T \in SUBSET Nat, T # {}
  PROVE  \E x \in T : \A y \in T : x <= y
<1>. DEFINE R == OpToRel(<, Nat)
<1>1. IsWellFoundedOn(R, Nat)
  BY NatLessThanWellFounded
<1>2. \A a, b \in Nat : a < b => <<a, b>> \in R
  BY DEF OpToRel
<1>. HIDE DEF R
<1>3. PICK x \in T : \A y \in T : ~(<<y, x>> \in R)
  BY <1>1, WFMin
<1>4. \A y \in T : ~(y < x)
  BY <1>2, <1>3
<1>5. \A y \in T : x <= y
  BY <1>4
<1>. QED  BY <1>5

LEMMA SetInduction ==
  ASSUME NEW S, 0 \in S, \A n \in Nat : n \in S => n + 1 \in S
  PROVE  Nat \subseteq S
<1>. SUFFICES ASSUME ~(Nat \subseteq S) PROVE FALSE
  OBVIOUS
<1>. DEFINE T == Nat \ S
<1>1. PICK x \in T : \A y \in T : x <= y
  BY LeastNat
<1>2. x # 0 /\ x - 1 \in Nat /\ x - 1 \notin T
  BY <1>1
<1>3. x - 1 + 1 = x
  BY <1>1
<1>. QED  BY <1>1, <1>2, <1>3

LEMMA Sizes ==
  /\ RingSize \in Nat /\ RingSize > 2
  /\ \A t \in Senders : CmdSize[t] \in Nat /\ 1 <= CmdSize[t] /\ 2 * CmdSize[t] < RingSize
  /\ {InitSize, AnswerSize, MsgSize} \subseteq Nat \ {0}
  /\ InitSize <= MsgSize /\ AnswerSize < InitSize
  /\ Worker \in Senders
<1>1. \A t \in Senders : CmdSize[t] \in Nat /\ 1 <= CmdSize[t] /\ 2 * CmdSize[t] < RingSize
  BY FalconAssumption
<1>2. Worker \in Senders
  BY DEF Senders
<1>3. RingSize > 2
  BY <1>1, <1>2, FalconAssumption
<1>. QED  BY <1>1, <1>2, <1>3, FalconAssumption

\* Words, REWIND and what is forgotten are told apart.
LEMMA Kinds ==
  /\ \A w \in Word : w # Rewind /\ w # Nothing
  /\ Nothing # Rewind
  /\ \A m \in Message : m # Nothing
  /\ InitMessage \in Message
<1>1. \A w \in Word : w # Rewind
  BY DEF Word, Rewind
<1>2. InitMessage \in Message
  BY DEF InitMessage, Message, Senders
<1>. QED  BY <1>1, <1>2, NothingAssumption

LEMMA Types ==
  ASSUME FalconTypeOK
  PROVE  /\ DOMAIN dmem = Ring /\ \A p \in Ring : dmem[p] \in Word \cup {Rewind, Nothing}
         /\ position \in Nat /\ head \in Nat /\ tail \in Nat
         /\ head <= RingSize /\ tail <= RingSize /\ position <= RingSize
         /\ fw \subseteq Command
         /\ \A c \in Command : /\ c.who \in Senders /\ c.seq \in SeqIds
                               /\ SizeOf(c) \in Nat /\ 1 <= SizeOf(c) /\ 2 * SizeOf(c) < RingSize
         /\ \A w \in Word : w.cmd \in Command
  BY Sizes DEF FalconTypeOK, Ring, Command, Word, SizeOf

\* Command that stands at p.
LEMMA WholeIs ==
  ASSUME FalconTypeOK, NEW p, Whole(p)
  PROVE  /\ p \in Ring /\ dmem[p].cmd \in Command /\ Block(p, dmem[p].cmd)
         /\ dmem[p] # Rewind
<1>1. p \in Ring /\ dmem[p] \in Word
  BY Types DEF Whole
<1>2. Block(p, dmem[p].cmd)
  BY DEF Whole, Block, SizeOf
<1>. QED  BY <1>1, <1>2, Types, Kinds

LEMMA BlockIs ==
  ASSUME FalconTypeOK, NEW p \in Ring, NEW c \in Command, Block(p, c)
  PROVE  /\ Whole(p) /\ dmem[p].cmd = c /\ dmem[p] # Rewind
         /\ \A w \in p .. p + SizeOf(c) - 1 :
              w \in Ring /\ dmem[w] = [cmd |-> c, at |-> w - p] /\ dmem[w] \in Word
<1>1. \A w \in p .. p + SizeOf(c) - 1 : w \in Ring /\ dmem[w] = [cmd |-> c, at |-> w - p]
  <2>. SUFFICES ASSUME NEW w \in p .. p + SizeOf(c) - 1
                PROVE  w \in Ring /\ dmem[w] = [cmd |-> c, at |-> w - p]
    OBVIOUS
  <2>1. p \in Nat /\ SizeOf(c) \in Nat /\ p + SizeOf(c) <= RingSize /\ RingSize \in Nat
    BY Types, Sizes DEF Ring, Block
  <2>2. w - p \in 0 .. SizeOf(c) - 1 /\ p + (w - p) = w
    BY <2>1
  <2>. QED  BY <2>1, <2>2 DEF Block, Ring
<1>2. \A i \in Nat : [cmd |-> c, at |-> i] \in Word
  BY DEF Word
<1>3. p \in p .. p + SizeOf(c) - 1
  BY Types DEF Ring
<1>4. dmem[p] \in Word /\ dmem[p].cmd = c
  <2>1. p - p \in Nat
    BY DEF Ring
  <2>2. dmem[p] = [cmd |-> c, at |-> p - p]
    BY <1>1, <1>3
  <2>. QED  BY <1>2, <2>1, <2>2
<1>5. \A w \in p .. p + SizeOf(c) - 1 : w - p \in Nat
  BY Types DEF Ring
<1>6. Whole(p)
  BY <1>4, Types DEF Whole, Block, SizeOf
<1>. QED  BY <1>1, <1>2, <1>4, <1>5, <1>6, Kinds

-----------------------------------------------------------------------------
(* The commands in the ring.                                               *)

\* What QueuedFrom[v] is, if g is QueuedFrom for greater words.
Lap(v) == IF v < RingSize THEN v ELSE v - RingSize

Body(g, v) ==
  IF Lap(v) = head THEN <<>>
  ELSE IF v < RingSize /\ dmem[Lap(v)] = Rewind THEN g[RingSize]
  ELSE IF Whole(Lap(v)) THEN <<dmem[Lap(v)].cmd>> \o g[v + CmdSize[dmem[Lap(v)].cmd.who]]
  ELSE <<>>

Rec(g) == g = [v \in 0 .. 2 * RingSize |-> Body(g, v)]

LEMMA BodyAgrees ==
  ASSUME FalconTypeOK, NEW v \in 0 .. 2 * RingSize, NEW g, NEW h,
         \A w \in v + 1 .. 2 * RingSize : g[w] = h[w]
  PROVE  Body(g, v) = Body(h, v)
<1>1. RingSize \in Nat /\ v \in Nat /\ v <= 2 * RingSize
  BY Sizes
<1>2. ASSUME v < RingSize
      PROVE  RingSize \in v + 1 .. 2 * RingSize
  BY <1>1, <1>2
<1>3. ASSUME Whole(Lap(v))
      PROVE  v + CmdSize[dmem[Lap(v)].cmd.who] \in v + 1 .. 2 * RingSize
  <2>. DEFINE n == SizeOf(dmem[Lap(v)].cmd)
  <2>1. Lap(v) \in Ring /\ n \in Nat /\ 1 <= n /\ Lap(v) + n <= RingSize
    BY <1>3, WholeIs, Types DEF Block
  <2>2. n = CmdSize[dmem[Lap(v)].cmd.who]
    BY DEF SizeOf
  <2>. HIDE DEF n
  <2>3. v + n \in v + 1 .. 2 * RingSize
    BY <1>1, <2>1 DEF Lap, Ring
  <2>. QED  BY <2>2, <2>3
<1>. QED  BY <1>2, <1>3 DEF Body

LEMMA RecExists ==
  ASSUME FalconTypeOK
  PROVE  \E g : Rec(g)
<1>. DEFINE M == 2 * RingSize
            Part(n, g) == g = [v \in M - n .. M |-> Body(g, v)]
            S == {n \in Nat : n <= M => \E g : Part(n, g)}
<1>1. RingSize \in Nat /\ M \in Nat
  BY Sizes
<1>2. 0 \in S
  <2>. DEFINE g == [v \in M - 0 .. M |-> Body(<<>>, v)]
  <2>1. \A v \in M - 0 .. M : Body(<<>>, v) = Body(g, v)
    <3>. SUFFICES ASSUME NEW v \in M - 0 .. M PROVE Body(<<>>, v) = Body(g, v)
      OBVIOUS
    <3>1. v \in 0 .. M /\ v + 1 .. M = {}
      BY <1>1
    <3>. HIDE DEF g
    <3>. QED  BY <3>1, BodyAgrees
  <2>2. Part(0, g)
    BY <2>1
  <2>. QED  BY <2>2
<1>3. ASSUME NEW n \in Nat, n \in S
      PROVE  n + 1 \in S
  <2>. SUFFICES ASSUME n + 1 <= M PROVE \E g : Part(n + 1, g)
    OBVIOUS
  <2>1. PICK g : Part(n, g)
    BY <1>1, <1>3
  <2>. DEFINE h == [v \in M - (n + 1) .. M |-> Body(g, v)]
  <2>2. \A v \in M - n .. M : v \in M - (n + 1) .. M
    BY <1>1
  <2>3. \A v \in M - n .. M : h[v] = g[v]
    <3>. SUFFICES ASSUME NEW v \in M - n .. M PROVE h[v] = g[v]
      OBVIOUS
    <3>1. h[v] = Body(g, v)
      BY <2>2
    <3>2. g[v] = Body(g, v)
      BY <2>1
    <3>. QED  BY <3>1, <3>2
  <2>4. \A v \in M - (n + 1) .. M : Body(g, v) = Body(h, v)
    <3>. SUFFICES ASSUME NEW v \in M - (n + 1) .. M PROVE Body(g, v) = Body(h, v)
      OBVIOUS
    <3>1. v \in 0 .. M /\ \A w \in v + 1 .. M : w \in M - n .. M
      BY <1>1
    <3>2. \A w \in v + 1 .. M : g[w] = h[w]
      BY <2>3, <3>1
    <3>. HIDE DEF h
    <3>. QED  BY <3>1, <3>2, BodyAgrees
  <2>5. Part(n + 1, h)
    BY <2>4
  <2>. QED  BY <2>5
<1>4. M \in S
  <2>. HIDE DEF S, M
  <2>. QED  BY <1>1, <1>2, <1>3, SetInduction
<1>5. PICK g : Part(M, g)
  BY <1>1, <1>4
<1>6. M - M = 0
  BY <1>1
<1>. QED  BY <1>5, <1>6 DEF Rec

LEMMA QueuedFromIs ==
  ASSUME FalconTypeOK, NEW v \in 0 .. 2 * RingSize
  PROVE  QueuedFrom[v] = Body(QueuedFrom, v)
<1>1. QueuedFrom = CHOOSE g : Rec(g)
  BY DEF QueuedFrom, Rec, Body, Lap
<1>2. Rec(QueuedFrom)
  BY <1>1, RecExists
<1>. QED  BY <1>2 DEF Rec

LEMMA PathFacts ==
  ASSUME FalconTypeOK, {head, tail} \subseteq Ring, NEW P, NEW Q, Path(P, Q)
  PROVE  /\ Len(Q) \in Nat /\ \A i \in 0 .. Len(Q) : P[i] \in Ring
         /\ \A i \in 1 .. Len(Q) :
              /\ i - 1 \in 0 .. Len(Q) /\ Q[i] \in Command /\ P[i - 1] \in Ring
              /\ Block(P[i - 1], Q[i]) /\ P[i - 1] # head
              /\ P[i - 1] + SizeOf(Q[i]) \in 1 .. RingSize
              /\ P[i] = Onward(P[i - 1] + SizeOf(Q[i]))
              /\ tail <= head => tail <= P[i - 1] /\ P[i - 1] + SizeOf(Q[i]) <= head
              /\ head < tail => tail <= P[i - 1] \/ P[i - 1] + SizeOf(Q[i]) <= head
<1>1. Q \in Seq(Command) /\ P \in [0 .. Len(Q) -> Ring]
  BY DEF Path
<1>2. Len(Q) \in Nat /\ \A i \in 0 .. Len(Q) : P[i] \in Ring
  BY <1>1
<1>3. ASSUME NEW i \in 1 .. Len(Q)
      PROVE  /\ i - 1 \in 0 .. Len(Q) /\ Q[i] \in Command /\ P[i - 1] \in Ring
             /\ Block(P[i - 1], Q[i]) /\ P[i - 1] # head
             /\ P[i - 1] + SizeOf(Q[i]) \in 1 .. RingSize
             /\ P[i] = Onward(P[i - 1] + SizeOf(Q[i]))
             /\ tail <= head => tail <= P[i - 1] /\ P[i - 1] + SizeOf(Q[i]) <= head
             /\ head < tail => tail <= P[i - 1] \/ P[i - 1] + SizeOf(Q[i]) <= head
  <2>1. i - 1 \in 0 .. Len(Q) /\ Q[i] \in Command
    BY <1>1, <1>2
  <2>2. P[i - 1] \in Ring
    BY <1>2, <2>1
  <2>3. /\ Block(P[i - 1], Q[i])
        /\ P[i] = Onward(P[i - 1] + SizeOf(Q[i]))
        /\ tail <= head => tail <= P[i - 1] /\ P[i - 1] + SizeOf(Q[i]) <= head
        /\ head < tail => tail <= P[i - 1] \/ P[i - 1] + SizeOf(Q[i]) <= head
    BY DEF Path
  <2>4. SizeOf(Q[i]) \in Nat /\ 1 <= SizeOf(Q[i]) /\ P[i - 1] + SizeOf(Q[i]) <= RingSize
    BY <2>1, <2>3, Types DEF Block
  <2>5. P[i - 1] \in Nat /\ head \in Nat /\ tail \in Nat /\ RingSize \in Nat
    BY <2>2, Types, Sizes DEF Ring
  <2>. QED  BY <2>1, <2>2, <2>3, <2>4, <2>5
<1>. QED  BY <1>2, <1>3

\* Where the reader goes on is on the same lap, but behind a REWIND.
LEMMA OnwardIs ==
  ASSUME FalconTypeOK, {head, tail} \subseteq Ring, NEW P, NEW Q, Rewinds(P, Q), NEW e \in Nat
  PROVE  \/ Onward(e) = e
         \/ Onward(e) = 0 /\ e \in Ring /\ e # head /\ dmem[e] = Rewind /\ head < tail /\ tail <= e
  BY DEF Onward, Rewinds

LEMMA FromStep ==
  ASSUME FalconTypeOK, {head, tail} \subseteq Ring, NEW P, NEW Q, Path(P, Q), Rewinds(P, Q)
  PROVE  LET V(i) == IF tail <= P[i] THEN P[i] ELSE P[i] + RingSize
         IN  /\ QueuedFrom[V(Len(Q))] = <<>>
             /\ \A i \in 1 .. Len(Q) : QueuedFrom[V(i - 1)] = <<Q[i]>> \o QueuedFrom[V(i)]
             /\ QueuedFrom[tail] = QueuedFrom[V(0)]
<1>. DEFINE V(i) == IF tail <= P[i] THEN P[i] ELSE P[i] + RingSize
<1>1. /\ RingSize \in Nat \ {0} /\ head \in Nat /\ tail \in Nat
      /\ head < RingSize /\ tail < RingSize
  BY Sizes DEF Ring
<1>2. /\ Len(Q) \in Nat
      /\ \A i \in 0 .. Len(Q) : V(i) \in 0 .. 2 * RingSize /\ Lap(V(i)) = P[i]
  <2>1. Len(Q) \in Nat /\ \A i \in 0 .. Len(Q) : P[i] \in Ring
    BY PathFacts
  <2>. QED  BY <2>1, <1>1 DEF Lap, Ring
<1>3. QueuedFrom[V(Len(Q))] = <<>>
  <2>1. Lap(V(Len(Q))) = head /\ V(Len(Q)) \in 0 .. 2 * RingSize
    <3>1. Len(Q) \in 0 .. Len(Q)
      BY <1>2
    <3>. QED  BY <1>2, <3>1 DEF Path
  <2>. HIDE DEF V
  <2>. QED  BY <2>1, QueuedFromIs DEF Body
<1>4. ASSUME NEW e \in Nat, NEW v \in 0 .. 2 * RingSize, e < RingSize,
             v = IF tail <= e THEN e ELSE e + RingSize
      PROVE  QueuedFrom[v] = QueuedFrom[IF tail <= Onward(e) THEN Onward(e)
                                        ELSE Onward(e) + RingSize]
  <2>1. CASE Onward(e) = e
    BY <1>4, <2>1
  <2>2. CASE Onward(e) # e
    <3>1. Onward(e) = 0 /\ e # head /\ dmem[e] = Rewind /\ head < tail /\ tail <= e
      BY <2>2, OnwardIs
    <3>2. v = e /\ Lap(v) = e /\ v < RingSize
      BY <1>4, <3>1 DEF Lap
    <3>3. QueuedFrom[v] = QueuedFrom[RingSize]
      BY <3>1, <3>2, QueuedFromIs DEF Body
    <3>4. 0 + RingSize = RingSize /\ ~(tail <= 0)
      BY <1>1, <3>1
    <3>. QED  BY <3>1, <3>3, <3>4
  <2>. QED  BY <2>1, <2>2
<1>5. ASSUME NEW i \in 1 .. Len(Q)
      PROVE  QueuedFrom[V(i - 1)] = <<Q[i]>> \o QueuedFrom[V(i)]
  <2>. DEFINE p == P[i - 1]
              n == SizeOf(Q[i])
  <2>1. /\ i - 1 \in 0 .. Len(Q) /\ i \in 0 .. Len(Q) /\ p \in Ring /\ p # head /\ Q[i] \in Command
        /\ Block(p, Q[i]) /\ P[i] = Onward(p + n) /\ p + n \in 1 .. RingSize
        /\ tail <= head => tail <= p /\ p + n <= head
        /\ head < tail => tail <= p \/ p + n <= head
    BY PathFacts
  <2>2. n \in Nat /\ 1 <= n /\ p \in Nat /\ p < RingSize
    BY <2>1, Types, Sizes DEF Ring
  <2>3. Whole(p) /\ dmem[p].cmd = Q[i] /\ dmem[p] # Rewind
    BY <2>1, BlockIs
  <2>4. Lap(V(i - 1)) = p /\ V(i - 1) \in 0 .. 2 * RingSize
    BY <1>2, <2>1
  <2>5. QueuedFrom[V(i - 1)] = <<Q[i]>> \o QueuedFrom[V(i - 1) + n]
    BY <2>1, <2>3, <2>4, QueuedFromIs DEF Body, SizeOf
  <2>6. p + n < RingSize
    <3>1. CASE p + n = RingSize
      <4>1. P[i] = RingSize
        BY <2>1, <3>1, <1>1 DEF Onward, Ring
      <4>2. P[i] \in Ring
        BY <2>1, PathFacts
      <4>. QED  BY <4>1, <4>2, <1>1 DEF Ring
    <3>. QED  BY <2>1, <3>1, <1>1
  <2>7. V(i - 1) + n = IF tail <= p + n THEN p + n ELSE p + n + RingSize
    <3>1. CASE tail <= p
      BY <1>1, <2>2, <3>1
    <3>2. CASE ~(tail <= p)
      BY <1>1, <2>1, <2>2, <3>2
    <3>. QED  BY <3>1, <3>2
  <2>8. V(i - 1) + n \in 0 .. 2 * RingSize
    BY <1>1, <2>2, <2>6, <2>7
  <2>. HIDE DEF p, n
  <2>9. p + n \in Nat
    BY <2>2
  <2>10. QueuedFrom[V(i - 1) + n]
           = QueuedFrom[IF tail <= Onward(p + n) THEN Onward(p + n) ELSE Onward(p + n) + RingSize]
    BY <1>4, <2>6, <2>7, <2>8, <2>9
  <2>. QED  BY <2>1, <2>5, <2>10
<1>6. QueuedFrom[tail] = QueuedFrom[V(0)]
  <2>1. P[0] = Onward(tail)
    BY DEF Path
  <2>2. tail = IF tail <= tail THEN tail ELSE tail + RingSize
    BY <1>1
  <2>. QED  BY <1>1, <1>4, <2>1, <2>2
<1>. QED  BY <1>3, <1>5, <1>6

\* The commands of a path are those that are queued.
LEMMA QueuedIs ==
  ASSUME FalconTypeOK, {head, tail} \subseteq Ring, NEW P, NEW Q, Path(P, Q), Rewinds(P, Q)
  PROVE  Queued = Q
<1>. DEFINE k == Len(Q)
            V(i) == IF tail <= P[i] THEN P[i] ELSE P[i] + RingSize
            S == {n \in Nat : n <= k => QueuedFrom[V(k - n)] = SubSeq(Q, k - n + 1, k)}
<1>1. Q \in Seq(Command) /\ k \in Nat
  BY PathFacts DEF Path
<1>2. /\ QueuedFrom[V(k)] = <<>>
      /\ \A i \in 1 .. k : QueuedFrom[V(i - 1)] = <<Q[i]>> \o QueuedFrom[V(i)]
      /\ QueuedFrom[tail] = QueuedFrom[V(0)]
  BY FromStep
<1>. HIDE DEF V
<1>3. 0 \in S
  <2>1. SubSeq(Q, k + 1, k) = <<>>
    BY <1>1, SubSeqProperties
  <2>2. k - 0 = k
    BY <1>1
  <2>. QED  BY <1>2, <2>1, <2>2
<1>4. ASSUME NEW n \in Nat, n \in S
      PROVE  n + 1 \in S
  <2>. SUFFICES ASSUME n + 1 <= k
                PROVE  QueuedFrom[V(k - (n + 1))] = SubSeq(Q, k - (n + 1) + 1, k)
    OBVIOUS
  <2>. DEFINE i == k - n
  <2>1. i \in 1 .. k /\ k - (n + 1) = i - 1 /\ k - (n + 1) + 1 = i /\ n <= k
    BY <1>1
  <2>2. QueuedFrom[V(i)] = SubSeq(Q, i + 1, k)
    BY <1>4, <2>1
  <2>. HIDE DEF i
  <2>3. QueuedFrom[V(i - 1)] = <<Q[i]>> \o SubSeq(Q, i + 1, k)
    BY <1>2, <2>1, <2>2
  <2>4. QueuedFrom[V(i - 1)] = SubSeq(Q, i, k)
    BY <1>1, <2>1, <2>3, SubSeqRecursiveFirst
  <2>. QED  BY <2>1, <2>4
<1>5. k \in S
  <2>. HIDE DEF S
  <2>. QED  BY <1>1, <1>3, <1>4, SetInduction
<1>6. QueuedFrom[V(0)] = SubSeq(Q, 1, k)
  <2>1. k - k = 0 /\ 0 + 1 = 1
    BY <1>1
  <2>. QED  BY <1>1, <1>5, <2>1
<1>7. SubSeq(Q, 1, k) = Q
  BY <1>1, SubSeqFull
<1>. QED  BY <1>2, <1>6, <1>7 DEF Queued

\* In this state and in the next.
PathsQueue ==
  \A P, Q : FalconTypeOK /\ {head, tail} \subseteq Ring /\ Path(P, Q) /\ Rewinds(P, Q)
              => Queued = Q

LEMMA PathsQueueNow == PathsQueue
  BY QueuedIs DEF PathsQueue

LEMMA PathsQueueNext == PathsQueue'
  BY PathsQueueNow, PTL

LEMMA NextQueued ==
  ASSUME FalconTypeOK', {head', tail'} \subseteq Ring, NEW P, NEW Q, Path(P, Q)', Rewinds(P, Q)'
  PROVE  Queued' = Q /\ Rewinds(P, Queued)' /\ Path(P, Queued)'
<1>1. Queued' = Q
  BY PathsQueueNext DEF PathsQueue
<1>. QED  BY <1>1 DEF Rewinds, Path, Block, Onward

-----------------------------------------------------------------------------
(* Steps on the ring.                                                      *)

LEMMA InvFacts ==
  ASSUME FalconInv
  PROVE  /\ FalconTypeOK /\ {head, tail} \subseteq Ring
         /\ RingSize \in Nat /\ head \in Nat /\ tail \in Nat /\ position \in Nat
         /\ head < RingSize /\ tail < RingSize /\ position <= RingSize
         /\ \A t \in Senders : CmdSize[t] \in Nat /\ 1 <= CmdSize[t] /\ 2 * CmdSize[t] < RingSize
         /\ \A t \in Senders : t # Nothing
         /\ \E P : Path(P, Queued) /\ Rewinds(P, Queued)
  BY Sizes, Types, NothingAssumption DEF FalconInv, Ring, Laid

LEMMA BlockKept ==
  ASSUME FalconTypeOK, NEW p \in Ring, NEW c \in Command, Block(p, c),
         \A w \in p .. p + SizeOf(c) - 1 : dmem'[w] = dmem[w]
  PROVE  Block(p, c)'
<1>1. ASSUME NEW i \in 0 .. SizeOf(c) - 1
      PROVE  dmem'[p + i] = [cmd |-> c, at |-> i]
  <2>1. p + i \in p .. p + SizeOf(c) - 1
    BY Types DEF Ring
  <2>2. dmem'[p + i] = dmem[p + i]
    BY <2>1
  <2>. QED  BY <2>2 DEF Block
<1>2. p + SizeOf(c) <= RingSize
  BY DEF Block
<1>. QED  BY <1>1, <1>2 DEF Block, SizeOf

\* The blocks that a path finds are not written, and no REWIND comes or goes but
\* at head.
LEMMA PathKept ==
  ASSUME FalconInv, NEW P, NEW Q, Path(P, Q), UNCHANGED <<head, tail>>,
         \A r \in Ring \ {head} : dmem'[r] = Rewind <=> dmem[r] = Rewind,
         \A i \in 1 .. Len(Q) : \A w \in P[i - 1] .. P[i - 1] + SizeOf(Q[i]) - 1 :
           dmem'[w] = dmem[w]
  PROVE  Path(P, Q)'
<1>1. FalconTypeOK /\ {head, tail} \subseteq Ring
  BY InvFacts
<1>2. \A e : Onward(e)' = Onward(e)
  BY DEF Onward
<1>3. ASSUME NEW i \in 1 .. Len(Q)
      PROVE  /\ Block(P[i - 1], Q[i])' /\ P[i] = Onward(P[i - 1] + SizeOf(Q[i]))'
             /\ (tail <= head => tail <= P[i - 1] /\ P[i - 1] + SizeOf(Q[i]) <= head)'
             /\ (head < tail => tail <= P[i - 1] \/ P[i - 1] + SizeOf(Q[i]) <= head)'
  <2>1. /\ Q[i] \in Command /\ P[i - 1] \in Ring
        /\ Block(P[i - 1], Q[i])
        /\ P[i] = Onward(P[i - 1] + SizeOf(Q[i]))
        /\ tail <= head => tail <= P[i - 1] /\ P[i - 1] + SizeOf(Q[i]) <= head
        /\ head < tail => tail <= P[i - 1] \/ P[i - 1] + SizeOf(Q[i]) <= head
    BY <1>1, PathFacts
  <2>2. Block(P[i - 1], Q[i])'
    BY <1>1, <2>1, BlockKept
  <2>3. P[i] = Onward(P[i - 1] + SizeOf(Q[i]))'
    BY <1>2, <2>1
  <2>. QED  BY <2>1, <2>2, <2>3 DEF SizeOf
<1>. QED  BY <1>2, <1>3 DEF Path, SizeOf

\* What leaves the ring alone leaves what is queued.
LEMMA RingStay ==
  ASSUME FalconInv, FalconTypeOK', UNCHANGED <<head, tail, dmem>>,
         cmdqLock # Nothing => cmdqLock' # Nothing
  PROVE  Laid' /\ Queued' = Queued
<1>1. PICK Q : Q = Queued
  OBVIOUS
<1>2. PICK P : Path(P, Q) /\ Rewinds(P, Q)
  BY <1>1, InvFacts
<1>3. Path(P, Q)'
  BY <1>2, PathKept
<1>4. Rewinds(P, Q)'
  BY <1>2 DEF Rewinds
<1>. QED  BY <1>1, <1>3, <1>4, InvFacts, NextQueued DEF Laid

\* What is reserved is free.
LEMMA ReservedFree ==
  ASSUME FalconInv, NEW P, NEW Q, Path(P, Q), Rewinds(P, Q),
         NEW t \in Senders, NEW b \in Nat, Reserved(t, b),
         NEW w \in b .. b + CmdSize[t] - 1
  PROVE  /\ w \in Ring /\ dmem[w] # Rewind
         /\ \A i \in 1 .. Len(Q) : w \notin P[i - 1] .. P[i - 1] + SizeOf(Q[i]) - 1
<1>1. /\ RingSize \in Nat /\ head \in Nat /\ tail \in Nat /\ head < RingSize /\ tail < RingSize
      /\ CmdSize[t] \in Nat /\ 1 <= CmdSize[t] /\ 2 * CmdSize[t] < RingSize
      /\ FalconTypeOK /\ {head, tail} \subseteq Ring
  BY InvFacts
<1>2. \/ /\ b = head /\ dmem[head] # Rewind /\ tail <= head
         /\ head + CmdSize[t] < RingSize
      \/ /\ b = head /\ head < tail /\ head + CmdSize[t] < tail
      \/ b = 0 /\ tail <= head /\ CmdSize[t] < tail
  BY <1>1 DEF Reserved
<1>3. w \in Ring
  BY <1>1, <1>2 DEF Ring
<1>4. dmem[w] # Rewind
  <2>. SUFFICES ASSUME dmem[w] = Rewind PROVE FALSE
    OBVIOUS
  <2>1. (head < tail /\ tail <= w) \/ (tail <= head /\ w = head)
    BY <1>3 DEF Rewinds
  <2>. QED  BY <1>1, <1>2, <2>1
<1>5. ASSUME NEW i \in 1 .. Len(Q)
      PROVE  w \notin P[i - 1] .. P[i - 1] + SizeOf(Q[i]) - 1
  <2>. DEFINE p == P[i - 1]
              n == SizeOf(Q[i])
  <2>1. /\ p \in Nat /\ n \in Nat
        /\ tail <= head => tail <= p /\ p + n <= head
        /\ head < tail => tail <= p \/ p + n <= head
    <3>1. /\ p \in Ring /\ Q[i] \in Command
          /\ tail <= head => tail <= p /\ p + n <= head
          /\ head < tail => tail <= p \/ p + n <= head
      BY <1>1, PathFacts
    <3>2. n \in Nat
      BY <1>1, <3>1, Types
    <3>. QED  BY <1>1, <3>1, <3>2 DEF Ring
  <2>. HIDE DEF p, n
  <2>2. w \in Nat /\ b <= w /\ w < b + CmdSize[t]
    BY <1>1
  <2>3. ~(p <= w /\ w < p + n)
    <3>1. CASE b = head /\ tail <= head
      BY <1>1, <2>1, <2>2, <3>1
    <3>2. CASE b = head /\ head < tail /\ head + CmdSize[t] < tail
      BY <1>1, <2>1, <2>2, <3>2
    <3>3. CASE b = 0 /\ tail <= head /\ CmdSize[t] < tail
      BY <1>1, <2>1, <2>2, <3>3
    <3>. QED  BY <1>2, <3>1, <3>2, <3>3
  <2>4. w \notin p .. p + n - 1
    BY <2>1, <2>2, <2>3
  <2>. QED  BY <2>4 DEF p, n
<1>. QED  BY <1>3, <1>4, <1>5

LEMMA OpenTypes ==
  ASSUME FalconInv, NEW t \in Senders, NEW rewind \in BOOLEAN, Open(t, rewind)
  PROVE  FalconTypeOK' /\ {head', tail'} \subseteq Ring
<1>1. FalconTypeOK /\ {head, tail} \subseteq Ring
  BY InvFacts
<1>2. position' \in 0 .. RingSize
  BY <1>1, InvFacts DEF Open
<1>3. dmem' \in [0 .. RingSize - 1 -> Word \cup {Rewind, Nothing}]
  BY <1>1 DEF Open, FalconTypeOK
<1>4. sender' \in [Senders -> [pc : {"idle", "write", "push", "close", "wait", "init", "recv"},
                          seq : SeqIds \cup {Nothing}]]
  BY <1>1 DEF Open, SenderGoto, FalconTypeOK
<1>. QED  BY <1>1, <1>2, <1>3, <1>4 DEF Open, FalconTypeOK, msgqVars

LEMMA OpenRing ==
  ASSUME FalconInv, NEW t \in Senders, NEW rewind \in BOOLEAN, Open(t, rewind)
  PROVE  Laid' /\ Queued' = Queued /\ Holders'
<1>1. /\ RingSize \in Nat /\ head \in Nat /\ tail \in Nat /\ head < RingSize /\ tail < RingSize
      /\ CmdSize[t] \in Nat /\ 1 <= CmdSize[t] /\ FalconTypeOK /\ {head, tail} \subseteq Ring
      /\ \A u \in Senders : u # Nothing
  BY InvFacts
<1>2. FalconTypeOK' /\ {head', tail'} \subseteq Ring
  BY OpenTypes
<1>3. PICK Q : Q = Queued
  OBVIOUS
<1>4. PICK P : Path(P, Q) /\ Rewinds(P, Q)
  BY <1>3, InvFacts
<1>5. /\ cmdqLock = Nothing /\ cmdqLock' = t /\ HasRoom(CmdSize[t], rewind)
      /\ UNCHANGED <<head, tail>>
  BY DEF Open
<1>6. \A u \in Senders : cmdqLock' = u <=> sender'[u].pc \in {"push", "close"}
  <2>1. \A u \in Senders : sender[u].pc \notin {"push", "close"}
    BY <1>1, <1>5 DEF FalconInv, Holders
  <2>2. /\ sender'[t].pc = "push"
        /\ \A u \in Senders \ {t} : sender'[u] = sender[u]
    BY <1>1 DEF Open, SenderGoto, FalconTypeOK
  <2>. QED  BY <1>5, <2>1, <2>2
<1>7. \A u \in Senders : sender'[u].pc = "push" => u = t
  BY <1>5, <1>6
<1>8. \A u \in Senders : sender'[u].pc # "close"
  <2>1. sender'[t].pc = "push"
    BY <1>1 DEF Open, SenderGoto, FalconTypeOK
  <2>. QED  BY <1>5, <1>6, <2>1
<1>9. CASE ~rewind
  <2>1. dmem' = dmem /\ position' = head
    BY <1>9 DEF Open
  <2>2. Laid' /\ Queued' = Queued
    BY <1>1, <1>2, <1>5, <2>1, RingStay
  <2>3. dmem[head] # Rewind
    BY <1>1, <1>4, <1>5 DEF Rewinds
  <2>4. Reserved(t, position)'
    BY <1>1, <1>5, <1>9, <2>1, <2>3 DEF Reserved, HasRoom
  <2>. QED  BY <1>6, <1>7, <1>8, <2>2, <2>4 DEF Holders
<1>10. CASE rewind
  <2>1. /\ dmem' = [dmem EXCEPT ![head] = Rewind] /\ position' = 0
        /\ tail <= head /\ CmdSize[t] < tail
    BY <1>1, <1>5, <1>10 DEF Open, HasRoom
  <2>2. dmem'[head] = Rewind /\ \A w \in Ring \ {head} : dmem'[w] = dmem[w]
    BY <1>1, <2>1, Types
  <2>3. ASSUME NEW i \in 1 .. Len(Q), NEW w \in P[i - 1] .. P[i - 1] + SizeOf(Q[i]) - 1
        PROVE  dmem'[w] = dmem[w]
    <3>1. P[i - 1] + SizeOf(Q[i]) <= head /\ P[i - 1] \in Nat /\ SizeOf(Q[i]) \in Nat
      BY <1>1, <1>4, <2>1, PathFacts, Types DEF Ring
    <3>2. w \in Ring \ {head}
      BY <1>1, <3>1 DEF Ring
    <3>. QED  BY <2>2, <3>2
  <2>4. Path(P, Q)'
    BY <1>4, <1>5, <2>2, <2>3, PathKept
  <2>5. \A r \in Ring : dmem'[r] = Rewind => r = head
    BY <1>1, <1>4, <1>5, <2>1, <2>2 DEF Rewinds
  <2>6. Rewinds(P, Q)'
    BY <1>1, <1>5, <2>1, <2>5 DEF Rewinds
  <2>7. Reserved(t, position)'
    BY <1>5, <2>1, <2>2 DEF Reserved
  <2>. QED  BY <1>2, <1>3, <1>6, <1>7, <1>8, <2>4, <2>6, <2>7, NextQueued DEF Holders, Laid
<1>. QED  BY <1>9, <1>10

LEMMA PushTypes ==
  ASSUME FalconInv, NEW t \in Senders, PushCommand(t)
  PROVE  FalconTypeOK' /\ {head', tail'} \subseteq Ring
<1>1. FalconTypeOK /\ {head, tail} \subseteq Ring
  BY InvFacts
<1>2. sender[t].seq \in SeqIds
  BY <1>1 DEF PushCommand, FalconInv, Sequences, Using, Before
<1>3. Own(t) \in Command
  BY <1>2 DEF Own, Command
<1>4. position \in Nat /\ CmdSize[t] \in Nat /\ RingSize \in Nat
  BY InvFacts
<1>5. dmem' \in [0 .. RingSize - 1 -> Word \cup {Rewind, Nothing}]
  <2>1. \A p \in Ring : p \in position .. position + CmdSize[t] - 1 =>
          [cmd |-> Own(t), at |-> p - position] \in Word
    BY <1>3, <1>4 DEF Word, Ring
  <2>2. dmem' = [p \in Ring |-> IF p \in position .. position + CmdSize[t] - 1
                                THEN [cmd |-> Own(t), at |-> p - position] ELSE dmem[p]]
    BY <1>1, Types DEF PushCommand, Own
  <2>. QED  BY <1>1, <2>1, <2>2 DEF FalconTypeOK, Ring
<1>6. position' \in 0 .. RingSize
  <2>1. Reserved(t, position)
    BY DEF FalconInv, Holders, PushCommand
  <2>2. position + CmdSize[t] <= RingSize
    BY <2>1, InvFacts DEF Reserved
  <2>. QED  BY <1>4, <2>2 DEF PushCommand
<1>7. sender' \in [Senders -> [pc : {"idle", "write", "push", "close", "wait", "init", "recv"},
                          seq : SeqIds \cup {Nothing}]]
  BY <1>1 DEF PushCommand, SenderGoto, FalconTypeOK
<1>. QED  BY <1>1, <1>5, <1>6, <1>7 DEF PushCommand, FalconTypeOK, msgqVars

LEMMA PushRing ==
  ASSUME FalconInv, NEW t \in Senders, PushCommand(t)
  PROVE  Laid' /\ Queued' = Queued /\ Holders'
<1>1. /\ RingSize \in Nat /\ head \in Nat /\ tail \in Nat /\ head < RingSize /\ tail < RingSize
      /\ CmdSize[t] \in Nat /\ 1 <= CmdSize[t] /\ FalconTypeOK /\ {head, tail} \subseteq Ring
      /\ position \in Nat /\ \A u \in Senders : u # Nothing
  BY InvFacts
<1>2. FalconTypeOK' /\ {head', tail'} \subseteq Ring
  BY PushTypes
<1>3. PICK Q : Q = Queued
  OBVIOUS
<1>4. PICK P : Path(P, Q) /\ Rewinds(P, Q)
  BY <1>3, InvFacts
<1>5. PICK b \in Nat : b = position
  BY <1>1
<1>6. Reserved(t, b) /\ cmdqLock = t /\ cmdqLock' = t /\ UNCHANGED <<head, tail>>
  BY <1>5 DEF FalconInv, Holders, PushCommand
<1>7. \A w \in b .. b + CmdSize[t] - 1 :
        /\ w \in Ring /\ dmem[w] # Rewind
        /\ \A i \in 1 .. Len(Q) : w \notin P[i - 1] .. P[i - 1] + SizeOf(Q[i]) - 1
  BY <1>4, <1>6, ReservedFree
<1>8. /\ \A w \in Ring : w \in b .. b + CmdSize[t] - 1 => dmem'[w] = [cmd |-> Own(t), at |-> w - b]
      /\ \A w \in Ring : w \notin b .. b + CmdSize[t] - 1 => dmem'[w] = dmem[w]
  BY <1>1, <1>5, Types DEF PushCommand, Own
<1>9. ASSUME NEW i \in 1 .. Len(Q), NEW w \in P[i - 1] .. P[i - 1] + SizeOf(Q[i]) - 1
      PROVE  dmem'[w] = dmem[w]
  <2>1. P[i - 1] \in Ring /\ Q[i] \in Command /\ Block(P[i - 1], Q[i])
    BY <1>1, <1>4, PathFacts
  <2>2. w \in Ring
    BY <1>1, <2>1, BlockIs
  <2>. QED  BY <1>7, <1>8, <2>2
<1>10. \A r \in Ring : dmem'[r] = Rewind <=> dmem[r] = Rewind
  <2>1. \A w \in b .. b + CmdSize[t] - 1 : dmem'[w] # Rewind
    <3>. SUFFICES ASSUME NEW w \in b .. b + CmdSize[t] - 1 PROVE dmem'[w] # Rewind
      OBVIOUS
    <3>1. dmem'[w] = [cmd |-> Own(t), at |-> w - b]
      BY <1>7, <1>8
    <3>. QED  BY <3>1 DEF Rewind
  <2>. QED  BY <1>7, <1>8, <2>1
<1>11. Path(P, Q)'
  BY <1>4, <1>6, <1>9, <1>10, PathKept
<1>12. Rewinds(P, Q)'
  BY <1>4, <1>6, <1>10 DEF Rewinds
<1>13. Laid' /\ Queued' = Queued
  BY <1>2, <1>3, <1>11, <1>12, NextQueued DEF Laid
<1>14. Reserved(t, b)'
  BY <1>1, <1>6, <1>10 DEF Reserved
<1>15. /\ sender'[t].pc = "close" /\ sender'[t].seq = sender[t].seq
       /\ \A u \in Senders \ {t} : sender'[u] = sender[u]
  BY <1>1 DEF PushCommand, SenderGoto, FalconTypeOK
<1>16. Own(t)' = Own(t)
  BY <1>15 DEF Own
<1>17. Block(b, Own(t))'
  <2>1. b + CmdSize[t] <= RingSize
    BY <1>1, <1>6 DEF Reserved
  <2>2. SizeOf(Own(t)) = CmdSize[t]
    BY DEF SizeOf, Own
  <2>3. ASSUME NEW i \in 0 .. CmdSize[t] - 1
        PROVE  dmem'[b + i] = [cmd |-> Own(t), at |-> i]
    <3>1. b + i \in b .. b + CmdSize[t] - 1 /\ (b + i) - b = i
      BY <1>1
    <3>2. dmem'[b + i] = [cmd |-> Own(t), at |-> (b + i) - b]
      <4>. DEFINE w == b + i
      <4>1. w \in b .. b + CmdSize[t] - 1
        BY <3>1
      <4>. HIDE DEF w
      <4>2. dmem'[w] = [cmd |-> Own(t), at |-> w - b]
        BY <1>7, <1>8, <4>1
      <4>. QED  BY <4>2 DEF w
    <3>. QED  BY <3>1, <3>2
  <2>. QED  BY <1>16, <2>1, <2>2, <2>3 DEF Block, SizeOf
<1>18. position' - CmdSize[t] = b /\ b \in Ring
  <2>1. position' = b + CmdSize[t]
    BY <1>5 DEF PushCommand
  <2>2. b \in b .. b + CmdSize[t] - 1
    BY <1>1
  <2>. QED  BY <1>1, <1>7, <2>1, <2>2
<1>19. \A u \in Senders \ {t} : sender[u].pc \notin {"push", "close"}
  BY <1>6 DEF FalconInv, Holders
<1>. QED  BY <1>6, <1>13, <1>14, <1>15, <1>17, <1>18, <1>19 DEF Holders

\* What the holder has written begins at b and ends before N, the new head.
LEMMA CloseAt ==
  ASSUME FalconInv, NEW t \in Senders, Close(t)
  PROVE  \E b \in Ring : \E N \in Ring :
           /\ N = position /\ N = b + CmdSize[t] /\ Block(b, Own(t)) /\ head' = N
           /\ \/ b = head /\ dmem[head] # Rewind /\ tail <= head
              \/ b = head /\ dmem[head] # Rewind /\ head < tail /\ N < tail
              \/ b = 0 /\ dmem[head] = Rewind /\ tail <= head /\ N < tail
<1>1. /\ RingSize \in Nat /\ head \in Nat /\ tail \in Nat /\ head < RingSize /\ tail < RingSize
      /\ CmdSize[t] \in Nat /\ 1 <= CmdSize[t] /\ position \in Nat
  BY InvFacts
<1>. DEFINE b == position - CmdSize[t]
<1>2. b \in Ring /\ Reserved(t, b) /\ Block(b, Own(t)) /\ head' = position
  BY DEF FalconInv, Holders, Close
<1>3. position = b + CmdSize[t] /\ b \in Nat
  BY <1>1, <1>2 DEF Ring
<1>. HIDE DEF b
<1>4. \/ b = head /\ dmem[head] # Rewind /\ tail <= head /\ position < RingSize
      \/ b = head /\ dmem[head] # Rewind /\ head < tail /\ position < tail
      \/ b = 0 /\ dmem[head] = Rewind /\ tail <= head /\ position < tail
  BY <1>1, <1>2, <1>3 DEF Reserved
<1>5. position \in Ring
  BY <1>1, <1>4 DEF Ring
<1>. QED  BY <1>2, <1>3, <1>4, <1>5

LEMMA CloseTypes ==
  ASSUME FalconInv, NEW t \in Senders, Close(t)
  PROVE  FalconTypeOK' /\ {head', tail'} \subseteq Ring
<1>1. FalconTypeOK /\ {head, tail} \subseteq Ring
  BY InvFacts
<1>2. head' \in Ring
  BY CloseAt
<1>3. head' \in 0 .. RingSize
  BY <1>2, Sizes DEF Ring
<1>4. sender' \in [Senders -> [pc : {"idle", "write", "push", "close", "wait", "init", "recv"},
                          seq : SeqIds \cup {Nothing}]]
  BY <1>1 DEF Close, SenderGoto, FalconTypeOK
<1>5. initmsg' \in BOOLEAN
  BY <1>1 DEF Close, FalconTypeOK
<1>. QED  BY <1>1, <1>2, <1>3, <1>4, <1>5 DEF Close, FalconTypeOK, msgqVars

LEMMA CloseRing ==
  ASSUME FalconInv, NEW t \in Senders, Close(t)
  PROVE  Laid' /\ Queued' = Append(Queued, Own(t))
<1>1. /\ RingSize \in Nat /\ head \in Nat /\ tail \in Nat /\ head < RingSize /\ tail < RingSize
      /\ CmdSize[t] \in Nat /\ 1 <= CmdSize[t] /\ FalconTypeOK /\ {head, tail} \subseteq Ring
  BY InvFacts
<1>2. FalconTypeOK' /\ {head', tail'} \subseteq Ring
  BY CloseTypes
<1>3. PICK Q : Q = Queued
  OBVIOUS
<1>4. PICK P : Path(P, Q) /\ Rewinds(P, Q)
  BY <1>3, InvFacts
<1>5. PICK b \in Ring : \E N \in Ring :
        /\ N = position /\ N = b + CmdSize[t] /\ Block(b, Own(t)) /\ head' = N
        /\ \/ b = head /\ dmem[head] # Rewind /\ tail <= head
           \/ b = head /\ dmem[head] # Rewind /\ head < tail /\ N < tail
           \/ b = 0 /\ dmem[head] = Rewind /\ tail <= head /\ N < tail
  BY CloseAt
<1>6. PICK N \in Ring :
        /\ N = position /\ N = b + CmdSize[t] /\ Block(b, Own(t)) /\ head' = N
        /\ \/ b = head /\ dmem[head] # Rewind /\ tail <= head
           \/ b = head /\ dmem[head] # Rewind /\ head < tail /\ N < tail
           \/ b = 0 /\ dmem[head] = Rewind /\ tail <= head /\ N < tail
  BY <1>5
<1>7. PICK c : c = Own(t)
  OBVIOUS
<1>8. UNCHANGED <<tail, dmem>>
  BY DEF Close
<1>9. N \in Nat /\ b \in Nat /\ N = b + CmdSize[t] /\ b < N /\ N < RingSize
  BY <1>1, <1>6 DEF Ring
<1>10. c \in Command /\ SizeOf(c) = CmdSize[t]
  <2>1. sender[t].seq \in SeqIds
    BY DEF Close, FalconInv, Sequences, Using, Before
  <2>. QED  BY <1>7, <2>1 DEF Own, Command, SizeOf
<1>. DEFINE k == Len(Q)
            R == Append(Q, c)
            O == [j \in 0 .. k + 1 |-> IF j < k THEN P[j] ELSE IF j = k THEN b ELSE N]
<1>11. /\ Q \in Seq(Command) /\ k \in Nat /\ P[k] = head /\ P[0] = Onward(tail)
       /\ \A i \in 0 .. k : P[i] \in Ring
  BY <1>1, <1>4, PathFacts DEF Path
<1>12. /\ R \in Seq(Command) /\ Len(R) = k + 1 /\ R[k + 1] = c /\ \A i \in 1 .. k : R[i] = Q[i]
  BY <1>10, <1>11
<1>13. /\ O \in [0 .. k + 1 -> Ring] /\ O[k] = b /\ O[k + 1] = N
       /\ \A j \in 0 .. k - 1 : O[j] = P[j]
  BY <1>6, <1>11
<1>14. \A i \in 1 .. k :
         /\ i - 1 \in 0 .. k - 1 /\ P[i - 1] # head /\ Block(P[i - 1], Q[i]) /\ Q[i] \in Command
         /\ P[i - 1] \in Nat /\ P[i - 1] + SizeOf(Q[i]) \in Nat /\ P[i - 1] < P[i - 1] + SizeOf(Q[i])
         /\ P[i] = Onward(P[i - 1] + SizeOf(Q[i]))
         /\ tail <= head => tail <= P[i - 1] /\ P[i - 1] + SizeOf(Q[i]) <= head
         /\ head < tail => tail <= P[i - 1] \/ P[i - 1] + SizeOf(Q[i]) <= head
  <2>. SUFFICES ASSUME NEW i \in 1 .. k
                PROVE  /\ i - 1 \in 0 .. k - 1 /\ P[i - 1] # head /\ Block(P[i - 1], Q[i]) /\ Q[i] \in Command
                       /\ P[i - 1] \in Nat /\ P[i - 1] + SizeOf(Q[i]) \in Nat /\ P[i - 1] < P[i - 1] + SizeOf(Q[i])
                       /\ P[i] = Onward(P[i - 1] + SizeOf(Q[i]))
                       /\ tail <= head => tail <= P[i - 1] /\ P[i - 1] + SizeOf(Q[i]) <= head
                       /\ head < tail => tail <= P[i - 1] \/ P[i - 1] + SizeOf(Q[i]) <= head
    OBVIOUS
  <2>1. /\ Q[i] \in Command /\ P[i - 1] \in Ring /\ Block(P[i - 1], Q[i]) /\ P[i - 1] # head
        /\ P[i] = Onward(P[i - 1] + SizeOf(Q[i]))
        /\ tail <= head => tail <= P[i - 1] /\ P[i - 1] + SizeOf(Q[i]) <= head
        /\ head < tail => tail <= P[i - 1] \/ P[i - 1] + SizeOf(Q[i]) <= head
    BY <1>1, <1>4, PathFacts
  <2>2. P[i - 1] \in Nat /\ SizeOf(Q[i]) \in Nat /\ 1 <= SizeOf(Q[i])
    BY <1>1, <2>1, Types DEF Ring
  <2>3. i - 1 \in 0 .. k - 1
    BY <1>11
  <2>. QED  BY <2>1, <2>2, <2>3
<1>. HIDE DEF k, R, O
<1>15. \A r \in Ring : dmem[r] = Rewind =>
         \/ head < tail /\ tail <= r /\ \A i \in 1 .. k : P[i - 1] < r
         \/ tail <= head /\ r = head
  BY <1>4 DEF Rewinds, k
\* The reader goes on as before, and from the old end to the new command.
<1>16. ASSUME NEW e \in Nat, NEW j \in 0 .. k, P[j] = Onward(e)
       PROVE  O[j] = Onward(e)'
  <2>1. CASE b = head
    <3>1. dmem[head] # Rewind /\ dmem[N] # Rewind
      BY <1>1, <1>6, <1>9, <1>15, <2>1
    <3>2. Onward(e)' = Onward(e)
      BY <1>6, <1>8, <3>1 DEF Onward
    <3>3. O[j] = P[j]
      BY <1>11, <1>13, <2>1
    <3>. QED  BY <1>16, <3>2, <3>3
  <2>2. CASE b # head
    <3>1. b = 0 /\ dmem[head] = Rewind /\ tail <= head /\ N < head
      BY <1>1, <1>6, <1>9, <2>2
    <3>2. \A r \in Ring : dmem[r] = Rewind => r = head
      BY <1>1, <1>15, <3>1
    <3>3. Onward(e) = e
      BY <3>2 DEF Onward
    <3>4. CASE j = k
      BY <1>1, <1>6, <1>8, <1>9, <1>11, <1>13, <1>16, <3>1, <3>3, <3>4 DEF Onward
    <3>5. CASE j # k
      <4>1. j + 1 \in 1 .. k /\ (j + 1) - 1 = j /\ j \in 0 .. k - 1
        BY <1>11, <3>5
      <4>2. P[j] # head /\ O[j] = P[j]
        BY <1>13, <1>14, <4>1
      <4>3. e # head
        BY <1>16, <3>3, <4>2
      <4>4. Onward(e)' = e
        BY <1>6, <1>8, <3>2, <4>3 DEF Onward
      <4>. QED  BY <1>16, <3>3, <4>2, <4>4
    <3>. QED  BY <3>4, <3>5
  <2>. QED  BY <2>1, <2>2
<1>17. O[0] = Onward(tail)'
  <2>1. PICK e \in Nat : e = tail
    BY <1>1
  <2>2. 0 \in 0 .. k /\ P[0] = Onward(e)
    BY <1>11, <2>1
  <2>3. O[0] = Onward(e)'
    BY <1>16, <2>2
  <2>4. e = tail'
    BY <1>8, <2>1
  <2>. QED  BY <2>3, <2>4 DEF Onward
<1>18. ASSUME NEW i \in 1 .. k + 1
       PROVE  /\ Block(O[i - 1], R[i])' /\ O[i] = Onward(O[i - 1] + SizeOf(R[i]))'
              /\ tail <= N => tail <= O[i - 1] /\ O[i - 1] + SizeOf(R[i]) <= N
              /\ N < tail => tail <= O[i - 1] \/ O[i - 1] + SizeOf(R[i]) <= N
  <2>1. CASE i \in 1 .. k
    <3>1. O[i - 1] = P[i - 1] /\ R[i] = Q[i] /\ i \in 0 .. k
      BY <1>11, <1>12, <1>13, <1>14, <2>1
    <3>2. Block(O[i - 1], R[i])'
      BY <1>8, <1>14, <2>1, <3>1 DEF Block, SizeOf
    <3>3. O[i] = Onward(P[i - 1] + SizeOf(Q[i]))'
      BY <1>14, <1>16, <2>1, <3>1
    <3>4. P[i - 1] + SizeOf(Q[i]) \in Nat /\ P[i - 1] \in Nat
          /\ (tail <= head => tail <= P[i - 1] /\ P[i - 1] + SizeOf(Q[i]) <= head)
          /\ (head < tail => tail <= P[i - 1] \/ P[i - 1] + SizeOf(Q[i]) <= head)
      BY <1>14, <2>1
    <3>5. /\ tail <= N => tail <= P[i - 1] /\ P[i - 1] + SizeOf(Q[i]) <= N
          /\ N < tail => tail <= P[i - 1] \/ P[i - 1] + SizeOf(Q[i]) <= N
      BY <1>1, <1>6, <1>9, <3>4
    <3>. QED  BY <3>1, <3>2, <3>3, <3>5 DEF SizeOf
  <2>2. CASE i = k + 1
    <3>1. O[i - 1] = b /\ R[i] = c /\ O[i] = N /\ O[i - 1] + SizeOf(R[i]) = N
      BY <1>9, <1>10, <1>11, <1>12, <1>13, <2>2
    <3>2. Block(O[i - 1], R[i])'
      BY <1>6, <1>7, <1>8, <3>1 DEF Block, SizeOf
    <3>3. Onward(N)' = N
      BY <1>6 DEF Onward
    <3>4. /\ tail <= N => tail <= b /\ N <= N
          /\ N < tail => tail <= b \/ N <= N
      BY <1>1, <1>6, <1>9
    <3>. QED  BY <3>1, <3>2, <3>3, <3>4 DEF SizeOf
  <2>. QED  BY <1>11, <2>1, <2>2
<1>19. Path(O, R)'
  BY <1>6, <1>8, <1>12, <1>13, <1>17, <1>18 DEF Path, SizeOf
<1>20. Rewinds(O, R)'
  <2>1. ASSUME NEW r \in Ring, dmem[r] = Rewind
        PROVE  N < tail /\ tail <= r /\ \A i \in 1 .. k + 1 : O[i - 1] < r
    <3>1. N < tail /\ tail <= r /\ b < r /\ \A i \in 1 .. k : P[i - 1] < r
      <4>0. r \in Nat
        BY DEF Ring
      <4>1. CASE head < tail
        BY <1>1, <1>6, <1>9, <1>15, <2>1, <4>0, <4>1
      <4>2. CASE tail <= head
        <5>1. r = head /\ b = 0 /\ N < tail
          BY <1>1, <1>6, <1>15, <2>1, <4>2
        <5>. QED  BY <1>1, <1>9, <1>14, <4>2, <5>1
      <4>. QED  BY <1>1, <4>1, <4>2
    <3>2. ASSUME NEW i \in 1 .. k + 1
          PROVE  O[i - 1] < r
      <4>1. CASE i \in 1 .. k
        BY <1>13, <1>14, <3>1, <4>1
      <4>2. CASE i = k + 1
        BY <1>11, <1>13, <3>1, <4>2
      <4>. QED  BY <1>11, <4>1, <4>2
    <3>. QED  BY <3>1, <3>2
  <2>2. N < tail => \E r \in Ring : dmem[r] = Rewind
    <3>1. CASE head < tail
      BY <1>4, <3>1 DEF Rewinds
    <3>2. CASE tail <= head
      BY <1>1, <1>6, <1>9, <3>2
    <3>. QED  BY <1>1, <3>1, <3>2
  <2>. QED  BY <1>4, <1>6, <1>8, <1>12, <2>1, <2>2 DEF Rewinds
<1>21. Laid' /\ Queued' = R
  BY <1>2, <1>19, <1>20, NextQueued DEF Laid
<1>. QED  BY <1>3, <1>7, <1>21 DEF R

LEMMA CloseHolders ==
  ASSUME FalconInv, NEW t \in Senders, Close(t)
  PROVE  Holders'
<1>1. FalconTypeOK /\ t # Nothing /\ \A u \in Senders : u # Nothing
  BY InvFacts
<1>2. cmdqLock = t /\ cmdqLock' = Nothing
  BY DEF Close, FalconInv, Holders
<1>3. /\ sender'[t].pc \in {"recv", "wait"}
      /\ \A u \in Senders \ {t} : sender'[u] = sender[u]
  BY <1>1 DEF Close, SenderGoto, FalconTypeOK
<1>4. \A u \in Senders \ {t} : sender[u].pc \notin {"push", "close"}
  BY <1>2 DEF FalconInv, Holders
<1>. QED  BY <1>1, <1>2, <1>3, <1>4 DEF Holders

\* The commands that are queued, in the order they are.
LEMMA InQueue ==
  ASSUME FalconInv, NEW Q, Q = Queued, NEW i \in 1 .. Len(Q), Q \in Seq(Command)
  PROVE  Q[i] \in InFlight
<1>1. DOMAIN Queued = 1 .. Len(Q)
  OBVIOUS
<1>. QED  BY <1>1 DEF InFlight

\* Words of different commands are different words.
LEMMA Apart ==
  ASSUME FalconTypeOK, NEW p \in Ring, NEW q \in Ring, NEW c \in Command, NEW d \in Command,
         Block(p, c), Block(q, d), c # d, NEW w \in p .. p + SizeOf(c) - 1
  PROVE  w \notin q .. q + SizeOf(d) - 1
<1>. SUFFICES ASSUME w \in q .. q + SizeOf(d) - 1 PROVE FALSE
  OBVIOUS
<1>1. dmem[w] = [cmd |-> c, at |-> w - p] /\ dmem[w] = [cmd |-> d, at |-> w - q]
  BY BlockIs
<1>2. dmem[w].cmd = c /\ dmem[w].cmd = d
  BY <1>1
<1>. QED  BY <1>2

LEMMA TakeCommand ==
  ASSUME FalconInv, FwTake, dmem[tail] # Rewind
  PROVE  /\ FalconTypeOK' /\ {head', tail'} \subseteq Ring
         /\ Laid' /\ Holders'
         /\ \E Q \in Seq(Command) : /\ Q = Queued /\ Q # <<>> /\ Queued' = Tail(Q)
                                    /\ fw' = fw \cup {Q[1]}
<1>1. /\ RingSize \in Nat /\ head \in Nat /\ tail \in Nat /\ head < RingSize /\ tail < RingSize
      /\ FalconTypeOK /\ {head, tail} \subseteq Ring /\ tail # head
  BY InvFacts DEF FwTake
<1>2. PICK Q : Q = Queued
  OBVIOUS
<1>3. PICK P : Path(P, Q) /\ Rewinds(P, Q)
  BY <1>2, InvFacts
<1>. DEFINE k == Len(Q)
            c == Q[1]
            n == SizeOf(c)
            N == tail + n
<1>4. Q \in Seq(Command) /\ k \in Nat /\ P[k] = head /\ P[0] = tail
  <2>1. Onward(tail) = tail
    BY DEF Onward
  <2>. QED  BY <1>1, <1>3, <2>1, PathFacts DEF Path
<1>5. k >= 1
  BY <1>1, <1>4
<1>6. /\ c \in Command /\ Block(tail, c) /\ P[1] = Onward(N)
      /\ tail <= head => N <= head
      /\ 1 - 1 = 0 /\ 1 \in 1 .. k
  <2>1. 1 \in 1 .. k /\ 1 - 1 = 0
    BY <1>4, <1>5
  <2>. QED  BY <1>1, <1>3, <1>4, <2>1, PathFacts
<1>7. n \in Nat /\ 1 <= n /\ N \in Nat /\ tail < N
  BY <1>1, <1>6, Types
<1>8. dmem[tail].cmd = c /\ \A w \in tail .. N - 1 : w \in Ring /\ dmem[w] \in Word
  <2>. HIDE DEF c
  <2>1. /\ dmem[tail].cmd = c
        /\ \A w \in tail .. tail + SizeOf(c) - 1 : w \in Ring /\ dmem[w] \in Word
    BY <1>1, <1>6, BlockIs
  <2>2. N - 1 = tail + SizeOf(c) - 1
    BY <1>1, <1>7
  <2>. QED  BY <2>1, <2>2
<1>9. \A r \in Ring : dmem[r] = Rewind =>
        \/ head < tail /\ N <= r /\ \A i \in 1 .. k : P[i - 1] < r
        \/ tail <= head /\ r = head /\ cmdqLock # Nothing
  <2>. SUFFICES ASSUME NEW r \in Ring, dmem[r] = Rewind, head < tail
                PROVE  N <= r /\ \A i \in 1 .. k : P[i - 1] < r
    BY <1>1, <1>3 DEF Rewinds
  <2>1. tail <= r /\ \A i \in 1 .. k : P[i - 1] < r
    BY <1>1, <1>3 DEF Rewinds
  <2>2. r \notin tail .. N - 1
    BY <1>8, Kinds
  <2>3. r \in Nat
    BY DEF Ring
  <2>. QED  BY <1>1, <1>7, <2>1, <2>2, <2>3
<1>10. N \in Ring
  <2>1. CASE tail <= head
    BY <1>1, <1>6, <1>7, <2>1 DEF Ring
  <2>2. CASE head < tail
    <3>1. PICK r \in Ring : dmem[r] = Rewind
      BY <1>3, <2>2 DEF Rewinds
    <3>2. N <= r
      BY <1>1, <1>9, <2>2, <3>1
    <3>. QED  BY <1>1, <1>7, <3>2 DEF Ring
  <2>. QED  BY <1>1, <2>1, <2>2
<1>11. /\ fw' = fw \cup {c} /\ tail' = N
       /\ dmem' = [p \in Ring |-> IF p \in tail .. N - 1 THEN Nothing ELSE dmem[p]]
       /\ UNCHANGED <<ready, initmsg, seq, sender, cmdqLock, position, head, msgqVars,
                      intr, irqAt, recvWork>>
  BY <1>1, <1>8, Types DEF FwTake, SizeOf
<1>12. FalconTypeOK' /\ {head', tail'} \subseteq Ring
  <2>1. dmem' \in [0 .. RingSize - 1 -> Word \cup {Rewind, Nothing}]
    BY <1>1, <1>11, Types DEF Ring
  <2>2. fw' \subseteq Command
    BY <1>1, <1>6, <1>11, Types
  <2>3. tail' \in 0 .. RingSize
    BY <1>1, <1>7, <1>10, <1>11 DEF Ring
  <2>. QED  BY <1>1, <1>10, <1>11, <2>1, <2>2, <2>3 DEF FalconTypeOK, msgqVars
<1>. DEFINE R == Tail(Q)
            O == [j \in 0 .. k - 1 |-> P[j + 1]]
<1>13. R \in Seq(Command) /\ Len(R) = k - 1 /\ \A i \in 1 .. k - 1 : R[i] = Q[i + 1]
  BY <1>4, <1>5
<1>14. /\ O \in [0 .. k - 1 -> Ring] /\ O[k - 1] = head /\ O[0] = P[1]
       /\ \A j \in 0 .. k - 1 : O[j] = P[j + 1]
  <2>1. \A i \in 0 .. k : P[i] \in Ring
    BY <1>1, <1>3, PathFacts
  <2>2. k - 1 \in 0 .. k - 1 /\ 0 \in 0 .. k - 1 /\ k - 1 + 1 = k /\ 0 + 1 = 1
    BY <1>4, <1>5
  <2>. QED  BY <1>4, <2>1, <2>2
<1>. HIDE DEF R, O, c, n
<1>15. \A r \in Ring : dmem'[r] = Rewind <=> dmem[r] = Rewind
  BY <1>8, <1>11, Kinds
<1>16. \A e : Onward(e)' = Onward(e)
  BY <1>11, <1>15 DEF Onward
\* What is not of the first command stays.
<1>17. ASSUME NEW p \in Ring, NEW d \in Command, Block(p, d), d # c
       PROVE  Block(p, d)' /\ p \notin tail .. N - 1
  <2>1. ASSUME NEW w \in p .. p + SizeOf(d) - 1
        PROVE  w \notin tail .. N - 1 /\ dmem'[w] = dmem[w]
    <3>1. w \notin tail .. tail + SizeOf(c) - 1
      BY <1>1, <1>6, <1>17, Apart
    <3>2. w \in Ring
      BY <1>1, <1>17, BlockIs
    <3>3. N - 1 = tail + SizeOf(c) - 1
      BY <1>1, <1>7 DEF n
    <3>. QED  BY <1>11, <3>1, <3>2, <3>3
  <2>2. p \in p .. p + SizeOf(d) - 1
    BY <1>1, <1>17, Types DEF Ring
  <2>. QED  BY <1>1, <1>17, <2>1, <2>2, BlockKept
<1>18. ASSUME NEW i \in 1 .. k - 1
       PROVE  /\ Block(O[i - 1], R[i])' /\ O[i] = Onward(O[i - 1] + SizeOf(R[i]))'
              /\ N <= head => N <= O[i - 1] /\ O[i - 1] + SizeOf(R[i]) <= head
              /\ head < N => N <= O[i - 1] \/ O[i - 1] + SizeOf(R[i]) <= head
  <2>. DEFINE p == P[i]
              d == Q[i + 1]
              e == P[i] + SizeOf(Q[i + 1])
  <2>1. O[i - 1] = p /\ O[i] = P[i + 1] /\ R[i] = d /\ i + 1 \in 1 .. k /\ (i + 1) - 1 = i
    <3>1. i - 1 \in 0 .. k - 1 /\ i - 1 + 1 = i /\ i \in 0 .. k - 1 /\ i + 1 \in 1 .. k
          /\ (i + 1) - 1 = i
      BY <1>4
    <3>. QED  BY <1>13, <1>14, <3>1
  <2>2. /\ d \in Command /\ p \in Ring /\ Block(p, d) /\ P[i + 1] = Onward(e)
        /\ tail <= head => tail <= p /\ e <= head
        /\ head < tail => tail <= p \/ e <= head
    BY <1>1, <1>3, <2>1, PathFacts
  <2>3. d # c
    <3>1. i + 1 \in DOMAIN Queued /\ 1 \in DOMAIN Queued
      BY <1>2, <1>4, <1>6, <2>1
    <3>2. d = c => i + 1 = 1
      BY <1>2, <3>1 DEF FalconInv, Once, c
    <3>. QED  BY <3>2
  <2>4. Block(p, d)' /\ p \notin tail .. N - 1
    BY <1>17, <2>2, <2>3
  <2>. HIDE DEF p, d
  <2>5. p \in Nat /\ (tail <= p => N <= p)
    BY <1>1, <1>7, <2>2, <2>4 DEF Ring
  <2>6. /\ N <= head => N <= p /\ e <= head
        /\ head < N => N <= p \/ e <= head
    BY <1>1, <1>6, <1>7, <2>2, <2>5
  <2>. QED  BY <1>16, <2>1, <2>2, <2>4, <2>6 DEF p, d, SizeOf, Block
<1>19. Path(O, R)'
  <2>1. O[0] = Onward(tail)'
    BY <1>6, <1>11, <1>14, <1>16 DEF Onward
  <2>. QED  BY <1>11, <1>13, <1>14, <1>18, <2>1 DEF Path, SizeOf
<1>20. Rewinds(O, R)'
  <2>1. ASSUME NEW r \in Ring, dmem[r] = Rewind
        PROVE  \/ head < N /\ N <= r /\ \A i \in 1 .. k - 1 : O[i - 1] < r
               \/ N <= head /\ r = head /\ cmdqLock # Nothing
    <3>1. ASSUME \A i \in 1 .. k : P[i - 1] < r, NEW i \in 1 .. k - 1
          PROVE  O[i - 1] < r
      <4>1. i - 1 \in 0 .. k - 1 /\ i - 1 + 1 = i /\ i + 1 \in 1 .. k /\ (i + 1) - 1 = i
        BY <1>4
      <4>2. O[i - 1] = P[i]
        BY <1>14, <4>1
      <4>3. P[(i + 1) - 1] < r
        BY <3>1, <4>1
      <4>. QED  BY <4>1, <4>2, <4>3
    <3>2. head < tail => head < N
      BY <1>1, <1>7
    <3>. QED  BY <1>6, <1>9, <2>1, <3>1, <3>2
  <2>2. head < N => head < tail
    BY <1>1, <1>6, <1>7
  <2>3. head < N => \E r \in Ring : dmem[r] = Rewind
    BY <1>3, <2>2 DEF Rewinds
  <2>4. \A r, s \in Ring : dmem[r] = Rewind /\ dmem[s] = Rewind => r = s
    BY <1>3 DEF Rewinds
  <2>. QED  BY <1>11, <1>13, <1>15, <2>1, <2>3, <2>4 DEF Rewinds
<1>21. Laid' /\ Queued' = R
  BY <1>12, <1>19, <1>20, NextQueued DEF Laid
<1>22. Holders'
  <2>1. ASSUME NEW t \in Senders, NEW b, Reserved(t, b)
        PROVE  Reserved(t, b)'
    <3>1. CmdSize[t] \in Nat
      BY InvFacts
    <3>2. dmem'[head] = Rewind <=> dmem[head] = Rewind
      BY <1>1, <1>15
    <3>. QED  BY <1>1, <1>6, <1>7, <1>11, <2>1, <3>1, <3>2 DEF Reserved
  <2>2. ASSUME NEW t \in Senders, sender[t].pc = "close", NEW b \in Ring, Block(b, Own(t))
        PROVE  Block(b, Own(t))'
    <3>1. sender[t].seq \in SeqIds /\ \A d \in InFlight : d.seq # sender[t].seq
      BY <2>2 DEF FalconInv, Sequences, Using, Before
    <3>2. c \in InFlight
      BY <1>2, <1>4, <1>6, InQueue DEF c
    <3>3. Own(t) # c /\ Own(t) \in Command
      BY <3>1, <3>2 DEF Own, Command
    <3>4. PICK o : o = Own(t)
      OBVIOUS
    <3>5. Block(b, o)'
      BY <1>17, <2>2, <3>3, <3>4
    <3>6. o = Own(t)'
      BY <1>11, <3>4 DEF Own
    <3>. QED  BY <3>5, <3>6 DEF Block, SizeOf
  <2>3. Holders
    BY DEF FalconInv
  <2>4. UNCHANGED <<sender, cmdqLock, position>>
    BY <1>11
  <2>5. ASSUME NEW t \in Senders
        PROVE  /\ cmdqLock' = t <=> sender'[t].pc \in {"push", "close"}
               /\ sender'[t].pc = "push" => Reserved(t, position)'
               /\ sender'[t].pc = "close" =>
                    /\ position' - CmdSize[t] \in Ring
                    /\ Reserved(t, position - CmdSize[t])'
                    /\ Block(position - CmdSize[t], Own(t))'
    <3>1. PICK x : x = position
      OBVIOUS
    <3>2. PICK y : y = position - CmdSize[t]
      OBVIOUS
    <3>3. sender[t].pc = "push" => Reserved(t, x)'
      BY <2>1, <2>3, <3>1 DEF Holders
    <3>4. sender[t].pc = "close" => y \in Ring /\ Reserved(t, y)' /\ Block(y, Own(t))'
      BY <2>1, <2>2, <2>3, <3>2 DEF Holders
    <3>5. x = position' /\ y = position' - CmdSize[t]
      BY <2>4, <3>1, <3>2
    <3>. QED  BY <2>3, <2>4, <3>3, <3>4, <3>5 DEF Holders, Reserved, Block
  <2>. QED  BY <2>5 DEF Holders
<1>. QED  BY <1>2, <1>4, <1>5, <1>11, <1>12, <1>21, <1>22 DEF R, c

LEMMA TakeRewind ==
  ASSUME FalconInv, FwTake, dmem[tail] = Rewind
  PROVE  /\ FalconTypeOK' /\ {head', tail'} \subseteq Ring
         /\ Laid' /\ Holders' /\ Queued' = Queued /\ fw' = fw
<1>1. /\ RingSize \in Nat /\ head \in Nat /\ tail \in Nat /\ head < RingSize /\ tail < RingSize
      /\ FalconTypeOK /\ {head, tail} \subseteq Ring /\ tail # head
  BY InvFacts DEF FwTake
<1>2. PICK Q : Q = Queued
  OBVIOUS
<1>3. PICK P : Path(P, Q) /\ Rewinds(P, Q)
  BY <1>2, InvFacts
<1>4. head < tail /\ \A i \in 1 .. Len(Q) : P[i - 1] < tail
  BY <1>1, <1>3 DEF Rewinds
<1>5. \A r \in Ring : dmem[r] = Rewind => r = tail
  BY <1>1, <1>3 DEF Rewinds
<1>6. /\ fw' = fw /\ tail' = 0 /\ dmem' = [dmem EXCEPT ![tail] = Nothing]
      /\ UNCHANGED <<ready, initmsg, seq, sender, cmdqLock, position, head, msgqVars,
                     intr, irqAt, recvWork>>
  BY DEF FwTake
<1>7. \A r \in Ring : dmem'[r] # Rewind /\ (r # tail => dmem'[r] = dmem[r])
  BY <1>1, <1>5, <1>6, Types, Kinds
<1>8. FalconTypeOK' /\ {head', tail'} \subseteq Ring
  <2>1. dmem' \in [0 .. RingSize - 1 -> Word \cup {Rewind, Nothing}]
    BY <1>1, <1>6 DEF FalconTypeOK
  <2>2. 0 \in Ring /\ 0 \in 0 .. RingSize
    BY <1>1 DEF Ring
  <2>. QED  BY <1>1, <1>6, <2>1, <2>2 DEF FalconTypeOK, msgqVars
<1>9. ASSUME NEW p \in Ring, NEW c \in Command, Block(p, c)
      PROVE  Block(p, c)'
  <2>1. \A w \in p .. p + SizeOf(c) - 1 : w \in Ring /\ dmem[w] \in Word
    BY <1>1, <1>9, BlockIs
  <2>2. \A w \in p .. p + SizeOf(c) - 1 : dmem'[w] = dmem[w]
    BY <1>7, <2>1, Kinds
  <2>. QED  BY <1>1, <1>9, <2>2, BlockKept
<1>10. \A e : Onward(e)' = e
  BY <1>7 DEF Onward
<1>11. ASSUME NEW i \in 1 .. Len(Q)
       PROVE  /\ Block(P[i - 1], Q[i])' /\ P[i] = P[i - 1] + SizeOf(Q[i])
              /\ 0 <= P[i - 1] /\ P[i - 1] + SizeOf(Q[i]) <= head
  <2>. DEFINE e == P[i - 1] + SizeOf(Q[i])
  <2>1. /\ Q[i] \in Command /\ P[i - 1] \in Ring /\ Block(P[i - 1], Q[i])
        /\ P[i] = Onward(e) /\ (tail <= P[i - 1] \/ e <= head)
    BY <1>1, <1>3, <1>4, PathFacts
  <2>2. e \in Nat /\ P[i - 1] \in Nat
    BY <2>1, Types, <1>1 DEF Ring
  <2>. HIDE DEF e
  <2>3. e <= head
    BY <1>1, <1>4, <2>1, <2>2
  <2>4. Onward(e) = e
    BY <1>1, <1>4, <1>5, <2>2, <2>3 DEF Onward
  <2>. QED  BY <1>9, <2>1, <2>2, <2>3, <2>4 DEF e
<1>12. P[0] = 0 /\ P[Len(Q)] = head
  BY <1>1, <1>3 DEF Path, Onward
<1>13. Path(P, Q)'
  <2>1. Onward(tail)' = 0
    BY <1>6, <1>10
  <2>2. ~(head < 0) /\ 0 <= head
    BY <1>1
  <2>. QED  BY <1>3, <1>6, <1>10, <1>11, <1>12, <2>1, <2>2 DEF Path, SizeOf
<1>14. Rewinds(P, Q)'
  BY <1>1, <1>6, <1>7 DEF Rewinds
<1>15. Laid' /\ Queued' = Queued
  BY <1>2, <1>8, <1>13, <1>14, NextQueued DEF Laid
<1>16. Holders'
  <2>1. ASSUME NEW t \in Senders, NEW b, Reserved(t, b)
        PROVE  Reserved(t, b)'
    <3>1. CmdSize[t] \in Nat
      BY InvFacts
    <3>2. b = head /\ head + CmdSize[t] < RingSize
      BY <1>1, <1>4, <2>1, <3>1 DEF Reserved
    <3>3. 0 <= head
      BY <1>1
    <3>. QED  BY <1>1, <1>6, <1>7, <3>2, <3>3 DEF Reserved
  <2>2. ASSUME NEW t \in Senders, sender[t].pc = "close", NEW b \in Ring, Block(b, Own(t))
        PROVE  Block(b, Own(t))'
    <3>1. Own(t) \in Command
      BY <2>2 DEF FalconInv, Sequences, Using, Before, Own, Command
    <3>2. PICK o : o = Own(t)
      OBVIOUS
    <3>3. Block(b, o)'
      BY <1>9, <2>2, <3>1, <3>2
    <3>4. o = Own(t)'
      BY <1>6, <3>2 DEF Own
    <3>. QED  BY <3>3, <3>4 DEF Block, SizeOf
  <2>3. Holders
    BY DEF FalconInv
  <2>4. UNCHANGED <<sender, cmdqLock, position>>
    BY <1>6
  <2>5. ASSUME NEW t \in Senders
        PROVE  /\ cmdqLock' = t <=> sender'[t].pc \in {"push", "close"}
               /\ sender'[t].pc = "push" => Reserved(t, position)'
               /\ sender'[t].pc = "close" =>
                    /\ position' - CmdSize[t] \in Ring
                    /\ Reserved(t, position - CmdSize[t])'
                    /\ Block(position - CmdSize[t], Own(t))'
    <3>1. PICK x : x = position
      OBVIOUS
    <3>2. PICK y : y = position - CmdSize[t]
      OBVIOUS
    <3>3. sender[t].pc = "push" => Reserved(t, x)'
      BY <2>1, <2>3, <3>1 DEF Holders
    <3>4. sender[t].pc = "close" => y \in Ring /\ Reserved(t, y)' /\ Block(y, Own(t))'
      BY <2>1, <2>2, <2>3, <3>2 DEF Holders
    <3>5. x = position' /\ y = position' - CmdSize[t]
      BY <2>4, <3>1, <3>2
    <3>. QED  BY <2>3, <2>4, <3>3, <3>4, <3>5 DEF Holders, Reserved, Block
  <2>. QED  BY <2>5 DEF Holders
<1>. QED  BY <1>6, <1>8, <1>15, <1>16

\* An empty ring.
LEMMA EmptyRing ==
  ASSUME FalconTypeOK', head' = 0, tail' = 0, dmem' = BootRing
  PROVE  Laid' /\ Queued' = <<>>
<1>1. PICK P : P = [j \in 0 .. 0 |-> 0]
  OBVIOUS
<1>2. 0 \in Ring /\ {head', tail'} \subseteq Ring
  BY Sizes DEF Ring
<1>3. \A r \in Ring : dmem'[r] # Rewind
  BY Kinds DEF BootRing, Ring
<1>4. Path(P, <<>>)'
  <2>1. Onward(tail)' = 0
    BY DEF Onward
  <2>2. P \in [0 .. 0 -> Ring] /\ P[0] = 0
    BY <1>1, <1>2
  <2>. QED  BY <2>1, <2>2 DEF Path
<1>5. Rewinds(P, <<>>)'
  BY <1>3 DEF Rewinds
<1>. QED  BY <1>2, <1>4, <1>5, NextQueued DEF Laid

LEMMA EmptyInit ==
  ASSUME FalconTypeOK, head = 0, tail = 0, dmem = BootRing
  PROVE  Laid /\ Queued = <<>>
<1>1. PICK P : P = [j \in 0 .. 0 |-> 0]
  OBVIOUS
<1>2. 0 \in Ring /\ {head, tail} \subseteq Ring
  BY Sizes DEF Ring
<1>3. \A r \in Ring : dmem[r] # Rewind
  BY Kinds DEF BootRing, Ring
<1>4. Path(P, <<>>)
  <2>1. Onward(tail) = 0
    BY DEF Onward
  <2>2. P \in [0 .. 0 -> Ring] /\ P[0] = 0
    BY <1>1, <1>2
  <2>. QED  BY <2>1, <2>2 DEF Path
<1>5. Rewinds(P, <<>>)
  BY <1>3 DEF Rewinds
<1>6. Queued = <<>>
  BY <1>2, <1>4, <1>5, QueuedIs
<1>. QED  BY <1>4, <1>5, <1>6 DEF Laid

-----------------------------------------------------------------------------
(* What is in flight.                                                      *)

Flight ==
  Queued \in Seq(Command) =>
    InFlight = {Queued[i] : i \in 1 .. Len(Queued)} \cup fw \cup {AnswerOf(p) : p \in Answers}

LEMMA FlightNow == Flight
<1>. SUFFICES ASSUME Queued \in Seq(Command)
              PROVE  InFlight = {Queued[i] : i \in 1 .. Len(Queued)} \cup fw
                                  \cup {AnswerOf(p) : p \in Answers}
  BY DEF Flight
<1>1. DOMAIN Queued = 1 .. Len(Queued)
  OBVIOUS
<1>2. {[who |-> m.who, seq |-> m.seq] : m \in {mdata[p] : p \in DOMAIN mdata} \ {Nothing, InitMessage}}
        = {AnswerOf(p) : p \in Answers}
  BY DEF AnswerOf, Answers, Msgs
<1>. QED  BY <1>1, <1>2 DEF InFlight

LEMMA FlightNext == Flight'
  BY FlightNow, PTL

LEMMA LaidSeq ==
  ASSUME FalconInv
  PROVE  /\ Queued \in Seq(Command) /\ Len(Queued) \in Nat /\ DOMAIN Queued = 1 .. Len(Queued)
         /\ InFlight = {Queued[i] : i \in 1 .. Len(Queued)} \cup fw \cup {AnswerOf(p) : p \in Answers}
         /\ InFlight \subseteq Command
<1>1. Queued \in Seq(Command)
  BY InvFacts DEF Path
<1>2. InFlight = {Queued[i] : i \in 1 .. Len(Queued)} \cup fw \cup {AnswerOf(p) : p \in Answers}
  BY <1>1, FlightNow DEF Flight
<1>3. \A p \in Answers : AnswerOf(p) \in Command
  <2>1. \A p \in Answers : p \in DOMAIN mdata /\ mdata[p] # Nothing /\ mdata[p].seq \in SeqIds
    BY DEF Answers, Msgs, FalconInv, Messages
  <2>2. \A p \in Answers : mdata[p] \in Message
    BY <2>1 DEF FalconInv, FalconTypeOK
  <2>. QED  BY <2>1, <2>2 DEF AnswerOf, Command, Message
<1>4. fw \subseteq Command
  BY DEF FalconInv, FalconTypeOK
<1>. QED  BY <1>1, <1>2, <1>3, <1>4

\* What is in flight stays if nothing is sent, taken, answered or received.
LEMMA FlightStays ==
  ASSUME FalconInv, Queued' = Queued, fw' = fw, Answers' = Answers,
         \A p \in Answers : mdata'[p] = mdata[p]
  PROVE  InFlight' = InFlight /\ Once'
<1>1. PICK Q : Q = Queued
  OBVIOUS
<1>2. PICK A : A = Answers
  OBVIOUS
<1>3. /\ Q \in Seq(Command) /\ DOMAIN Q = 1 .. Len(Q) /\ Q = Queued' /\ A = Answers'
      /\ InFlight = {Q[i] : i \in 1 .. Len(Q)} \cup fw \cup {AnswerOf(p) : p \in A}
  BY <1>1, <1>2, LaidSeq
<1>4. InFlight' = {Q[i] : i \in 1 .. Len(Q)} \cup fw' \cup {AnswerOf(p)' : p \in A}
  BY <1>3, FlightNext DEF Flight, AnswerOf
<1>5. \A p \in A : AnswerOf(p)' = AnswerOf(p)
  BY <1>2 DEF AnswerOf
<1>6. InFlight' = InFlight
  BY <1>3, <1>4, <1>5
<1>7. /\ \A i, j \in DOMAIN Q : Q[i].seq = Q[j].seq => i = j
      /\ \A p, q \in A : mdata[p].seq = mdata[q].seq => p = q
      /\ \A i \in DOMAIN Q : Q[i] \notin fw
      /\ \A p \in A : AnswerOf(p) \notin fw /\ \A i \in DOMAIN Q : AnswerOf(p) # Q[i]
  BY <1>1, <1>2 DEF FalconInv, Once
<1>8. Once'
  BY <1>2, <1>3, <1>5, <1>7 DEF Once, AnswerOf
<1>. QED  BY <1>6, <1>8

-----------------------------------------------------------------------------
(* The parts of the invariant that most steps leave alone.                 *)

LEMMA MessagesStay ==
  ASSUME Messages, UNCHANGED msgqVars
  PROVE  Messages' /\ Answers' = Answers /\ \A p \in Answers : mdata'[p] = mdata[p]
BY DEF Messages, msgqVars, Msgs, Answers, EndOf, MsgStart

\* Who is not at the queue of commands does not disturb it.
Away(t) == sender[t].pc \notin {"push", "close"}

LEMMA RingAlone ==
  ASSUME FalconInv, FalconTypeOK', UNCHANGED cmdqVars,
         \A t \in Senders : sender'[t] = sender[t] \/ (Away(t) /\ Away(t)')
  PROVE  {head', tail'} \subseteq Ring /\ Laid' /\ Queued' = Queued /\ Holders'
<1>1. UNCHANGED <<head, tail, dmem, cmdqLock, position>>
  BY DEF cmdqVars
<1>2. Laid' /\ Queued' = Queued /\ {head', tail'} \subseteq Ring
  BY <1>1, RingStay, InvFacts
<1>3. ASSUME NEW t \in Senders
      PROVE  /\ cmdqLock' = t <=> sender'[t].pc \in {"push", "close"}
             /\ sender'[t].pc = "push" => Reserved(t, position)'
             /\ sender'[t].pc = "close" =>
                  /\ position' - CmdSize[t] \in Ring
                  /\ Reserved(t, position - CmdSize[t])'
                  /\ Block(position - CmdSize[t], Own(t))'
  <2>1. /\ cmdqLock = t <=> sender[t].pc \in {"push", "close"}
        /\ sender[t].pc = "push" => Reserved(t, position)
        /\ sender[t].pc = "close" =>
             /\ position - CmdSize[t] \in Ring
             /\ Reserved(t, position - CmdSize[t])
             /\ Block(position - CmdSize[t], Own(t))
    BY DEF FalconInv, Holders
  <2>2. CASE Away(t) /\ Away(t)'
    BY <1>1, <2>1, <2>2 DEF Away
  <2>3. CASE sender'[t] = sender[t]
    BY <1>1, <2>1, <2>3 DEF Reserved, Block, Own, SizeOf
  <2>. QED  BY <1>3, <2>2, <2>3
<1>4. Holders'
  BY <1>3 DEF Holders
<1>. QED  BY <1>2, <1>4

\* The sequences stay in their hands when senders only go on, or give up.
LEMMA SeqsStay ==
  ASSUME FalconInv, UNCHANGED seq, InFlight' = InFlight,
         \A t \in Senders : Using(t)' => /\ Using(t) /\ sender'[t].seq = sender[t].seq
                                         /\ sender'[t].pc \in Before <=> sender[t].pc \in Before
  PROVE  Sequences'
<1>1. Sequences
  BY DEF FalconInv
<1>2. ASSUME NEW t \in Senders, Using(t)'
      PROVE  LET s == sender'[t].seq IN
         /\ s \in SeqIds /\ seq[s].used /\ (seq[s].async <=> t = Worker)
         /\ sender'[t].pc \in Before => ~seq[s].done
         /\ sender'[t].pc \in Before \/ seq[s].done => \A c \in InFlight : c.seq # s
         /\ seq[s].done => seq[s].result = t
         /\ \A c \in InFlight : c.seq = s => c.who = t
  BY <1>1, <1>2 DEF Sequences
<1>. QED  BY <1>1, <1>2 DEF Sequences

LEMMA BookStays ==
  ASSUME FalconInv, Queued' = Queued, UNCHANGED <<ready, seq, fw, msgqVars>>,
         \A t \in Senders : Using(t)' => /\ Using(t) /\ sender'[t].seq = sender[t].seq
                                         /\ sender'[t].pc \in Before <=> sender[t].pc \in Before,
         Roles'
  PROVE  Announced' /\ Messages' /\ Once' /\ Sequences'
<1>1. Messages' /\ Answers' = Answers /\ \A p \in Answers : mdata'[p] = mdata[p]
  BY MessagesStay DEF FalconInv
<1>2. InFlight' = InFlight /\ Once'
  BY <1>1, FlightStays
<1>3. Sequences'
  BY <1>2, SeqsStay
<1>4. Announced'
  BY DEF FalconInv, Announced, Using
<1>. QED  BY <1>1, <1>2, <1>3, <1>4

-----------------------------------------------------------------------------
(* The steps of the senders.                                               *)

SeqState == [used : BOOLEAN, async : BOOLEAN, done : BOOLEAN, result : Senders \cup {Nothing}]
SenderState == [pc : {"idle", "write", "push", "close", "wait", "init", "recv"},
                seq : SeqIds \cup {Nothing}]

LEMMA StateTypes ==
  ASSUME FalconTypeOK
  PROVE  /\ seq \in [SeqIds -> SeqState] /\ sender \in [Senders -> SenderState]
         /\ SeqFree \in SeqState /\ Idle \in SenderState
BY DEF FalconTypeOK, SeqState, SenderState, SeqFree, Idle

LEMMA FirstFreeIs ==
  ASSUME FalconTypeOK, FreeSeqs # {}
  PROVE  FirstFree \in SeqIds /\ ~seq[FirstFree].used
<1>1. FreeSeqs \in SUBSET Nat /\ FreeSeqs \subseteq SeqIds
  BY FalconAssumption DEF FreeSeqs, SeqIds
<1>2. \E s \in FreeSeqs : \A r \in FreeSeqs : s <= r
  BY <1>1, LeastNat
<1>3. FirstFree \in FreeSeqs
  BY <1>2 DEF FirstFree
<1>. QED  BY <1>1, <1>3 DEF FreeSeqs

LEMMA AcquireSeqs ==
  ASSUME FalconInv, NEW t \in Senders, FreeSeqs # {}, SeqAcquire(t), ~Using(t)
  PROVE  /\ seq' \in [SeqIds -> SeqState] /\ sender' \in [Senders -> SenderState]
         /\ sender'[t].pc = "write" /\ \A u \in Senders \ {t} : sender'[u] = sender[u]
         /\ InFlight' = InFlight => Sequences'
<1>1. PICK s \in SeqIds : s = FirstFree /\ ~seq[s].used
  BY FirstFreeIs DEF FalconInv
<1>2. seq \in [SeqIds -> SeqState] /\ sender \in [Senders -> SenderState]
  BY StateTypes DEF FalconInv
<1>. DEFINE new == [used |-> TRUE, async |-> t = Worker, done |-> FALSE, result |-> Nothing]
            now == [pc |-> "write", seq |-> s]
<1>3. new \in SeqState /\ now \in SenderState
  BY DEF SeqState, SenderState
<1>4. seq' = [seq EXCEPT ![s] = new] /\ sender' = [sender EXCEPT ![t] = now]
  BY <1>1 DEF SeqAcquire
<1>5. /\ sender'[t] = now /\ \A u \in Senders \ {t} : sender'[u] = sender[u]
      /\ seq'[s] = new /\ \A r \in SeqIds \ {s} : seq'[r] = seq[r]
  BY <1>2, <1>4
<1>6. /\ seq'[s].used /\ ~seq'[s].done /\ (seq'[s].async <=> t = Worker)
      /\ sender'[t].pc = "write" /\ sender'[t].seq = s
  <2>1. new.used /\ ~new.done /\ new.async = (t = Worker) /\ now.pc = "write" /\ now.seq = s
    BY Zenon
  <2>. HIDE DEF new, now
  <2>2. new.async <=> t = Worker
    BY <2>1
  <2>. QED  BY <1>5, <2>1, <2>2
<1>7. seq' \in [SeqIds -> SeqState] /\ sender' \in [Senders -> SenderState]
  <2>. HIDE DEF new, now
  <2>. QED  BY <1>2, <1>3, <1>4
<1>. HIDE DEF new, now
<1>8. \A c \in InFlight : c.seq \in SeqIds /\ seq[c.seq].used /\ c.seq # s
  BY <1>1, LaidSeq DEF FalconInv, Sequences, Command
<1>9. \A u \in Senders \ {t} : Using(u)' => Using(u) /\ sender[u].seq \in SeqIds \ {s}
  BY <1>1, <1>5 DEF FalconInv, Sequences, Using
<1>10. ASSUME NEW u \in Senders, Using(u)'
       PROVE  LET r == sender'[u].seq IN
         /\ r \in SeqIds /\ seq'[r].used /\ (seq'[r].async <=> u = Worker)
         /\ sender'[u].pc \in Before => ~seq'[r].done
         /\ sender'[u].pc \in Before \/ seq'[r].done => \A c \in InFlight : c.seq # r
         /\ seq'[r].done => seq'[r].result = u
         /\ \A c \in InFlight : c.seq = r => c.who = u
  <2>1. CASE u = t
    BY <1>6, <1>8, <2>1
  <2>2. CASE u # t
    <3>1. Using(u) /\ sender[u].seq \in SeqIds \ {s} /\ sender'[u] = sender[u]
      BY <1>5, <1>9, <1>10, <2>2
    <3>2. seq'[sender[u].seq] = seq[sender[u].seq]
      BY <1>5, <3>1
    <3>. QED  BY <3>1, <3>2 DEF FalconInv, Sequences
  <2>. QED  BY <2>1, <2>2
<1>11. ASSUME InFlight' = InFlight
       PROVE  Sequences'
  <2>1. \A c \in InFlight : seq'[c.seq].used
    BY <1>5, <1>8
  <2>2. \A c, d \in InFlight : c.seq = d.seq => c = d
    BY DEF FalconInv, Sequences
  <2>3. \A u, v \in Senders : Using(u)' /\ Using(v)' /\ sender'[u].seq = sender'[v].seq => u = v
    <3>1. \A u, v \in Senders : Using(u) /\ Using(v) /\ sender[u].seq = sender[v].seq => u = v
      BY DEF FalconInv, Sequences
    <3>. QED  BY <1>5, <1>6, <1>9, <3>1
  <2>. QED  BY <1>10, <1>11, <2>1, <2>2, <2>3 DEF Sequences
<1>. QED  BY <1>5, <1>6, <1>7, <1>11

\* A sender gives its sequence back when nothing is in flight with it.
LEMMA ReleaseSeqs ==
  ASSUME FalconInv, NEW t \in Senders, Using(t), SeqRelease(sender[t].seq),
         sender' = [sender EXCEPT ![t] = Idle],
         \A c \in InFlight : c.seq # sender[t].seq
  PROVE  /\ seq' \in [SeqIds -> SeqState] /\ sender' \in [Senders -> SenderState]
         /\ sender'[t].pc = "idle" /\ \A u \in Senders \ {t} : sender'[u] = sender[u]
         /\ InFlight' = InFlight => Sequences'
<1>1. PICK s \in SeqIds : s = sender[t].seq /\ \A c \in InFlight : c.seq # s
  BY DEF FalconInv, Sequences
<1>2. seq \in [SeqIds -> SeqState] /\ sender \in [Senders -> SenderState]
      /\ SeqFree \in SeqState /\ Idle \in SenderState
  BY StateTypes DEF FalconInv
<1>3. seq' = [seq EXCEPT ![s] = SeqFree]
  BY <1>1 DEF SeqRelease
<1>4. seq' \in [SeqIds -> SeqState] /\ sender' \in [Senders -> SenderState]
  BY <1>2, <1>3
<1>5. /\ sender'[t].pc = "idle" /\ \A u \in Senders \ {t} : sender'[u] = sender[u]
      /\ \A r \in SeqIds \ {s} : seq'[r] = seq[r]
  BY <1>2, <1>3 DEF Idle
<1>6. ASSUME NEW u \in Senders, Using(u)'
      PROVE  /\ Using(u) /\ sender'[u] = sender[u] /\ sender[u].seq \in SeqIds
             /\ seq'[sender[u].seq] = seq[sender[u].seq]
  <2>1. u # t
    BY <1>5, <1>6 DEF Using, Before
  <2>2. sender'[u] = sender[u] /\ Using(u)
    BY <1>5, <1>6, <2>1 DEF Using
  <2>3. sender[u].seq \in SeqIds /\ sender[u].seq # s
    BY <1>1, <2>1, <2>2 DEF FalconInv, Sequences
  <2>. QED  BY <1>5, <2>2, <2>3
<1>7. \A c \in InFlight : c.seq \in SeqIds /\ seq'[c.seq].used
  BY <1>1, <1>5, LaidSeq DEF FalconInv, Sequences, Command
<1>8. ASSUME NEW u \in Senders, Using(u)'
       PROVE  LET r == sender'[u].seq IN
         /\ r \in SeqIds /\ seq'[r].used /\ (seq'[r].async <=> u = Worker)
         /\ sender'[u].pc \in Before => ~seq'[r].done
         /\ sender'[u].pc \in Before \/ seq'[r].done => \A c \in InFlight : c.seq # r
         /\ seq'[r].done => seq'[r].result = u
         /\ \A c \in InFlight : c.seq = r => c.who = u
  BY <1>6, <1>8 DEF FalconInv, Sequences
<1>9. ASSUME InFlight' = InFlight
      PROVE  Sequences'
  BY <1>9, <1>6, <1>7, <1>8 DEF FalconInv, Sequences
<1>. QED  BY <1>4, <1>5, <1>9

\* The types, when only the senders, their sequences and the worker do anything.
LEMMA TypesStay ==
  ASSUME FalconInv, seq' \in [SeqIds -> SeqState], sender' \in [Senders -> SenderState],
         UNCHANGED <<cmdqVars, fw, msgqVars>>,
         ready' \in BOOLEAN, initmsg' \in BOOLEAN,
         intr' \in BOOLEAN, irqAt' \in {"idle", "ack"}, recvWork' \in BOOLEAN
  PROVE  FalconTypeOK'
BY DEF FalconInv, FalconTypeOK, SeqState, SenderState, cmdqVars, msgqVars

LEMMA CallStartInv ==
  ASSUME FalconInv, NEW t \in Callers, CallStart(t)
  PROVE  FalconInv' /\ Queued' = Queued /\ UNCHANGED <<ready, fw>>
<1>1. /\ t \in Senders /\ FreeSeqs # {} /\ SeqAcquire(t) /\ sender[t].pc = "idle" /\ ready
      /\ UNCHANGED <<ready, initmsg, cmdqVars, fw, msgqVars, intr, irqAt, recvWork>>
  BY DEF CallStart, Senders
<1>2. ~Using(t)
  BY <1>1 DEF Using, Before
<1>3. /\ seq' \in [SeqIds -> SeqState] /\ sender' \in [Senders -> SenderState]
      /\ sender'[t].pc = "write" /\ \A u \in Senders \ {t} : sender'[u] = sender[u]
      /\ InFlight' = InFlight => Sequences'
  BY <1>1, <1>2, AcquireSeqs
<1>4. FalconTypeOK'
  <2>1. /\ ready \in BOOLEAN /\ initmsg \in BOOLEAN
        /\ intr \in BOOLEAN /\ irqAt \in {"idle", "ack"} /\ recvWork \in BOOLEAN
    BY DEF FalconInv, FalconTypeOK
  <2>. QED  BY <1>1, <1>3, <2>1, TypesStay
<1>5. {head', tail'} \subseteq Ring /\ Laid' /\ Queued' = Queued /\ Holders'
  BY <1>1, <1>3, <1>4, RingAlone DEF Away
<1>6. Messages' /\ Answers' = Answers /\ \A p \in Answers : mdata'[p] = mdata[p]
  BY <1>1, MessagesStay DEF FalconInv
<1>7. InFlight' = InFlight /\ Once'
  BY <1>1, <1>5, <1>6, FlightStays
<1>8. Announced'
  BY <1>1, <1>3 DEF FalconInv, Announced
<1>9. Roles'
  BY <1>1, <1>3, FalconAssumption DEF FalconInv, Roles, Senders
<1>. QED  BY <1>1, <1>3, <1>4, <1>5, <1>6, <1>7, <1>8, <1>9 DEF FalconInv

\* A step of t on the ring that sends nothing, takes nothing and keeps its sequence.
LEMMA OnRing ==
  ASSUME FalconInv, NEW t \in Senders, NEW pc \in Before, SenderGoto(t, pc), sender[t].pc \in Before,
         UNCHANGED <<ready, seq, fw, msgqVars>>, Queued' = Queued
  PROVE  Announced' /\ Roles' /\ Messages' /\ Once' /\ Sequences'
<1>1. /\ sender'[t].pc = pc /\ sender'[t].seq = sender[t].seq
      /\ \A u \in Senders \ {t} : sender'[u] = sender[u]
  BY DEF SenderGoto, FalconInv, FalconTypeOK
<1>2. Roles'
  BY <1>1 DEF FalconInv, Roles, Before, Senders
<1>3. \A u \in Senders : Using(u)' => /\ Using(u) /\ sender'[u].seq = sender[u].seq
                                      /\ sender'[u].pc \in Before <=> sender[u].pc \in Before
  BY <1>1 DEF Using
<1>. QED  BY <1>2, <1>3, BookStays

LEMMA OpenInv ==
  ASSUME FalconInv, NEW t \in Senders, NEW rewind \in BOOLEAN, Open(t, rewind)
  PROVE  FalconInv' /\ Queued' = Queued /\ UNCHANGED <<ready, fw>>
<1>1. /\ SenderGoto(t, "push") /\ sender[t].pc \in Before /\ "push" \in Before
      /\ UNCHANGED <<ready, seq, fw, msgqVars>>
  BY DEF Open, Before
<1>2. FalconTypeOK' /\ {head', tail'} \subseteq Ring /\ Laid' /\ Queued' = Queued /\ Holders'
  BY OpenTypes, OpenRing
<1>3. Announced' /\ Roles' /\ Messages' /\ Once' /\ Sequences'
  BY <1>1, <1>2, OnRing
<1>. QED  BY <1>1, <1>2, <1>3 DEF FalconInv

LEMMA PushInv ==
  ASSUME FalconInv, NEW t \in Senders, PushCommand(t)
  PROVE  FalconInv' /\ Queued' = Queued /\ UNCHANGED <<ready, fw>>
<1>1. /\ SenderGoto(t, "close") /\ sender[t].pc \in Before /\ "close" \in Before
      /\ UNCHANGED <<ready, seq, fw, msgqVars>>
  BY DEF PushCommand, Before
<1>2. FalconTypeOK' /\ {head', tail'} \subseteq Ring /\ Laid' /\ Queued' = Queued /\ Holders'
  BY PushTypes, PushRing
<1>3. Announced' /\ Roles' /\ Messages' /\ Once' /\ Sequences'
  BY <1>1, <1>2, OnRing
<1>. QED  BY <1>1, <1>2, <1>3 DEF FalconInv

\* What t has sent, or will never send, is not in flight when it gives up the
\* sequence.
LEMMA ReleaseInv ==
  ASSUME FalconInv, NEW t \in Senders, Using(t), Away(t), SeqRelease(sender[t].seq),
         sender' = [sender EXCEPT ![t] = Idle],
         \A c \in InFlight : c.seq # sender[t].seq,
         UNCHANGED <<ready, initmsg, cmdqVars, fw, msgqVars, intr, irqAt, recvWork>>
  PROVE  FalconInv' /\ Queued' = Queued /\ UNCHANGED <<ready, fw>>
<1>1. /\ seq' \in [SeqIds -> SeqState] /\ sender' \in [Senders -> SenderState]
      /\ sender'[t].pc = "idle" /\ \A u \in Senders \ {t} : sender'[u] = sender[u]
      /\ InFlight' = InFlight => Sequences'
  BY ReleaseSeqs
<1>2. FalconTypeOK'
  <2>1. /\ ready \in BOOLEAN /\ initmsg \in BOOLEAN
        /\ intr \in BOOLEAN /\ irqAt \in {"idle", "ack"} /\ recvWork \in BOOLEAN
    BY DEF FalconInv, FalconTypeOK
  <2>. QED  BY <1>1, <2>1, TypesStay
<1>3. {head', tail'} \subseteq Ring /\ Laid' /\ Queued' = Queued /\ Holders'
  BY <1>1, <1>2, RingAlone DEF Away
<1>4. Messages' /\ Answers' = Answers /\ \A p \in Answers : mdata'[p] = mdata[p]
  BY MessagesStay DEF FalconInv
<1>5. InFlight' = InFlight /\ Once'
  BY <1>3, <1>4, FlightStays
<1>6. Announced'
  BY <1>1, <1>3 DEF FalconInv, Announced, Before
<1>7. Roles'
  BY <1>1 DEF FalconInv, Roles, Senders
<1>. QED  BY <1>1, <1>2, <1>3, <1>4, <1>5, <1>6, <1>7 DEF FalconInv

LEMMA WriteTimesOutInv ==
  ASSUME FalconInv, NEW t \in Senders, WriteTimesOut(t)
  PROVE  FalconInv' /\ Queued' = Queued /\ UNCHANGED <<ready, fw>>
<1>1. Using(t) /\ Away(t) /\ sender[t].pc \in Before
  BY DEF WriteTimesOut, Using, Away, Before
<1>2. \A c \in InFlight : c.seq # sender[t].seq
  BY <1>1 DEF FalconInv, Sequences
<1>. QED  BY <1>1, <1>2, ReleaseInv DEF WriteTimesOut

LEMMA DoneInv ==
  ASSUME FalconInv, NEW t \in Senders, Done(t)
  PROVE  FalconInv' /\ Queued' = Queued /\ UNCHANGED <<ready, fw>>
<1>1. Using(t) /\ Away(t) /\ seq[sender[t].seq].done
  BY DEF Done, Using, Away
<1>2. \A c \in InFlight : c.seq # sender[t].seq
  BY <1>1 DEF FalconInv, Sequences
<1>. QED  BY <1>1, <1>2, ReleaseInv DEF Done

\* A step of t that keeps away from the ring, and has no sequence any more.
LEMMA GoOn ==
  ASSUME FalconInv, NEW t \in Senders, Away(t), sender' \in [Senders -> SenderState],
         sender'[t].pc \notin Before \cup {"wait"}, t # Worker => sender'[t].pc \notin {"init", "recv"},
         \A u \in Senders \ {t} : sender'[u] = sender[u],
         UNCHANGED <<ready, seq, cmdqVars, fw, msgqVars>>, initmsg' = initmsg,
         intr' = intr, irqAt' = irqAt, recvWork' \in BOOLEAN
  PROVE  FalconInv' /\ Queued' = Queued /\ UNCHANGED <<ready, fw>>
<1>1. FalconTypeOK'
  <2>1. /\ ready \in BOOLEAN /\ initmsg \in BOOLEAN /\ seq \in [SeqIds -> SeqState]
        /\ intr \in BOOLEAN /\ irqAt \in {"idle", "ack"} /\ recvWork \in BOOLEAN
    BY StateTypes DEF FalconInv, FalconTypeOK
  <2>. QED  BY <2>1, TypesStay
<1>2. {head', tail'} \subseteq Ring /\ Laid' /\ Queued' = Queued /\ Holders'
  BY <1>1, RingAlone DEF Away, Before
<1>3. Roles'
  BY FalconAssumption DEF FalconInv, Roles, Senders
<1>4. \A u \in Senders : Using(u)' => /\ Using(u) /\ sender'[u].seq = sender[u].seq
                                      /\ sender'[u].pc \in Before <=> sender[u].pc \in Before
  BY DEF Using
<1>5. Announced' /\ Messages' /\ Once' /\ Sequences'
  BY <1>2, <1>3, <1>4, BookStays
<1>. QED  BY <1>1, <1>2, <1>3, <1>5 DEF FalconInv

LEMMA TimesOutInv ==
  ASSUME FalconInv, NEW t \in Senders, TimesOut(t)
  PROVE  FalconInv' /\ Queued' = Queued /\ UNCHANGED <<ready, fw>>
<1>1. Away(t)
  BY DEF TimesOut, Away
<1>2. /\ sender' \in [Senders -> SenderState] /\ sender'[t].pc = "idle"
      /\ \A u \in Senders \ {t} : sender'[u] = sender[u]
  <2>1. sender \in [Senders -> SenderState] /\ Idle \in SenderState /\ Idle.pc = "idle"
    BY StateTypes DEF FalconInv, Idle
  <2>2. sender' = [sender EXCEPT ![t] = Idle]
    BY DEF TimesOut
  <2>. QED  BY <2>1, <2>2
<1>3. recvWork \in BOOLEAN
  BY DEF FalconInv, FalconTypeOK
<1>. QED  BY <1>1, <1>2, <1>3, GoOn DEF TimesOut, Before

LEMMA CloseFlight ==
  ASSUME FalconInv, NEW t \in Senders, Close(t)
  PROVE  InFlight' = InFlight \cup {Own(t)} /\ Once'
<1>1. PICK Q : Q = Queued
  OBVIOUS
<1>2. PICK A : A = Answers
  OBVIOUS
<1>3. PICK o : o = Own(t)
  OBVIOUS
<1>4. /\ Q \in Seq(Command) /\ Len(Q) \in Nat /\ DOMAIN Q = 1 .. Len(Q)
      /\ InFlight = {Q[i] : i \in 1 .. Len(Q)} \cup fw \cup {AnswerOf(p) : p \in A}
  BY <1>1, <1>2, LaidSeq
<1>5. sender[t].seq \in SeqIds /\ \A c \in InFlight : c.seq # sender[t].seq
  BY DEF Close, FalconInv, Sequences, Using, Before
<1>6. o \in Command /\ o.seq = sender[t].seq
  BY <1>3, <1>5 DEF Own, Command
<1>. DEFINE R == Append(Q, o)
<1>7. /\ R \in Seq(Command) /\ Len(R) = Len(Q) + 1 /\ DOMAIN R = 1 .. Len(Q) + 1
      /\ R[Len(Q) + 1] = o /\ \A i \in 1 .. Len(Q) : R[i] = Q[i]
  BY <1>4, <1>6
<1>8. Queued' = R
  BY <1>1, <1>3, CloseRing
<1>9. fw' = fw /\ mdata' = mdata /\ Answers' = A
  BY <1>2 DEF Close, msgqVars, Answers, Msgs
<1>. HIDE DEF R
<1>10. {R[i] : i \in 1 .. Len(R)} = {Q[i] : i \in 1 .. Len(Q)} \cup {o}
  <2>1. \A i \in 1 .. Len(R) : i \in 1 .. Len(Q) \/ i = Len(Q) + 1
    BY <1>4, <1>7
  <2>2. \A i \in 1 .. Len(Q) : i \in 1 .. Len(R)
    BY <1>4, <1>7
  <2>3. Len(Q) + 1 \in 1 .. Len(R)
    BY <1>4, <1>7
  <2>. QED  BY <1>7, <2>1, <2>2, <2>3
<1>11. InFlight' = {R[i] : i \in 1 .. Len(R)} \cup fw' \cup {AnswerOf(p)' : p \in A}
  BY <1>7, <1>8, <1>9, FlightNext DEF Flight, AnswerOf
<1>12. \A p \in A : AnswerOf(p)' = AnswerOf(p)
  BY <1>9 DEF AnswerOf
<1>13. InFlight' = InFlight \cup {o}
  BY <1>4, <1>9, <1>10, <1>11, <1>12
<1>14. /\ \A i, j \in 1 .. Len(Q) : Q[i].seq = Q[j].seq => i = j
       /\ \A p, q \in A : mdata[p].seq = mdata[q].seq => p = q
       /\ \A i \in 1 .. Len(Q) : Q[i] \notin fw
       /\ \A p \in A : AnswerOf(p) \notin fw /\ \A i \in 1 .. Len(Q) : AnswerOf(p) # Q[i]
  BY <1>1, <1>2, <1>4 DEF FalconInv, Once
<1>15. /\ \A i \in 1 .. Len(Q) : Q[i].seq # o.seq
       /\ o \notin fw /\ \A p \in A : AnswerOf(p) # o
  BY <1>4, <1>5, <1>6
<1>16. \A i \in 1 .. Len(Q) + 1 : i \in 1 .. Len(Q) \/ i = Len(Q) + 1
  BY <1>4
<1>17. /\ \A i, j \in DOMAIN R : R[i].seq = R[j].seq => i = j
       /\ \A i \in DOMAIN R : R[i] \notin fw
       /\ \A p \in A : AnswerOf(p) \notin fw /\ \A i \in DOMAIN R : AnswerOf(p) # R[i]
  BY <1>7, <1>14, <1>15, <1>16
<1>18. Once'
  BY <1>8, <1>9, <1>12, <1>14, <1>17 DEF Once, AnswerOf
<1>. QED  BY <1>3, <1>13, <1>18

LEMMA CloseInv ==
  ASSUME FalconInv, NEW t \in Senders, Close(t)
  PROVE  FalconInv' /\ ready /\ Own(t) \in Command /\ Queued' = Append(Queued, Own(t))
                    /\ UNCHANGED <<ready, fw>>
<1>1. FalconTypeOK' /\ {head', tail'} \subseteq Ring /\ Laid' /\ Queued' = Append(Queued, Own(t))
      /\ Holders'
  BY CloseTypes, CloseRing, CloseHolders
<1>2. InFlight' = InFlight \cup {Own(t)} /\ Once'
  BY CloseFlight
<1>3. PICK s \in SeqIds : s = sender[t].seq
  BY DEF Close, FalconInv, Sequences, Using, Before
<1>4. /\ sender[t].pc = "close" /\ Using(t) /\ sender[t].pc \in Before
      /\ seq[s].used /\ ~seq[s].done /\ (seq[s].async <=> t = Worker)
      /\ \A c \in InFlight : c.seq # s
  BY <1>3 DEF Close, FalconInv, Sequences, Using, Before
<1>5. ready /\ UNCHANGED <<ready, seq, fw, msgqVars>>
  BY <1>4 DEF FalconInv, Announced, Close
<1>6. PICK o : o = Own(t) /\ o \in Command /\ o.seq = s /\ o.who = t
  <2>1. Own(t) = [who |-> t, seq |-> s]
    BY <1>3 DEF Own
  <2>2. Own(t) \in Command /\ Own(t).seq = s /\ Own(t).who = t
    BY <2>1 DEF Command
  <2>. QED  BY <2>2
<1>7. /\ \A u \in Senders \ {t} : sender'[u] = sender[u]
      /\ t = Worker => sender'[t].pc = "recv"
      /\ t # Worker => sender'[t].pc = "wait" /\ sender'[t].seq = s
  <2>1. sender \in [Senders -> SenderState]
    BY StateTypes DEF FalconInv
  <2>2. CASE t = Worker
    BY <2>1, <2>2 DEF Close
  <2>3. CASE t # Worker
    BY <1>3, <2>1, <2>3 DEF Close, SenderGoto, SenderState
  <2>. QED  BY <2>2, <2>3
<1>8. Roles'
  BY <1>7, FalconAssumption DEF FalconInv, Roles, Senders
<1>9. Messages'
  BY <1>5, MessagesStay DEF FalconInv
<1>10. Announced'
  BY <1>5 DEF Announced
<1>11. ASSUME NEW u \in Senders, Using(u)'
       PROVE  /\ Using(u) /\ sender'[u].seq = sender[u].seq
              /\ u # t => sender'[u] = sender[u] /\ sender[u].seq # s
              /\ u = t => u # Worker /\ sender'[u].pc = "wait" /\ sender'[u].seq = s
  <2>1. CASE u = t
    <3>1. u # Worker
      BY <1>7, <1>11, <2>1 DEF Using, Before
    <3>. QED  BY <1>3, <1>4, <1>7, <2>1, <3>1
  <2>2. CASE u # t
    <3>1. sender'[u] = sender[u] /\ Using(u)
      BY <1>7, <1>11, <2>2 DEF Using
    <3>2. sender[u].seq # s
      BY <1>3, <1>4, <2>2, <3>1 DEF FalconInv, Sequences
    <3>. QED  BY <2>2, <3>1, <3>2
  <2>. QED  BY <2>1, <2>2
<1>12. ASSUME NEW u \in Senders, Using(u)'
       PROVE  LET r == sender'[u].seq IN
         /\ r \in SeqIds /\ seq[r].used /\ (seq[r].async <=> u = Worker)
         /\ sender'[u].pc \in Before => ~seq[r].done
         /\ sender'[u].pc \in Before \/ seq[r].done => \A c \in InFlight \cup {o} : c.seq # r
         /\ seq[r].done => seq[r].result = u
         /\ \A c \in InFlight \cup {o} : c.seq = r => c.who = u
  <2>1. CASE u = t
    BY <1>4, <1>6, <1>11, <1>12, <2>1 DEF Before
  <2>2. CASE u # t
    <3>1. Using(u) /\ sender'[u] = sender[u] /\ o.seq # sender[u].seq
      BY <1>6, <1>11, <1>12, <2>2
    <3>. QED  BY <3>1 DEF FalconInv, Sequences
  <2>. QED  BY <2>1, <2>2
<1>13. Sequences'
  <2>1. \A c \in InFlight \cup {o} : seq[c.seq].used
    BY <1>4, <1>6 DEF FalconInv, Sequences
  <2>2. \A c, d \in InFlight \cup {o} : c.seq = d.seq => c = d
    BY <1>4, <1>6 DEF FalconInv, Sequences
  <2>3. \A u, v \in Senders : Using(u)' /\ Using(v)' /\ sender'[u].seq = sender'[v].seq => u = v
    BY <1>11 DEF FalconInv, Sequences
  <2>. QED  BY <1>2, <1>5, <1>6, <1>12, <2>1, <2>2, <2>3 DEF Sequences
<1>. QED  BY <1>1, <1>2, <1>5, <1>6, <1>8, <1>9, <1>10, <1>13 DEF FalconInv

-----------------------------------------------------------------------------
(* The firmware.                                                           *)

LEMMA TakeInv ==
  ASSUME FalconInv, FwTake, dmem[tail] # Rewind
  PROVE  /\ FalconInv' /\ UNCHANGED ready
         /\ \E Q \in Seq(Command) : /\ Q = Queued /\ Q # <<>> /\ Queued' = Tail(Q)
                                    /\ fw' = fw \cup {Q[1]}
<1>1. FalconTypeOK' /\ {head', tail'} \subseteq Ring /\ Laid' /\ Holders'
  BY TakeCommand
<1>2. PICK Q \in Seq(Command) : /\ Q = Queued /\ Q # <<>> /\ Queued' = Tail(Q)
                                /\ fw' = fw \cup {Q[1]}
  BY TakeCommand
<1>3. PICK A : A = Answers
  OBVIOUS
<1>4. UNCHANGED <<ready, seq, sender, msgqVars>>
  BY DEF FwTake
<1>5. Messages' /\ A = Answers' /\ mdata' = mdata
  BY <1>3, <1>4, MessagesStay DEF FalconInv, msgqVars
<1>. DEFINE R == Tail(Q)
            k == Len(Q)
<1>6. /\ k \in Nat /\ 1 <= k /\ DOMAIN Q = 1 .. k
      /\ InFlight = {Q[i] : i \in 1 .. k} \cup fw \cup {AnswerOf(p) : p \in A}
  <2>1. k \in Nat /\ DOMAIN Q = 1 .. k
    OBVIOUS
  <2>2. k # 0
    BY <1>2
  <2>. QED  BY <1>2, <1>3, <2>1, <2>2, LaidSeq
<1>7. /\ R \in Seq(Command) /\ Len(R) = k - 1 /\ DOMAIN R = 1 .. k - 1
      /\ \A i \in 1 .. k - 1 : R[i] = Q[i + 1]
  BY <1>2, <1>6
<1>8. Queued' = R
  BY <1>2
<1>. HIDE DEF R, k
<1>9. /\ \A i \in 1 .. k - 1 : i + 1 \in 1 .. k /\ i + 1 # 1
      /\ \A i \in 1 .. k : i = 1 \/ (i - 1 \in 1 .. k - 1 /\ i = (i - 1) + 1)
      /\ 1 \in 1 .. k
  BY <1>6
<1>10. {Q[i] : i \in 1 .. k} = {R[i] : i \in 1 .. Len(R)} \cup {Q[1]}
  BY <1>7, <1>9
<1>11. InFlight' = {R[i] : i \in 1 .. Len(R)} \cup fw' \cup {AnswerOf(p)' : p \in A}
  BY <1>5, <1>7, <1>8, FlightNext DEF Flight, AnswerOf
<1>12. \A p \in A : AnswerOf(p)' = AnswerOf(p)
  BY <1>5 DEF AnswerOf
<1>13. InFlight' = InFlight
  BY <1>2, <1>6, <1>10, <1>11, <1>12
<1>14. /\ \A i, j \in 1 .. k : Q[i].seq = Q[j].seq => i = j
       /\ \A p, q \in A : mdata[p].seq = mdata[q].seq => p = q
       /\ \A i \in 1 .. k : Q[i] \notin fw
       /\ \A p \in A : AnswerOf(p) \notin fw /\ \A i \in 1 .. k : AnswerOf(p) # Q[i]
  BY <1>2, <1>3, <1>6 DEF FalconInv, Once
<1>15. /\ \A i, j \in DOMAIN R : R[i].seq = R[j].seq => i = j
       /\ \A i \in DOMAIN R : R[i] \notin fw'
       /\ \A p \in A : AnswerOf(p) \notin fw' /\ \A i \in DOMAIN R : AnswerOf(p) # R[i]
  <2>1. ASSUME NEW i \in DOMAIN R, NEW j \in DOMAIN R, R[i].seq = R[j].seq
        PROVE  i = j
    <3>1. i + 1 \in 1 .. k /\ j + 1 \in 1 .. k /\ R[i] = Q[i + 1] /\ R[j] = Q[j + 1]
      BY <1>7, <1>9
    <3>2. i + 1 = j + 1
      BY <1>14, <2>1, <3>1
    <3>. QED  BY <1>7, <3>2
  <2>2. ASSUME NEW i \in DOMAIN R
        PROVE  R[i] \notin fw'
    <3>1. i + 1 \in 1 .. k /\ i + 1 # 1 /\ R[i] = Q[i + 1]
      BY <1>7, <1>9
    <3>2. R[i] \notin fw /\ R[i] # Q[1]
      BY <1>9, <1>14, <3>1
    <3>. QED  BY <1>2, <3>2
  <2>3. ASSUME NEW p \in A
        PROVE  AnswerOf(p) \notin fw' /\ \A i \in DOMAIN R : AnswerOf(p) # R[i]
    BY <1>2, <1>7, <1>9, <1>14
  <2>. QED  BY <2>1, <2>2, <2>3
<1>16. Once'
  BY <1>5, <1>8, <1>12, <1>14, <1>15 DEF Once, AnswerOf
<1>17. Sequences'
  BY <1>4, <1>13, SeqsStay DEF Using
<1>18. Announced'
  <2>1. Queued # <<>>
    BY <1>2
  <2>. QED  BY <1>4, <2>1 DEF FalconInv, Announced
<1>19. Roles'
  BY <1>4 DEF FalconInv, Roles
<1>. QED  BY <1>1, <1>2, <1>4, <1>5, <1>16, <1>17, <1>18, <1>19 DEF FalconInv

LEMMA TakeRewindInv ==
  ASSUME FalconInv, FwTake, dmem[tail] = Rewind
  PROVE  FalconInv' /\ Queued' = Queued /\ UNCHANGED <<ready, fw>>
<1>1. /\ FalconTypeOK' /\ {head', tail'} \subseteq Ring
      /\ Laid' /\ Holders' /\ Queued' = Queued /\ fw' = fw
  BY TakeRewind
<1>2. UNCHANGED <<ready, seq, sender, msgqVars>>
  BY DEF FwTake
<1>3. Roles'
  BY <1>2 DEF FalconInv, Roles
<1>4. Announced' /\ Messages' /\ Once' /\ Sequences'
  BY <1>1, <1>2, <1>3, BookStays DEF Using
<1>. QED  BY <1>1, <1>2, <1>3, <1>4 DEF FalconInv

-----------------------------------------------------------------------------
(* The messages.                                                           *)

LEMMA MsgFacts ==
  ASSUME FalconInv
  PROVE  /\ mhead \in Nat /\ mtail \in Nat /\ MsgStart \in Nat /\ mhead <= MsgSize /\ mtail <= MsgSize
         /\ MsgSize \in Nat /\ AnswerSize \in Nat /\ 1 <= AnswerSize /\ 1 <= MsgSize
         /\ InitSize \in Nat /\ AnswerSize < InitSize
         /\ DOMAIN mdata = 0 .. MsgSize - 1
         /\ \A p \in Msgs : /\ p \in Nat /\ mdata[p] \in Message /\ mdata[p].size \in Nat
                            /\ 1 <= mdata[p].size /\ EndOf(p) \in Nat /\ p < EndOf(p)
                            /\ MsgStart <= p /\ EndOf(p) <= mhead
                            /\ EndOf(p) < mhead => EndOf(p) \in Msgs
         /\ \A p, q \in Msgs : p < q => EndOf(p) <= q
         /\ mhead # mtail => MsgStart \in Msgs
         /\ \A p \in Answers : /\ p \in Msgs /\ mdata[p] # InitMessage
                               /\ mdata[p].seq \in SeqIds /\ mdata[p].size = AnswerSize
<1>1. /\ mhead \in Nat /\ mtail \in Nat /\ mhead <= MsgSize /\ mtail <= MsgSize
      /\ MsgSize \in Nat /\ AnswerSize \in Nat /\ 1 <= AnswerSize /\ 1 <= MsgSize
      /\ InitSize \in Nat /\ AnswerSize < InitSize
      /\ mdata \in [0 .. MsgSize - 1 -> Message \cup {Nothing}]
  BY Sizes DEF FalconInv, FalconTypeOK
<1>2. MsgStart \in Nat
  BY <1>1 DEF MsgStart
<1>3. DOMAIN mdata = 0 .. MsgSize - 1
  BY <1>1
<1>4. \A p \in Msgs : p \in Nat /\ mdata[p] \in Message
  BY <1>1 DEF Msgs
<1>5. \A m \in Message : m.size \in Nat /\ 1 <= m.size
  BY <1>1 DEF Message
<1>6. \A p \in Msgs : mdata[p].size \in Nat /\ 1 <= mdata[p].size
  BY <1>4, <1>5
<1>7. \A p \in Msgs : EndOf(p) \in Nat /\ p < EndOf(p)
  BY <1>4, <1>6 DEF EndOf
<1>8. \A p \in Msgs : /\ MsgStart <= p /\ EndOf(p) <= mhead
                      /\ EndOf(p) < mhead => EndOf(p) \in Msgs
  BY DEF FalconInv, Messages
<1>. QED  BY <1>1, <1>2, <1>3, <1>4, <1>6, <1>7, <1>8 DEF FalconInv, Messages, Answers

\* The message that is read next goes, and the others stay.
LEMMA ConsumeMsgs ==
  ASSUME FalconInv, MsgStart \in Msgs, Consume(mdata[MsgStart].size)
  PROVE  /\ mtail' \in 0 .. MsgSize /\ mhead' = mhead
         /\ mdata' \in [0 .. MsgSize - 1 -> Message \cup {Nothing}]
         /\ Messages' /\ Answers' = Answers \ {MsgStart}
         /\ \A p \in Answers \ {MsgStart} : mdata'[p] = mdata[p]
<1>1. PICK b : b = MsgStart
  OBVIOUS
<1>2. PICK e : e = EndOf(b)
  OBVIOUS
<1>3. PICK M : M = Msgs
  OBVIOUS
<1>4. /\ mhead \in Nat /\ b \in M /\ b \in Nat /\ e \in Nat /\ b < e /\ e <= mhead /\ mhead <= MsgSize
      /\ e < mhead => e \in M
  <2>1. /\ b \in Nat /\ EndOf(b) \in Nat /\ b < EndOf(b) /\ EndOf(b) <= mhead
        /\ EndOf(b) < mhead => EndOf(b) \in Msgs
    BY <1>1, MsgFacts
  <2>2. mhead \in Nat /\ mhead <= MsgSize
    BY MsgFacts
  <2>. QED  BY <1>1, <1>2, <1>3, <2>1, <2>2
<1>5. mtail' = e /\ mhead' = mhead /\ mdata' = [mdata EXCEPT ![b] = Nothing]
  BY <1>1, <1>2 DEF Consume, EndOf
<1>6. mtail' \in 0 .. MsgSize /\ mdata' \in [0 .. MsgSize - 1 -> Message \cup {Nothing}]
  <2>1. MsgSize \in Nat /\ mdata \in [0 .. MsgSize - 1 -> Message \cup {Nothing}]
    BY Sizes DEF FalconInv, FalconTypeOK
  <2>2. mtail' \in 0 .. MsgSize
    BY <1>4, <1>5, <2>1
  <2>. QED  BY <1>5, <2>1, <2>2
<1>7. /\ DOMAIN mdata' = DOMAIN mdata /\ \A p \in DOMAIN mdata : p # b => mdata'[p] = mdata[p]
      /\ b \in DOMAIN mdata /\ mdata'[b] = Nothing
  BY <1>3, <1>4, <1>5 DEF Msgs
<1>8. Msgs' = M \ {b} /\ \A p \in M \ {b} : mdata'[p] = mdata[p]
  BY <1>3, <1>7 DEF Msgs
<1>9. Answers' = Answers \ {b} /\ \A p \in Answers \ {b} : mdata'[p] = mdata[p]
  BY <1>3, <1>8 DEF Answers
<1>10. MsgStart' = e
  BY <1>4, <1>5 DEF MsgStart
<1>11. \A p \in M : p \in Nat /\ EndOf(p) \in Nat /\ p < EndOf(p) /\ b <= p /\ EndOf(p) <= mhead
                   /\ (EndOf(p) < mhead => EndOf(p) \in M)
  BY <1>1, <1>3, MsgFacts
<1>12. \A p, q \in M : p < q => EndOf(p) <= q
  BY <1>3, MsgFacts
<1>13. \A p \in M \ {b} : EndOf(p)' = EndOf(p)
  BY <1>8 DEF EndOf
<1>14. ASSUME NEW p \in M \ {b}
       PROVE  /\ e <= p /\ EndOf(p) <= mhead
              /\ EndOf(p) < mhead => EndOf(p) \in M \ {b}
  <2>1. b < p
    BY <1>4, <1>11
  <2>2. e <= p
    BY <1>2, <1>4, <1>12, <2>1
  <2>3. b < EndOf(p)
    BY <1>4, <1>11, <2>1
  <2>. QED  BY <1>4, <1>11, <2>2, <2>3
<1>15. \A p, q \in M \ {b} : p < q => EndOf(p) <= q
  BY <1>12
<1>16. mhead # e => e \in M \ {b}
  BY <1>4
<1>17. \A p \in Answers \ {b} : mdata[p].seq \in SeqIds /\ mdata[p].size = AnswerSize
  BY MsgFacts
<1>18. Messages'
  BY <1>5, <1>8, <1>9, <1>10, <1>13, <1>14, <1>15, <1>16, <1>17 DEF Messages
<1>. QED  BY <1>1, <1>5, <1>6, <1>9, <1>18

\* An answer is put behind the others, or at the start of an empty queue.
LEMMA AnswerMsgs ==
  ASSUME FalconInv, NEW cmd \in fw, FwAnswer(cmd)
  PROVE  \E p \in (0 .. MsgSize - 1) \ Msgs :
           /\ mhead' \in 0 .. MsgSize /\ UNCHANGED mtail
           /\ mdata' \in [0 .. MsgSize - 1 -> Message \cup {Nothing}]
           /\ Messages' /\ Answers' = Answers \cup {p} /\ AnswerOf(p)' = cmd
           /\ \A q \in Answers : mdata'[q] = mdata[q]
<1>. DEFINE m == [who |-> cmd.who, seq |-> cmd.seq, size |-> AnswerSize]
<1>1. PICK p \in {mhead, 0} :
        /\ IF p = mhead THEN mhead >= mtail /\ p + AnswerSize <= MsgSize
           ELSE mhead = mtail /\ AnswerSize < mtail /\ mhead + AnswerSize > MsgSize
        /\ mdata' = [mdata EXCEPT ![p] = m] /\ mhead' = p + AnswerSize
  BY DEF FwAnswer
<1>2. cmd \in Command /\ cmd.who \in Senders /\ cmd.seq \in SeqIds /\ cmd = [who |-> cmd.who, seq |-> cmd.seq]
  BY DEF FalconInv, FalconTypeOK, Command
<1>3. m \in Message /\ m # Nothing /\ m # InitMessage
      /\ m.who = cmd.who /\ m.seq = cmd.seq /\ m.size = AnswerSize
  <2>1. m \in Message
    BY <1>2 DEF Message
  <2>2. m.size # InitMessage.size
    BY MsgFacts DEF InitMessage
  <2>. QED  BY <2>1, <2>2, Kinds
<1>. HIDE DEF m
<1>4. PICK M : M = Msgs
  OBVIOUS
<1>5. PICK A : A = Answers
  OBVIOUS
<1>6. /\ mhead \in Nat /\ mtail \in Nat /\ mhead <= MsgSize /\ mtail <= MsgSize
      /\ MsgSize \in Nat /\ AnswerSize \in Nat /\ 1 <= AnswerSize /\ 1 <= MsgSize
      /\ DOMAIN mdata = 0 .. MsgSize - 1 /\ mdata \in [0 .. MsgSize - 1 -> Message \cup {Nothing}]
  BY MsgFacts DEF FalconInv, FalconTypeOK
<1>7. p \in Nat /\ p \in 0 .. MsgSize - 1 /\ mhead' \in Nat /\ mhead' <= MsgSize /\ UNCHANGED mtail
      /\ mhead' = p + AnswerSize /\ p < mhead'
  BY <1>1, <1>6 DEF FwAnswer
<1>8. \A q \in M : /\ q \in Nat /\ EndOf(q) \in Nat /\ q < EndOf(q) /\ MsgStart <= q /\ EndOf(q) <= mhead
                   /\ EndOf(q) < mhead => EndOf(q) \in M
  BY <1>4, MsgFacts
<1>9. p # mhead => M = {}
  <2>. SUFFICES ASSUME p # mhead, NEW q \in M PROVE FALSE
    OBVIOUS
  <2>1. MsgStart = mhead
    BY <1>1, <1>6 DEF MsgStart
  <2>2. q \in Nat /\ EndOf(q) \in Nat /\ q < EndOf(q) /\ MsgStart <= q /\ EndOf(q) <= mhead
    BY <1>8
  <2>3. mhead <= q
    BY <2>1, <2>2
  <2>. QED  BY <1>6, <2>2, <2>3
<1>10. p = mhead => MsgStart = mtail /\ mtail <= mhead
  BY <1>1, <1>6 DEF MsgStart
<1>11. p \notin M
  <2>. SUFFICES ASSUME p \in M PROVE FALSE
    OBVIOUS
  <2>1. p = mhead
    BY <1>9
  <2>2. EndOf(p) \in Nat /\ p < EndOf(p) /\ EndOf(p) <= mhead
    BY <1>8
  <2>. QED  BY <1>6, <2>1, <2>2
<1>12. /\ DOMAIN mdata' = DOMAIN mdata /\ mdata'[p] = m
       /\ \A q \in DOMAIN mdata : q # p => mdata'[q] = mdata[q]
       /\ mdata' \in [0 .. MsgSize - 1 -> Message \cup {Nothing}]
  BY <1>1, <1>3, <1>6, <1>7
<1>13. Msgs' = M \cup {p} /\ \A q \in M : mdata'[q] = mdata[q]
  BY <1>3, <1>4, <1>6, <1>7, <1>11, <1>12 DEF Msgs
<1>14. Answers' = A \cup {p} /\ A \subseteq M
  BY <1>3, <1>4, <1>5, <1>12, <1>13 DEF Answers
<1>15. EndOf(p)' = mhead' /\ \A q \in M : EndOf(q)' = EndOf(q)
  BY <1>3, <1>7, <1>12, <1>13 DEF EndOf
<1>16. MsgStart' = IF p = mhead THEN mtail ELSE p
  <2>1. CASE p = mhead
    BY <1>6, <1>7, <1>10, <2>1 DEF MsgStart
  <2>2. CASE p # mhead
    BY <1>1, <1>6, <1>7, <2>2 DEF MsgStart
  <2>. QED  BY <2>1, <2>2
<1>17. \A q \in M : MsgStart' <= q /\ EndOf(q) <= mhead' /\ q < p /\ EndOf(q) <= p
                    /\ (EndOf(q) < mhead' => EndOf(q) \in M \cup {p})
  <2>. SUFFICES ASSUME NEW q \in M
                PROVE  MsgStart' <= q /\ EndOf(q) <= mhead' /\ q < p /\ EndOf(q) <= p
                       /\ (EndOf(q) < mhead' => EndOf(q) \in M \cup {p})
    OBVIOUS
  <2>1. p = mhead /\ MsgStart' = MsgStart
    BY <1>9, <1>10, <1>16
  <2>2. /\ q \in Nat /\ EndOf(q) \in Nat /\ q < EndOf(q) /\ MsgStart <= q /\ EndOf(q) <= mhead
        /\ EndOf(q) < mhead => EndOf(q) \in M
    BY <1>8
  <2>3. EndOf(q) < mhead \/ EndOf(q) = p
    BY <1>6, <2>1, <2>2
  <2>. QED  BY <1>6, <1>7, <2>1, <2>2, <2>3
<1>18. MsgStart' <= p
  BY <1>6, <1>7, <1>10, <1>16
<1>19. \A q, r \in M : q < r => EndOf(q) <= r
  BY <1>4, MsgFacts
<1>20. mhead' # mtail => MsgStart' \in M \cup {p}
  <2>1. p = mhead /\ mhead # mtail => MsgStart \in M
    BY <1>4, MsgFacts
  <2>. QED  BY <1>10, <1>16, <2>1
<1>21. \A q \in A : mdata[q].seq \in SeqIds /\ mdata[q].size = AnswerSize
  BY <1>5, MsgFacts
<1>22. Messages'
  <2>1. \A q \in M \cup {p} : /\ MsgStart' <= q /\ EndOf(q)' <= mhead'
                              /\ EndOf(q)' < mhead' => EndOf(q)' \in M \cup {p}
    BY <1>7, <1>15, <1>17, <1>18
  <2>2. \A q, r \in M \cup {p} : q < r => EndOf(q)' <= r
    <3>. SUFFICES ASSUME NEW q \in M \cup {p}, NEW r \in M \cup {p}, q < r
                  PROVE  EndOf(q)' <= r
      OBVIOUS
    <3>1. q \in M
      <4>1. q = p => r \in M
        BY <1>7
      <4>2. q = p => r < p
        BY <1>17, <4>1
      <4>3. r \in Nat
        BY <1>7, <1>8
      <4>. QED  BY <1>7, <4>2, <4>3
    <3>. QED  BY <1>15, <1>17, <1>19, <3>1
  <2>3. \A q \in A \cup {p} : mdata'[q].seq \in SeqIds /\ mdata'[q].size = AnswerSize
    BY <1>2, <1>3, <1>12, <1>13, <1>14, <1>21
  <2>. QED  BY <1>7, <1>13, <1>14, <1>20, <2>1, <2>2, <2>3 DEF Messages
<1>23. AnswerOf(p)' = cmd
  BY <1>2, <1>3, <1>12 DEF AnswerOf
<1>. QED  BY <1>4, <1>5, <1>7, <1>11, <1>12, <1>13, <1>14, <1>22, <1>23

LEMMA AnswerInv ==
  ASSUME FalconInv, NEW cmd \in fw, FwAnswer(cmd)
  PROVE  FalconInv' /\ Queued' = Queued /\ fw' = fw \ {cmd} /\ UNCHANGED ready
<1>1. PICK p \in (0 .. MsgSize - 1) \ Msgs :
           /\ mhead' \in 0 .. MsgSize /\ UNCHANGED mtail
           /\ mdata' \in [0 .. MsgSize - 1 -> Message \cup {Nothing}]
           /\ Messages' /\ Answers' = Answers \cup {p} /\ AnswerOf(p)' = cmd
           /\ \A q \in Answers : mdata'[q] = mdata[q]
  BY AnswerMsgs
<1>2. /\ fw' = fw \ {cmd} /\ intr' = TRUE
      /\ UNCHANGED <<ready, initmsg, seq, sender, cmdqVars, mtail, irqAt, recvWork>>
  BY DEF FwAnswer
<1>3. FalconTypeOK'
  BY <1>1, <1>2 DEF FalconInv, FalconTypeOK, cmdqVars
<1>4. {head', tail'} \subseteq Ring /\ Laid' /\ Queued' = Queued /\ Holders'
  BY <1>2, <1>3, RingAlone
<1>5. PICK Q : Q = Queued
  OBVIOUS
<1>6. PICK A : A = Answers
  OBVIOUS
<1>7. /\ Q \in Seq(Command) /\ DOMAIN Q = 1 .. Len(Q) /\ Q = Queued' /\ A \cup {p} = Answers'
      /\ InFlight = {Q[i] : i \in 1 .. Len(Q)} \cup fw \cup {AnswerOf(q) : q \in A}
      /\ p \notin A
  BY <1>1, <1>4, <1>5, <1>6, LaidSeq DEF Answers
<1>8. \A q \in A : AnswerOf(q)' = AnswerOf(q)
  BY <1>1, <1>6 DEF AnswerOf
<1>9. InFlight' = {Q[i] : i \in 1 .. Len(Q)} \cup fw' \cup {AnswerOf(q)' : q \in A \cup {p}}
  BY <1>7, FlightNext DEF Flight, AnswerOf
<1>10. {AnswerOf(q)' : q \in A \cup {p}} = {AnswerOf(q) : q \in A} \cup {cmd}
  BY <1>1, <1>8
<1>11. InFlight' = InFlight
  BY <1>2, <1>7, <1>9, <1>10
<1>12. /\ \A i, j \in DOMAIN Q : Q[i].seq = Q[j].seq => i = j
       /\ \A q, r \in A : mdata[q].seq = mdata[r].seq => q = r
       /\ \A i \in DOMAIN Q : Q[i] \notin fw
       /\ \A q \in A : AnswerOf(q) \notin fw /\ \A i \in DOMAIN Q : AnswerOf(q) # Q[i]
  BY <1>5, <1>6 DEF FalconInv, Once
<1>13. mdata'[p].seq = cmd.seq /\ \A q \in A : mdata'[q] = mdata[q]
  <2>1. AnswerOf(p)'.seq = mdata'[p].seq
    BY DEF AnswerOf
  <2>. QED  BY <1>1, <1>6, <2>1
\* The answers that are there are of other commands.
<1>14. \A q \in A : mdata[q].seq # cmd.seq
  <2>. SUFFICES ASSUME NEW q \in A, mdata[q].seq = cmd.seq PROVE FALSE
    OBVIOUS
  <2>1. AnswerOf(q) \in InFlight /\ cmd \in InFlight /\ AnswerOf(q) # cmd
    BY <1>7, <1>12
  <2>2. AnswerOf(q).seq = mdata[q].seq
    BY DEF AnswerOf
  <2>. QED  BY <2>1, <2>2 DEF FalconInv, Sequences
<1>15. \A q, r \in A \cup {p} : mdata'[q].seq = mdata'[r].seq => q = r
  BY <1>12, <1>13, <1>14
<1>16. \A q \in A \cup {p} : AnswerOf(q)' \notin fw' /\ \A i \in DOMAIN Q : AnswerOf(q)' # Q[i]
  BY <1>1, <1>2, <1>8, <1>12
<1>17. Once'
  BY <1>2, <1>7, <1>12, <1>15, <1>16 DEF Once, AnswerOf
<1>18. Sequences'
  BY <1>2, <1>11, SeqsStay DEF Using
<1>19. Announced' /\ Roles'
  BY <1>2, <1>4 DEF FalconInv, Announced, Roles
<1>. QED  BY <1>1, <1>2, <1>3, <1>4, <1>17, <1>18, <1>19 DEF FalconInv

-----------------------------------------------------------------------------
(* The interrupt and the worker.                                           *)

\* What does not touch the queues, the sequences or the senders.
LEMMA Elsewhere ==
  ASSUME FalconInv, UNCHANGED <<ready, initmsg, seq, sender, cmdqVars, fw, msgqVars>>,
         intr' \in BOOLEAN, irqAt' \in {"idle", "ack"}, recvWork' \in BOOLEAN
  PROVE  FalconInv' /\ Queued' = Queued /\ UNCHANGED <<ready, fw>>
<1>1. FalconTypeOK'
  <2>1. /\ ready \in BOOLEAN /\ initmsg \in BOOLEAN
        /\ seq \in [SeqIds -> SeqState] /\ sender \in [Senders -> SenderState]
    BY StateTypes DEF FalconInv, FalconTypeOK
  <2>. QED  BY <2>1, TypesStay
<1>2. {head', tail'} \subseteq Ring /\ Laid' /\ Queued' = Queued /\ Holders'
  BY <1>1, RingAlone
<1>3. Roles'
  BY DEF FalconInv, Roles
<1>4. Announced' /\ Messages' /\ Once' /\ Sequences'
  BY <1>2, <1>3, BookStays DEF Using
<1>. QED  BY <1>1, <1>2, <1>3, <1>4 DEF FalconInv

LEMMA ScheduleInv ==
  ASSUME FalconInv, FalconSchedule \/ FalconAck
  PROVE  FalconInv' /\ Queued' = Queued /\ UNCHANGED <<ready, fw>>
<1>1. intr \in BOOLEAN /\ irqAt \in {"idle", "ack"} /\ recvWork \in BOOLEAN
  BY DEF FalconInv, FalconTypeOK
<1>. QED  BY <1>1, Elsewhere DEF FalconSchedule, FalconAck

\* The worker goes to pc, and does nothing else.
LEMMA WorkerGoes ==
  ASSUME FalconInv, sender[Worker].pc \in {"idle", "init", "recv"},
         NEW pc \in {"idle", "init", "recv"}, SenderGoto(Worker, pc),
         UNCHANGED <<ready, seq, cmdqVars, fw, msgqVars>>, initmsg' = initmsg,
         intr' = intr, irqAt' = irqAt, recvWork' \in BOOLEAN
  PROVE  FalconInv' /\ Queued' = Queued /\ UNCHANGED <<ready, fw>>
<1>1. Worker \in Senders /\ Away(Worker)
  BY DEF Senders, Away
<1>2. /\ sender' \in [Senders -> SenderState] /\ sender'[Worker].pc = pc
      /\ \A u \in Senders \ {Worker} : sender'[u] = sender[u]
  <2>1. sender \in [Senders -> SenderState]
    BY StateTypes DEF FalconInv
  <2>. QED  BY <1>1, <2>1 DEF SenderGoto, SenderState
<1>. QED  BY <1>1, <1>2, GoOn DEF Before

LEMMA WorkStartInv ==
  ASSUME FalconInv, WorkStart
  PROVE  FalconInv' /\ Queued' = Queued /\ UNCHANGED <<ready, fw>>
<1>1. PICK pc \in {"init", "recv"} : SenderGoto(Worker, pc)
  BY DEF WorkStart
<1>. QED  BY <1>1, WorkerGoes DEF WorkStart

LEMMA InitMessageIs ==
  InitMessage.seq = Nothing /\ InitMessage.size = InitSize /\ Nothing \notin SeqIds
BY NothingAssumption DEF InitMessage

LEMMA RecvInitInv ==
  ASSUME FalconInv, RecvInit
  PROVE  /\ FalconInv' /\ Queued' = Queued /\ fw' = fw
         /\ ready' = TRUE \/ ready' = ready
<1>1. sender[Worker].pc = "init" /\ UNCHANGED <<initmsg, cmdqVars, fw, intr, irqAt, recvWork>>
  BY DEF RecvInit
<1>2. CASE ~(mhead - MsgStart >= InitSize /\ mdata[MsgStart] = InitMessage)
  <2>1. SenderGoto(Worker, "idle") /\ UNCHANGED <<msgqVars, ready, seq>>
    BY <1>2 DEF RecvInit
  <2>2. recvWork \in BOOLEAN
    BY DEF FalconInv, FalconTypeOK
  <2>. QED  BY <1>1, <2>1, <2>2, WorkerGoes
<1>3. CASE mhead - MsgStart >= InitSize /\ mdata[MsgStart] = InitMessage
  <2>1. /\ Consume(InitSize) /\ ready' = TRUE
        /\ \/ FreeSeqs # {} /\ SeqAcquire(Worker)
           \/ SenderGoto(Worker, "idle") /\ UNCHANGED seq
    BY <1>3 DEF RecvInit
  <2>2. MsgStart \in Msgs /\ MsgStart \notin Answers
    <3>1. mhead # mtail
      <4>1. mhead = mtail => MsgStart = mhead
        BY MsgFacts DEF MsgStart
      <4>2. InitSize >= 1
        BY MsgFacts
      <4>. QED  BY <1>3, <4>1, <4>2, MsgFacts
    <3>. QED  BY <1>3, <3>1, MsgFacts
  <2>3. Consume(mdata[MsgStart].size)
    BY <1>3, <2>1, InitMessageIs
  <2>4. /\ mtail' \in 0 .. MsgSize /\ mhead' = mhead
        /\ mdata' \in [0 .. MsgSize - 1 -> Message \cup {Nothing}]
        /\ Messages' /\ Answers' = Answers /\ \A p \in Answers : mdata'[p] = mdata[p]
    BY <2>2, <2>3, ConsumeMsgs
  <2>5. /\ seq' \in [SeqIds -> SeqState] /\ sender' \in [Senders -> SenderState]
        /\ sender'[Worker].pc \in {"write", "idle"}
        /\ \A u \in Senders \ {Worker} : sender'[u] = sender[u]
        /\ InFlight' = InFlight => Sequences'
    <3>1. CASE FreeSeqs # {} /\ SeqAcquire(Worker)
      <4>1. Worker \in Senders /\ ~Using(Worker)
        BY <1>1 DEF Using, Before, Senders
      <4>. QED  BY <3>1, <4>1, AcquireSeqs
    <3>2. CASE SenderGoto(Worker, "idle") /\ UNCHANGED seq
      <4>1. seq \in [SeqIds -> SeqState] /\ sender \in [Senders -> SenderState] /\ Worker \in Senders
        BY StateTypes DEF FalconInv, Senders
      <4>2. /\ sender' \in [Senders -> SenderState] /\ sender'[Worker].pc = "idle"
            /\ \A u \in Senders \ {Worker} : sender'[u] = sender[u]
        BY <3>2, <4>1 DEF SenderGoto, SenderState
      <4>3. \A u \in Senders : Using(u)' => /\ Using(u) /\ sender'[u].seq = sender[u].seq
                                            /\ sender'[u].pc \in Before <=> sender[u].pc \in Before
        BY <4>2 DEF Using, Before
      <4>. QED  BY <3>2, <4>1, <4>2, <4>3, SeqsStay
    <3>. QED  BY <2>1, <3>1, <3>2
  <2>6. FalconTypeOK'
    BY <1>1, <2>1, <2>4, <2>5 DEF FalconInv, FalconTypeOK, SeqState, SenderState, cmdqVars
  <2>7. {head', tail'} \subseteq Ring /\ Laid' /\ Queued' = Queued /\ Holders'
    BY <1>1, <2>5, <2>6, RingAlone DEF Away
  <2>8. InFlight' = InFlight /\ Once'
    BY <1>1, <2>4, <2>7, FlightStays
  <2>9. Announced' /\ Roles'
    BY <2>1, <2>5, FalconAssumption DEF FalconInv, Announced, Roles, Senders
  <2>. QED  BY <1>1, <2>1, <2>4, <2>5, <2>6, <2>7, <2>8, <2>9 DEF FalconInv
<1>. QED  BY <1>2, <1>3

\* An answer that is received is not in flight any more, and nothing else is with
\* its sequence.
LEMMA RecvFlight ==
  ASSUME FalconInv, Queued' = Queued, fw' = fw, NEW b \in Answers, Answers' = Answers \ {b},
         \A p \in Answers \ {b} : mdata'[p] = mdata[p]
  PROVE  /\ InFlight' \subseteq InFlight /\ AnswerOf(b) \in InFlight /\ Once'
         /\ \A d \in InFlight' : d.seq # mdata[b].seq
<1>1. PICK Q : Q = Queued
  OBVIOUS
<1>2. PICK A : A = Answers
  OBVIOUS
<1>3. /\ Q \in Seq(Command) /\ DOMAIN Q = 1 .. Len(Q) /\ Q = Queued' /\ A \ {b} = Answers'
      /\ InFlight = {Q[i] : i \in 1 .. Len(Q)} \cup fw \cup {AnswerOf(p) : p \in A}
  BY <1>1, <1>2, LaidSeq
<1>4. InFlight' = {Q[i] : i \in 1 .. Len(Q)} \cup fw' \cup {AnswerOf(p)' : p \in A \ {b}}
  BY <1>3, FlightNext DEF Flight, AnswerOf
<1>5. \A p \in A \ {b} : AnswerOf(p)' = AnswerOf(p)
  BY <1>2 DEF AnswerOf
<1>6. InFlight' \subseteq InFlight /\ AnswerOf(b) \in InFlight
  BY <1>2, <1>3, <1>4, <1>5
<1>7. /\ \A i, j \in DOMAIN Q : Q[i].seq = Q[j].seq => i = j
      /\ \A p, q \in A : mdata[p].seq = mdata[q].seq => p = q
      /\ \A i \in DOMAIN Q : Q[i] \notin fw
      /\ \A p \in A : AnswerOf(p) \notin fw /\ \A i \in DOMAIN Q : AnswerOf(p) # Q[i]
  BY <1>1, <1>2 DEF FalconInv, Once
<1>8. Once'
  BY <1>2, <1>3, <1>5, <1>7 DEF Once, AnswerOf
<1>9. \A p \in A : AnswerOf(p).seq = mdata[p].seq
  BY DEF AnswerOf
<1>10. ASSUME NEW d \in InFlight', d.seq = mdata[b].seq
       PROVE  FALSE
  <2>1. d = AnswerOf(b)
    BY <1>2, <1>6, <1>9, <1>10 DEF FalconInv, Sequences
  <2>2. \E p \in A \ {b} : d = AnswerOf(p)
    BY <1>2, <1>3, <1>4, <1>5, <1>7, <2>1
  <2>. QED  BY <1>2, <1>7, <1>9, <1>10, <2>2
<1>. QED  BY <1>6, <1>8, <1>10

LEMMA ExecTypes ==
  ASSUME FalconInv, NEW b \in Answers, Exec(mdata[b])
  PROVE  seq' \in [SeqIds -> SeqState]
<1>1. seq \in [SeqIds -> SeqState] /\ SeqFree \in SeqState
  BY StateTypes DEF FalconInv
<1>2. mdata[b].who \in Senders
  BY MsgFacts DEF Message
<1>3. CASE mdata[b].seq \notin SeqIds \/ ~seq[mdata[b].seq].used
  BY <1>1, <1>3 DEF Exec
<1>4. CASE mdata[b].seq \in SeqIds /\ seq[mdata[b].seq].used
  <2>1. PICK s \in SeqIds : s = mdata[b].seq
    BY <1>4
  <2>2. PICK w \in Senders : w = mdata[b].who
    BY <1>2
  <2>3. seq[s] \in SeqState
    BY <1>1
  <2>4. CASE seq[s].async
    <3>1. seq' = [seq EXCEPT ![s] = SeqFree]
      BY <1>4, <2>1, <2>4 DEF Exec, SeqRelease
    <3>. QED  BY <1>1, <3>1
  <2>5. CASE ~seq[s].async
    <3>1. seq' = [seq EXCEPT ![s].done = TRUE, ![s].result = w]
      BY <1>4, <2>1, <2>2, <2>5 DEF Exec
    <3>. QED  BY <1>1, <2>3, <3>1 DEF SeqState
  <2>. QED  BY <2>4, <2>5
<1>. QED  BY <1>3, <1>4

LEMMA ExecSeqs ==
  ASSUME FalconInv, NEW b \in Answers, Exec(mdata[b]), sender' = sender,
         InFlight' \subseteq InFlight, AnswerOf(b) \in InFlight,
         \A d \in InFlight' : d.seq # mdata[b].seq
  PROVE  seq' \in [SeqIds -> SeqState] /\ Sequences'
<1>1. PICK c : c = AnswerOf(b)
  OBVIOUS
<1>2. PICK s : s = mdata[b].seq
  OBVIOUS
<1>3. c \in InFlight /\ c.seq = s /\ c.who = mdata[b].who /\ s \in SeqIds /\ seq[s].used
      /\ c.who \in Senders
  <2>1. c.seq = s /\ c.who = mdata[b].who
    BY <1>1, <1>2 DEF AnswerOf
  <2>2. c \in InFlight /\ c \in Command
    BY <1>1, LaidSeq
  <2>. QED  BY <2>1, <2>2 DEF Command, FalconInv, Sequences
<1>4. seq \in [SeqIds -> SeqState]
  BY StateTypes DEF FalconInv
\* Who waits with that sequence waits for this answer.
<1>5. ASSUME NEW u \in Senders, Using(u), sender[u].seq = s
      PROVE  sender[u].pc = "wait" /\ u = c.who /\ ~seq[s].async
  <2>1. c.who = u /\ sender[u].pc \notin Before /\ (seq[s].async <=> u = Worker)
    BY <1>3, <1>5 DEF FalconInv, Sequences
  <2>2. sender[u].pc = "wait"
    BY <1>5, <2>1 DEF Using
  <2>3. u # Worker
    BY <2>2 DEF FalconInv, Roles
  <2>. QED  BY <2>1, <2>2, <2>3
<1>6. /\ seq' \in [SeqIds -> SeqState] /\ \A r \in SeqIds \ {s} : seq'[r] = seq[r]
      /\ ~seq[s].async => /\ seq'[s].used /\ seq'[s].done /\ seq'[s].result = c.who
                          /\ ~seq'[s].async
  <2>1. CASE seq[s].async
    <3>1. seq' = [seq EXCEPT ![s] = SeqFree]
      BY <1>2, <1>3, <2>1 DEF Exec, SeqRelease
    <3>2. SeqFree \in SeqState
      BY StateTypes DEF FalconInv
    <3>. QED  BY <1>3, <1>4, <2>1, <3>1, <3>2
  <2>2. CASE ~seq[s].async
    <3>1. seq' = [seq EXCEPT ![s].done = TRUE, ![s].result = c.who]
      BY <1>2, <1>3, <2>2 DEF Exec
    <3>2. seq[s] \in SeqState
      BY <1>3, <1>4
    <3>. QED  BY <1>3, <1>4, <2>2, <3>1, <3>2 DEF SeqState
  <2>. QED  BY <2>1, <2>2
<1>7. ASSUME NEW u \in Senders, Using(u)
      PROVE  LET r == sender[u].seq IN
         /\ r \in SeqIds /\ seq'[r].used /\ (seq'[r].async <=> u = Worker)
         /\ sender[u].pc \in Before => ~seq'[r].done
         /\ sender[u].pc \in Before \/ seq'[r].done => \A d \in InFlight' : d.seq # r
         /\ seq'[r].done => seq'[r].result = u
         /\ \A d \in InFlight' : d.seq = r => d.who = u
  <2>1. CASE sender[u].seq = s
    <3>1. sender[u].pc = "wait" /\ u = c.who /\ ~seq[s].async /\ u # Worker
      BY <1>5, <1>7, <2>1 DEF FalconInv, Roles
    <3>. QED  BY <1>2, <1>3, <1>6, <2>1, <3>1 DEF Before
  <2>2. CASE sender[u].seq # s
    <3>1. sender[u].seq \in SeqIds
      BY <1>7 DEF FalconInv, Sequences
    <3>2. seq'[sender[u].seq] = seq[sender[u].seq]
      BY <1>6, <2>2, <3>1
    <3>. QED  BY <1>7, <3>1, <3>2 DEF FalconInv, Sequences
  <2>. QED  BY <2>1, <2>2
<1>8. Sequences'
  <2>1. \A d \in InFlight' : seq'[d.seq].used
    <3>. SUFFICES ASSUME NEW d \in InFlight' PROVE seq'[d.seq].used
      OBVIOUS
    <3>1. d \in InFlight /\ d.seq # s /\ d.seq \in SeqIds
      BY <1>2, LaidSeq DEF Command
    <3>. QED  BY <1>6, <3>1 DEF FalconInv, Sequences
  <2>2. \A d, e \in InFlight' : d.seq = e.seq => d = e
    BY DEF FalconInv, Sequences
  <2>3. \A u, v \in Senders : Using(u) /\ Using(v) /\ sender[u].seq = sender[v].seq => u = v
    BY DEF FalconInv, Sequences
  <2>. QED  BY <1>7, <2>1, <2>2, <2>3 DEF Sequences, Using
<1>. QED  BY <1>6, <1>8

LEMMA RecvInv ==
  ASSUME FalconInv, Recv
  PROVE  FalconInv' /\ Queued' = Queued /\ UNCHANGED <<ready, fw>>
<1>1. /\ sender[Worker].pc = "recv"
      /\ UNCHANGED <<ready, initmsg, cmdqVars, fw, intr, irqAt, recvWork>>
  BY DEF Recv
<1>2. CASE mhead = mtail
  <2>1. SenderGoto(Worker, "idle") /\ UNCHANGED <<seq, msgqVars>>
    BY <1>2 DEF Recv
  <2>2. recvWork \in BOOLEAN
    BY DEF FalconInv, FalconTypeOK
  <2>. QED  BY <1>1, <2>1, <2>2, WorkerGoes
<1>3. CASE mhead # mtail
  <2>1. Consume(mdata[MsgStart].size) /\ Exec(mdata[MsgStart]) /\ sender' = sender
    BY <1>3 DEF Recv
  <2>2. PICK b \in Msgs : b = MsgStart
    BY <1>3, MsgFacts
  <2>3. /\ mtail' \in 0 .. MsgSize /\ mhead' = mhead
        /\ mdata' \in [0 .. MsgSize - 1 -> Message \cup {Nothing}]
        /\ Messages' /\ Answers' = Answers \ {b} /\ \A p \in Answers \ {b} : mdata'[p] = mdata[p]
    BY <2>1, <2>2, ConsumeMsgs
  \* The ring, whatever becomes of the sequence.
  <2>4. ASSUME seq' \in [SeqIds -> SeqState]
        PROVE  FalconTypeOK' /\ {head', tail'} \subseteq Ring /\ Laid' /\ Queued' = Queued /\ Holders'
    <3>1. FalconTypeOK'
      BY <1>1, <2>1, <2>3, <2>4 DEF FalconInv, FalconTypeOK, SeqState, cmdqVars
    <3>. QED  BY <1>1, <2>1, <3>1, RingAlone
  <2>5. CASE b \in Answers
    <3>1. /\ seq' \in [SeqIds -> SeqState]
      BY <2>1, <2>2, <2>5, ExecTypes
    <3>2. Queued' = Queued
      BY <2>4, <3>1
    <3>3. /\ InFlight' \subseteq InFlight /\ AnswerOf(b) \in InFlight /\ Once'
          /\ \A d \in InFlight' : d.seq # mdata[b].seq
      BY <1>1, <2>3, <2>5, <3>2, RecvFlight
    <3>4. Sequences'
      BY <2>1, <2>2, <2>5, <3>3, ExecSeqs
    <3>5. Announced' /\ Roles'
      BY <1>1, <2>1, <3>2 DEF FalconInv, Announced, Roles
    <3>. QED  BY <1>1, <2>3, <2>4, <3>1, <3>3, <3>4, <3>5 DEF FalconInv
  <2>6. CASE b \notin Answers
    <3>1. mdata[b] = InitMessage /\ Answers' = Answers
      BY <2>3, <2>6 DEF Answers
    <3>2. UNCHANGED seq
      BY <2>1, <2>2, <3>1, InitMessageIs DEF Exec
    <3>3. seq' \in [SeqIds -> SeqState]
      BY <3>2, StateTypes DEF FalconInv
    <3>4. InFlight' = InFlight /\ Once'
      BY <1>1, <2>3, <2>4, <3>1, <3>3, FlightStays
    <3>5. Sequences'
      BY <2>1, <3>2, <3>4, SeqsStay DEF Using
    <3>6. Announced' /\ Roles'
      BY <1>1, <2>1, <2>4, <3>3 DEF FalconInv, Announced, Roles
    <3>. QED  BY <1>1, <2>3, <2>4, <3>3, <3>4, <3>5, <3>6 DEF FalconInv
  <2>. QED  BY <2>5, <2>6
<1>. QED  BY <1>2, <1>3

-----------------------------------------------------------------------------
(* The start, and a reset.                                                 *)

BootStates ==
  /\ FalconTypeOK
  /\ ready = FALSE /\ fw = {}
  /\ head = 0 /\ tail = 0 /\ dmem = BootRing
  /\ mhead = InitSize /\ mtail = 0 /\ mdata = BootMessages
  /\ \A t \in Senders : sender[t].pc = "idle" /\ cmdqLock # t

Boots == BootStates => FalconInv /\ Queued = <<>>

LEMMA BootsNow == Boots
<1>. SUFFICES ASSUME BootStates PROVE FalconInv /\ Queued = <<>>
  BY DEF Boots
<1>1. Laid /\ Queued = <<>> /\ {head, tail} \subseteq Ring
  BY EmptyInit, Sizes DEF BootStates, Ring
<1>2. Holders
  BY DEF BootStates, Holders
<1>3. Announced /\ Roles
  BY <1>1, FalconAssumption DEF BootStates, Announced, Roles, Before, Senders
<1>4. MsgSize \in Nat /\ InitSize \in Nat /\ 1 <= InitSize /\ InitSize <= MsgSize
  BY Sizes
<1>5. Msgs = {0} /\ mdata[0] = InitMessage /\ Answers = {}
  BY <1>4, Kinds DEF BootStates, BootMessages, Msgs, Answers
<1>6. EndOf(0) = InitSize /\ MsgStart = 0
  BY <1>4, <1>5, InitMessageIs DEF EndOf, MsgStart, BootStates
<1>7. Messages
  BY <1>4, <1>5, <1>6 DEF Messages, BootStates
<1>8. InFlight = {}
  BY <1>1, <1>5, FlightNow DEF Flight, BootStates
<1>9. Once
  BY <1>1, <1>5 DEF Once, BootStates
<1>10. Sequences
  BY <1>8 DEF Sequences, Using, Before, BootStates
<1>. QED  BY <1>1, <1>2, <1>3, <1>7, <1>9, <1>10 DEF FalconInv, BootStates

LEMMA BootsNext == Boots'
  BY BootsNow, PTL

LEMMA BootTypes ==
  /\ BootRing \in [0 .. RingSize - 1 -> Word \cup {Rewind, Nothing}]
  /\ BootMessages \in [0 .. MsgSize - 1 -> Message \cup {Nothing}]
  /\ InitSize \in 0 .. MsgSize /\ 0 \in 0 .. MsgSize /\ 0 \in 0 .. RingSize
<1>1. /\ RingSize \in Nat /\ MsgSize \in Nat /\ InitSize \in Nat /\ InitSize <= MsgSize
      /\ InitMessage \in Message
  BY Sizes, Kinds
<1>. QED  BY <1>1 DEF BootRing, BootMessages

LEMMA InitInv ==
  ASSUME FalconInit
  PROVE  FalconInv /\ Queued = <<>>
<1>1. seq \in [SeqIds -> SeqState] /\ sender \in [Senders -> SenderState]
  BY DEF FalconInit, SeqFree, Idle, SeqState, SenderState
<1>2. FalconTypeOK
  BY <1>1, BootTypes DEF FalconInit, FalconTypeOK, SeqState, SenderState
<1>3. \A t \in Senders : sender[t].pc = "idle" /\ cmdqLock # t
  BY NothingAssumption DEF FalconInit, Idle
<1>4. BootStates
  BY <1>2, <1>3 DEF BootStates, FalconInit
<1>. QED  BY <1>4, BootsNow DEF Boots

LEMMA RestartInv ==
  ASSUME FalconInv, Restart
  PROVE  FalconInv' /\ ready' = FALSE /\ Queued' = <<>> /\ fw' = {}
<1>1. FalconTypeOK'
  BY BootTypes DEF FalconInv, FalconTypeOK, Restart
<1>2. \A t \in Senders : sender'[t].pc = "idle" /\ cmdqLock' # t
  BY DEF Restart, FalconInv, Holders
<1>3. BootStates'
  BY <1>1, <1>2 DEF BootStates, Restart, BootRing, BootMessages, InitMessage
<1>4. ready' = FALSE /\ fw' = {}
  BY DEF Restart
<1>. QED  BY <1>3, <1>4, BootsNext DEF Boots

-----------------------------------------------------------------------------
(* The theorems.                                                           *)

\* A stuttering step.
LEMMA StutterInv ==
  ASSUME FalconInv, UNCHANGED falconVars
  PROVE  FalconInv' /\ Queued' = Queued /\ UNCHANGED <<ready, fw>>
<1>1. intr \in BOOLEAN /\ irqAt \in {"idle", "ack"} /\ recvWork \in BOOLEAN
  BY DEF FalconInv, FalconTypeOK
<1>. QED  BY <1>1, Elsewhere DEF falconVars

\* What a step does, as the channel sees it.
LEMMA StepIs ==
  ASSUME FalconInv, FalconNext
  PROVE  /\ FalconInv'
         /\ \/ Queued' = Queued /\ UNCHANGED <<ready, fw>>
            \/ Queued' = Queued /\ fw' = fw /\ ready' = TRUE
            \/ /\ ready /\ UNCHANGED <<ready, fw>>
               /\ \E c \in Command : Queued' = Append(Queued, c)
            \/ /\ UNCHANGED ready
               /\ \E Q \in Seq(Command) : /\ Q = Queued /\ Q # <<>> /\ Queued' = Tail(Q)
                                          /\ fw' = fw \cup {Q[1]}
            \/ Queued' = Queued /\ UNCHANGED ready /\ \E c \in fw : fw' = fw \ {c}
            \/ ready' = FALSE /\ Queued' = <<>> /\ fw' = {}
<1>1. ASSUME NEW t \in Callers, CallStart(t)
      PROVE  FalconInv' /\ Queued' = Queued /\ UNCHANGED <<ready, fw>>
  BY <1>1, CallStartInv
<1>2. ASSUME NEW t \in Senders, SenderStep(t)
      PROVE  /\ FalconInv' /\ UNCHANGED <<ready, fw>>
             /\ Queued' = Queued \/ (ready /\ \E c \in Command : Queued' = Append(Queued, c))
  BY <1>2, OpenInv, WriteTimesOutInv, PushInv, CloseInv, DoneInv, TimesOutInv DEF SenderStep
<1>3. ASSUME FalconSchedule \/ FalconAck
      PROVE  FalconInv' /\ Queued' = Queued /\ UNCHANGED <<ready, fw>>
  BY <1>3, ScheduleInv
<1>4. ASSUME WorkerStep
      PROVE  /\ FalconInv' /\ Queued' = Queued /\ fw' = fw
             /\ ready' = TRUE \/ ready' = ready
  BY <1>4, WorkStartInv, RecvInitInv, RecvInv DEF WorkerStep
<1>5. CASE FwTake
  BY <1>5, TakeInv, TakeRewindInv
<1>6. ASSUME NEW cmd \in fw, FwAnswer(cmd)
      PROVE  FalconInv' /\ Queued' = Queued /\ fw' = fw \ {cmd} /\ UNCHANGED ready
  BY <1>6, AnswerInv
<1>7. CASE Restart
  BY <1>7, RestartInv
<1>. QED  BY <1>1, <1>2, <1>3, <1>4, <1>5, <1>6, <1>7 DEF FalconNext, Firmware

\* The queue of commands, the queue of messages and the sequences are sound,
\* together, whatever callers, worker, interrupt and firmware do (cmdq.c, msgq.c
\* and qmgr.c).
THEOREM FalconCorrect == FalconSpec => []FalconInv
<1>1. FalconInit => FalconInv
  BY InitInv
<1>2. FalconInv /\ [FalconNext]_falconVars => FalconInv'
  <2>. SUFFICES ASSUME FalconInv, [FalconNext]_falconVars PROVE FalconInv'
    OBVIOUS
  <2>1. CASE FalconNext
    BY <2>1, StepIs
  <2>2. CASE UNCHANGED falconVars
    BY <2>2, StutterInv
  <2>. QED  BY <2>1, <2>2
<1>. QED  BY <1>1, <1>2, PTL DEF FalconSpec

\* The sequence that nvkm_falcon_qmgr_seq_acquire gives to a command is its own
\* until the answer has come: nvkm_falcon_msgq_exec wakes the sender of the command
\* that is answered, with its result, or nobody, also when it has timed out before.
THEOREM SeqMatchedHolds == FalconSpec => []SeqMatched
<1>1. FalconInv => SeqMatched
  <2>. SUFFICES ASSUME FalconInv PROVE SeqMatched
    OBVIOUS
  <2>1. Sequences /\ FalconTypeOK
    BY DEF FalconInv
  <2>2. ASSUME NEW t \in Callers, sender[t].pc = "wait"
        PROVE  LET s == sender[t].seq IN
                 /\ seq[s].used
                 /\ seq[s].done => seq[s].result = t
                 /\ \A c \in InFlight : c.seq = s => c.who = t
    <3>1. t \in Senders /\ Using(t)
      BY <2>2 DEF Senders, Using
    <3>. QED  BY <2>1, <3>1 DEF Sequences
  <2>. QED  BY <2>1, <2>2 DEF SeqMatched, Sequences
<1>. QED  BY <1>1, FalconCorrect, PTL

\* The ring of nvkm_falcon_cmdq_open, _push and _close, with its rewinds and its
\* lock, is the FIFO of FalconChannel: the firmware takes every command whole, once
\* and in the order in which the senders have closed, until a reset.
THEOREM ChannelHolds == FalconSpec => ChannelRefined
<1>1. FalconInit => Channel!ChannelInit
  BY InitInv DEF Channel!ChannelInit, FalconInit
<1>2. ASSUME FalconInv, [FalconNext]_falconVars
      PROVE  [ \/ Channel!Announce \/ Channel!Send \/ Channel!Take \/ Channel!Answer
               \/ Channel!Reset ]_(Channel!channelVars)
  <2>. DEFINE A == \/ Channel!Announce \/ Channel!Send \/ Channel!Take \/ Channel!Answer
                   \/ Channel!Reset
  <2>1. CASE UNCHANGED falconVars
    BY <1>2, <2>1, StutterInv DEF Channel!channelVars
  <2>2. CASE FalconNext
    <3>1. ready \in BOOLEAN
      BY <1>2 DEF FalconInv, FalconTypeOK
    <3>2. CASE Queued' = Queued /\ UNCHANGED <<ready, fw>>
      BY <3>2 DEF Channel!channelVars
    <3>3. CASE Queued' = Queued /\ fw' = fw /\ ready' = TRUE
      BY <3>1, <3>3 DEF Channel!channelVars, Channel!Announce
    <3>4. CASE ready /\ UNCHANGED <<ready, fw>> /\ \E c \in Command : Queued' = Append(Queued, c)
      BY <3>4 DEF Channel!Send
    <3>5. CASE /\ UNCHANGED ready
               /\ \E Q \in Seq(Command) : /\ Q = Queued /\ Q # <<>> /\ Queued' = Tail(Q)
                                          /\ fw' = fw \cup {Q[1]}
      <4>1. PICK Q \in Seq(Command) : Q = Queued /\ Q # <<>> /\ Queued' = Tail(Q) /\ fw' = fw \cup {Q[1]}
        BY <3>5
      <4>2. Head(Q) = Q[1]
        BY <4>1
      <4>. QED  BY <3>5, <4>1, <4>2 DEF Channel!Take
    <3>6. CASE Queued' = Queued /\ UNCHANGED ready /\ \E c \in fw : fw' = fw \ {c}
      BY <3>6 DEF Channel!Answer
    <3>7. CASE ready' = FALSE /\ Queued' = <<>> /\ fw' = {}
      <4>1. CASE ready
        BY <3>7, <4>1 DEF Channel!Reset
      <4>2. CASE ~ready
        <5>1. Queued = <<>> /\ fw = {} /\ ready = FALSE
          BY <1>2, <3>1, <4>2 DEF FalconInv, Announced
        <5>. QED  BY <3>7, <5>1 DEF Channel!channelVars
      <4>. QED  BY <4>1, <4>2
    <3>. QED  BY <1>2, <2>2, <3>2, <3>3, <3>4, <3>5, <3>6, <3>7, StepIs
  <2>. QED  BY <1>2, <2>1, <2>2
<1>. QED  BY <1>1, <1>2, FalconCorrect, PTL DEF FalconSpec, ChannelRefined, Channel!ChannelSpec

=============================================================================
