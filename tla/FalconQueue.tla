---------------------------- MODULE FalconQueue ----------------------------
(***************************************************************************)
(* The command and message queues between the driver and the firmware of a *)
(* falcon: nvkm/falcon/cmdq.c, msgq.c and qmgr.c as the PMU of gm20b uses  *)
(* them (subdev/pmu/gm20b.c, base.c, gt215.c).  Callers send synchronous   *)
(* commands (ACR bootstrap) that time out; the worker receives the init    *)
(* message, sends one asynchronous command (INIT_WPR) and receives all     *)
(* other messages.  A sequence ties an answer to its command.              *)
(*                                                                         *)
(* The queues are rings in the falcon's memory, here of words of           *)
(* QUEUE_ALIGNMENT bytes, from offset 0; a header is one word.  A word     *)
(* that the reader is done with is forgotten.  The firmware is outside of  *)
(* the repository: it takes commands in order, answers them in any order   *)
(* or never, and wraps its message queue only when the driver has read     *)
(* all of it, as the test of nvkm_falcon_msgq_pop for a queue that has     *)
(* looped needs.                                                           *)
(***************************************************************************)
EXTENDS Integers, Sequences

CONSTANTS
  Callers,    \* threads that send synchronous commands
  Worker,     \* the work item that receives
  CmdSize,    \* the size of the command of each sender
  RingSize,   \* cmdq->size
  MsgSize,    \* the size of the message queue
  InitSize, AnswerSize,   \* sizes of messages
  NumSeqs,    \* NVKM_FALCON_QMGR_SEQ_NUM
  Nothing

Senders == Callers \cup {Worker}
SeqIds == 0 .. NumSeqs - 1

\* nvkm_falcon_cmdq_has_room finds room in an empty ring wherever it is
\* empty only for commands of less than half of it.
ASSUME FalconAssumption ==
  /\ Worker \notin Callers
  /\ RingSize \in Nat /\ NumSeqs \in Nat \ {0}
  /\ CmdSize \in [Senders -> {n \in Nat : 1 <= n /\ 2 * n < RingSize}]
  /\ {InitSize, AnswerSize, MsgSize} \subseteq Nat \ {0}
  /\ InitSize <= MsgSize /\ AnswerSize < InitSize

Command == [who : Senders, seq : SeqIds]
Word == [cmd : Command, at : Nat]
Rewind == [rewind |-> TRUE]       \* NV_FALCON_CMD_UNIT_ID_REWIND
Message == [who : Senders, seq : SeqIds \cup {Nothing}, size : {InitSize, AnswerSize}]

ASSUME NothingAssumption ==
  /\ Nothing \notin Senders \cup SeqIds
  /\ Nothing \notin Message /\ Nothing \notin Word /\ Nothing # Rewind

InitMessage == [who |-> Worker, seq |-> Nothing, size |-> InitSize]

VARIABLES
  ready,      \* cmdq->ready is complete
  initmsg,    \* pmu->initmsg_received
  seq,        \* qmgr->seq: the bit in tbl, and what of id is looked at
  sender,     \* where each sender is, and the sequence it has acquired
  cmdqLock,   \* the holder of cmdq->mutex
  position,   \* cmdq->position
  head, tail, \* the registers of the command queue
  dmem,       \* the words of the command queue
  fw,         \* commands that the firmware is executing
  mhead, mtail,   \* the registers of the message queue
  mdata,      \* the message that starts at each word of the message queue
  intr,       \* the interrupt of the falcon is raised
  irqAt,      \* where the interrupt handler is
  recvWork    \* the worker is scheduled

cmdqVars == <<cmdqLock, position, head, tail, dmem>>
msgqVars == <<mhead, mtail, mdata>>
falconVars == <<ready, initmsg, seq, sender, cmdqVars, fw, msgqVars, intr, irqAt, recvWork>>

SeqFree == [used |-> FALSE, async |-> FALSE, done |-> FALSE, result |-> Nothing]
Idle == [pc |-> "idle", seq |-> Nothing]

\* The firmware has booted and announced its queues in an init message.
BootRing == [p \in 0 .. RingSize - 1 |-> Nothing]
BootMessages == [p \in 0 .. MsgSize - 1 |-> IF p = 0 THEN InitMessage ELSE Nothing]

FalconInit ==
  /\ ready = FALSE /\ initmsg = FALSE
  /\ seq = [s \in SeqIds |-> SeqFree]
  /\ sender = [t \in Senders |-> Idle]
  /\ cmdqLock = Nothing /\ position = 0
  /\ head = 0 /\ tail = 0 /\ dmem = BootRing
  /\ fw = {}
  /\ mhead = InitSize /\ mtail = 0 /\ mdata = BootMessages
  /\ intr = TRUE
  /\ irqAt = "idle" /\ recvWork = FALSE

SenderGoto(t, pc) == sender' = [sender EXCEPT ![t].pc = pc]

-----------------------------------------------------------------------------
(* nvkm_falcon_cmdq_send.                                                  *)

\* find_first_zero_bit.
FreeSeqs == {s \in SeqIds : ~seq[s].used}
FirstFree == CHOOSE s \in FreeSeqs : \A r \in FreeSeqs : s <= r

\* nvkm_falcon_qmgr_seq_acquire, and the fields that the receiver reads.
SeqAcquire(t) ==
  /\ seq' = [seq EXCEPT ![FirstFree] =
               [used |-> TRUE, async |-> t = Worker, done |-> FALSE, result |-> Nothing]]
  /\ sender' = [sender EXCEPT ![t] = [pc |-> "write", seq |-> FirstFree]]

\* A caller whose queue is ready; without a free sequence it returns -EAGAIN.
CallStart(t) ==
  /\ sender[t].pc = "idle" /\ ready /\ FreeSeqs # {}
  /\ SeqAcquire(t)
  /\ UNCHANGED <<ready, initmsg, cmdqVars, fw, msgqVars, intr, irqAt, recvWork>>

SeqRelease(s) == seq' = [seq EXCEPT ![s] = SeqFree]

\* free = tail - head, so that a full ring looks empty.
HasRoomFull(n, rewind) ==
  IF head >= tail
  THEN IF rewind THEN n > RingSize - head - 1 /\ n <= tail
       ELSE n <= RingSize - head - 1
  ELSE ~rewind /\ n <= tail - head

\* nvkm_falcon_cmdq_has_room; beyond head one word is kept for REWIND.
HasRoom(n, rewind) ==
  IF head >= tail
  THEN IF rewind THEN n > RingSize - head - 1 /\ n <= tail - 1
       ELSE n <= RingSize - head - 1
  ELSE ~rewind /\ n <= tail - head - 1

\* nvkm_falcon_cmdq_open, with nvkm_falcon_cmdq_rewind.
Open(t, rewind) ==
  /\ sender[t].pc = "write" /\ cmdqLock = Nothing
  /\ HasRoom(CmdSize[t], rewind)
  /\ cmdqLock' = t
  /\ IF rewind THEN position' = 0 /\ dmem' = [dmem EXCEPT ![head] = Rewind]
     ELSE position' = head /\ UNCHANGED dmem
  /\ SenderGoto(t, "push")
  /\ UNCHANGED <<ready, initmsg, seq, head, tail, fw, msgqVars, intr, irqAt, recvWork>>

\* nvkm_falcon_cmdq_write finds the queue full until its deadline has passed.
WriteTimesOut(t) ==
  /\ sender[t].pc = "write" /\ cmdqLock = Nothing
  /\ \A rewind \in BOOLEAN : ~HasRoom(CmdSize[t], rewind)
  /\ SeqRelease(sender[t].seq)
  /\ sender' = [sender EXCEPT ![t] = Idle]
  /\ UNCHANGED <<ready, initmsg, cmdqVars, fw, msgqVars, intr, irqAt, recvWork>>

\* nvkm_falcon_cmdq_push.
PushCommand(t) ==
  /\ sender[t].pc = "push"
  /\ LET cmd == [who |-> t, seq |-> sender[t].seq]
     IN  dmem' = [p \in DOMAIN dmem |->
                    IF p \in position .. position + CmdSize[t] - 1
                    THEN [cmd |-> cmd, at |-> p - position] ELSE dmem[p]]
  /\ position' = position + CmdSize[t]
  /\ SenderGoto(t, "close")
  /\ UNCHANGED <<ready, initmsg, seq, cmdqLock, head, tail, fw, msgqVars, intr, irqAt, recvWork>>

\* nvkm_falcon_cmdq_close.  The asynchronous command of the worker ends the
\* parsing of the init message, and the worker goes on to other messages.
Close(t) ==
  /\ sender[t].pc = "close"
  /\ head' = position
  /\ cmdqLock' = Nothing
  /\ IF t = Worker THEN sender' = [sender EXCEPT ![t] = [pc |-> "recv", seq |-> Nothing]]
     ELSE SenderGoto(t, "wait")
  /\ initmsg' = (initmsg \/ t = Worker)
  /\ UNCHANGED <<ready, seq, position, tail, dmem, fw, msgqVars, intr, irqAt, recvWork>>

\* The answer has come: its result is read, and the sequence released.
Done(t) ==
  /\ sender[t].pc = "wait" /\ seq[sender[t].seq].done
  /\ SeqRelease(sender[t].seq)
  /\ sender' = [sender EXCEPT ![t] = Idle]
  /\ UNCHANGED <<ready, initmsg, cmdqVars, fw, msgqVars, intr, irqAt, recvWork>>

\* The time-out releases the sequence.
TimesOutBug(t) ==
  /\ sender[t].pc = "wait" /\ ~seq[sender[t].seq].done
  /\ SeqRelease(sender[t].seq)
  /\ sender' = [sender EXCEPT ![t] = Idle]
  /\ UNCHANGED <<ready, initmsg, cmdqVars, fw, msgqVars, intr, irqAt, recvWork>>

\* "timeout waiting for reply": the sequence is not released.
TimesOut(t) ==
  /\ sender[t].pc = "wait" /\ ~seq[sender[t].seq].done
  /\ sender' = [sender EXCEPT ![t] = Idle]
  /\ UNCHANGED <<ready, initmsg, seq, cmdqVars, fw, msgqVars, intr, irqAt, recvWork>>

-----------------------------------------------------------------------------
(* The interrupt and the worker.                                           *)

\* gt215_pmu_intr schedules the work, and then acknowledges.
FalconSchedule ==
  /\ intr /\ irqAt = "idle"
  /\ recvWork' = TRUE /\ irqAt' = "ack"
  /\ UNCHANGED <<ready, initmsg, seq, sender, cmdqVars, fw, msgqVars, intr>>

FalconAck ==
  /\ irqAt = "ack"
  /\ intr' = FALSE /\ irqAt' = "idle"
  /\ UNCHANGED <<ready, initmsg, seq, sender, cmdqVars, fw, msgqVars, recvWork>>

\* gm20b_pmu_recv.
WorkStart ==
  /\ recvWork /\ sender[Worker].pc = "idle"
  /\ recvWork' = FALSE
  /\ SenderGoto(Worker, IF initmsg THEN "recv" ELSE "init")
  /\ UNCHANGED <<ready, initmsg, seq, cmdqVars, fw, msgqVars, intr, irqAt>>

\* nvkm_falcon_msgq_pop: where the next message is, if the queue has looped.
MsgStart == IF mhead < mtail THEN 0 ELSE mtail

\* The message at MsgStart is read, and its words forgotten.
Consume(size) ==
  /\ mtail' = MsgStart + size
  /\ mdata' = [mdata EXCEPT ![MsgStart] = Nothing]
  /\ UNCHANGED mhead

\* gm20b_pmu_initmsg: recv_initmsg, cmdq_init, msgq_init, and the start of
\* gm20b_pmu_acr_init_wpr, which fails without a free sequence.
RecvInit ==
  /\ sender[Worker].pc = "init"
  /\ IF mhead - MsgStart >= InitSize /\ mdata[MsgStart] = InitMessage
     THEN /\ Consume(InitSize)
          /\ ready' = TRUE
          /\ IF FreeSeqs # {} THEN SeqAcquire(Worker)
             ELSE SenderGoto(Worker, "idle") /\ UNCHANGED seq
     ELSE SenderGoto(Worker, "idle") /\ UNCHANGED <<msgqVars, ready, seq>>
  /\ UNCHANGED <<initmsg, cmdqVars, fw, intr, irqAt, recvWork>>

\* nvkm_falcon_msgq_exec: the callback gives the result of the command; an
\* asynchronous sequence is released, of another one the sender is woken.
Exec(m) ==
  IF m.seq \notin SeqIds \/ ~seq[m.seq].used THEN UNCHANGED seq
  ELSE IF seq[m.seq].async THEN SeqRelease(m.seq)
  ELSE seq' = [seq EXCEPT ![m.seq].done = TRUE, ![m.seq].result = m.who]

\* nvkm_falcon_msgq_recv: nvkm_falcon_msgq_read and _exec until it is empty.
Recv ==
  /\ sender[Worker].pc = "recv"
  /\ IF mhead = mtail THEN SenderGoto(Worker, "idle") /\ UNCHANGED <<seq, msgqVars>>
     ELSE /\ Consume(mdata[MsgStart].size)
          /\ Exec(mdata[MsgStart])
          /\ UNCHANGED sender
  /\ UNCHANGED <<ready, initmsg, cmdqVars, fw, intr, irqAt, recvWork>>

-----------------------------------------------------------------------------
(* The firmware, and a reset.                                              *)

FwTake ==
  /\ head # tail
  /\ IF dmem[tail] = Rewind
     THEN tail' = 0 /\ dmem' = [dmem EXCEPT ![tail] = Nothing] /\ UNCHANGED fw
     ELSE LET cmd == dmem[tail].cmd
              end == tail + CmdSize[cmd.who]
          IN  /\ fw' = fw \cup {cmd}
              /\ tail' = end
              /\ dmem' = [p \in DOMAIN dmem |-> IF p \in tail .. end - 1 THEN Nothing ELSE dmem[p]]
  /\ UNCHANGED <<ready, initmsg, seq, sender, cmdqLock, position, head, msgqVars, intr, irqAt, recvWork>>

FwAnswer(cmd) ==
  /\ cmd \in fw
  /\ fw' = fw \ {cmd}
  /\ \E p \in {mhead, 0} :
       /\ IF p = mhead THEN mhead >= mtail /\ p + AnswerSize <= MsgSize
          ELSE mhead = mtail /\ AnswerSize < mtail /\ mhead + AnswerSize > MsgSize
       /\ mdata' = [mdata EXCEPT ![p] = [who |-> cmd.who, seq |-> cmd.seq, size |-> AnswerSize]]
       /\ mhead' = p + AnswerSize
  /\ intr' = TRUE
  /\ UNCHANGED <<ready, initmsg, seq, sender, cmdqVars, mtail, irqAt, recvWork>>

\* nvkm_pmu_fini flushes the worker; then the falcon is reset and boots again.
\* The device is suspended when nobody uses it.
Restart ==
  /\ \A t \in Senders : sender[t].pc = "idle"
  /\ ~recvWork /\ irqAt = "idle"
  /\ ready' = FALSE /\ initmsg' = FALSE
  /\ head' = 0 /\ tail' = 0 /\ dmem' = BootRing
  /\ fw' = {}
  /\ mhead' = InitSize /\ mtail' = 0 /\ mdata' = BootMessages
  /\ intr' = TRUE
  /\ UNCHANGED <<seq, sender, cmdqLock, position, irqAt, recvWork>>

-----------------------------------------------------------------------------
SenderStep(t) ==
  \/ \E rewind \in BOOLEAN : Open(t, rewind)
  \/ WriteTimesOut(t)
  \/ PushCommand(t)
  \/ Close(t)
  \/ Done(t)
  \/ TimesOut(t)

WorkerStep ==
  \/ WorkStart
  \/ RecvInit
  \/ Recv

Firmware ==
  \/ FwTake
  \/ \E cmd \in fw : FwAnswer(cmd)

FalconNext ==
  \/ \E t \in Callers : CallStart(t)
  \/ \E t \in Senders : SenderStep(t)
  \/ FalconSchedule
  \/ FalconAck
  \/ WorkerStep
  \/ Firmware
  \/ Restart

FalconSpec == FalconInit /\ [][FalconNext]_falconVars

-----------------------------------------------------------------------------
(* Properties.                                                             *)

FalconTypeOK ==
  /\ ready \in BOOLEAN /\ initmsg \in BOOLEAN
  /\ seq \in [SeqIds -> [used : BOOLEAN, async : BOOLEAN, done : BOOLEAN,
                       result : Senders \cup {Nothing}]]
  /\ sender \in [Senders -> [pc : {"idle", "write", "push", "close", "wait", "init", "recv"},
                          seq : SeqIds \cup {Nothing}]]
  /\ cmdqLock \in Senders \cup {Nothing}
  /\ {position, head, tail} \subseteq 0 .. RingSize
  /\ dmem \in [0 .. RingSize - 1 -> Word \cup {Rewind, Nothing}]
  /\ fw \subseteq Command
  /\ {mhead, mtail} \subseteq 0 .. MsgSize
  /\ mdata \in [0 .. MsgSize - 1 -> Message \cup {Nothing}]
  /\ intr \in BOOLEAN /\ irqAt \in {"idle", "ack"} /\ recvWork \in BOOLEAN

\* A command stands at p, all of it.
Whole(p) ==
  /\ p \in DOMAIN dmem /\ dmem[p] \in Word
  /\ LET cmd == dmem[p].cmd IN
       /\ p + CmdSize[cmd.who] <= RingSize
       /\ \A i \in 0 .. CmdSize[cmd.who] - 1 : dmem[p + i] = [cmd |-> cmd, at |-> i]

\* The commands from the word v on, counted on past the end of the ring, in
\* order, up to head or to one that is not whole.
QueuedFrom[v \in 0 .. 2 * RingSize] ==
  LET p == IF v < RingSize THEN v ELSE v - RingSize IN
  IF p = head THEN <<>>
  ELSE IF v < RingSize /\ dmem[p] = Rewind THEN QueuedFrom[RingSize]
  ELSE IF Whole(p) THEN <<dmem[p].cmd>> \o QueuedFrom[v + CmdSize[dmem[p].cmd.who]]
  ELSE <<>>

Queued == QueuedFrom[tail]

\* Whatever the senders and the firmware do, the ring is a FIFO: no command is
\* overwritten, split, skipped at a rewind, or taken before it is complete.
Channel == INSTANCE FalconChannel WITH up <- ready, queued <- Queued, executing <- fw
ChannelRefined == Channel!ChannelSpec

\* An answer finds its own command, or nobody: what is on its way to or from
\* the firmware, or waited for, has its sequence acquired and nobody else's,
\* and a caller that is woken is woken with the result of its own command.
InFlight ==
  {Queued[i] : i \in DOMAIN Queued} \cup fw
    \cup {[who |-> m.who, seq |-> m.seq] : m \in {mdata[p] : p \in DOMAIN mdata} \ {Nothing, InitMessage}}

SeqMatched ==
  /\ FalconTypeOK
  /\ \A c \in InFlight : seq[c.seq].used
  /\ \A c, d \in InFlight : c.seq = d.seq => c = d
  /\ \A t \in Callers : LET s == sender[t].seq IN
       sender[t].pc = "wait" =>
         /\ seq[s].used
         /\ seq[s].done => seq[s].result = t
         /\ \A c \in InFlight : c.seq = s => c.who = t

=============================================================================
