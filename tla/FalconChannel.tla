--------------------------- MODULE FalconChannel ---------------------------
(***************************************************************************)
(* What a command queue promises to the firmware of a falcon: the commands *)
(* that were sent are taken in the order they were sent, each once and     *)
(* whole, and are executed until they are answered.  Only a reset of the   *)
(* falcon loses any, and nothing is sent before it is up again.            *)
(***************************************************************************)
EXTENDS Sequences

CONSTANT Command

VARIABLES
  up,         \* the queue has been announced
  queued,     \* commands sent and not yet taken, in order
  executing   \* commands taken and not yet answered

channelVars == <<up, queued, executing>>

ChannelInit == up = FALSE /\ queued = <<>> /\ executing = {}

Announce == ~up /\ up' = TRUE /\ UNCHANGED <<queued, executing>>

Send ==
  /\ up
  /\ \E c \in Command : queued' = Append(queued, c)
  /\ UNCHANGED <<up, executing>>

Take ==
  /\ queued # <<>>
  /\ queued' = Tail(queued)
  /\ executing' = executing \cup {Head(queued)}
  /\ UNCHANGED up

Answer ==
  /\ \E c \in executing : executing' = executing \ {c}
  /\ UNCHANGED <<up, queued>>

\* The falcon is reset, and what it had is lost.
Reset == up /\ up' = FALSE /\ queued' = <<>> /\ executing' = {}

ChannelSpec ==
  ChannelInit /\ [][Announce \/ Send \/ Take \/ Answer \/ Reset]_channelVars
=============================================================================
