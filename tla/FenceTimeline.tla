---------------------------- MODULE FenceTimeline ----------------------------
(***************************************************************************)
(* What the fences of one channel promise to those who wait for them: a    *)
(* fence is signalled only after the channel has executed up to it, or has *)
(* been stopped (killed or deleted), and never becomes unsignalled.        *)
(***************************************************************************)
EXTENDS Naturals

CONSTANT MaxSeq   \* bound: fences emitted

VARIABLES emitted, reached, signaled, stopped

timelineVars == <<emitted, reached, signaled, stopped>>

TimelineInit ==
  /\ emitted = 0 /\ reached = 0
  /\ signaled = {} /\ stopped = FALSE

TimelineEmit ==
  /\ emitted < MaxSeq
  /\ emitted' = emitted + 1
  /\ reached' \in {reached, emitted'}   \* an emission that fails leaves nothing to execute
  /\ reached' = emitted' => reached = emitted
  /\ UNCHANGED <<signaled, stopped>>

TimelineExecute ==
  /\ reached' \in reached + 1 .. emitted
  /\ UNCHANGED <<emitted, signaled, stopped>>

TimelineStop ==
  /\ stopped' = TRUE
  /\ UNCHANGED <<emitted, reached, signaled>>

TimelineSignal ==
  \E s \in (SUBSET (1 .. emitted)) \ {{}} :
    /\ stopped \/ \A f \in s : f <= reached
    /\ signaled' = signaled \cup s
    /\ UNCHANGED <<emitted, reached, stopped>>

TimelineNext ==
  \/ TimelineEmit
  \/ TimelineExecute
  \/ TimelineStop
  \/ TimelineSignal

TimelineSpec == TimelineInit /\ [][TimelineNext]_timelineVars
=============================================================================
