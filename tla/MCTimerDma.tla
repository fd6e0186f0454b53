----------------------------- MODULE MCTimerDma -----------------------------
(* Alarms and push buffers side by side in one instance: a behaviour is of  *)
(* one of them, and the other rests.  Of the alarms' clients, either the     *)
(* cstate rests, and Late leave the mode alone, or Fan is not set.  The      *)
(* fairness is that of NvkmTimer and NouveauDma, of the part that moves.     *)
EXTENDS NvkmTimer, NouveauDma

CONSTANT Late  \* clients that change the mode only where the cstate changes

VARIABLE part

partVars == <<timerVars, dmaVars, part>>

PartInit == TimerInit /\ DmaInit /\ part \in {"timer", "cstate", "dma"}

Sets(x, a) == At(x, "alarm") /\ act[x].alarm = a

OfTimer(Step) ==
  /\ Step
  /\ \/ part = "timer" /\ ~Owed' /\ ~(\E x \in Late : Sets(x, Poll))'
     \/ part = "cstate" /\ ~(\E x \in Actors : Sets(x, Fan))'
  /\ UNCHANGED <<dmaVars, part>>
OfDma(Step) == part = "dma" /\ Step /\ UNCHANGED <<timerVars, part>>

PartFairness ==
  /\ WF_partVars(OfTimer(Tick))
  /\ \A x \in Actors : WF_partVars(OfTimer(AlarmStep(x))) /\ SF_partVars(OfTimer(AlarmSet(x)))
  /\ WF_partVars(OfTimer(IrqStep))
  /\ SF_partVars(OfTimer(IrqLock)) /\ SF_partVars(OfTimer(IrqExec))
  /\ WF_partVars(OfDma(DrvStep)) /\ WF_partVars(OfDma(WaitFails))
  /\ WF_partVars(OfDma(IbFetch \/ WordFetch))

PartSpec == PartInit /\ [][OfTimer(TimerNext) \/ OfDma(DmaNext)]_partVars /\ PartFairness
=============================================================================
