----------------------------- MODULE NvkmTimer -----------------------------
(***************************************************************************)
(* Alarms: nvkm/subdev/timer/base.c over the comparator of nv04.c, with    *)
(* two of its clients: the polling of nvkm_therm_update (therm/base.c),    *)
(* whose alarm sets or cancels itself by the mode it is in, and a one-shot *)
(* alarm that a thread sets and cancels, as fan.c does.                    *)
(*                                                                         *)
(* Time is relative: of each queued alarm the model keeps how far its time *)
(* stamp is ahead (negative: has passed), of the comparator, which sees    *)
(* the time modulo its width, how far it is from its next match.           *)
(***************************************************************************)
EXTENDS Integers, Sequences, SequencesExt

CONSTANTS
  Wrap,       \* the comparator looks at the time modulo Wrap (2^32 ns)
  Delays,     \* arguments of the one-shot alarm
  Period,     \* the period of polling
  Setters,    \* threads that set and cancel the one-shot alarm
  Moders,     \* threads that change the mode of nvkm_therm, and its cstate
  Cstates     \* what nvkm_therm_cstate sets it to

Poll == "poll"
Fan == "fan"
Alarms == {Poll, Fan}
Irq == "irq"
Free == "free"
Actors == Setters \cup Moders \cup {Irq}

ASSUME TimerAssumption ==
  /\ Wrap \in Nat \ {0} /\ Delays \subseteq Nat /\ Period \in Nat \ {0}
  /\ Cstates \subseteq BOOLEAN
  /\ {Irq, Free} \cap (Setters \cup Moders) = {}

VARIABLES
  match,     \* NV04_PTIMER_ALARM_0 less the time, modulo Wrap, in 1..Wrap
  enabled,   \* NV04_PTIMER_INTR_EN_0
  stat,      \* NV04_PTIMER_INTR_0
  alarms,    \* tmr->alarms
  ahead,     \* alarm->timestamp less the time
  exec,      \* the list of due alarms that nvkm_timer_alarm_trigger runs
  tmrlock,   \* the holder of tmr->lock
  thermlock, \* the holder of therm->lock
  mode,      \* therm->mode
  cstate,    \* therm->cstate is not 0, and the fan is of NVBIOS_THERM_FAN_OTHER
  act,       \* of each actor, where it is, and the alarm it is setting
  missed     \* the comparator was set to a time that had passed (WARN_ON)

hwVars == <<match, enabled, stat>>
timerVars == <<hwVars, alarms, ahead, exec, tmrlock, thermlock, mode, cstate, act, missed>>

Resting == [pc |-> "idle", alarm |-> Fan, nsec |-> 0]

TimerInit ==
  /\ match = Wrap /\ enabled = FALSE /\ stat = FALSE
  /\ alarms = <<>> /\ ahead = [a \in Alarms |-> 0]
  /\ exec = <<>>
  /\ tmrlock = Free /\ thermlock = Free
  /\ mode = "manual" /\ cstate = FALSE
  /\ act = [x \in Actors |-> Resting]
  /\ missed = FALSE

At(x, pc) == act[x].pc = pc
Goto(x, pc) == act' = [act EXCEPT ![x].pc = pc]
Home(x) == IF x = Irq THEN "exec" ELSE "idle"
Now(a) == ahead[a] <= 0       \* alarm->timestamp <= nvkm_timer_read

\* The time passes; the comparator looks for equality, and latches.  By how
\* much an alarm is late is not kept.
Tick ==
  /\ match' = IF match = 1 THEN Wrap ELSE match - 1
  /\ stat' = (stat \/ match = 1)
  /\ ahead' = [a \in Alarms |->
                 IF a \in ToSet(alarms) /\ ahead[a] >= 0 THEN ahead[a] - 1 ELSE ahead[a]]
  /\ UNCHANGED <<enabled, alarms, exec, tmrlock, thermlock, mode, cstate, act, missed>>

\* What alarm_fini has disabled is not enabled again.
AlarmInitBug(n) ==
  /\ match' = IF n % Wrap = 0 THEN Wrap ELSE n % Wrap
  /\ UNCHANGED enabled

\* nv04_timer_alarm_init of a time n ahead.
AlarmInit(n) ==
  /\ match' = IF n % Wrap = 0 THEN Wrap ELSE n % Wrap
  /\ enabled' = TRUE

-----------------------------------------------------------------------------
(* nvkm_timer_alarm.                                                       *)

\* The caller's arguments; what it does next with the lock of nvkm_therm.
Call(x, a, n) == act' = [act EXCEPT ![x] = [pc |-> "alarm", alarm |-> a, nsec |-> n]]

\* Removed, and inserted before the first that is later.
Reinsert(a, n) ==
  LET rest == RemoveFirst(alarms, a)
      later == SelectInSeq(rest, LAMBDA b : ahead[b] > n)
  IN  CASE n = 0 -> rest
        [] n # 0 /\ later = 0 -> Append(rest, a)
        [] OTHER -> InsertAt(rest, later, a)

AlarmSet(x) ==
  LET a == act[x].alarm
      n == act[x].nsec
  IN  /\ At(x, "alarm") /\ tmrlock = Free
      /\ tmrlock' = x
      /\ alarms' = Reinsert(a, n)
      /\ ahead' = [ahead EXCEPT ![a] = n]
      /\ Goto(x, IF n # 0 /\ Head(Reinsert(a, n)) = a THEN "first" ELSE "unlock")
      /\ UNCHANGED <<hwVars, exec, thermlock, mode, cstate, missed>>

\* Update HW if this is now the earliest alarm, and release tmr->lock, and
\* therm->lock if nvkm_therm_update called.
AlarmDone(x) ==
  LET a == act[x].alarm
  IN  /\ At(x, "first") \/ At(x, "unlock")
      /\ IF At(x, "first") THEN AlarmInit(ahead[a]) /\ missed' = (missed \/ Now(a))
         ELSE UNCHANGED <<match, enabled, missed>>
      /\ tmrlock' = Free
      /\ thermlock' = IF thermlock = x THEN Free ELSE thermlock
      /\ act' = [act EXCEPT ![x] = [Resting EXCEPT !.pc = Home(x)]]
      /\ UNCHANGED <<stat, alarms, ahead, exec, mode, cstate>>

-----------------------------------------------------------------------------
(* The clients.                                                            *)

\* nvkm_therm_update, "same" for a mode below 0: in automatic mode the alarm
\* is set, unless the cstate says how fast the fan is; in the others it is
\* cancelled.
ThermUpdate(x, m) ==
  /\ thermlock = Free
  /\ mode' = IF m = "same" THEN mode ELSE m
  /\ IF mode' = "auto" /\ cstate THEN Goto(x, Home(x)) /\ UNCHANGED thermlock
     ELSE Call(x, Poll, IF mode' = "auto" THEN Period ELSE 0) /\ thermlock' = x
  /\ UNCHANGED <<hwVars, alarms, ahead, tmrlock, cstate, missed>>

\* nvkm_therm_fan_mode.
FanMode(x) ==
  /\ At(x, "idle")
  /\ \E m \in {"auto", "manual"} \ {mode} : ThermUpdate(x, m)
  /\ UNCHANGED exec

\* The new cstate waits for the next change of mode.
SetCstateBug(x) ==
  /\ At(x, "idle")
  /\ cstate' \in Cstates
  /\ UNCHANGED <<hwVars, alarms, ahead, exec, tmrlock, thermlock, mode, act, missed>>

\* nvkm_therm_cstate: set without the lock, and then looked at.
SetCstate(x) ==
  /\ At(x, "idle")
  /\ cstate' \in Cstates
  /\ Goto(x, "update")
  /\ UNCHANGED <<hwVars, alarms, ahead, exec, tmrlock, thermlock, mode, missed>>

CstateUpdate(x) ==
  /\ At(x, "update")
  /\ ThermUpdate(x, "same")
  /\ UNCHANGED exec

SetFan(x) ==
  /\ At(x, "idle")
  /\ \E n \in Delays : Call(x, Fan, n)
  /\ UNCHANGED <<hwVars, alarms, ahead, exec, tmrlock, thermlock, mode, cstate, missed>>

-----------------------------------------------------------------------------
(* The interrupt: nv04_timer_intr and nvkm_timer_alarm_trigger.            *)

IrqStart ==
  /\ At(Irq, "idle") /\ stat /\ enabled
  /\ stat' = FALSE
  /\ Goto(Irq, "lock")
  /\ UNCHANGED <<match, enabled, alarms, ahead, exec, tmrlock, thermlock, mode, cstate, missed>>

IrqLock ==
  /\ At(Irq, "lock") /\ tmrlock = Free
  /\ tmrlock' = Irq
  /\ Goto(Irq, "scan")
  /\ UNCHANGED <<hwVars, alarms, ahead, exec, thermlock, mode, cstate, missed>>

\* list_add puts the alarm at the front of exec.
Due == /\ alarms' = Tail(alarms)
       /\ exec' = <<Head(alarms)>> \o exec
       /\ ahead' = [ahead EXCEPT ![Head(alarms)] = 0]

\* The first alarm is due, or it is the earliest that has not gone off.
IrqScan ==
  /\ At(Irq, "scan") /\ alarms # <<>>
  /\ IF Now(Head(alarms)) THEN Due /\ UNCHANGED act
     ELSE Goto(Irq, "init") /\ UNCHANGED <<alarms, exec, ahead>>
  /\ UNCHANGED <<hwVars, tmrlock, thermlock, mode, cstate, missed>>

\* Schedule it.
IrqInit ==
  /\ At(Irq, "init")
  /\ AlarmInit(ahead[Head(alarms)])
  /\ Goto(Irq, "again")
  /\ UNCHANGED <<stat, alarms, ahead, exec, tmrlock, thermlock, mode, cstate, missed>>

\* The alarm that the comparator was set for is not looked at again.
IrqAgainBug ==
  /\ At(Irq, "again")
  /\ tmrlock' = Free /\ Goto(Irq, "exec") /\ UNCHANGED <<alarms, exec>>
  /\ UNCHANGED <<hwVars, ahead, thermlock, mode, cstate, missed>>

\* If we didn't race, we're done.
IrqAgain ==
  /\ At(Irq, "again")
  /\ IF Now(Head(alarms)) THEN Due /\ Goto(Irq, "scan") /\ UNCHANGED tmrlock
     ELSE tmrlock' = Free /\ Goto(Irq, "exec") /\ UNCHANGED <<alarms, exec, ahead>>
  /\ UNCHANGED <<hwVars, thermlock, mode, cstate, missed>>

\* Shut down interrupt if no more pending alarms.
IrqEmpty ==
  /\ At(Irq, "scan") /\ alarms = <<>>
  /\ enabled' = FALSE
  /\ tmrlock' = Free
  /\ Goto(Irq, "exec")
  /\ UNCHANGED <<match, stat, alarms, ahead, exec, thermlock, mode, cstate, missed>>

\* The callbacks run without the lock.
IrqExec ==
  /\ At(Irq, "exec") /\ exec # <<>>
  /\ exec' = Tail(exec)
  /\ IF Head(exec) = Poll THEN ThermUpdate(Irq, "same")
     ELSE /\ UNCHANGED act \/ \E n \in Delays \ {0} : Call(Irq, Fan, n)
          /\ UNCHANGED <<hwVars, alarms, ahead, tmrlock, thermlock, mode, cstate, missed>>

IrqEnd ==
  /\ At(Irq, "exec") /\ exec = <<>>
  /\ Goto(Irq, "idle")
  /\ UNCHANGED <<hwVars, alarms, ahead, exec, tmrlock, thermlock, mode, cstate, missed>>

-----------------------------------------------------------------------------
AlarmStep(x) == AlarmSet(x) \/ AlarmDone(x)
IrqStep == IrqStart \/ IrqLock \/ IrqScan \/ IrqInit \/ IrqAgain \/ IrqEmpty \/ IrqExec \/ IrqEnd

TimerNext ==
  \/ Tick
  \/ \E x \in Actors : AlarmStep(x)
  \/ \E x \in Moders : FanMode(x) \/ SetCstate(x) \/ CstateUpdate(x)
  \/ \E x \in Setters : SetFan(x)
  \/ IrqStep

\* Time passes and what has started goes on; the locks are granted in turn.
TimerFairness ==
  /\ WF_timerVars(Tick)
  /\ \A x \in Actors : WF_timerVars(AlarmStep(x)) /\ SF_timerVars(AlarmSet(x))
  /\ WF_timerVars(IrqStep) /\ SF_timerVars(IrqLock) /\ SF_timerVars(IrqExec)

TimerSpec == TimerInit /\ [][TimerNext]_timerVars /\ TimerFairness

-----------------------------------------------------------------------------
(* Properties.                                                             *)

\* nvkm_timer_alarm_trigger "implements" a list over one comparator: while no
\* interrupt is pending or handled and the lock is free, the earliest alarm
\* has an interrupt at its time or before it, whatever was set, moved or
\* cancelled, and also across the wrap of the comparator.
OnTime ==
  tmrlock = Free /\ alarms # <<>> /\ At(Irq, "idle") /\ ~missed =>
    enabled /\ (stat \/ match <= ahead[Head(alarms)])

\* Polling is on in automatic mode only: after a change of mode no callback
\* that was already under way sets the alarm again, nor is it cancelled late;
\* and it is on there when no cstate rules, unless a change of that is under way.
Owed == \E x \in Actors : At(x, "update")
PollByMode ==
  thermlock = Free =>
    /\ mode # "auto" => Poll \notin ToSet(alarms)
    /\ mode = "auto" => cstate \/ Owed \/ Poll \in ToSet(alarms) \cup ToSet(exec)

\* Alarms run when they are due, and those of the thermal code as its mode says.
AlarmsSound == OnTime /\ PollByMode

\* An alarm that is set expires, even if its comparator was set too late ("it
\* will take roughly 4 seconds"), unless it is cancelled or set again.
AlarmExpires ==
  \A a \in Alarms :
    a \in ToSet(alarms) ~>
      (a \notin ToSet(alarms) \/ \E x \in Actors : At(x, "alarm") /\ act[x].alarm = a)
=============================================================================
