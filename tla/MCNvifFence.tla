---------------------------- MODULE MCNvifFence -----------------------------
(* Notifies of NvifNotify, and the fences that use one, side by side in    *)
(* one instance.  A behaviour is either of the fences, or of one notify    *)
(* that is picked at the start, direct or deferred, by itself.  The        *)
(* callers of a deferred notify take turns; those of a direct one do not.  *)
EXTENDS MCNouveauFence

VARIABLE picked   \* the notify, or None

PickedVars == <<sysVars, picked>>

PickedInit == FenceInit /\ picked \in Notifies \cup {None}

OfFence(Step) == picked = None /\ Step /\ UNCHANGED picked
OfNotify(Step) == picked # None /\ Step /\ UNCHANGED <<fenceVars, picked>>

NotifyNext ==
  /\ NvifNext
  /\ \A n \in Notifies \ {picked} : ~object'[n]
  /\ picked \in Deferred =>
        \A t, u \in Threads : call'[t].pc # "idle" /\ call'[u].pc # "idle" => t = u

\* That of NouveauFence and of NvifNotify, of the part that moves.
PickedFairness ==
  /\ \A t \in Users : WF_PickedVars(OfFence(t \in Threads /\ ThreadStep(t)) \/ OfNotify(NvifStep(t)))
  /\ \A t \in Users : SF_PickedVars(OfFence(UserListDel(t) /\ UNCHANGED <<nvifVars, fenceVars>>)
                                      \/ OfNotify(UserListDel(t) /\ UNCHANGED nvifVars))
  /\ \A t \in Threads :
       SF_PickedVars(OfFence(EmitUpdate(t) \/ PollUpdate(t) \/ WaitEnable(t) \/ WaitSleep(t)
                               \/ KillAll(t) \/ DelKill(t)))
  /\ WF_PickedVars(OfFence(IrqStep) \/ OfNotify(NvkmSend \/ CbStep))
  /\ WF_PickedVars(OfFence(GpuStep)) /\ SF_PickedVars(OfFence(Handler))
  /\ \A n \in Deferred : WF_PickedVars(OfNotify(NvifWorkStep(n)))

PickedSpec == PickedInit /\ [][OfFence(FenceNext) \/ OfNotify(NotifyNext)]_PickedVars /\ PickedFairness
=============================================================================
