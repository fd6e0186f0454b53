------------------------------- MODULE MCFifo -------------------------------
(* The fences of a channel, the runlists of a fifo and the page tables of  *)
(* an address space side by side in one instance: a behaviour is of one of *)
(* them, and the others rest.  No liveness is stated of any.               *)
EXTENDS MCNouveauFence, MCNvkmRunlist, MCNvkmPt

VARIABLE part

partVars == <<sysVars, runlVars, ptVars, part>>

\* Page tables that rest do so in one state.
PartInit ==
  /\ FenceInit /\ RunlInit /\ PtInit
  /\ part \in {"fence", "engines", "events", "pt"}
  /\ part # "pt" => ptsetup = CHOOSE s \in PtSetups : TRUE

\* Two events on all engines, or MaxEvents while one engine runs channels.
TwoEvents == events' <= 2
OneEngine == \A e \in Engines \ {0} : on'[e] = Nobody

PartNext ==
  \/ part = "fence" /\ FenceNext /\ UNCHANGED <<runlVars, ptVars, part>>
  \/ part = "engines" /\ RunlNext /\ TwoEvents /\ UNCHANGED <<sysVars, ptVars, part>>
  \/ part = "events" /\ RunlNext /\ OneEngine /\ UNCHANGED <<sysVars, ptVars, part>>
  \/ part = "pt" /\ PtNext /\ UNCHANGED <<sysVars, runlVars, part>>

PartSpec == PartInit /\ [][PartNext]_partVars
=============================================================================
