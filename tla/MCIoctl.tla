------------------------------ MODULE MCIoctl -------------------------------
(* What clients ask for: the object tree, and the command submission of two *)
(* clients, side by side in one instance.  A behaviour is of one of them,   *)
(* and the other rests.  On Tesla and later, where there are most states,   *)
(* all but one of the requests are made, whichever.  No liveness is stated. *)
EXTENDS MCNvkmObject, MCNouveauGem

VARIABLES part, absent

partVars == <<objVars, gemVars, part, absent>>

\* Which GPU it is is of no account to the objects: one is enough.
PartInit ==
  /\ ObjInit /\ GemInit /\ part \in {"object", "gem"}
  /\ part # "gem" => family = CHOOSE f \in Families : TRUE
  /\ absent \in IF part = "gem" /\ family = "tesla" THEN Requests[family] ELSE {None}

OfObject(A) == part = "object" /\ A /\ UNCHANGED <<gemVars, part, absent>>
OfGem(A) ==
  /\ part = "gem" /\ A
  /\ UNCHANGED <<objVars, part, absent>>
  /\ \A t \in Clients : push'[t].req # absent

PartSpec == PartInit /\ [][OfObject(ObjNext) \/ OfGem(GemNext)]_partVars
=============================================================================
