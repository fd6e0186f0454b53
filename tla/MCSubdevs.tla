----------------------------- MODULE MCSubdevs ------------------------------
(* The allocator of VRAM, instance memory and the queues of a falcon side   *)
(* by side in one instance: a behaviour is of one of them, and the others   *)
(* rest.  No liveness is stated of any.                                     *)
EXTENDS MCNvkmMm, Nv50Instmem, FalconQueue

CONSTANTS a, b, wrk

MCCmdSize == [s \in Senders |-> IF s = b THEN 3 ELSE 2]

VARIABLE part

partVars == <<vars, instVars, falconVars, part>>

\* The layout of VRAM is of no account to the others: one is enough.
PartInit ==
  /\ Init /\ InstInit /\ FalconInit
  /\ part \in {"ram", "instmem", "falcon"}
  /\ part # "ram" => layout = CHOOSE l \in Layouts : TRUE

OfRam(A) == part = "ram" /\ A /\ UNCHANGED <<instVars, falconVars, part>>
OfInst(A) == part = "instmem" /\ A /\ UNCHANGED <<vars, falconVars, part>>
OfFalcon(A) == part = "falcon" /\ A /\ UNCHANGED <<vars, instVars, part>>

PartNext == OfRam(Next) \/ OfInst(InstNext) \/ OfFalcon(FalconNext)

PartSpec == PartInit /\ [][PartNext]_partVars
=============================================================================
