---------------------------- MODULE MCNvkmCore -----------------------------
(* Notifies and address spaces side by side in one instance: a behaviour is *)
(* of one of them, and the other rests.  The fairness is that of NvkmNotify *)
(* and NvkmVmm, of the part that moves.                                     *)
EXTENDS MCNvkmNotify, MCNvkmVmm

VARIABLE part

coreVars == <<vars, vmmVars, part>>

\* An address space that rests does so in one state.
CoreInit ==
  /\ Init /\ VmmInit /\ part \in {"notify", "vmm"}
  /\ part # "vmm" => setup = CHOOSE s \in Setups : TRUE

OfNotify(A) == part = "notify" /\ A /\ UNCHANGED <<vmmVars, part>>
OfVmm(A) == part = "vmm" /\ A /\ UNCHANGED <<vars, part>>

CoreFairness ==
  /\ \A u \in Users : WF_coreVars(OfNotify(UserStep(u))) /\ SF_coreVars(OfNotify(UserListDel(u)))
  /\ WF_coreVars(OfNotify(SendStep))
  /\ \A n \in Notifies : WF_coreVars(OfNotify(WorkStep(n)))
  /\ WF_coreVars(OfVmm(VmmLoop))

CoreSpec ==
  CoreInit /\ [][OfNotify(Next) \/ OfVmm(VmmNext)]_coreVars /\ CoreFairness
=============================================================================
