--------------------------- MODULE MCNouveauFence ---------------------------
(* Instances of NouveauFence for TLC: one channel and its notify.          *)
EXTENDS NouveauFence

MCIndexOf == [n \in Notifies |-> 0]
MCTypesOf == [n \in Notifies |-> {1}]
=============================================================================
