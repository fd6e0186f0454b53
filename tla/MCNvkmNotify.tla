---------------------------- MODULE MCNvkmNotify ----------------------------
(* Instances of NvkmNotify for TLC: a direct notify and a deferred one on   *)
(* one index, which overlap on one of two types.                           *)
EXTENDS NvkmNotify

CONSTANTS dir, def

MCIndexOf == [n \in Notifies |-> 0]
MCTypesOf == [n \in Notifies |-> IF n = dir THEN {1, 2} ELSE {2}]
=============================================================================
