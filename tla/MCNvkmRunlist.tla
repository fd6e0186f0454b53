---------------------------- MODULE MCNvkmRunlist ----------------------------
(* Instances of NvkmRunlist for TLC: the channels are of runlist 0, and    *)
(* the engines too, or one engine of each runlist.                         *)
EXTENDS NvkmRunlist

MCRunlOf == [x \in Chans |-> 0]
MCEngRunl == [e \in Engines |-> 0]
MCEngRunlEach == [e \in Engines |-> e]
=============================================================================
