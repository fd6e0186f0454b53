------------------------------ MODULE MCNvkmMm ------------------------------
(* Instances of NvkmMm for TLC: VRAM as nv50 lays it out (one heap, blocks, *)
(* two types) and as gf100 does with mixed memory (two heaps and a hole).  *)
EXTENDS NvkmMm, TLC

MCLayouts ==
  {[block |-> 2, types |-> {1, 2},
    regions |-> <<[heap |-> 1, offset |-> 1, length |-> 5]>>],
   [block |-> 1, types |-> {1},
    regions |-> <<[heap |-> 1, offset |-> 1, length |-> 3],
                  [heap |-> 3, offset |-> 7, length |-> 2]>>]}

\* Nothing orders the memories, and the run checks no liveness.
MCSymmetry == Permutations(Mems)
=============================================================================
