----------------------------- MODULE MCNvkmVmm -----------------------------
(* Address spaces for TLC: those that NVKM manages, with and without sparse *)
(* regions, one short of page tables; those that the client manages, one    *)
(* around an area of NVKM, one short of page tables; one of a Tesla-class   *)
(* GPU; and one in which a region that is mapped may fail to be mapped      *)
(* again.  An allocation that is neither "ptes" nor "addr" is "lazy";       *)
(* nvkm_vmm_get_locked has no sparse ones.                                  *)
EXTENDS NvkmVmm

MCPageSize == <<2, 1>>

Kind(type, sparse) == [type |-> type, sparse |-> sparse]

Space(limit, managed, own, block, parts, kinds, fails) ==
  [limit |-> limit, managed |-> managed, own |-> own, block |-> block, parts |-> parts,
   kinds |-> kinds, fails |-> fails, remaps |-> FALSE]

MCSetups ==
  {Space(4, 0, 4, 0, TRUE, {Kind("addr", TRUE)}, FALSE),
   Space(3, 0, 3, 0, TRUE, {Kind("ptes", FALSE), Kind("addr", TRUE)}, FALSE),
   Space(3, 0, 3, 0, TRUE, {Kind("ptes", TRUE), Kind("lazy", FALSE)}, FALSE),
   Space(3, 0, 3, 0, TRUE, {Kind("addr", TRUE)}, TRUE),
   Space(4, 4, 0, 0, TRUE, {}, FALSE),
   Space(3, 1, 1, 0, TRUE, {Kind("addr", FALSE)}, FALSE),
   Space(3, 3, 0, 0, FALSE, {}, TRUE),
   Space(5, 0, 5, 4, FALSE, {Kind("addr", FALSE)}, FALSE),
   [Space(3, 0, 3, 0, TRUE, {Kind("ptes", FALSE)}, FALSE) EXCEPT !.remaps = TRUE]}

\* A space managed by the client, short of page tables.
MCPfnSetups == {Space(3, 3, 0, 0, FALSE, {}, TRUE)}

\* Regions that are mapped again, in vain.
MCRemapSetups ==
  {[Space(2, 0, 2, 0, FALSE, {Kind(type, FALSE)}, FALSE) EXCEPT !.remaps = TRUE] :
     type \in {"ptes", "addr"}}
=============================================================================
