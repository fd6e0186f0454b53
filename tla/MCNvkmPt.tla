------------------------------ MODULE MCNvkmPt ------------------------------
(* The page tables: two directory entries of two large pages of two small. *)
EXTENDS NvkmPt

Reg(addr, size, sparse, refd) == [addr |-> addr, size |-> size, sparse |-> sparse, refd |-> refd]
Setup(regions, sizes, fails) == [regions |-> regions, sizes |-> sizes, fails |-> fails, sptes |-> 3]

MCPtSetups ==
  { Setup(<<Reg(0, 5, FALSE, "map"), Reg(5, 3, FALSE, "map")>>, {"S", "L"}, {"get", "map"}),
    Setup(<<Reg(1, 6, TRUE, "map"), Reg(0, 1, FALSE, "S"), Reg(7, 1, FALSE, "map")>>, {"S", "L"}, {"get"}),
    Setup(<<Reg(0, 8, TRUE, "map")>>, {"S"}, {"get"}),
    Setup(<<Reg(0, 8, TRUE, "map")>>, {"L"}, {"get"}),
    Setup(<<Reg(0, 5, TRUE, "map"), Reg(5, 1, FALSE, "map")>>, {"S", "L"}, {"get", "map"}),
    Setup(<<Reg(1, 4, FALSE, "S"), Reg(6, 2, TRUE, "L"), Reg(5, 1, TRUE, "S")>>, {}, {"get"}) }
=============================================================================
