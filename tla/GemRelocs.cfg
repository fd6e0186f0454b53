CONSTANTS
  bo1 = bo1
  bo2 = bo2
  Clients = {p, q}
  Kernel = Kernel
  Bos = {bo1, bo2}
  VramRoom = 1
  Families = {"older"}
  Requests <- MCRequests
  Homes <- MCHomes
  Presumable = {"gart"}
  VmaLess = {}
  TryLimit = 4
  MaxQueued = 0
  Lost = Lost
  Nil = Nil
SPECIFICATION GemSpec
INVARIANT RelocsApplied
CHECK_DEADLOCK FALSE
