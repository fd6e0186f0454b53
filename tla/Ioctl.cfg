CONSTANTS
  drm = drm
  cli = cli
  udev1 = udev1
  udev2 = udev2
  chan = chan
  obj1 = obj1
  obj2 = obj2
  None = None
  Root = drm
  Objs = {cli, udev1, udev2, chan, obj1, obj2}
  Parent <- MCParent
  Class <- MCClass
  Engine <- MCEngine
  Subdevs <- MCSubdevs
  MaxMisses = 2
  bo1 = bo1
  bo2 = bo2
  Clients = {p, q}
  Kernel = Kernel
  Bos = {bo1, bo2}
  VramRoom = 1
  Families = {"tesla", "older"}
  Requests <- MCRequests
  Homes <- MCHomes
  Presumable = {"gart"}
  VmaLess <- MCVmaLess
  TryLimit = 4
  MaxQueued = 0
  Lost = Lost
  Nil = Nil
SPECIFICATION PartSpec
INVARIANTS ObjectsExact GpuCoherent NoStandstill
PROPERTY CallsUndone
SYMMETRY GemSym
CHECK_DEADLOCK FALSE
