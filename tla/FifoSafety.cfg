CONSTANTS
  ntfy = ntfy
  None = None
  NoNotify = NoNotify
  MaxSeq = 2
  SeqWrap = 4
  OldSeq = 2
  MaxPut = 2
  Notifies = {ntfy}
  Deferred = {}
  Threads = {t1, t2}
  Users = {t1, t2}
  Work = {}
  Index = {0}
  Type = {1}
  IndexOf <- MCIndexOf
  TypesOf <- MCTypesOf
  Serialized = FALSE
  Nobody = Nobody
  Chans = {c, d}
  Residents = {d}
  Runlists = {0}
  Engines = {0, 1}
  RunlOf <- MCRunlOf
  EngRunl <- MCEngRunl
  MaxEvents = 3
  NPde = 2
  NLpte = 2
  NSpte = 2
  PtSetups <- MCPtSetups
SPECIFICATION PartSpec
INVARIANTS NotifyRefExact PendingSound ChannelRetired SeenExact TablesExact
PROPERTY TimelineRefined
CHECK_DEADLOCK FALSE
