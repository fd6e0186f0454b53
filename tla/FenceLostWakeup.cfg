CONSTANTS
  ntfy = ntfy
  None = None
  NoNotify = NoNotify
  MaxSeq = 2
  SeqWrap = 4
  OldSeq = 2
  MaxPut = 2
  Notifies = {ntfy}
  Deferred = {}
  Threads = {t1}
  Users = {t1}
  Work = {}
  Index = {0}
  Type = {1}
  IndexOf <- MCIndexOf
  TypesOf <- MCTypesOf
  Serialized = FALSE
SPECIFICATION FenceFairSpec
PROPERTY EventuallySignaled
CHECK_DEADLOCK FALSE
