CONSTANTS
  ntfy = ntfy
  None = None
  NoNotify = NoNotify
  MaxSeq = 1
  SeqWrap = 4
  OldSeq = 3
  MaxPut = 2
  Notifies = {ntfy, wrk}
  Deferred = {wrk}
  Threads = {t1, t2}
  Users = {t1, t2, wrk}
  Work = {}
  Index = {0}
  Type = {1}
  IndexOf <- MCIndexOf
  TypesOf <- MCTypesOf
  Serialized = FALSE
SPECIFICATION PickedSpec
INVARIANTS PutcntAccounts NoCallbackAfterDtor
PROPERTIES NvifCallReturns OpsReturn PollReturns
CHECK_DEADLOCK FALSE
