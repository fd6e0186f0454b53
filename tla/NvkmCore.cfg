CONSTANTS
  dir = dir
  def = def
  NoNotify = NoNotify
  Notifies = {dir, def}
  Work = {def}
  Users = {u1, u2}
  Index = {0}
  Type = {1, 2}
  IndexOf <- MCIndexOf
  TypesOf <- MCTypesOf
  Serialized = TRUE
  PageSize <- MCPageSize
  Setups <- MCSetups
  Sizes = {1, 2, 3}
SPECIFICATION CoreSpec
INVARIANTS TypeOK RefsExact BlockAccounts NoCallbackAfterFini PayloadStable
  SpaceSound PtesExact
PROPERTIES Rearmed CallReturns VmmReturns
CHECK_DEADLOCK FALSE
