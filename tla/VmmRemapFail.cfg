CONSTANTS
  PageSize <- MCPageSize
  Setups <- MCRemapSetups
  Sizes = {1, 2, 3}
SPECIFICATION VmmSpec
INVARIANT MappedHoldsValid
CHECK_DEADLOCK FALSE
