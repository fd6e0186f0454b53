CONSTANTS
  PageSize <- MCPageSize
  Setups <- MCPfnSetups
  Sizes = {1, 2, 3}
SPECIFICATION VmmSpec
INVARIANT TrackedRefcounted
CHECK_DEADLOCK FALSE
