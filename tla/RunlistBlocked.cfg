CONSTANTS
  Nobody = Nobody
  Chans = {c, d}
  Residents = {d}
  Runlists = {0, 1}
  Engines = {0, 1}
  RunlOf <- MCRunlOf
  EngRunl <- MCEngRunlEach
  MaxEvents = 3
SPECIFICATION RunlSpec
INVARIANT Unblocked
CHECK_DEADLOCK FALSE
