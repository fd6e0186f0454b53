CONSTANTS
  Wrap = 3
  Delays = {0, 4}
  Period = 2
  Setters = {s}
  Moders = {s, m}
  Cstates = {TRUE, FALSE}
  Late = {s}
  DmaMax = 7
  IbMax = 3
  GemWords = 3
  FenceWords = 2
  EmitWords = {3}
  MaxPush = 1
SPECIFICATION PartSpec
INVARIANTS AlarmsSound RingIntact IbIntact
PROPERTIES AlarmExpires WaitEnds
