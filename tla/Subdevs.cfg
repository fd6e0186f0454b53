CONSTANTS
  Mems = {m1, m2, m3}
  None = None
  Layouts <- MCLayouts
  Aligns = {1, 2}
  Sizes = {1, 3}
  InstObjs = {x, y}
  Early = {x}
  Slots = {s1, s2}
  Users = {u, v}
  a = a
  b = b
  wrk = wrk
  Nothing = Nothing
  Callers = {a, b}
  Worker = wrk
  CmdSize <- MCCmdSize
  RingSize = 7
  MsgSize = 3
  InitSize = 2
  AnswerSize = 1
  NumSeqs = 2
SPECIFICATION PartSpec
INVARIANTS Tiling Owned PageSound CleanFini AccessHits SlotsAccounted ContentsRestored SeqMatched
PROPERTIES PinnedStays ChannelRefined
SYMMETRY MCSymmetry
CHECK_DEADLOCK FALSE
