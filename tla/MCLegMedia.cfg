\* One leg: a publisher's and a subscriber's, small numbers that wrap.
SPECIFICATION LegSpec
CONSTANTS
  SeqSpace = 8
  SeqCycle = 8
  RocSpace = 4
  WindowLen = 3
  Ssrcs = {1}
  MaxStreams = 1
  RtcpLimit = 2
  Starts = {6}
  MaxJump = 2
  MaxLate = 4
  MaxSeals = 4
  Advance = 3
  Behind = 2
  Word = 64
  MaxSlots = 1
  TwCap = 3
  TwBatch = 3
  TwDue = 1
  RrDue = 2
  RefUnit = 2
  FbSpace = 2
  ByteSpace = 4
  Narrow = 3
  Wide = 2
  PlaneSsrc = 1
  TwStart = 6
  MaxNow = 2
INVARIANTS NoIvReuse AcceptedOnce InOrderStreamsOpen TwccIsExact ReportsAreExact
CHECK_DEADLOCK FALSE
