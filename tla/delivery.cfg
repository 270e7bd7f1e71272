SPECIFICATION FairSpec
CONSTANTS
  N = 2
  Size <- MCSize
  Stream <- MCStream
  InlineLimit = 1
  Threshold = 1
  MaxPieces <- MCPieces
  EventCap = 1
  FeedCap = 1
  DownCap = 1
  Deaf = {}
INVARIANT ExchangesIntact
INVARIANT SpillsGo
PROPERTY Answered
CHECK_DEADLOCK FALSE
