SPECIFICATION Spec
CONSTANTS
  Configs <- MCConfigs
  Requests <- MCRequests
  Tree <- MCTree
  Mimes <- MCMimes
  Ranges <- MCRanges
  Frames <- MCFrames
  SourceExts <- MCSourceExts
  Sockets <- MCSockets
  Hops = 3
  MaxBody = 5
  MaxSize = 2
  MaxVersions = 3
  MaxClock = 1
  MaxMessage = 3
  MaxControl = 2
  MaxFrames = 4
  NoFile = NoFile
  NoRequest = NoRequest
INVARIANT FirstMatchWins
INVARIANT NoDeadEnd
INVARIANT SinksClean
INVARIANT OneVersion
INVARIANT BodyExact
INVARIANT SourcesHeld
INVARIANT MessagesWhole
INVARIANT NeverHoards
CHECK_DEADLOCK FALSE
