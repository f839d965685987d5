SPECIFICATION BotSpec
CONSTANTS
  Symbols <- MCSymbols
  Files <- MCFiles
  Edited <- None
  Paths <- None
  Keys <- None
  Values <- None
  MaxEdits = 0
  Image <- MCImage
  Modes <- MCModes
  LibNames <- MCLibNames
  MaxCalls = 2
  Radix = 64
  EncodingKeys <- MCEncodingKeys
  Scrambled <- MCScrambled
  Requests <- MCRequests
  Xml <- MCXml
  Replies <- MCReplies
  GenRandStr <- MCGenRandStr
  MaxHandled = 1
  Size = 9
INVARIANTS
  RunningIsConfigured
  BoundAsConfigured
  UnloadTakesItsJobs
  RepliesReadBack
  AskedOnlyIfSigned
  AskedOnlyIfWhole
  CrashesAreExplained
CHECK_DEADLOCK FALSE
