SPECIFICATION SdkSpec
CONSTANTS
  c1 = c1
  c2 = c2
  m1 = m1
  m2 = m2
  Parts <- MCParts
  Value <- EndsAndEvery
  Times <- EndTimes
  Symbols <- MCSymbols
  Files <- MCFiles
  Edited <- MCEdited
  Paths <- MCPaths
  Keys <- MCKeys
  Values <- MCValues
  MaxEdits = 2
  Caller <- MCCallers
  Item <- MCItems
  Hosts <- MCHosts
  NoProxies <- MCNoProxies
  Garbage <- MCGarbage
  Answers <- MCAnswers
  MaxCalls = 3
  Handle <- MCHandles
  Kinds <- MCKinds
  Texts <- MCTexts
  Articles <- MCArticles
  MAX_LENGTH = 1
  MAX_ARTICLE_COUNT = 3
  MaxBuilds = 5
INVARIANTS
  SdkTypeOK
  RunsWhenMeant
  StackFollowsSections
  GeneratedReadsBack
  NoProxyIsBorrowed
  UsersItemsSurvive
  ZeroMeansAccepted
  JsonIsWellFormed
  PointerOutlivesNoGrowth
PROPERTIES
  KeyEditsAreLocal
  NewSectionIsFound
CHECK_DEADLOCK FALSE
