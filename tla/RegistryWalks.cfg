SPECIFICATION FairSpec
CONSTANTS
  k1 = k1
  k2 = k2
  w1 = w1
  w2 = w2
  r1 = r1
  r2 = r2
  Key <- MCKey
  Writer <- TwoWriters
  Reader <- OneReader
  Replying <- K1Replies
  MaxEntries = 5
INVARIANTS
  TypeOK
  WalkIsComplete
  FirstMakerReplies
  DestroyTakesIsolated
  DestroyTakesHalf
PROPERTIES
  DestroyReturns
