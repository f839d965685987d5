SPECIFICATION Spec
CONSTANTS
  k1 = k1
  k2 = k2
  w1 = w1
  w2 = w2
  r1 = r1
  r2 = r2
  Key <- MCKey
  Writer <- OneWriter
  Reader <- NoReader
  Replying <- NoneReply
  MaxEntries = 3
INVARIANTS
  DestroysAll
