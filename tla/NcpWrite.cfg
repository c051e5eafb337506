SPECIFICATION FairSpec
CONSTANTS
  Callers = {c1, c2}
  Commands = {cook}
  Cids = {k1, k2}
  None = None
  RetryLimit = 1
INVARIANTS
  AnswerIsOwn
  NotSentTwice
  OneLateSend
PROPERTIES
  KeepsContract
  WriteReturns
