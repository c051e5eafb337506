SPECIFICATION FairSpec
CONSTANTS
  Fetchers = {fetch}
  Tracked = {proactive}
  Attempts = {b1}
  Proactive = proactive
  Setup = setup
  Nobody = Nobody
  Backoff = backoff
  MaxLoads = 2
  MaxTokens = 3
INVARIANTS
  SuccessorKept
  RejectedOnlyWhenDead
PROPERTY LockServed
