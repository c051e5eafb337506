SPECIFICATION FairSpec
CONSTANTS
  Callers = {c1}
  MaxFailures = 2
INVARIANTS
  VerdictEarned
  OffIsObeyed
PROPERTIES
  LostPollHasCause
  Recovers
  BrewEnds
