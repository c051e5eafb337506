SPECIFICATION FairSpec
CONSTANTS
  Clients = {c1, c2, c3}
  Threads = {t1}
  Refreshers = {push, heartbeat}
  Tracked = {push}
  Setup = setup
  NoClient = NoClient
  NoOne = NoOne
INVARIANTS
  SingleOwner
  OneLiveClient
  OneLateDial
PROPERTIES
  ReactiveSparesLiveLink
  KeepsContract
  StopQuiesces
  RetryUntilUp
  RefreshRecovers
