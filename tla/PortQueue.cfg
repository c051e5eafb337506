SPECIFICATION FairSpec
CONSTANTS
  status = status
  config = config
  ReadPorts <- TwoPorts
  Pumpers = {t1, t2}
  Cids = {k1, k2}
  None = None
  BusyLimit = 2
INVARIANT QueueInv
PROPERTIES
  QueueServed
  StopSilences
