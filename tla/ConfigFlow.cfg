SPECIFICATION FairSpec
CONSTANTS
  Flows = {f1, f2}
  Appliances <- Samples
  None = None
INVARIANTS
  OneEntryPerDevice
  TokenOfItsClient
  NoSessionLeft
PROPERTY CodeIsEnough
