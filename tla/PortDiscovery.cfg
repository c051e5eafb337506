SPECIFICATION FairSpec
CONSTANTS
  status = status
  config = config
  temp = temp
  phase = phase
  version = version
  gone = gone
  sensor = sensor
  switch = switch
  Ports = {status, config}
  Props = {temp, phase, version, gone}
  Platforms = {sensor, switch}
  Prunable = {sensor}
  Holds <- Appliance
  Reads <- Entities
  Basics = basics
  MaxInbox = 2
INVARIANTS
  EveryPropertyShown
PROPERTIES
  PropertiesStay
  SilentIsAskedAgain
