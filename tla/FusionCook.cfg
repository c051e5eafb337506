SPECIFICATION FairCookSpec
CONSTANTS
  Callers = {c1}
  Commands <- CookCommands
  Calls = {"start", "pause", "stop", "settings", "warm", "update"}
  None = None
  MaxAdrift = 1
PROPERTIES
  WarmStartsWarm
  StopEndsCook
  ChangeReachesCook
  ResumeAttempted
  CallsReturn
