SPECIFICATION Spec
CONSTANTS
  Clients = {c1, c2, c3}
  Threads = {t1}
  Refreshers = {push}
  Tracked = {push}
  Setup = setup
  NoClient = NoClient
  NoOne = NoOne
INVARIANT NeverSilentlyDead
