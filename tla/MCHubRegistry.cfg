CONSTANTS
  Conns = {c1, c2}
  Edits = {e1, e2}
  IncomingCap = 2
  MaxHubs = 2
SPECIFICATION FairSpec
CHECK_DEADLOCK FALSE
INVARIANTS RegistryTypeOK OneHubRuns FreshHubKeepsStored
PROPERTY AcceptedReachesStore
