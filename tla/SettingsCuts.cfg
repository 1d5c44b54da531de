\* Any change of settings, with power failing twice between any two writes.
SPECIFICATION Spec
CONSTANTS
  Accounts = {0, 1, 2}
  MaxCuts = 2
INVARIANTS
  SessionIsOfSettings
  AlwaysLoads
  TestNetworkConfirmed
PROPERTIES
  NothingHalfChanged
  WorksAgain
