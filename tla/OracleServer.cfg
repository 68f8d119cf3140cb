CONSTANTS
  a = a
  b = b
  agent = agent
  Process = {p, q}
  Agent = {agent}
  Project = {a, b}
  Entry = {1, 2, 3}
  About <- AboutBoth
  From <- FromOne
  Recent = 1
  StoreFails = TRUE
  Fragile = {1}
  MaxCalls = 2
  NoProject = NoProject
  NoObservation = NoObservation
SPECIFICATION Spec
INVARIANTS
  TypeOK
  EntriesReachTheLog
  LoggedTwiceOnlyIfShared
  CurrentIsNamedOrIngested
  RatesAreRates
SYMMETRY ProcessSymmetry
CHECK_DEADLOCK FALSE
