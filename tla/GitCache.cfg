CONSTANTS
  File = {1}
  Branch = {main, dev}
  FileState = {"clean", "modified", "staged"}
  MaxCommits = 2
  LogLen = 2
  Questions = {"changes", "ready", "status"}
  GitFails = TRUE
  StoreFails = TRUE
  None = None
  Unknown = Unknown
SPECIFICATION Spec
SYMMETRY Symmetry
INVARIANTS
  TypeOK
  DeltasAddUp
  CommitsAreTold
