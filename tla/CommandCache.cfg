CONSTANTS
  Session = {s1, s2}
  Command = {pytest}
  File = {a, b}
  Hashed = {a}
  MaxVersion = 2
  MaySetBack = TRUE
  NoRow = NoRow
  NoCall = NoCall
SPECIFICATION Spec
SYMMETRY Symmetry
INVARIANTS
  TypeOK
  OutputNotBeforeHash
PROPERTIES
  HashTellsEdits
