CONSTANTS
  Session = {s1, s2}
  Command = {pytest}
  File = {a, b, c}
  Hashed = {a, b}
  MaxVersion = 1
  MaySetBack = FALSE
  NoRow = NoRow
  NoCall = NoCall
SPECIFICATION Spec
PROPERTIES
  HitIsFresh
