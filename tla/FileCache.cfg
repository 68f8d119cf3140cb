CONSTANTS
  s1 = s1
  s2 = s2
  p1 = p1
  p2 = p2
  Session = {s1, s2}
  Path = {p1, p2}
  Content = {a, b, c}
  Scope <- Apart
  StoreFails = TRUE
  Unreadable = Unreadable
  NoRow = NoRow
  Nothing = Nothing
  Garbled = Garbled
  NoCall = NoCall
SYMMETRY TextSymmetry
SPECIFICATION Spec
INVARIANTS
  TypeOK
  SeenMeansTold
  LookupStaysTrue
  RowIsWhatAgentHas
PROPERTIES
  Transparent
