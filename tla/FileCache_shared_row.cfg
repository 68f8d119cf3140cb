CONSTANTS
  s1 = s1
  s2 = s2
  p1 = p1
  p2 = p2
  Session = {s1, s2}
  Path = {p1}
  Content = {a, b, c}
  Scope <- Together
  StoreFails = FALSE
  Unreadable = Unreadable
  NoRow = NoRow
  Nothing = Nothing
  Garbled = Garbled
  NoCall = NoCall
SPECIFICATION Spec
PROPERTIES
  AnswerIsCurrent
