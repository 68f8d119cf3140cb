CONSTANTS
  Session = {s1}
  Path = {p1, p2}
  Content = {a, b}
  Scope <- Alone
  StoreFails = FALSE
  Unreadable = Unreadable
  NoRow = NoRow
  Nothing = Nothing
  Garbled = Garbled
  NoCall = NoCall
SPECIFICATION IngestSpec
PROPERTIES
  FirstReadIsFull
