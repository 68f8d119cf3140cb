CONSTANTS
  d1 = d1
  d2 = d2
  Delivery = {d1, d2}
  Kind <- TwoKinds
  Tool = {"get_ci_status", "get_notifications"}
  Days = 1
  DayLen = 3
  WriteFails = TRUE
  NoRow = NoRow
  NoEvent = NoEvent
  NoQuery = NoQuery
SPECIFICATION ToolsSpec
INVARIANTS
  TypeOK
  StoredEventsLast
  AnswersAreComplete
PROPERTIES
  RetentionIsBounded
  OldEventsGo
