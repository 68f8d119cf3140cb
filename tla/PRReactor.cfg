CONSTANTS
  PR = {p1, p2}
  Handle = {h1, h2, h3, h4}
  Debounce = 2
  MaxEvents = 3
  NoPR = NoPR
  NoHandle = NoHandle
SPECIFICATION Spec
INVARIANTS
  TypeOK
  TimersAreOwn
  PushIsPending
  TimerCountsFromLatestPush
  OneReviewPerEvent
  StraysComeFromReviews
PROPERTIES
  KeepsPromise
