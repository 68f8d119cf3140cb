CONSTANTS
  p1 = p1
  p2 = p2
  open = open
  push = push
  other = other
  again = again
  Delivery = {open, push, other, again, closed}
  PullRequest = {open, push, other, again, closed}
  OpenedEvent = {open}
  PushEvent = {push, other, again}
  PrOf <- TwoPullRequests
  MaxBackoff = 1
  StoreFails = TRUE
  MaxReads = 1
  MaxTries = 1
  NoMessage = NoMessage
  PR = {p1, p2}
  Handle = {h1, h2, h3}
  Debounce = 1
  NoPR = NoPR
  NoHandle = NoHandle
SPECIFICATION Spec
INVARIANTS
  TypeOK
  OnlyFailuresLoseReviews
  ReviewsAreRead
PROPERTIES
  StoredIsReviewed
