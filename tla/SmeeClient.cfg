CONSTANTS
  Delivery = {open, push, other}
  PullRequest = {open, push}
  Opened = {open}
  MaxBackoff = 30
  StoreFails = TRUE
  MaxReads = 2
  MaxTries = 8
  NoMessage = NoMessage
SPECIFICATION Spec
INVARIANTS
  TypeOK
  ToldIsStored
  StoredIsTold
  ToldAtMostPerRead
  DelayIsExponential
PROPERTIES
  
  EventsAreHandled
