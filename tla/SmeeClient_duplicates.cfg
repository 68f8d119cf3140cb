CONSTANTS
  Delivery = {open, push, other}
  PullRequest = {open, push}
  Opened = {open}
  MaxBackoff = 30
  StoreFails = FALSE
  MaxReads = 2
  MaxTries = 3
  NoMessage = NoMessage
SPECIFICATION Spec
INVARIANTS
  DuplicatesAreIgnored
