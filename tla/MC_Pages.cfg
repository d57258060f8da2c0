SPECIFICATION Spec
CONSTANTS
  None = None
  MAX_CONSECUTIVE_ERRORS = 2
  MaxEvents = 2
  MaxSilent = 1
  MaxInFlight = 2
  MaxDrops = 1
  ListingStates = {"analyzing", "delivered"}
  MaxSteps = 2
  MaxRuns = 2
  MaxReads = 2
  MaxUnread = 1
  Listings = {a}
  MaxPolls = 2
  MaxDecisions = 1
  MaxOutside = 1
  MaxLost = 1
  Photos = {p1, p2, p3}
  MaxDrags = 2
  MaxOpened = 2
  MaxQuestions = 2
  MaxClears = 1
  MaxRatings = 1
  LIMIT = 1
  MaxCreated = 2
  MaxRequests = 2
  MaxImports = 2
  MaxTicks = 2
  Fields = {f1, f2}
  Streets = {s}
  Values = {v}
  MaxTyped = 2
  MaxSelected = 2
INVARIANTS TypeOK OrderShown ChatInOrder FieldsUsable
PROPERTIES CatchesUp SettlesDown StepsGoForward
CHECK_DEADLOCK FALSE
