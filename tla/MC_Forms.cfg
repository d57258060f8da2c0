SPECIFICATION Spec
CONSTANTS
  None = None
  Accepted = {p, q}
  MAX_FILES = 2
  MaxBatches = 2
  Photos = {p}
  MaxListings = 2
  MaxUploads = 1
  MaxFiles = 1
  MaxConfirms = 2
  StagedPhotos = {p, q}
  BaseCosts = {15}
  StartBalances = {0, 40, 60}
  People = {m, n}
  MaxChanges = 2
  MaxLost = 1
  Invitees = {m}
  Levels = {read, write}
  MaxShares = 2
  MaxOpened = 2
  OwnListings = {x, y}
  MaxShared = 2
  Tickets = {x, y}
  MaxMessages = 1
  MaxSelected = 2
  MaxAgent = 2
  DemoFiles = {p, q}
  MIN_FILES = 1
  Tenants = {x, y}
  Plans = {a, b}
  MaxAdjusted = 1
  MaxSaved = 2
  MaxChanged = 1
  Kinds = {"logo", "headshot"}
  MaxTyped = 1
  MaxPictures = 2
  MaxSaves = 2
  Platforms = {i, t}
  Names = {a, b}
  MaxWorks = 2
  Events = {e, f}
  MaxTicks = 2
  MaxMounts = 2
  Actions = {a, b}
  PAGE = 1
  MaxEntries = 3
  MaxPages = 3
  MaxCards = 3
  RECENT = 2
  READ = 2
  SHOWN = 1
INVARIANTS TypeOK PhotosFollowRows ConfirmedPhotos ActsOnShown UntouchedIsKept ToldIsTrue ShownIsStored NeverFrozen
CONSTRAINT Followed
SYMMETRY Interchangeable
CHECK_DEADLOCK FALSE
