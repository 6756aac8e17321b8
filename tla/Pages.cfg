CONSTANTS
  FormsInUse = {"editConfig", "bandwidth", "quota", "createSnapshot", "createNetwork",
    "createInstance", "pullImage", "proxyRule", "sshKey", "createPlan", "editPlan",
    "allowedImage", "password"}
  MaxOpenings = 2
  MaxSends = 2
  MaxSaved = 3
  PanelKeys = {k1, k2}
  OtherLine = other
  MaxWrites = 1
  MaxPoints = 3
  MaxTicks = 4
  MaxBytes = 1
  MaxUserChanges = 4
  MaxCreates = 2
  Sizes = {1, 2}
  MaxKeys = 3
  MaxResizes = 2
  Ids = {k1, k2, k3}
  MaxCrashes = 2
SPECIFICATION Spec
INVARIANTS
  OwnAnswer
  NoticeIsOwn
  NoStaleBase
  NothingLeftOver
  TakesOnlyUnticked
  PointsChain
  CreatedIsListed
  KeysArrive
  SizeFollows
  PromisedIsKept
  DeletedStaysAway
PROPERTIES
  ConsoleEnds
CHECK_DEADLOCK FALSE
