\* Two rows or three, one to three handlers at once.
SPECIFICATION PagesSpec
CONSTANTS
  None = None
  NamesAt <- SomeNames
  ListsAt <- SomeLists
  VisitsAt <- SomeVisits
  MaxCallsAt <- FewCalls
  MaxListsAt <- OneList
  MaxTimeAt <- FewTicks
  Backups <- ImageBackups
  Values = {0, 1}
  Configs = {"c", "d", "empty"}
  Empty = "empty"
  MaxLoads = 2
  Me = "a"
  NewNames = {"", " ", "d1"}
  NewIds = {"__new_0"}
  EngineOf <- EngineOfTwo
  Hosts = {"h"}
  BulkKeys = {"attach", "delete", "updateSnapshotDataIntegrity"}
  ActionKeys = {"attach", "salvage", "expand", "updateReplicaCount"}
  TargetNames = {"t"}
  MaxActions = 1
  RowIds = {1, 2, 3}
  Searches = {"", "s"}
  PageSizes = {1, 2}
  Matching <- MatchingRows
  AllColumns = {"name", "size"}
  DefaultColumns = {"name"}
  ViewNames = {"v"}
  MaxViews = 1
  ActionsOffered = {"expand", "deletePool"}
  Typed = {"deletePool"}
  Kind <- KindOfAction
  Providers = {"rook", "csi"}
  Portable = {"csi"}
  MaxPlans = 2
  Detected = {"longhorn"}
  MaxRevision = 1
  Requests <- PolicyRequests
  Ceilings = {{"portable", "longhorn"}, {"rook", "classDelete", "poolDelete"}}
  ScopesOffered = {"a", "b", "all"}
  All = "all"
  Offsets = {0, 1}
  Says <- StorageAnswers
  Panels <- EveryPanel
  BenchmarkNames <- BenchmarksMet
  Classes = {"c"}
  Default = "c"
  Limit = 1
  MaxFrames = 1
  Volumes = {"v"}
  Gauges = {"x", "y"}
  Window = 2
  StaleAfter = 1
  CephKinds = {"osds"}
  Nowhere <- NoAddress
  HideAfter = 2
  TickAfter = 1
  Bundles = {"u", "v"}
  Reports <- ManyReports
  Fast = 1
  Often = 2
  Seldom = 3
  Strangers = {"gone"}
  Paths = {"/a", "/b"}
  Kept = 1
  MaxToasts = 3
INVARIANTS
  TypeOK
  FormsAdmissible
  BulkRunsExact
  NothingOutOfReach
  WarningsReviewed
  RequestsOfTheirDialog
  ReleasedInTime
  ShowsWhatWasAskedFor
CHECK_DEADLOCK FALSE
