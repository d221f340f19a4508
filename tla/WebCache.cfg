SPECIFICATION CacheSpec
CONSTANTS
  Names = {"a", "b"}
  Deleting = Deleting
  Gone = Gone
  Values = {"v", Deleting}
  MaxVersion = 2
  MaxPending = 2
INVARIANTS TypeOK ReadYourWrites
PROPERTY Converges
