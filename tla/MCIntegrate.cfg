SPECIFICATION MCSpec
CONSTANTS
  f = f
  g = g
  p = p
  a = a
  b = b
  Absent = Absent
  NoFile = NoFile
  Empty = Empty
  NoRelease = NoRelease
  File <- MCFile
  Val <- MCVal
  Patches = {p}
  Release <- MCRelease
  Failing = {"createCache", "fetch", "drop", "extract", "writeMeta"}
  Signals = {"ctrl-c", "kill"}
  MaxStarts = 3
  MaxSignals = 1
  MaxMishaps = 1
INVARIANTS
  TypeOK
  RollbackWorks
  RetryPossible
  ListedWithMetadata
  CommitsAreSound
  IntegrateInv
  RollbackInv
PROPERTIES
  UnpackExact
  UntrackedKept
