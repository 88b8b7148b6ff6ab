SPECIFICATION MCSpec
CONSTANTS
  f = f
  g = g
  p = p
  a = a
  b = b
  Absent = Absent
  NoFile = NoFile
  Empty = Empty
  NoRelease = NoRelease
  File <- MCFile
  Val <- MCVal
  Patches = {p}
  Release <- MCRelease
  Failing = {"addMeta2"}
  Signals = {}
  MaxStarts = 1
  MaxSignals = 0
  MaxMishaps = 0
INVARIANT RollbackWorks
