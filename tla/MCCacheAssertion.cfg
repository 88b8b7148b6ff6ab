SPECIFICATION MCSpec
CONSTANTS
  f = f
  g = g
  p = p
  a = a
  b = b
  Absent = Absent
  NoFile = NoFile
  Empty = Empty
  NoRelease = NoRelease
  File <- MCFile
  Val <- MCVal
  Patches = {p}
  Release <- MCRelease
  Failing = {"fetch", "drop", "extract", "writeMeta"}
  Signals = {"ctrl-c"}
  MaxStarts = 3
  MaxSignals = 1
  MaxMishaps = 0
INVARIANT CacheAssertion
