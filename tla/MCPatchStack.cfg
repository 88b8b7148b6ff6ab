SPECIFICATION MCSpec
CONSTANTS
  MaxMishaps = 1
  MaxCommits = 1
  f = f
  g = g
  a = a
  b = b
  Absent = Absent
  NoPatch = NoPatch
  NoIndex = NoIndex
  File <- MCFile
  Val <- MCVal
  Name = {1, 2, 3}
  DotPatch = {1, 3}
  Release <- MCRelease
  Mail <- MCMail
CONSTRAINT Claimed
INVARIANTS
  TypeOK
  IndexLint
  HeadLint
  NothingUnstaged
  CursorInRange
  PopFits
  StackInv
  SeriesInv
  LintIsPopAll
PROPERTY ImplementsSeries
