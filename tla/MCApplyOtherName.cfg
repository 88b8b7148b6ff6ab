SPECIFICATION ReportSpec
CONSTANTS
  MaxMishaps = 1
  MaxCommits = 1
  f = f
  g = g
  a = a
  b = b
  Absent = Absent
  NoPatch = NoPatch
  NoIndex = NoIndex
  File <- MCFile
  Val <- MCVal
  Name = {1, 2, 3}
  DotPatch = {1, 3}
  Release <- MCRelease
  Mail <- MCMail
CONSTRAINT Claimed
PROPERTY PopTakesBackApply
