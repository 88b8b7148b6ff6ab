SPECIFICATION MCSpec
CONSTANTS
  Place <- MCPlace
  Mount <- MCMount
  Arg <- MCArg
  Url <- MCUrl
  Remote = Remote
  NoPlace = NoPlace
  NoFile = NoFile
  Empty = Empty
  Stray = Stray
  Elsewhere = Elsewhere
  MaxSubs = 3
CONSTRAINT Few
INVARIANTS
  TypeOK
  PathsAgree
  EntriesAreSubprojects
  SelectedIsHere
  UpdateStays
  SuperInv
PROPERTIES
  ListedThenFound
  SuperprojectStays
