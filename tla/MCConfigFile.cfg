SPECIFICATION Spec
CONSTANTS
  Value = {1, 2}
  Garbled = 9
  NotGiven = NotGiven
  Unpack <- MCUnpack
  Files <- MCFiles
  InitLines = 3
  NoNewline = FALSE
  MaxLines = 8
CONSTRAINT Short
INVARIANTS
  TypeOK
  SetTwiceIsOnce
  DropUndoesSet
PROPERTIES
  ReadsBack
  OtherLinesKept
  SectionsStaySorted
  ImplementsMap
