SPECIFICATION Spec
CONSTANTS
  Value = {1, 2}
  Garbled = 9
  NotGiven = NotGiven
  Unpack <- MCUnpack
  Files <- MCFiles
  InitLines = 4
  NoNewline = TRUE
  MaxLines = 5
CONSTRAINT Short
PROPERTY ReadsBack
