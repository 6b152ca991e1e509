SPECIFICATION CodedSpec
CONSTANTS
  Units <- MCUnits
  MaxUnits = 2
  MaxZeroWords = 1
  MaxPadding = 1
INVARIANT ReadsWhatWasWritten
PROPERTY HandsOverInOrder
CHECK_DEADLOCK FALSE
