SPECIFICATION XofSpec
CONSTANTS
  Rate = 3
  message <- MCMessage
  MaxOutput = 7
INVARIANTS AbsorbsPadded SqueezesInOrder
