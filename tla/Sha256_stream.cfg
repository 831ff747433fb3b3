SPECIFICATION Spec
CONSTANTS
  BlockLength = 5
  LengthBytes = 2
  input <- MCInput
  Junk = 255
INVARIANTS NothingLost DigestOfMessage
