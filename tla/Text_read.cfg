SPECIFICATION TextSpec
CONSTANTS
  STRING_BUILDER_INIT_SIZE = 1
  WordValues = 64
  SizeValues = 64
  MaxBlock = 31
  Byte <- MCByte
  NUL = 0
  Junk = 128
  Source <- MCSource
  NoBuilder = NoBuilder
  Lost = Lost
  None = None
  Kind <- MCKind
  Alphabet <- MCAlphabet
  Codepoints <- MCCodepoints
  MaxBytes <- MCMaxBytes
  MaxTyped = 3
INVARIANTS CopyFits BoundedAgrees DecodesWellFormed StartsVisited TypedReadBack
  DecodingInverts EncodesBits
PROPERTIES AppendEnds HoldsAppended
CHECK_DEADLOCK FALSE
