SPECIFICATION FairSpec
CONSTANTS
  a = a
  b = b
  c = c
  d = d
  f = f
  v = v
  Key = {a, b, c, d, f}
  NULL = NULL
  Value = {v, NULL}
  Hash <- MCHash
  InitialSize = 1
INVARIANTS Findable CountExact KeysOwned
PROPERTIES MapKept Returns
