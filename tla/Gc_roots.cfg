SPECIFICATION Spec
CONSTANTS
  HeapWords = 14
  small = small
  cls = cls
  x = x
  y = y
  g = g
  StaticClass = {small, cls}
  MetaClass = cls
  StaticWords <- MCStaticWords
  Tracing = {small}
  ClassWords = {}
  Field = {"child"}
  Locals = {x}
  Globals = {g}
  Unscanned = {}
  StaleWords = {0, 4, 8}
  MaxRoots = 2
  Free = Free
  Null = Null
INVARIANTS NoDangling
CHECK_DEADLOCK FALSE
