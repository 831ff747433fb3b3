SPECIFICATION Spec
CONSTANTS
  HeapWords = 14
  small = small
  cls = cls
  x = x
  y = y
  g = g
  StaticClass = {small, cls}
  MetaClass = cls
  StaticWords <- MCStaticWords
  Tracing = {small}
  ClassWords = {}
  Field = {"child"}
  Locals = {x}
  Globals = {}
  Unscanned = {}
  StaleWords = {}
  MaxRoots = 0
  Free = Free
  Null = Null
INVARIANT SweepCoalesces
CHECK_DEADLOCK FALSE
