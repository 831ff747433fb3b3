SPECIFICATION Spec
CONSTANTS
  HeapWords = 18
  small = small
  cls = cls
  x = x
  y = y
  g = g
  StaticClass = {small, cls}
  MetaClass = cls
  StaticWords <- MCStaticWords
  Tracing = {small}
  ClassWords = {2}
  Field = {"child"}
  Locals = {x, y}
  Globals = {}
  Unscanned = {}
  StaleWords = {}
  MaxRoots = 0
  Free = Free
  Null = Null
SYMMETRY Symmetry
INVARIANTS BlocksTileHeap FreeListExact NeverCorrupt CounterBounded
CHECK_DEADLOCK FALSE
