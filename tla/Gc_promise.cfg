SPECIFICATION FairSpec
CONSTANTS
  HeapWords = 14
  small = small
  cls = cls
  x = x
  y = y
  g = g
  StaticClass = {small, cls}
  MetaClass = cls
  StaticWords <- MCStaticWords
  Tracing = {small}
  ClassWords = {2}
  Field = {"child"}
  Locals = {x, y}
  Globals = {}
  Unscanned = {}
  StaleWords = {4}
  MaxRoots = 0
  Free = Free
  Null = Null
INVARIANTS GarbageReclaimed IInv
PROPERTIES PromiseKept GcReturns
CHECK_DEADLOCK FALSE
