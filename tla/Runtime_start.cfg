SPECIFICATION FairRuntimeSpec
CONSTANTS
  Capacity = 3
  MaxRegistrations = 5
  p = p
  q = q
  r = r
  Native = {p, q, r}
  Object = Object
  Class = Class
  ClassSlots = {"name"}
  SlotName = {"name", "s", "t"}
  Default = Default
  NULL = NULL
  Hierarchies <- MCHierarchies
INVARIANTS TypeOK OnceInOrder NoneBeforeInit InitComplete ClassesReady
PROPERTY InitReturns
CHECK_DEADLOCK FALSE
