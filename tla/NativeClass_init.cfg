SPECIFICATION FairSpec
CONSTANTS
  p = p
  q = q
  r = r
  Native = {p, q, r}
  Object = Object
  Class = Class
  ClassSlots = {"name"}
  SlotName = {"name", "s", "t"}
  Default = Default
  NULL = NULL
  Hierarchies <- FamiliesAndAnything
INVARIANTS Inherits
PROPERTIES InitializedOnce InitReturns
