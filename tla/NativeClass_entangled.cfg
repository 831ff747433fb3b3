SPECIFICATION Spec
CONSTANTS
  p = p
  q = q
  r = r
  Native = {p, q}
  Object = Object
  Class = Class
  ClassSlots = {"name"}
  SlotName = {"name", "s", "t"}
  Default = Default
  NULL = NULL
  Hierarchies <- Entangled
INVARIANT FollowsInheritance
