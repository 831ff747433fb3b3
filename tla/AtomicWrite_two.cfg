SPECIFICATION FairSpec
CONSTANTS
  v = v
  w = w
  Writer = {v, w}
  Length <- MCLength
  TempName = {t1, t2, t3}
  Old = Old
  NoName = NoName
INVARIANTS TargetWhole TempsOwned
PROPERTIES ReplacedAtomically CallEnds
