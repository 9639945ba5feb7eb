SPECIFICATION FairSpec
CONSTANTS
  None = None
  o1 = o1
  o2 = o2
  o3 = o3
  Orders = {o1, o2, o3}
  Shown = {o1, o3}
  Groups = {1, 2}
  GroupOf <- MCGroupOf
  Creation <- MCCreation
  Interval = 2
  MaxBackoff = 2
  MaxFaults = 2
  MaxClicks = 2
INVARIANTS
  TypeOK
  LoopNeverDead
PROPERTIES
  BoundedOvertaking
  NoOrderStarves
