SPECIFICATION FairSpec
CONSTANTS
  x1 = x1  x2 = x2  x3 = x3  y1 = y1  y2 = y2  y3 = y3  y4 = y4  z1 = z1  z2 = z2
  ka = ka  kb = kb  kc = kc
  TopLevel = TopLevel
  Nobody = Nobody
  Blocks <- BranchBlocks
  Keys <- TwoKeys
  KeyOf <- BranchKeyOf
  ParentOf <- BranchParentOf
  Waiters <- BranchWaiters
  Faulty = {x3, y4}
INVARIANTS Safety
PROPERTIES RecordedOnce EverybodyEnds
