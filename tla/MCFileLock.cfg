SPECIFICATION FairSpec
CONSTANTS
  Procs = {p1, p2}
  Inodes = {i1, i2}
  NoInode = NoInode
  Nobody = Nobody
  Empty = Empty
  Torn = Torn
INVARIANTS Safety
PROPERTIES ImplementsExclusiveLock Progress
