SPECIFICATION StoreFairSpec
CONSTANTS
  Clients = {c1, c2}
  Keys = {k1, k2}
  Values <- MCValues
  Mutate <- MCMutate
  v1 = v1
  v2 = v2
  Absent = Absent
  NoClient = NoClient
  Missing = Missing
  Blank = Blank
INVARIANTS StoreTypeOK
PROPERTIES ImplementsAtomicStore LockReturned
CHECK_DEADLOCK FALSE
