\* Nothing fails; downloads do; or everything may fail and instances are killed.
SPECIFICATION Spec
CONSTANTS
  t1 = t1
  t2 = t2
  t3 = t3
  i1 = i1
  i2 = i2
  i3 = i3
  i4 = i4
  p1 = p1
  p2 = p2
  Threads <- ThreeThreads
  Owner <- OwnerOfThree
  Instances = {p1, p2}
  Inodes = {i1, i2, i3, i4}
  None = None
  NumBlocks = 2
  FaultSets = {{}, {"storage"}, {"storage", "io", "kill"}}
SYMMETRY CacheSymmetry
INVARIANTS
  TypeOK
  Exclusive
  FetchedWhole
  SharedHandleWhole
  NothingBadLeft
PROPERTIES
  ReadersUndisturbed
