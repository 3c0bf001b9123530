\* Two lookups at a time; the database answers, or may fail; a panic may end it.
SPECIFICATION Spec
CONSTANTS
  t1 = t1
  t2 = t2
  None = None
  Unset = Unset
  Nil = Nil
  Threads = {t1, t2}
  Contents <- ContentsOf
  Kind <- KindMap
  Asked <- AskedFor
  Acl <- AclOf
  Aci <- AciOf
  DirCacheSize = 1
  AccessCacheSize = 1
  FaultSets = {{}, {"db"}}
SYMMETRY ThreadSymmetry
CHECK_DEADLOCK FALSE
INVARIANTS
  TypeOK
  NothingElse
  FailuresForgotten
  OneOwner
  WalkVisits
