\* Every mount, every fault, with and without a parent; the process may end.
SPECIFICATION Spec
CONSTANTS
  Polls = 5
CHECK_DEADLOCK FALSE
INVARIANTS
  TypeOK
  NothingLeft
  OthersKept
  ParentTells
PROPERTIES
  WatchedUnmountEnds
