\* One thread of the FUSE server against the signal loop; the process may end.
SPECIFICATION Spec
CONSTANTS
  t1 = t1
  moved = moved
  added = added
  f0 = f0
  f1 = f1
  f2 = f2
  None = None
  MaxEdits = 2
  SigBuffer = 2
  Threads = {t1}
  Names = {moved, added}
  Files = {f0, f1, f2}
  Content <- ContentOf
  SingleFlist = TRUE
CHECK_DEADLOCK FALSE
INVARIANTS
  TypeOK
  AnswersOfItsTime
  AgreesWithoutReload
PROPERTIES
  LatestLayers
  UnmountEnds
