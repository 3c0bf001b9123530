\* Every Downloader of up to three blocks and three workers: nothing fails, the
\* storage does, or the output file too.  After a failed write goroutines stay
\* blocked for ever, so the system may stop.
SPECIFICATION Spec
CONSTANTS
  MaxBlocks = 3
  MaxWorkers = 3
  FaultSets = {{}, {"storage"}, {"storage", "write"}}
CHECK_DEADLOCK FALSE
INVARIANTS
  TypeOK
  OkMeansComplete
  RootCause
  NoGoroutineLeft
  NoSpuriousError
PROPERTIES
  OwnBytesOnly
  ImplementsContract
