\* An unmount between the mount and the watch.
SPECIFICATION Spec
CONSTANTS
  Polls = 5
CHECK_DEADLOCK FALSE
PROPERTIES
  WaitEnds
