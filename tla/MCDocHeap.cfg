SPECIFICATION Spec
CONSTANTS
  Types = {"heap"}
  MaxTime = 2
  MaxEvents = 7
  MaxBuckets = 4
  HeapRemovals = 7
PROPERTIES
  RemovesEarliest
CHECK_DEADLOCK FALSE
