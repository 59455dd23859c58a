SPECIFICATION Spec
CONSTANTS
  Types = {"heap", "calendar", "list"}
  MaxTime = 4
  MaxEvents = 5
  MaxBuckets = 4
  HeapRemovals = 5
INVARIANTS
  HeapOrder
  CalendarInv
PROPERTIES
  AgendaSpec
  MoveKeepsEvents
CHECK_DEADLOCK FALSE
