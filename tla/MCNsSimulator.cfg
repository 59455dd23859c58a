SPECIFICATION Spec
CONSTANTS
  MaxDelay = 1
  MaxUid = 7
  UidRange = 100
  HandlersStop = TRUE
INVARIANTS
  CountsUnscheduled
  ExpiredExact
  NothingLate
PROPERTIES
  PostsInOrder
  PostsArrive
CHECK_DEADLOCK FALSE
