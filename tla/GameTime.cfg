CONSTANTS
  Time <- MCTime
  Type <- MCType
  Owner <- MCOwner
  Minute = 2
  Day = 4
  Delays = {0, 3}
  Skips = {1, 4}
  MaxClock = 8
  MaxQueue = 3
  MaxCalls = 2
  NONE = NONE
SPECIFICATION MCSpec
INVARIANT MidnightPending
PROPERTY OncePerDay
PROPERTY NeverEarly
PROPERTY HandledInTimeOrder
PROPERTY DrainedOnReturn
CHECK_DEADLOCK FALSE
