CONSTANTS
  CLOSEDOWN = 2
  EXIT_WHEN_IDLE = TRUE
  VAX = FALSE
  HasDisk = TRUE
  KmemFails = FALSE
  Asked = {"havedisk"}
  Lacking = {{}}
  Pauses = {}
  MaxFds = 3
  MaxRequests = 1
  MaxNow = 0
  MaxIfs = 1
SPECIFICATION Spec
INVARIANT HavediskRight
CHECK_DEADLOCK FALSE
