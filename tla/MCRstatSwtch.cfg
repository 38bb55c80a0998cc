CONSTANTS
  CLOSEDOWN = 2
  EXIT_WHEN_IDLE = TRUE
  VAX = FALSE
  HasDisk = TRUE
  KmemFails = FALSE
  Asked = {"stats_3"}
  Lacking = {{}}
  Pauses = {}
  MaxFds = 2
  MaxRequests = 1
  MaxNow = 0
  MaxIfs = 1
SPECIFICATION Spec
INVARIANT SwtchReported
CHECK_DEADLOCK FALSE
