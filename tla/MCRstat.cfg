\* Two requests, one after another or queued (the reply of stats_1 is the beginning
\* of that of stats_3, and is left out); idle after two alarms; two interfaces of
\* which one is attached at any time; descriptors for one HAVEDISK; the server
\* restarts when it has ended.  The namelist is complete, or without a symbol that
\* is checked for, or without two of which only havedisk() checks one.
CONSTANTS
  CLOSEDOWN = 2
  EXIT_WHEN_IDLE = TRUE
  VAX = FALSE
  HasDisk = TRUE
  KmemFails = TRUE
  Asked = {"stats_3", "havedisk", "null"}
  Lacking = {{}, {"cp_time"}, {"sum", "dk_xfer"}}
  Pauses = {{"cp_time", "dk_xfer"}, {"sum"}}
  MaxFds = 2
  MaxRequests = 2
  MaxNow = 1
  MaxIfs = 2
SPECIFICATION FairSpec
INVARIANTS UpdateReadsRight AlarmLives AnswersAfterUpdate InterfacesOnce CurtimeNotBefore
CHECK_DEADLOCK FALSE
PROPERTY InitialisedCloses
