\* Two tasks and the interrupt server, one list that tasks share among
\* themselves and one that the server uses too.
CONSTANTS
  Tasks = {t1, t2}
  Server = server
  ByteMax = 1
  MaxDepth = 1
  Nodes = {100, 108}
  Lists = {200, 212}
  TaskLists = {200}
  Macros = {"ADDTAIL", "REMHEAD", "TSTLIST", "TSTLST2", "REMHEADQ"}
SPECIFICATION Spec
INVARIANTS
  OneAtATime
  LinkedBothWays
  KnownNonEmpty
PROPERTIES
  TestArbitrated
