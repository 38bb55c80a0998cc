\* One list that the server shares, three nodes, and insertion and removal at
\* both ends and in the middle.
CONSTANTS
  Tasks = {t1}
  Server = server
  ByteMax = 1
  MaxDepth = 1
  Nodes = {100, 108, 116}
  Lists = {200}
  TaskLists = {}
  Macros = {"ADDHEAD", "ADDTAIL", "REMHEAD", "REMTAIL", "REMOVE"}
SPECIFICATION Spec
INVARIANTS
  TestSafeAnyTime
PROPERTIES
  ImplementsListSpec
