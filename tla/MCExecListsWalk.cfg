\* A task sets two lists up by NEWLIST, fills them and walks them, removing some
\* of the nodes it meets or moving them to the other list; the server cuts in
\* and changes one of them between walks.
CONSTANTS
  Tasks = {t1}
  Server = server
  ByteMax = 1
  MaxDepth = 1
  Nodes = {100, 108}
  Lists = {200, 212}
  TaskLists = {200}
  Macros = {"NEWLIST", "ADDTAIL", "REMTAIL", "REMOVE", "NEXTNODE"}
SPECIFICATION FairSpec
PROPERTIES
  WalkComplete
  WalksEnd
