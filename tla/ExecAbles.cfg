\* Two tasks and the interrupt server; a BYTE of three bits, and programs that
\* nest exactly as deep as it can count.
CONSTANTS
  Tasks = {t1, t2}
  Server = server
  ByteMax = 3
  MaxDepth = 4
SPECIFICATION AblesSpec
INVARIANTS
  NestingCounted
  DisableExcludesAll
  ForbidExcludesTasks
  NestingRestored
PROPERTIES
  SwitchOnlyWhenFree
