CONSTANTS
  WordMod = 20
  LongMod = 400
  Top = 63
  Calls <- MCCalls
SPECIFICATION Spec
INVARIANTS Copied MovesInside MovesAligned
CHECK_DEADLOCK FALSE
