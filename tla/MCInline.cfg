CONSTANTS
  WordMod = 20
  LongMod = 400
  Top = 50
  SetCalls <- MCSetCalls
  SizeMod = 16
  ByteMod = 3
  StrCalls <- MCStrCalls
  Ids <- MCIds
  PtrMod = 64
  Msgs <- MCMsgs
  MaxMet = 4
  HZ = 3
  Second = 7
  IntrMod = 32
  MaxTime = 16
  MaxIntr = 2
  Content <- MCContent
  Size = 3
  Newline = "n"
  EOF = "EOF"
  Char255 = "y"
SPECIFICATION MCSpec
INVARIANTS
  Filled
  StringsRight
  TablesRight
  NetworkRight
  Echoed
  LayoutsAgree
CHECK_DEADLOCK FALSE
