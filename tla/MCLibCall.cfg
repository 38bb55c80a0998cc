CONSTANTS
  Calls <- MCCalls
  Disputed <- MCDisputed
  More = 2
SPECIFICATION Spec
INVARIANTS
  ArgumentsArrive
  Undisturbed
  ResultLost
CHECK_DEADLOCK FALSE
