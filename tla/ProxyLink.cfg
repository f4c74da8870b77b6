SPECIFICATION Spec
CONSTANT Links <- MCLinks
CHECK_DEADLOCK FALSE
INVARIANTS
  TypeOK
  ConfigIsUsable
  RejectionHasCause
  OnlyFirstCounts
  DisplayIsThisProxyRedacted
