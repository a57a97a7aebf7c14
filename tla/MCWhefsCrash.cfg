\* A crash between any two writes.
SPECIFICATION Spec
CONSTANTS
  NumBlocks = 3
  NumInodes = 2
INVARIANTS
  PointersLeadToUsed
  PointersUnshared
  FreeIsBlank
  OnlyLostBelowHint
