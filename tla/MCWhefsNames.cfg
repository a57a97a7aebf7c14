\* Names whose hashes differ.
SPECIFICATION Spec
CONSTANTS
  n1 = n1
  n2 = n2
  n3 = n3
  long = long
  none = none
  NumInodes = 3
  Name <- AllNames
  LongName = {long}
  NoName = none
  Hash <- HashApart
  FirstAlloc = 1
  LoadAlloc = 2
INVARIANTS
  BlocksHeld
  NeverAborts
