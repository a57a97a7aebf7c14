\* Two names with one hash.  An assertion that fails ends the program.
SPECIFICATION Spec
CONSTANTS
  n1 = n1
  n2 = n2
  n3 = n3
  long = long
  none = none
  NumInodes = 3
  Name <- AllNames
  LongName = {long}
  NoName = none
  Hash <- HashShared
  FirstAlloc = 1
  LoadAlloc = 2
CHECK_DEADLOCK FALSE
INVARIANTS
  CacheTrue
  MissMeansAbsent
PROPERTY
  ImplementsDirectory
