\* Processes that share a container file.
SPECIFICATION FairSpec
CONSTANTS
  Proc = {p1, p2, p3}
  MaxBlocks = 2
INVARIANTS
  OpensOnlyComplete
  HandleAgrees
PROPERTIES
  ChangedAlone
  WaitersAdvance
