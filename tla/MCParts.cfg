\* The parts that share no state, one at a time.
SPECIFICATION FairPartsSpec
CHECK_DEADLOCK FALSE
CONSTANTS
  Word = 512
  MaxCount = 8
  Requested <- MCRequested
  \* Four objects, so that the list has inner entries beside the one closers points to.
  Obj = {o1, o2, o3, o4}
  Nil = nil
  \* Buffers of three bytes, sources of more than two of them.
  CopySize = 3
  MaxSize = 7
  \* A file of two full blocks.
  Imported <- MCImported
  FileBlock = 2
  End = 100
  Bad = 101
  \* Names over four buffers.
  LastId = 4
  FileNames <- MCFileNames
  MaxName = 4
  SoughtPatterns <- MCSoughtPatterns
  Buffers = {b1, b2, b3, b4}
  Stack = stack
  NoBuffer = noBuffer
  \* Arrays of up to four places.
  MaxSlots = 4
  MaxHeap = 2
  \* Streams over devices over files, and what a block device is made of.
  MaxObjects = 3
  MaxFiles = 1
  Content <- MCContent
  MaxFetch = 3
  \* Bytes of three bits, so that the bitset of the blocks grows by a byte.
  ByteSize = 3
  InodeCount = 2
  BlockCounts = {2}
  MaxBlocks = 3
  Disks = {"d1", "d2", "d3"}
  MaxLost = 2
INVARIANTS
  ClosedOnce
  ItemsTold
  ListsSound
  PatternsMatch
  CopiesTold
  UnpacksTruly
  OutputTold
  LayoutSound
  ShowsProfile
  HandlesSound
  BitsTrue
  DeviceSound
  ToolsTold
PROPERTY
  Terminates
