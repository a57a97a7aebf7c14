\* Every client, the defects of truncation included.
SPECIFICATION Spec
CONSTANTS
  h1 = h1
  h2 = h2
  NoHandle = NoHandle
  Handle <- MCHandle
  NumBlocks = 3
  BlockSize = 2
  NumInodes = 2
  Byte = {0}
  IoLen = {3}
  TruncLen = {0, 2, 3}
  MaxPos = 3
  SeekPos = {3}
SYMMETRY Symmetry
INVARIANTS
  BlocksSound
  ShortWriteOnlyWhenFull
PROPERTY
  ImplementsTable
