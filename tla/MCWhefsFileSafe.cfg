\* Clients that stay clear of the defects of truncation.
SPECIFICATION SafeSpec
CONSTANTS
  h1 = h1
  h2 = h2
  NoHandle = NoHandle
  Handle <- MCHandle
  NumBlocks = 2
  BlockSize = 2
  NumInodes = 2
  Byte = {0, 1}
  IoLen = {1, 2}
  TruncLen = {1, 3}
  MaxPos = 3
  SeekPos = {3}
SYMMETRY Symmetry
INVARIANTS
  NoLostBlock
  ReadsContent
  AssertionHolds
PROPERTY
  ImplementsFiles
