\* Truncating a file to nothing does not free its blocks.
SPECIFICATION Spec
CONSTANTS
  h1 = h1
  h2 = h2
  NoHandle = NoHandle
  Handle <- MCHandle
  NumBlocks = 2
  BlockSize = 2
  NumInodes = 1
  Byte = {0}
  IoLen = {2}
  TruncLen = {0}
  MaxPos = 2
  SeekPos = {0}
INVARIANT
  NoLostBlock
