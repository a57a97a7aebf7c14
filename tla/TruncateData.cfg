\* Truncating to a multiple of the block size clears the last block.
SPECIFICATION Spec
CONSTANTS
  h1 = h1
  h2 = h2
  NoHandle = NoHandle
  Handle <- MCHandle
  NumBlocks = 2
  BlockSize = 2
  NumInodes = 1
  Byte = {0, 1}
  IoLen = {3}
  TruncLen = {2}
  MaxPos = 2
  SeekPos = {0}
PROPERTY
  TruncateKeepsData
