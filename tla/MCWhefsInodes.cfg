\* Two inodes shared by three devices.
SPECIFICATION Spec
CONSTANTS
  h1 = h1
  h2 = h2
  h3 = h3
  NoHandle = NoHandle
  Inode <- MCInode
  Handle <- MCHandle
  MaxSize = 2
INVARIANTS
  OpenCountExact
  WriterIsDevice
  CleanWithoutWriter
  OpenedIsUsed
PROPERTY
  CloseKeepsSize
