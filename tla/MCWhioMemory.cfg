\* Devices and devices on parts of them.
SPECIFICATION Spec
CONSTANTS
  Sub = {s1, s2}
  Kind = {"growing", "fixed", "map", "const map", "file"}
  Byte = {0, 1}
  Windows <- MCWindows
  RecordSize = 1
  Factor = 150
  MaxPos = 3
  MaxIo = 2
SYMMETRY Symmetry
PROPERTY ImplementsDevice
