\* Expanding over an older output file: its end stays.
SPECIFICATION Spec
CHECK_DEADLOCK FALSE
CONSTANTS
  LastId = 3
  Names = {n1, n2}
  NoName = none
  Half = 4
  Profiles <- MCProfiles
  Outfiles <- MCOutfiles
INVARIANTS
  OutfileIsProfile
