\* Three data blocks of two bytes, a name and one of 55 characters for two
\* entries, two descriptors.
SPECIFICATION Spec
CONSTANTS
  MaxBlocks = 7
  FatEntries = 6
  BlockSize = 2
  DirEntries = 2
  MaxFd = 2
  CountRange = 8
  Names = {a, b}
  FullNames = {b}
  Nameless = Nameless
  Bytes = {1}
  Modes = {{"read"}, {"read", "write"}}
  Closed = Closed
  MaxSize = 3
  MaxSaves = 2
  MaxUnnamed = 1
  Positions = {0, 2, 3}
  DrivePositions = {0, 3}
INVARIANTS
  
  DescriptorsInTheirFile
  DriveSound
  NoBlockLost
PROPERTIES
  ImplementsFileStore
  LoadBringsBackTheSave
CHECK_DEADLOCK FALSE
