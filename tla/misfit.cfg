CONSTANTS
  d = d
  e = e
  Null = Null
  Files = {d, e}
  Foreign <- ForeignImages
  FatEntries = 2
  MaxDataBlocks = 3
  HostFds = {0, 1}
SPECIFICATION Spec
SYMMETRY Symm
INVARIANT DataOnDisk
