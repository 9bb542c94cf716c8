CONSTANTS
  f = f
  g = g
  Null = Null
  Zero = Zero
  DataBlocks = 4
  FatCapacity = 6
  BlockSize = 2
  Names = {f}
  Versions = {old, new}
  OpenMax = 1
  FileMax = 1
  MaxCount = 5
  SharedOpens = FALSE
SPECIFICATION Spec
SYMMETRY Swaps
PROPERTY ImplementsFileStore
