CONSTANTS
  f = f
  g = g
  Null = Null
  Zero = Zero
  DataBlocks = 3
  FatCapacity = 3
  BlockSize = 1
  Names = {f, g}
  Versions = {1}
  OpenMax = 1
  FileMax = 2
  MaxCount = 2
  SharedOpens = FALSE
SPECIFICATION CarefulSpec
PROPERTY CallsReturn
