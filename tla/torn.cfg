CONSTANTS
  f = f
  g = g
  Null = Null
  Zero = Zero
  DataBlocks = 3
  FatCapacity = 3
  BlockSize = 1
  Names = {f}
  Versions = {1}
  OpenMax = 1
  FileMax = 1
  MaxCount = 1
  SharedOpens = FALSE
SPECIFICATION CrashSpec
PROPERTY CallsReturn
