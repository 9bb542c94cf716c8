CONSTANTS
  f = f
  g = g
  Null = Null
  Zero = Zero
  DataBlocks = 3
  FatCapacity = 6
  BlockSize = 2
  Names = {f, g}
  Versions = {1}
  OpenMax = 2
  FileMax = 2
  MaxCount = 3
  SharedOpens = TRUE
SPECIFICATION Spec
SYMMETRY Symm
INVARIANT StatIsCurrent
