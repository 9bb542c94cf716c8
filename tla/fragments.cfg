CONSTANTS
  f = f
  g = g
  Null = Null
  Zero = Zero
  DataBlocks = 4
  FatCapacity = 6
  BlockSize = 2
  Names = {f, g}
  Versions = {1}
  OpenMax = 2
  FileMax = 2
  MaxCount = 3
  SharedOpens = FALSE
SPECIFICATION Spec
SYMMETRY Symm
VIEW Kept
INVARIANT NoBlockLeaks
INVARIANT BlocksMatchSize
INVARIANT BytesInPlace
INVARIANT CacheIsCurrent
