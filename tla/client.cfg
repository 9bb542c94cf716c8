CONSTANTS
  f = f
  g = g
  Null = Null
  Zero = Zero
  DataBlocks = 4
  FatCapacity = 4
  BlockSize = 2
  Names = {f, g}
  Versions = {1}
  OpenMax = 2
  FileMax = 2
  MaxCount = 3
  MaxLines = 4
  SharedOpens = FALSE
SPECIFICATION TestSpec
SYMMETRY Symm
VIEW Kept
INVARIANT FlagAgrees
INVARIANT EndsUnmounted
INVARIANT FdIsLastOpened
INVARIANT CatPrintsTheFile
INVARIANT AddCutsOnlyWhenFull
