CONSTANTS
  f = f
  g = g
  Null = Null
  Zero = Zero
  DataBlocks = 4
  FatCapacity = 5
  BlockSize = 1
  Names = {f, g}
  Versions = {1}
  OpenMax = 2
  FileMax = 2
  MaxCount = 2
  SharedOpens = TRUE
SPECIFICATION Spec
SYMMETRY Symm
VIEW Kept
INVARIANT TypeOK
INVARIANT ChainInv
INVARIANT ChainsDisjoint
INVARIANT WalksEnd
PROPERTY WritesStayInOwnChain
