CONSTANTS
  f = f
  g = g
  Null = Null
  Zero = Zero
  DataBlocks = 4
  FatCapacity = 4
  BlockSize = 1
  Names = {f, g}
  Versions = {1}
  OpenMax = 1
  FileMax = 2
  MaxCount = 2
  SharedOpens = FALSE
SPECIFICATION CarefulSpec
SYMMETRY Symm
VIEW Kept
INVARIANT TornExactly
INVARIANT ChainsSurviveKill
INVARIANT BytesSurviveKill
INVARIANT LeaksOnlyByDelete
PROPERTY CallsAreAtomic
