SPECIFICATION AsmSpec
CONSTANTS
  ByteSize = 4
  RamSize = 9
  Sources <- MCSources
  FreshRam <- MCFreshRam
  FreshBytes = {0, 2}
  FreshLinks = {"null", "wild"}
  PastBuffer = {"padding", "heap"}
INVARIANTS AsmTypeOK PoolIsIntact LabelsSelectTheirCode WordsSayTheirLine
PROPERTY EveryPassAdvances
