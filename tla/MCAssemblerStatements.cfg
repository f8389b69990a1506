SPECIFICATION AsmSpec
CONSTANTS
  ByteSize = 4
  RamSize = 9
  Sources <- MCStatements
  FreshRam <- MCFreshRam
  FreshBytes = {0, 2}
  FreshLinks = {"null", "wild"}
  PastBuffer = {"padding", "heap"}
INVARIANT SomeStatementHolds
