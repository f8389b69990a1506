SPECIFICATION MainSpec
CONSTANTS
  ByteSize = 8
  RamSize = 20
  NumRegs = 12
  MaxOutput = 8
  OnOverflow = {"wraps"}
  FreshWords = {5}
  FreshBytes = {0}
  FreshLinks = {"null", "wild"}
  PastBuffer = {"padding"}
  Programs = {}
  DefaultRam = 20
  DefaultStack = 8
  LongMax = 2047
  SizeMax = 16777215
  RamHeader = 16
  MaxBlock = 1000
  Files <- MCFiles
  Sources <- MCSources
  FreshRam <- MCFreshRam
  Expected <- MCExpected
  CommandLines <- MCHelloCommand
  FloatGt <- Compare
  FloatGe <- CompareEq
  FloatAdd <- NoFloatAdd
INVARIANTS PrintsWhatItShould
