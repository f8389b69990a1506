SPECIFICATION FairCallSpec
CONSTANTS
  ByteSize = 3
  RamSize = 20
  NumRegs = 6
  MaxOutput = 0
  OnOverflow = {"wraps"}
  FreshWords = {0, 1, 2, 78}
  FreshBytes = {1}
  Programs <- MCCallPrograms
  FloatGt <- Compare
  FloatGe <- CompareEq
  FloatAdd <- NoFloatAdd
INVARIANTS KeepsReturnAddresses AllCallsReturn
PROPERTIES ReturnsToCaller CallsEnd
