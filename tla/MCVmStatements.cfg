SPECIFICATION CallSpec
CONSTANTS
  ByteSize = 3
  RamSize = 20
  StackSize = 4
  NumRegs = 6
  MaxOutput = 0
  OnOverflow = {"wraps"}
  FreshWords = {0, 1, 2, 78}
  FreshBytes = {1}
  Programs <- MCUnsavedPrograms
  FloatGt <- Compare
  FloatGe <- CompareEq
  FloatAdd <- NoFloatAdd
PROPERTY SomeStackStatementHolds
