SPECIFICATION Spec
CONSTANTS
  ByteSize = 3
  RamSize = 11
  StackSize = 4
  NumRegs = 6
  MaxOutput = 0
  OnOverflow = {"wraps"}
  FreshWords = {43}
  FreshBytes = {1}
  Programs <- MCStackPrograms
  FloatGt <- Compare
  FloatGe <- CompareEq
  FloatAdd <- NoFloatAdd
PROPERTY ImplementsByteStack
