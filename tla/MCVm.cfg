SPECIFICATION Spec
CONSTANTS
  ByteSize = 4
  RamSize = 12
  NumRegs = 6
  MaxOutput = 2
  OnOverflow = {"wraps", "traps"}
  FreshWords = {5, 254}
  FreshBytes = {1}
  Programs <- MCPrograms
  FloatGt <- MCFloatGt
  FloatGe <- MCFloatGe
  FloatAdd <- MCFloatAdd
INVARIANTS TypeOK MemorySafety StackPointerInRam
PROPERTIES PoolOutlivesStack ByteWritesAreNarrow
