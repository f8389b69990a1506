SPECIFICATION AluSpec
CONSTANTS
  ByteSize = 4
  WordBits = 8
  RamSize = 10
  NumRegs = 8
  MaxOutput = 0
  OnOverflow = {"wraps", "traps"}
  FreshWords = {1}
  FreshBytes = {1}
  Operands = {0, 1, 2, 3, 4, 5, 7, 8, 63, 64, 85, 126, 127, 128, 129, 170, 192, 250, 254, 255}
  Programs <- MCPrograms
  WordOr <- MCWordOr
  WordAnd <- MCWordAnd
  WordXor <- MCWordXor
  FloatGt <- MCFloatGt
  FloatGe <- MCFloatGe
  FloatAdd <- MCFloatAdd
  FloatSub <- MCFloatSub
  FloatMul <- MCFloatMul
  FloatDiv <- MCFloatDiv
  FloatIsZero <- MCFloatIsZero
  FloatToInt <- MCFloatToInt
  FloatOfInt <- MCFloatOfInt
INVARIANTS AluTypeOK AluSafety BothSidesAgree
PROPERTY AluWritesAreNarrow
