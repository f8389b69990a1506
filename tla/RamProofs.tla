----------------------------- MODULE RamProofs ------------------------------
(***************************************************************************)
(* Facts about the memory operators of Ram, for every size of byte and of  *)
(* memory: what is read is a word, what is stored leaves a memory, and a   *)
(* word survives the way through the memory.                               *)
(***************************************************************************)
EXTENDS Ram, TLAPS

LEMMA ByteSizeType == ByteSize \in Nat /\ ByteSize > 1
BY ByteSizeAssumption

(* One more byte below a number of `limit' values.                         *)
LEMMA Digit ==
  ASSUME NEW low \in Byte, NEW limit \in Nat, NEW high \in 0 .. limit - 1
  PROVE  low + ByteSize * high \in 0 .. ByteSize * limit - 1
<1>1. ByteSize * high \in Nat /\ ByteSize * limit \in Nat
  BY ByteSizeType
<1>2. ByteSize * high <= ByteSize * (limit - 1)
  BY ByteSizeType
<1>3. ByteSize * (limit - 1) = ByteSize * limit - ByteSize
  BY ByteSizeType
<1>. QED
  BY <1>1, <1>2, <1>3, ByteSizeType DEF Byte

LEMMA Horner ==
  ASSUME NEW b0 \in Byte, NEW b1 \in Byte, NEW b2 \in Byte, NEW b3 \in Byte
  PROVE  b0 + ByteSize * (b1 + ByteSize * (b2 + ByteSize * b3)) \in Word
<1> DEFINE square == ByteSize * ByteSize
           cube   == ByteSize * square
           high2  == b2 + ByteSize * b3
           high1  == b1 + ByteSize * high2
<1>1. square \in Nat /\ cube \in Nat
  BY ByteSizeType
<1>2. high2 \in 0 .. square - 1
  <2>1. b3 \in 0 .. ByteSize - 1
    BY DEF Byte
  <2>. QED  BY ONLY <2>1, ByteSizeType, b2 \in Byte, Digit
<1>3. high1 \in 0 .. cube - 1
  <2> HIDE DEF square, high2
  <2>. QED  BY <1>1, <1>2, Digit
<1>4. b0 + ByteSize * high1 \in 0 .. ByteSize * cube - 1
  <2> HIDE DEF cube, high1
  <2>. QED  BY <1>1, <1>3, Digit
<1>. QED
  BY <1>4 DEF Word, WordSize

LEMMA ReadInt32Type ==
  ASSUME NEW mem \in [Cell -> Byte], NEW address \in Nat, InAllocation(address, 4)
  PROVE  ReadInt32(mem, address) \in Word
<1>1. /\ mem[address] \in Byte /\ mem[address + 1] \in Byte
      /\ mem[address + 2] \in Byte /\ mem[address + 3] \in Byte
  BY RamSizeAssumption DEF InAllocation, Cell
<1>. QED
  BY <1>1, Horner DEF ReadInt32

LEMMA WordSizeType == WordSize \in Nat /\ WordSize > 0
<1>1. ByteSize * ByteSize \in Nat /\ ByteSize * ByteSize > 0
  BY ByteSizeType
<1>2. ByteSize * (ByteSize * ByteSize) \in Nat /\ ByteSize * (ByteSize * ByteSize) > 0
  BY <1>1, ByteSizeType
<1>. QED
  BY <1>2, ByteSizeType DEF WordSize

LEMMA RemainderType ==
  ASSUME NEW n \in Int
  PROVE  n % ByteSize \in Byte /\ n % WordSize \in Word
<1>1. n % ByteSize \in 0 .. ByteSize - 1
  BY ByteSizeType
<1>2. n % WordSize \in 0 .. WordSize - 1
  BY WordSizeType
<1>. QED
  BY <1>1, <1>2 DEF Byte, Word

LEMMA StoreBytesType ==
  ASSUME NEW mem \in [Cell -> Byte], NEW address \in Nat, NEW bytes \in Seq(Byte)
  PROVE  StoreBytes(mem, address, bytes) \in [Cell -> Byte]
<1> SUFFICES ASSUME NEW c \in Cell, c \in address .. address + Len(bytes) - 1
             PROVE  bytes[c - address + 1] \in Byte
  BY DEF StoreBytes
<1>1. c - address + 1 \in 1 .. Len(bytes)
  BY RamSizeAssumption DEF Cell
<1>. QED
  BY <1>1

LEMMA WordBytesType ==
  ASSUME NEW word \in Word
  PROVE  WordBytes(word) \in Seq(Byte) /\ Len(WordBytes(word)) = 4
<1>1. word \in Int
  BY WordSizeType DEF Word
<1>2. /\ ByteSize * ByteSize \in Nat /\ ByteSize * ByteSize > 0
      /\ ByteSize * (ByteSize * ByteSize) \in Nat /\ ByteSize * (ByteSize * ByteSize) > 0
  BY ByteSizeType
<1>3. /\ word \div ByteSize \in Int
      /\ word \div (ByteSize * ByteSize) \in Int
      /\ word \div (ByteSize * (ByteSize * ByteSize)) \in Int
  BY <1>1, <1>2, ByteSizeType
<1>4. /\ word % ByteSize \in Byte
      /\ (word \div ByteSize) % ByteSize \in Byte
      /\ (word \div (ByteSize * ByteSize)) % ByteSize \in Byte
      /\ (word \div (ByteSize * (ByteSize * ByteSize))) % ByteSize \in Byte
  BY <1>1, <1>3, RemainderType
<1>. QED
  BY <1>4 DEF WordBytes

LEMMA StoreType ==
  ASSUME NEW mem \in [Cell -> Byte], NEW address \in Nat
  PROVE  /\ \A byte \in Byte : StoreInt8(mem, address, byte) \in [Cell -> Byte]
         /\ \A word \in Word : StoreInt32(mem, address, word) \in [Cell -> Byte]
<1>1. ASSUME NEW byte \in Byte PROVE StoreInt8(mem, address, byte) \in [Cell -> Byte]
  <2>1. <<byte>> \in Seq(Byte)
    OBVIOUS
  <2>. QED  BY <2>1, StoreBytesType DEF StoreInt8
<1>2. ASSUME NEW word \in Word PROVE StoreInt32(mem, address, word) \in [Cell -> Byte]
  BY WordBytesType, StoreBytesType DEF StoreInt32
<1>. QED
  BY <1>1, <1>2

(* The low byte of a register is replaced, the others stay.                *)
LEMMA LowByteType ==
  ASSUME NEW word \in Word, NEW byte \in Byte
  PROVE  (word - (word % ByteSize)) + byte \in Word
<1> DEFINE limit == ByteSize * (ByteSize * ByteSize)
           high  == word \div ByteSize
<1>1. limit \in Nat /\ WordSize = ByteSize * limit
  <2>1. ByteSize * ByteSize \in Nat
    BY ByteSizeType
  <2>. QED  BY <2>1, ByteSizeType DEF WordSize
<1>2. word \in Nat /\ word < ByteSize * limit
  BY <1>1, WordSizeType DEF Word
<1>3. high \in Nat /\ word = ByteSize * high + (word % ByteSize) /\ word % ByteSize \in Nat
  BY <1>2, ByteSizeType
<1>4. high <= limit - 1
  <2> HIDE DEF limit, high
  <2>1. SUFFICES ASSUME high >= limit PROVE FALSE
    BY <1>1, <1>3
  <2>2. ByteSize * high >= ByteSize * limit
    BY <2>1, <1>1, <1>3, ByteSizeType
  <2>3. ByteSize * high \in Nat /\ ByteSize * limit \in Nat
    BY <1>1, <1>3, ByteSizeType
  <2>. QED  BY <2>2, <2>3, <1>2, <1>3
<1>5. byte + ByteSize * high \in 0 .. ByteSize * limit - 1
  <2> HIDE DEF limit, high
  <2>1. high \in 0 .. limit - 1
    BY <1>1, <1>3, <1>4
  <2>. QED  BY <2>1, <1>1, Digit
<1>6. (word - (word % ByteSize)) + byte = byte + ByteSize * high
  <2> HIDE DEF limit, high
  <2>. QED  BY <1>2, <1>3, ByteSizeType DEF Byte
<1>. QED
  BY <1>1, <1>5, <1>6 DEF Word

LEMMA WordIsWide == WordSize \in Nat /\ WordSize >= 16
<1>1. \A a, b \in Nat : a >= 2 /\ b >= 1 => a * b \in Nat /\ a * b >= 2 * b
  OBVIOUS
<1>2. ByteSize * ByteSize \in Nat /\ ByteSize * ByteSize >= 4
  BY <1>1, ByteSizeAssumption
<1>3. ByteSize * (ByteSize * ByteSize) \in Nat /\ ByteSize * (ByteSize * ByteSize) >= 8
  BY <1>1, <1>2, ByteSizeAssumption
<1>. QED
  BY <1>1, <1>3, ByteSizeAssumption DEF WordSize
-----------------------------------------------------------------------------
(* A word is read as it was stored.                                        *)
LEMMA QuotientOfSum ==
  ASSUME NEW divisor \in Nat, divisor > 0, NEW q \in Int, NEW rest \in 0 .. divisor - 1
  PROVE  (divisor * q + rest) \div divisor = q
BY SMT

LEMMA Digits ==
  ASSUME NEW n \in Nat
  PROVE  /\ n \div ByteSize \in Nat /\ n % ByteSize \in 0 .. ByteSize - 1
         /\ n = ByteSize * (n \div ByteSize) + (n % ByteSize)
         /\ n = (n % ByteSize) + ByteSize * (n \div ByteSize)
<1>1. n \div ByteSize \in Nat /\ n % ByteSize \in 0 .. ByteSize - 1
      /\ n = ByteSize * (n \div ByteSize) + (n % ByteSize)
  BY ByteSizeType
<1>2. n = ByteSize * (n \div ByteSize) + (n % ByteSize)
  BY <1>1
<1> DEFINE high == ByteSize * (n \div ByteSize)
           low  == n % ByteSize
<1>3. high \in Nat /\ low \in Nat /\ n = high + low
  BY <1>1, <1>2, ByteSizeType
<1> HIDE DEF high, low
<1>4. n = low + high
  BY <1>3
<1>. QED
  BY <1>1, <1>2, <1>4 DEF high, low

LEMMA Larger ==
  ASSUME NEW x \in Nat, NEW y \in Nat, x >= y
  PROVE  ByteSize * x \in Nat /\ ByteSize * y \in Nat /\ ByteSize * x >= ByteSize * y
BY ByteSizeType

LEMMA QuotientOfQuotient ==
  ASSUME NEW word \in Nat, NEW divisor \in Nat, divisor > 0
  PROVE  word \div (ByteSize * divisor) = (word \div ByteSize) \div divisor
<1> DEFINE high == word \div ByteSize
           low  == word % ByteSize
           q    == high \div divisor
           rest == high % divisor
<1>1. high \in Nat /\ low \in 0 .. ByteSize - 1 /\ word = ByteSize * high + low
  BY ByteSizeType
<1> HIDE DEF high, low
<1>2. q \in Nat /\ rest \in 0 .. divisor - 1 /\ high = divisor * q + rest
  BY <1>1
<1> HIDE DEF q, rest
<1>3. ByteSize * divisor \in Nat /\ ByteSize * divisor > 0
  BY ByteSizeType
<1>4. ByteSize * high = (ByteSize * divisor) * q + ByteSize * rest
  BY <1>1, <1>2, ByteSizeType
<1>5. ByteSize * rest \in Nat /\ ByteSize * rest <= ByteSize * divisor - ByteSize
  <2>1. rest \in Nat /\ rest <= divisor - 1
    BY <1>2
  <2>2. ByteSize * rest <= ByteSize * (divisor - 1)
    BY <2>1, ByteSizeType
  <2>3. ByteSize * (divisor - 1) = ByteSize * divisor - ByteSize
    BY ByteSizeType
  <2>. QED
    BY <2>1, <2>2, <2>3, ByteSizeType
<1>6. ByteSize * rest + low \in 0 .. ByteSize * divisor - 1
  <2> DEFINE product == ByteSize * rest
             limit   == ByteSize * divisor
  <2>1. product \in Nat /\ product <= limit - ByteSize /\ limit \in Nat
    BY <1>3, <1>5
  <2> HIDE DEF product, limit
  <2>. QED
    BY <2>1, <1>1, ByteSizeType DEF product, limit
<1>7. word = (ByteSize * divisor) * q + (ByteSize * rest + low)
  <2> DEFINE a == (ByteSize * divisor) * q
             b == ByteSize * rest
             c == ByteSize * high
  <2>1. a \in Int /\ b \in Int /\ c = a + b /\ word = c + low
    BY <1>1, <1>2, <1>3, <1>4, <1>5
  <2> HIDE DEF a, b, c
  <2>2. word = a + (b + low)
    BY <2>1, <1>1, ByteSizeType
  <2>. QED
    BY <2>2 DEF a, b
<1>8. word \div (ByteSize * divisor) = q
  <2> DEFINE limit == ByteSize * divisor
             tail  == ByteSize * rest + low
  <2>1. limit \in Nat /\ limit > 0 /\ tail \in 0 .. limit - 1 /\ word = limit * q + tail
    BY <1>3, <1>6, <1>7
  <2> HIDE DEF limit, tail
  <2>2. (limit * q + tail) \div limit = q
    BY <2>1, <1>2, QuotientOfSum
  <2>. QED
    BY <2>1, <2>2 DEF limit
<1>. QED
  BY <1>8 DEF q, high

LEMMA WordOfBytes ==
  ASSUME NEW word \in Word
  PROVE  WordBytes(word)[1] + ByteSize * (WordBytes(word)[2]
           + ByteSize * (WordBytes(word)[3] + ByteSize * WordBytes(word)[4])) = word
<1> DEFINE q1 == word \div ByteSize
           q2 == q1 \div ByteSize
           q3 == q2 \div ByteSize
<1>1. word \in Nat /\ word < WordSize
  BY WordSizeType DEF Word
<1>2. q1 \in Nat /\ word % ByteSize \in Nat /\ word = (word % ByteSize) + ByteSize * q1
  BY <1>1, Digits, ByteSizeType
<1>3. q2 \in Nat /\ q1 % ByteSize \in Nat /\ q1 = (q1 % ByteSize) + ByteSize * q2
  <2> HIDE DEF q1
  <2>. QED
    BY <1>2, Digits, ByteSizeType
<1>4. q3 \in Nat /\ q2 % ByteSize \in Nat /\ q2 = (q2 % ByteSize) + ByteSize * q3
  <2> HIDE DEF q2
  <2>. QED
    BY <1>3, Digits, ByteSizeType
<1>5. word \div (ByteSize * ByteSize) = q2
  BY <1>1, ByteSizeType, QuotientOfQuotient
<1>6. word \div (ByteSize * (ByteSize * ByteSize)) = q3
  <2>1. ByteSize * ByteSize \in Nat /\ ByteSize * ByteSize > 0
    BY ByteSizeType
  <2>2. word \div (ByteSize * (ByteSize * ByteSize)) = q1 \div (ByteSize * ByteSize)
    BY <1>1, <2>1, QuotientOfQuotient
  <2>3. q1 \div (ByteSize * ByteSize) = q3
    <3> HIDE DEF q1
    <3>1. \A n, d \in Nat : d > 0 => n \div (ByteSize * d) = (n \div ByteSize) \div d
      BY QuotientOfQuotient
    <3>2. q1 \in Nat
      BY <1>2
    <3>3. ByteSize \in Nat /\ ByteSize > 0
      BY ByteSizeType
    <3> HIDE DEF q2, q3
    <3>4. q1 \div (ByteSize * ByteSize) = (q1 \div ByteSize) \div ByteSize
      BY ONLY <3>1, <3>2, <3>3
    <3>. QED
      BY <3>4 DEF q2, q3
  <2>. QED
    BY <2>2, <2>3
<1>7. /\ WordBytes(word)[1] = word % ByteSize
      /\ WordBytes(word)[2] = q1 % ByteSize
      /\ WordBytes(word)[3] = q2 % ByteSize
      /\ WordBytes(word)[4] = q3 % ByteSize
  BY <1>5, <1>6 DEF WordBytes
<1> HIDE DEF q1, q2, q3
<1>8. q3 < ByteSize
  <2> SUFFICES ASSUME q3 >= ByteSize PROVE FALSE
    BY <1>4, ByteSizeType
  <2> DEFINE square == ByteSize * ByteSize
             cube   == ByteSize * square
  <2>1. square \in Nat /\ cube \in Nat
    BY ByteSizeType
  <2>2. q2 >= square
    <3>1. ByteSize * q3 \in Nat /\ ByteSize * q3 >= square
      BY <1>4, ByteSizeType, Larger
    <3> HIDE DEF square
    <3>. QED
      BY <3>1, <2>1, <1>4
  <2> HIDE DEF square
  <2>3. q1 >= cube
    <3>1. ByteSize * q2 \in Nat /\ ByteSize * q2 >= cube
      BY <2>1, <2>2, <1>3, Larger
    <3> HIDE DEF cube
    <3>. QED
      BY <3>1, <2>1, <1>3
  <2> HIDE DEF cube
  <2>4. ByteSize * q1 \in Nat /\ ByteSize * q1 >= ByteSize * cube /\ ByteSize * cube \in Nat
    BY <2>1, <2>3, <1>2, Larger
  <2>5. word >= ByteSize * cube
    BY <2>4, <1>1, <1>2
  <2>6. WordSize = ByteSize * cube
    BY DEF WordSize, cube, square
  <2>. QED
    BY <2>5, <2>6, <1>1, WordSizeType
<1>9. q3 % ByteSize = q3
  BY <1>4, <1>8, ByteSizeType
<1>. QED
  BY <1>2, <1>3, <1>4, <1>7, <1>9

LEMMA StoredWordIsRead ==
  ASSUME NEW mem, NEW address \in Nat, InAllocation(address, 4), NEW word \in Word
  PROVE  ReadInt32(StoreInt32(mem, address, word), address) = word
<1> DEFINE after == StoreInt32(mem, address, word)
<1>1. Len(WordBytes(word)) = 4
  BY DEF WordBytes
<1>2. ASSUME NEW k \in 0 .. 3 PROVE after[address + k] = WordBytes(word)[k + 1]
  <2>1. address + k \in Cell /\ address + k \in address .. address + 4 - 1
    BY RamSizeAssumption DEF InAllocation, Cell
  <2>2. address + k - address + 1 = k + 1
    OBVIOUS
  <2>. QED
    BY <1>1, <2>1, <2>2 DEF StoreInt32, StoreBytes
<1> HIDE DEF after
<1>3. /\ after[address] = WordBytes(word)[1] /\ after[address + 1] = WordBytes(word)[2]
      /\ after[address + 2] = WordBytes(word)[3] /\ after[address + 3] = WordBytes(word)[4]
  <2>1. address + 0 = address /\ 0 \in 0 .. 3 /\ 1 \in 0 .. 3 /\ 2 \in 0 .. 3 /\ 3 \in 0 .. 3
    OBVIOUS
  <2>2. after[address + 0] = WordBytes(word)[0 + 1] /\ after[address + 1] = WordBytes(word)[1 + 1]
    BY <1>2, <2>1
  <2>3. after[address + 2] = WordBytes(word)[2 + 1] /\ after[address + 3] = WordBytes(word)[3 + 1]
    BY <1>2, <2>1
  <2>. QED
    BY <2>1, <2>2, <2>3
<1>. QED
  BY <1>3, WordOfBytes DEF ReadInt32, after

LEMMA SameBytesSameWord ==
  ASSUME NEW mem, NEW other, NEW address,
         \A k \in 0 .. 3 : mem[address + k] = other[address + k],
         address \in Nat
  PROVE  ReadInt32(mem, address) = ReadInt32(other, address)
<1>1. address + 0 = address /\ 0 \in 0 .. 3 /\ 1 \in 0 .. 3 /\ 2 \in 0 .. 3 /\ 3 \in 0 .. 3
  OBVIOUS
<1>2. /\ mem[address + 0] = other[address + 0] /\ mem[address + 1] = other[address + 1]
      /\ mem[address + 2] = other[address + 2] /\ mem[address + 3] = other[address + 3]
  BY <1>1
<1>. QED
  BY <1>1, <1>2 DEF ReadInt32
=============================================================================
