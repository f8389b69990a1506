-------------------------------- MODULE Ram ---------------------------------
(***************************************************************************)
(* The Ram of src/vm.c: a byte array with checked, little-endian accesses. *)
(*                                                                         *)
(* A byte takes ByteSize values (256 in the program) and a 32 bit word is  *)
(* four bytes, whatever ByteSize is.  Words are held unsigned, in 0 ..     *)
(* WordSize - 1: the value of Register.as.address; SignedWord is as.iVal.  *)
(***************************************************************************)
EXTENDS Integers, Sequences

CONSTANTS ByteSize,   \* values of a byte
          RamSize     \* config->ramSize, in bytes

ASSUME ByteSizeAssumption == ByteSize \in Nat /\ ByteSize > 1

WordSize == ByteSize * (ByteSize * (ByteSize * ByteSize))

(* The RAM is not empty, and an Address (uint32_t) reaches every byte of   *)
(* it and the end of it.  (Where a long has 64 bits, -r can ask for more.) *)
ASSUME RamSizeAssumption == RamSize \in Nat /\ RamSize > 0 /\ RamSize < WordSize

Byte == 0 .. ByteSize - 1
Word == 0 .. WordSize - 1
Cell == 0 .. RamSize - 1

ADDRESS_SIZE == 4

SignedWord(w) == IF 2 * w >= WordSize THEN w - WordSize ELSE w
SignedByte(b) == IF 2 * b >= ByteSize THEN b - ByteSize ELSE b

-----------------------------------------------------------------------------
(* Mutants: the length is forgotten, and the last byte is allowed.         *)
CheckStartOnly(address, len) == address < RamSize
CheckToLastByte(address, len) == ~ (address + len > RamSize)

(* CHECK_RANGE.  `address + len' is a size_t sum, wider than an Address,   *)
(* so it does not wrap; the test refuses an access that ends on the last   *)
(* byte of the RAM.                                                        *)
CHECK_RANGE(address, len) == ~ (address + len >= RamSize)

(* What memcpy may touch without leaving the allocation.                   *)
InAllocation(address, len) == address + len <= RamSize

ReadInt8(mem, address) == mem[address]

ReadInt32(mem, address) ==
  mem[address] + ByteSize * (mem[address + 1]
    + ByteSize * (mem[address + 2] + ByteSize * mem[address + 3]))

(* memcpy of bytes to address.                                             *)
StoreBytes(mem, address, bytes) ==
  [c \in Cell |-> IF c \in address .. address + Len(bytes) - 1
                  THEN bytes[c - address + 1] ELSE mem[c]]

WordBytes(word) ==
  <<word % ByteSize,
    (word \div ByteSize) % ByteSize,
    (word \div (ByteSize * ByteSize)) % ByteSize,
    (word \div (ByteSize * (ByteSize * ByteSize))) % ByteSize>>

StoreInt8(mem, address, byte)  == StoreBytes(mem, address, <<byte>>)
StoreInt32(mem, address, word) == StoreBytes(mem, address, WordBytes(word))
=============================================================================
