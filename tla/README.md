# Verification of LitaVM

LitaVM (`src/`) is an assembler and an interpreter for a 32 bit register machine. This directory
holds TLA+ models of both, the TLC runs that check them on small instances, and theorems about them
that TLAPS checks for every instance. Paths below are relative to the repository root.

Run one check with `tlc -config MCVm.cfg MCVm`, the proofs of a module with `tlapm VmProofs.tla`.

## 1. The system

```
 file.asm --readFile--> text --parse/parseLine--> lines --parseLabels--> labels
                                                    |----parseConstants--> RAM [0, $h), address table
                                                    '----parseInstructions--> instruction words
 words, address table, RAM --vmExecute--> output, exit code
```

One process, one thread, no signal handlers, no callbacks, nothing persisted. The parts share the
`Vm` (RAM and CPU): the assembler writes the constants and `$h`, the interpreter everything else.
What is hard here is not concurrency but arithmetic at the edges, a stack, a heap and a constant
pool in one unprotected byte array, three operand widths that mix, memory that `malloc` hands out
uninitialised, and long sequences of legal instructions.

| Component | State | Operations | Must be true | Module |
|---|---|---|---|---|
| Instruction word (`bytecode.h`, `bytecode.c`) | - | masks and shifts, `opcodeNumArgs` | an encoded field decodes to itself | `Bytecode` |
| RAM (`vm.c:21-113`) | bytes, size | `ramRead*`, `ramStore*`, `CHECK_RANGE` | no access leaves the allocation | `Ram`, `SharedRam`, `RamProofs` |
| CPU and loop (`vmExecute`) | 12 registers, `pc` | one case per opcode and flavour | memory safety, narrow byte writes, `$sp` in RAM, constants survive | `Vm`, `VmProofs` |
| ALU cases no word selects (`vm.c:591-710`) | the same | `ADDB` to `SLLB` | no access or division that no check has seen, narrow byte writes, operations agree with each other | `VmAlu`, `VmAluProofs` |
| Stack | RAM from `$sp` up | `PUSH`, `POP`, `DUP` in three flavours | one LIFO stack, overflow and underflow stop the program | `ByteStack`, `VmStack`, `VmStackCallsProofs` |
| Subroutines | `$r`, saved copies | `CALL`, `RET` | every return goes to its caller | `VmCalls`, `VmStackCallsProofs` |
| Assembler (`compile`) | lines, labels, constants, words | four passes | labels select their code, words say their line, constants are intact | `Encoding`, `Assembler`, `AssemblerLines`, `AssemblerProofs` |
| Tokeniser (`parse`, `parseLine`) | cursors, comment and string flag, buffers | three loops over characters | the arguments, line numbers and addresses of every line | `Tokens`, `TokensProofs` |
| Buffers (`buf.c`, `buf.h`) | a block with a header | push, printf, fit, clear, free | a sequence that loses nothing, in a block large enough | `Text`, `Buf`, `BufProofs` |
| Command line (`main.c`) | options | options, then the phases | exit codes, order, what one phase hands to the next | `LitaVM`, `LitaVMProofs` |
| Disassembler | - | names and numbers of a word | the listing is the program, no read outside of its tables | `Disassembler`, `LitaVM`, `LitaVMProofs` |
| Helpers (`common.c`) | - | `readFile`, wrappers | - | `LitaVM` (`readFile`) |

Two kinds of things end the process early: `vmError` (exit 2: access violation, unknown opcode,
division by zero) and `parseError` (exit 32). A third is not in the code: an index outside the C
arrays, a write outside of a block or an uninitialised pointer, whose outcome C leaves undefined. The
models give each of the three its own final value (`status`, `stage`). A signed overflow is undefined in C
as well, but every build makes one of two things of it: it wraps around (as with the `clang -std=c11 -g` of
`build.bat`) or it traps. `OnOverflow` names which of the two a build may do.

## 2. Modules

**`Bytecode`** - the enum, the masks, the macros. An `Instruction` is a signed 32 bit integer;
`>>` and `&` on it are `\div` and `%`, negative words included. The 59 opcodes are numbered as in
the enum; opcodes of one family are consecutive, so `PUSHI + Flavour["B"]` is `PUSHB`.

**`Ram`** - little-endian access to a byte array. `ByteSize` is a parameter: runs use bytes of 3 or 4
values so that a word, always four bytes, has 81 or 256 values; the proofs hold for every `ByteSize`,
256 included. `CHECK_RANGE` is the test of the code, which also refuses the last byte of the RAM.
**`SharedRam`** declares the one RAM that `Assembler` and `Vm` both work on, and what `malloc` may leave in it.

**`Vm`** - a step is an iteration of the fetch loop. Variables: `code` (never changes), `regs`, `ram`,
`pc` (the C pointer, as an index), `status`, `out`. The cases of the switch are `Noop`, `Jmp`, `Call`,
`Ret`, `If(t)`, `Ife(t)`, `Mov(t)`, `Ldc(t)`, `Ldca`, `Push(t)`, `Pop(t)`, `Dup(t)`, `PrintNumber(t)`,
`PrintC`, `Add(t)`, `UnknownOpcode`; `t` is the flavour `I`, `F` or `B`. `Halt` is the end of the loop,
`Ended` the process that is gone. The operands are locations: a register, a RAM cell, a literal, or
`Wild`, an index no C array has. `Perform` makes an instruction's accesses in the code's order; the
first one that fails ends the process. What a failing instruction did before (a moved `$sp`) dies with
the process and is not recorded. `Init` chooses the content of every register but `$sp` and `$h`, and
of every RAM cell behind the constants: `litaMalloc` is a plain `malloc`.

Floats are words of which only `+`, `>` and `>=` are known (operators passed as constants). The runs
use `MiniFloat`, sign-and-magnitude numbers with a NaN that compares with nothing.

The one operation on ints that is live and can overflow is `ADDI` (`vm.c:339`): `Add` wraps around if the build
does, `AddTraps` ends the process if it traps.

The cases `ADDB` to `SLLB` of the switch have no action: `OPCODE` shifts a signed word, so no word
decodes to an opcode above 31. That is not taken for granted, it is the theorem `OpcodeRange`.

**`VmAlu`** - those cases all the same, in a machine that differs from `Vm` in one point: the opcode
is masked with the `OPCODE_MASK` that `bytecode.h:16` defines and nothing uses. The first repair of the
opcode makes them live. No word of the real program selects one of them. `Compute` is an operation on ints that C leaves
undefined for some operands: sums, differences and products no int holds, shifts by a count that is negative or not below the size
of the word, `<<` of a negative number or into the sign. A build wraps around there (and the processor takes the count modulo the
word) or traps, by `OnOverflow`. A division of C truncates; at the quotient of the smallest int by -1 and
the remainder with it the processor traps in every build; a division by a zero that no check has seen is `undefined`. `|`, `&`
and `^` are constants that yield words, like the floats: the run gives them the operators of `Bitwise`.

**`ByteStack`, `VmStack`** - what a stack promises (push and pop of 1 or 4 bytes, overflow, underflow,
`Capacity` = RAM size - 1) and the refinement mapping: the stack is the RAM from `$sp` up to the value
`vmInit` gave it, and its failure is the machine's access violation.

**`VmCalls`** - the machine with a history variable `frames`, the calls a debugger would show. The
programs follow the convention the machine forces on nested calls: `pushi $r` on entry, `popi $r`
before `ret`. `FollowsConvention` states it as an assembly programmer would check it, one line at a time: a
note per instruction says whether the return address is in `$r` or in the word pushed first, and how many bytes
the subroutine has pushed; every instruction must lead from its note to those of its successors. It says nothing
of what a run does. `MCVmCalls` gives the notes of the run's programs and assumes (TLC evaluates it) that they fit.

**`VmStatements`** - both of the above, for what the documentation says of the stack and the code does not keep to by
itself: the size of its region, and that `CALL` pushes the address.

**`Encoding`** - `parseArg1`, `parseArg2`, `parseJmp`, `parseImmediateNumber` and the `|` that joins a
word. An argument is a record that says what its first character says. A number keeps its base,
digits and sign, because `parseJmp` skips its first character. `Combine` is exact for negative arguments too, whose upper bits are
or-ed with the opcode and the first argument (`OrBits`).

**`Assembler`** - `compile` as a state machine: a step is one turn of one of the loops of `parse`,
`parseLabels`, `parseConstants` (reading, then layout) and `parseInstructions`. A file is the sequence
of lines `parseLine` returns. What `malloc` leaves matters four times and is a choice each time: the
RAM, the byte before a string's terminator (`assembler.c:376-378` allocates one byte too few and
leaves one unwritten), the byte behind the string's buffer, into which the terminator is written (`PastBuffer`: padding of the block,
where it does no harm, or data of the heap, from where on C says nothing), and the `next` pointer of the last constant and label (`assembler.c:478,545`),
which the layout loop, the search for an undefined label and the free functions follow.
`strtol` saturates at 32 bits, as `long` does in the Windows build of `build.bat`. **`AssemblerLines`**
says what the lines of a source file are (`SourcesAssumption`), the assumption that the proofs about `compile` rest on.

**`Text`, `Buf`** - `Text` is a sequence that is pushed to, extended and emptied, by a process that may
stop at any operation. `Buf` has a header, a capacity, a block of the size `malloc` was asked for and
its elements, and one action per macro of `buf.h` with the `buf__grow` it calls; sizes are numbers
modulo `SizeMax + 1`. Assertions are on, as in `build.bat`. A failed `malloc` ends the process in a
write to a NULL header. The refinement mapping is the first `len` elements.

**`Tokens`** - `parse` and `parseLine` on a string of characters; the eight kinds of character are those the
code distinguishes, and a class for the rest. A step is a turn of one of three loops. The lines of a
text are then defined a second time without a loop (a position is in a string if an odd number of quotes
stands before it, an argument is a longest stretch without a separating space) and the character loops
are shown to implement the first pass of `Assembler` on the lines so defined: `Assembler` is
instantiated with those lines as its source, its cursor the number of lines found so far.

**`Disassembler`** - a word becomes the name of its opcode and named registers or numbers, as `disassemble`
prints them; an index no table has reads `wild`. The module also holds the name tables and
`opcodeFromString`, `cpuGetRegisterIndex`, and, for the property, how one would type a listed line.

**`LitaVM`** - `main`, composed of `Vm`, `Assembler` (both EXTENDed, on one `SharedRam`) and `Disassembler`. Its phases are `options`, `readFile`, `vmInit`, `compile`, `disassemble`, `execute`, `over` and `otherRam`;
in the phase `compile` a step is one of `Assembler`, on the RAM that `vmInit` got, in the phase `execute` one of
`Vm`, on the words, the constants and the `$h` that `compile` left. The exit code is -1 while the process
lives, -2 if C leaves the end undefined, -3 if the build traps. `readFile` may fail whatever the file is. The number behind `-r` or
`-s` is what `strtol` makes of it, saturated at the limits of `long` (`LongMax`), converted to a `size_t` (`SizeMax`). `vmInit`
refuses a RAM smaller than the stack and nothing else: the size of the block, a sum of `size_t`s (`Allocated`), may wrap
around to less than the header of a `Ram`, or be more than `malloc` has (`MaxBlock`), and the header is written all
the same (`RamIsThere` excludes both). If there is a block, and the RAM has not the `RamSize` bytes of `Assembler` and `Vm`, the model
ends in the phase `otherRam`: from there the program is this module with that `RamSize`.

**`VmPrograms`** writes small programs as lines and assembles them with `Encoding`, so the machine runs
only words the assembler can produce. **`MC*`** modules give programs and files to TLC.

Definitions marked as mutants in a comment are variants that a bug in the code could produce; nothing
uses them. Put in place of the definition they stand before, each makes the property it was written
for fail, which shows that the property depends on that code.

## 3. Runs

| Run | Checks | On |
|---|---|---|
| `vm` (`MCVm`) | `TypeOK`, `MemorySafety`, `StackPointerInRam`, `PoolOutlivesStack`, `ByteWritesAreNarrow` | any line from a menu that has every reachable case and every operand form, then a push, a pop, a jump back or a return; bytes of 4 values, 12 bytes of RAM, 5 of them constants |
| `stack` (`MCVmStack`) | `ImplementsByteStack` | any three of twelve stack lines, then an end or a jump to line 0 or 1; room for 10 bytes |
| `calls` (`MCVmCalls`) | `ReturnsToCaller`, `KeepsReturnAddresses`, `AllCallsReturn`, `CallsEnd` | a main program, a subroutine with six bodies (calls, double calls, counted and endless recursion, a byte pushed between), a leaf that saves `$r` or not; 20 bytes of RAM |
| `buf` (`MCBuf`) | `BufTypeOK`, `BlockHoldsElements`, `ImplementsText`, `GivesUpOnlyAtSizeMax` | pushes, texts of 0, 1 and 3 characters, clearing and freeing in any order; three doublings until a block has no size |
| `tokens` (`MCTokens`) | `TokTypeOK`, `ImplementsParse`, `EveryTurnAdvances`, `ParseEnds` | every text of 4 characters of any kind, of 6 of the characters of strings and comments, of 5 of those of lines and comments |
| `alu` (`MCVmAlu`) | `AluTypeOK`, `AluSafety`, `BothSidesAgree`, `AluWritesAreNarrow` | fourteen identities (as `a / b * b + a % b = a`) computed by programs on 20 x 20 operands at the limits of bytes and words; every opcode with every form of operand; builds that wrap around and that trap |
| `main` (`MCLitaVM`) | `MainTypeOK`, `RefusesIllFormedFiles`, `DocumentedProgramsAreSafe`, `ListingShowsProgram`, `PrintsWhatItShould`, `HandsOverAReadyMachine`, `EveryPhaseAdvances`, `MainEnds` | `hello.asm` with 16 texts, `fib.asm` for 1 to 30, `constants.asm`; all files of two lines from a menu of 41, and of a constant, an instruction and a label or constant; some 1900 command lines, with sizes of the RAM below and above the stack's, negative and too large; 20 bytes of RAM |
| `assembler` (`MCAssembler`) | `AsmTypeOK`, `PoolIsIntact`, `LabelsSelectTheirCode`, `WordsSayTheirLine`, `EveryPassAdvances` | every file of three lines from a menu of 21: constants of each kind, labels, instructions, each kind of mistake; 9 bytes of RAM |

What they show:

- `MemorySafety`: well formed operands (which is what the README's instruction tables allow) are
  enough; the rest is up to `CHECK_RANGE`. Ill formed ones are in the run too and do reach `undefined`.
- `StackPointerInRam`: neither a push that wraps below 0 nor a pop of bytes nobody pushed gets through.
- `PoolOutlivesStack`: nothing but the stack growing into them changes constants in a program that
  stores by pushing only.
- `ByteWritesAreNarrow`: 8 bit instructions leave the other bytes of a word and of a register alone.
- `ImplementsByteStack`: mixing sizes never breaks the last-in first-out order, and the range check,
  which knows nothing of stacks, fails exactly on overflow and underflow, one byte early at the top.
- `ReturnsToCaller`, `KeepsReturnAddresses`, `AllCallsReturn`, `CallsEnd`: saving `$r` is enough for any
  nesting; too deep a recursion ends in an access violation before a saved address is overwritten.
- `PoolIsIntact`, `LabelsSelectTheirCode`, `WordsSayTheirLine`: the passes agree with each other about
  addresses, and the fields or-ed into a word do not disturb each other for non-negative operands.
- `ImplementsText`, `BufTypeOK`, `BlockHoldsElements`, `GivesUpOnlyAtSizeMax`: growing loses nothing, no write leaves the
  block, the size never wraps, and the assertions stop no program whose block could exist.
- `ImplementsParse`, `TokTypeOK`, `ParseEnds`: comments, strings that contain `;` or spaces, carriage returns, blank
  lines and a missing last newline change neither arguments nor line numbers nor addresses.
- `AluSafety`, `BothSidesAgree`, `AluWritesAreNarrow`: with operands that exist the dead cases stay in their allocations and divide
  an int by no zero but in `MODF`, whose check looks at the float and not at its integer part; in a build that wraps
  around they obey, at every width, the laws of two's complement arithmetic. `AluTypeOK`: every result is cut to its width before it is stored.
- `EveryTurnAdvances`, `EveryPassAdvances`, `EveryPhaseAdvances`: the loops of the tokeniser, of `compile` and of `main` end because
  a number falls with every turn, and the text, the file or the command line bounds it: 5 n + 5 turns for n characters, six times
  the lines and two. `main` does not return to an earlier phase. The interpreter has no such number, and need not end.
- `MainTypeOK`: whatever the options are followed by, the sizes are ones of `size_t`, and what starts has its types.
- `RefusesIllFormedFiles`: exit code 32 means an ill-formed line, and a program that starts has none, whichever way names
  refer forward. Ill-formed is what the code's tests say, `pushi 12` is not; and a file with such a line may end earlier, with exit code 2,
  at a constant the RAM has no room for. `DocumentedProgramsAreSafe`: a file of lines as the README's tables have them, without
  a string constant and on a RAM whose block exists, never makes any phase
  leave an allocation; a string does, by its terminator (`PastBuffer`, run `assembler`); the other lines of the menu do (`popi #12`, `ldci $a $b`, `movf $a #1`, and a listing of `muli`).
- `ListingShowsProgram`: the k-th line listed is the k-th line of code, with its opcode and the addresses of what it names; one of
  registers and immediates, typed in again, is assembled to the same word.
- `HandsOverAReadyMachine`, `MainEnds`: whatever is compiled, the machine starts with its constants below `$h` and an address
  for each, and options, passes and listing all come to an end. `PrintsWhatItShould`: the examples, from their lines to their output.
  `fib.asm` wraps around like an int; `constants.asm` prints the collision its comments announce. The texts of `hello.asm`
  are ASCII: its loop takes a byte above 127, a negative number for `ifb`, for the end of the string.

**Bounds.** Programs of two or three lines are enough for properties of one step and of what a
following step makes of it; the jump back lets them run until the RAM is full. RAM is so small that
every overflow, underflow and wrap-around happens within a few pushes. `MaxOutput` bounds the recorded
output. Recursion needs no bound: the stack ends it. `NumRegs` is 6 (the four special registers and
two others) or 8; the encoding is checked with register numbers up to 11, `LitaVM` has all 12. In `main` `FreshLinks` is
`{"null"}`, `FreshBytes` is `{0}` and `PastBuffer` is `{"padding"}`: what another value of an uninitialised `next` does is the run
`wild_next`, what another byte behind a string does is in `statements`. That a terminator in the heap's data ends in `undefined` is in `assembler`.
`LongMax` = 2047, `SizeMax` = 2^24 - 1 and `MaxBlock` = 1000 are ordered as in the program, so that a number can be out of range of a long, a
block too large, and a sum wrap around. The registers and the RAM that
`malloc` returned have one content in `main`; `vm` has several. A byte of `main` has 8 values: words of 4096,
room for the numbers of `constants.asm`.

**Fairness.** `CallsEnd`, `ParseEnds` and `MainEnds` are liveness properties. They assume weak fairness of the one step
there is: assembler and interpreter are sequential loops that wait for nothing, so a running program always goes on.
No run switches deadlock checking off; a finished process stutters in `Ended`, `Finished`, `Parsed` or `Over`.

Four runs state what the documentation says and find that the code does otherwise. `statements` does so for
six statements about single lines at once: its property, `SomeStatementHolds`, is their disjunction, so the one
assembled file that violates it refutes every one of them; `stack_statements` does so for two about the stack, with one return.

| Run | The documentation | The code |
|---|---|---|
| `stack_statements`: `StackInItsRegion` | `-s` sets "the max stack size" (`main.c:22`, `README.md:73`) | the value is stored and never read (`vm.c:179`) |
| `ReturnIsPushed` | `CALL` "pushes the address ... onto the stack" (`bytecode.h:91`) | only `$r` is written; a nested call loses it |
| `wild_next` | hello "prints out "Hello World"" (`README.md:165`) | the `next` of the last constant is never set, and followed (`assembler.c:478,502`) |
| `ram_size` | `-r` sets "the amount of RAM in bytes" (`main.c:23`), an invalid configuration is refused (`vm.c:169`) | `-r -1` is accepted, and the size of its block wraps around (`vm.c:22,168`) |
| `statements`: `OpcodesReadBack` | the table of operation codes goes on to 58 (`README.md:114-140`) | opcodes from 32 on decode as negative and are unknown (`bytecode.h:41`) |
| `JumpsToItsNumber` | `JMP` "moves the program counter to position $v" (`README.md:105`) | `jmp #12` loses its first digit (`assembler.c:286`) |
| `NumbersLeaveOpcodesAlone` | the first 6 bits always identify the opcode (`README.md:15`) | `printi #-1` fills them with ones (`assembler.c:175,255`) |
| `NumbersReadAsInts` | `pushi .favre` pushes the constant 4 (`README.md:151`) | the constant takes one byte, four are read (`assembler.c:448`; `constants.asm:16` expects it) |
| `StringsEndWhereTheyShould` | "strings are null terminated" (`README.md:190`) | the byte behind the text is uninitialised, the 0 is written one behind the buffer (`assembler.c:376-378`) |
| `DestinationsAreAddresses` | `&` makes a register an address (`README.md:159`) | a single argument is encoded as the second one, `POP` tests the first: `popi &$a` pops into the register (`vm.c:461`) |

Two more disagreements are in cases no word selects: `SZRLI` is the `>>` of a signed int (`vm.c:688`; `README.md:135`
says `>>>`), `MODF` the remainder of the integer parts (`vm.c:644`). `VmAlu` models both as the code has them.

## 4. Proofs

| Module | Proves, for every value of the constants |
|---|---|
| `RamProofs` | lemmas: bytes and words, what a store is read back as, what it leaves alone |
| `VmProofs` | `OpcodeRange`; `TypeOK`, `MemorySafety`, `StackPointerInRam`, `PoolOutlivesStack`, `ByteWritesAreNarrow` |
| `VmStackCallsProofs` | `ImplementsByteStack`; `ReturnsToCaller`, `KeepsReturnAddresses`, `AllCallsReturn` |
| `VmAluProofs` | the division of C (`DivisionTruncates`, `OneQuotientOverflows`); `AluTypeOK`, `AluSafety`, `AluWritesAreNarrow` |
| `BufProofs` | `BufTypeOK`, `BlockHoldsElements`, `ImplementsText`, `GivesUpOnlyAtSizeMax` |
| `TokensProofs` | `TokTypeOK`, `ImplementsParse`, `EveryTurnAdvances` |
| `AssemblerProofs` | lemmas about the fields of a word; `AsmTypeOK`, `PoolIsIntact`, `LabelsSelectTheirCode`, `WordsSayTheirLine`, `EveryPassAdvances` |
| `LitaVMProofs` | `MainTypeOK`, `HandsOverAReadyMachine`, `RefusesIllFormedFiles`, `DocumentedProgramsAreSafe`, `ListingShowsProgram`, `EveryPhaseAdvances` |

What is assumed of the constants, by name, and evaluated by TLC for the constants of the runs:

- `Ram`, `SharedRam`, `Vm`: a byte has more than one value, the RAM is not empty and addressable by a word, programs fit the RAM,
  there are 4 to 16 registers, what `malloc` leaves are bytes and words, float addition yields a word, an overflow wraps around, traps, or may do either
  (`OverflowAssumption`).
- `AssemblerLines`: `SourcesAssumption`, that a source file is made of lines `parseLine` can return. It has fewer than 2^19 lines
  (a label further down has no encoding), a register's index fits its 4 bits, digits make a natural number and `strtol` returns
  one of 32 bits. Nothing is assumed of which names, values or opcodes the lines have.
- `Tokens`: a text is a sequence of the eight kinds of character (`TextsAssumption`), of any length.
- `LitaVM`: the files are such sources (`FilesAssumption`), command lines are sequences of the arguments the option loop tells apart
  (`CommandLinesAssumption`) with any integers in them, the default sizes are ones of `size_t` and the limits of the build are numbers (`SizesAssumption`), and each register of the machine has a name in the disassembler.
- `Buf`: sizes are positive, a header is smaller than the address space, fresh memory shows.
- `VmAlu`: a word has 2^`WordBits` values and the powers up to that are positive (`WordBitsAssumption`), a bitwise operation on bytes or
  words yields one (`BitwiseAssumption`), float operations yield words, a float divided by one that is not 0 among them, and conversions
  go between words and ints (`FloatAluAssumption`).

### The machine

- `OpcodeRange` - no 32 bit word has an opcode above 31.
- `TypeCorrect` - `TypeOK` is inductive as it stands. The work is in the arithmetic: four bytes make a word (`Horner`,
  `ReadInt32Type`), the bytes of a word are bytes, a replaced low byte leaves a word, and in one lemma per group of cases.
- `MemorySafe` - given types, `CHECK_RANGE` implies that an access stays in the allocation (`CheckedAccess`), so only a wild
  operand is undefined, and a well formed instruction has none for the operands its opcode uses (`WellFormedOperands`).
- `StackPointerSafe` - an instruction either leaves `$sp` alone or moves it to a cell that passed the range check, or by a size
  from one that did (`MovedSp`); `%` is harmless as the RAM is smaller than the address space.
- `PoolIsKept` - every step changes RAM only at or above the new `$sp` (`StepRam`); a changed constant therefore means that `$sp`
  is below the constants.
- `ByteWritesStayNarrow` - for every program: a byte store reaches one cell, and replacing the low byte of a word keeps the others.

### The stack and the calls

- `StackImplemented` has the hypothesis that the programs reach the RAM through the stack only (`StackOnly`: they do not name `$sp`
  as a destination, take no operand at an address and no constant out of the pool). The invariant is `StackInv`: types, the shape of
  the program and `$sp` in the RAM, all three from the theorems above; without the last one the top of the stack would have no place.
  Of an instruction that is no stack instruction the stack sees nothing (`Quiet`). `DownCases` and `UpCases` say that the range check
  passes exactly if `$sp` has room below, or enough above; `Pushed`, `Popped` and `Refused` turn what then happens to `$sp` and the
  RAM into the operation on sequences.
- `CallsAreReturned`, `AddressesAreKept`, `NoCallIsLeftOpen` have the hypothesis that every program follows the convention
  (`FollowsConvention`), which is about its text, line by line. Nothing else is asked of it: the bodies may call one another and
  themselves, push and pop bytes and words around the calls, jump, and write any register but `$r` and `$sp`. `StepHasEffect` first
  reduces what the 15 actions do to what matters here: the opcode alone decides where `$sp` and `pc` go, everything above the higher
  of the two `$sp` survives, `$r` changes only if it is named. None of the three properties is inductive. The invariant (`CallInv`) is that
  the note of the next instruction tells the truth about the innermost call (its address is in `$r`, or in the word at the bottom of
  its frame), that every other call waits at an instruction whose note will be true when it is returned to (`Awaited`), and that the
  saved addresses lie above one another (`Nested`), so that a push, which happens below all of them, can hurt none. A `RET` then
  finds its caller in `$r`; that the word `popi $r` reads is the one `pushi $r` wrote is `StoredWordIsRead` of `RamProofs`.

### The dead cases

- `DivisionTruncates`, `OneQuotientOverflows` - `Quotient` and `Remainder`, which take the magnitudes apart and put the sign back, are the
  division of C: they give back the dividend, the remainder is smaller than the divisor and has the sign of the dividend. The quotient
  of two ints is an int but for the smallest one by -1, which is where `IntDivision` traps.
- `AluTypeCorrect`, `AluSafe`, `AluWritesStayNarrow` - what the three say of a step is one predicate (`Good`), and every
  case is an instance of `ResultIsGood`: a result of its flavour's width, written where the first operand came from, keeps the types,
  reaches one cell or the low byte of one register, and is undefined only if an operand is wild; `ComputeIsGood` adds the trap. What remains for a case is that
  its result has that width (`ArithmeticIsGood`, `BitwiseIsGood`, `ShiftsAreGood`), and for the divisions that the divisor is not 0
  behind the check (`DivisorsAreInts`, `IntDivIsGood`). The other instructions are those of `Vm`, and the theorems about it apply: `AluSafe` therefore
  needs the hypothesis of `MemorySafe` for them, that the program is well formed, and `AluOperands` has it.

### The buffers

- `BufTypeCorrect`, `BlockIsLargeEnough` - `BufTypeOK` and `BlockHoldsElements` are inductive together (`BufInv`): that
  nothing is written behind the block needs its capacity, and the capacity of the next block that of this one.
  The third assertion of `buf__grow` bounds the capacity by a quotient, and thereby the product the code
  multiplies out (`QuotientFits`): the sum with the header does not wrap.
- `BufImplementsText` - a new block keeps the elements of the old one (`FittedIsWellSized`), and the two attempts of `buf__printf`
  leave the text behind them (`FormattedElements`), however much of it the first attempt wrote.
- `GivesUpOnlyIfTooLarge` - the assertions of `buf__grow` stop no process whose next block could have a size.

### The tokeniser

- `TokTypeCorrect` - `TokInv` adds to `TokTypeOK` what the flags, buffers and the list hold.
- `TokensImplementParse` - the lines of a text are defined by sets of positions (ends of lines, starts of arguments, the first `;`
  outside a string), taken in ascending order by a cardinality, so that no recursion is in the definition. The work is a theory of
  one more character: how each set, the order and the arguments change when a character is appended (`StartsAppend`,
  `ArgumentsBegin`, `ArgumentsExtend`, `ArgumentsSeparated`, `BetweenNext`). The inductive invariant (`LineInv`) says which line is read
  (`AtLine`: between the end number `lineNumber` and the next there is none), that flags, `buf` and `args` are those of the characters read so
  far (`Reads`), and that the lines with an argument above this one are in the list (`Listed`). In a comment `inString` may be anything, as in
  the code; outside of one it is the parity of the quotes, and the argument in `buf` is the last one of what is read (`OpenEnd`).
  `EndLine` then is `ParseLine` of `Assembler`, the last `BreakOrContinue` its `EndPass`, and every other step a stutter.
- `TurnsAdvance` - the measure (`TurnsLeft`) counts a character of `parse` four times and one of `parseLine` once, and orders the loops. That it
  stays a natural number is `Cursors`: `parseLine` starts at most at the end of its line and leaves its cursor one behind it.

### The assembler

- The first half of `AssemblerProofs` shows that what `parseInstructions` accepts has an encoding in which no field spills into another: the two flag bits
  and 19 bits of the last argument (`SecondArgument`), the five of the first (`FirstArgument`), the 26 of a jump (`JumpArgument`), and so
  `LineIsSaid`: the macros read the line back, if its opcode is below 32 and its number not negative (the two exceptions
  the run `statements` shows). The weights of the fields enter as multiples of each other, not as powers of two.
- `AsmInvHolds` - the inductive invariant of `compile` (`AsmInv`) describes each list as a function of the source and of how far the
  passes are: the k-th instruction is the k-th line with the number of lines of code above it (`InstrsNumbered`, by `LinesAbove`,
  a cardinality and no recursion), the labels read so far in their order (`LabelsListed`), constants with types and bytes
  (`ConstantsListed`), stored one behind the other (`ConstantsStored`), and one word per line of code that encodes it with the finished
  tables (`CodeEncoded`). None of the four properties is inductive without it: that a label selects its code needs the positions of
  the words in the last pass to agree with the addresses the first pass counted, and the encoding to keep them.
- `AsmTypeCorrect`, `PoolKept`, `LabelsAreSelected`, `WordsAreSaid` follow from `AsmInv`.
- `PassesAdvance` - every step goes on in its list, ends its pass or ends the process (`KindsOfTurns`), and no list a pass walks over is
  longer than the file (`TurnInBounds`, from `AsmInv`: the list of the layout is the one another pass built).

### The command line

- `MainInvHolds` - `MainInv` says phase by phase what the next phase relies on: until `vmInit` is done `compile` is at its beginning,
  while it runs its own invariants hold, what it returned stays true of the file and the program, and the machine waits untouched.
  It uses a second invariant of the assembler, `AsmLog`: which line is to blame for a refusal, that every constant has an address, and
  that there is no word without a line.
- `MainTypeCorrect`, `ReadyMachineHandedOver`, `IllFormedFilesRefused` follow. The step into `execute` is the place where assembler
  and machine meet: what `AsmInv` says of constants, `$h` and words has to be what `Init` of `Vm` starts from.
- `DocumentedProgramsSafe` - from the text of the file to the last instruction of its program: `DocumentedOperands` turns a line as
  the README's tables have it into operands that fit the tables of the disassembler and the arrays of the machine (`OperandsFit`), and
  then the proof of `MemorySafe` applies. It has the hypothesis `"wild" \notin FreshLinks`: the run `wild_next` shows that it is needed. That
  it says nothing of files with a string constant is needed as well (`Assembler` lets the terminator end in `undefined`), and so is `RamIsThere` (`ram_size`): for the
  numbers `strtol` saturates and the sums that wrap around the theorem holds because `vmInit` does not go on with them.
- `PhasesAdvance` - a phase is left for a later one (`Forward`), or its measure falls: `OptionTurn` and `DisassembleTurn`, and for `compile` the lemma
  of `PassesAdvance`, which `MainInv` makes available on whatever RAM and options it is called with.
- `ListingIsShown` - while `disassemble` runs, `AsmInv` and `AsmLog` still hold and the program is the list of words (`Disassembling`), so
  the next word is `Encode` of the next line of code. That `disassemble` does not leave its tables there means that the word has a name, and
  a word that has one comes from a line with an opcode of the machine and no negative number: all others have a negative opcode
  (`NamedWord`). Then the fields read back (`FieldsReadBack`), the names are found where they stand in their tables
  (`RegisterReadsBack`, `OpcodeReadsBack`), a number of one digit is its value (`OneDigit`, the one step of its fold), and `Encode` of
  the typed line puts the same fields together (`ListedReadsBack`). Nothing is assumed of the lines but that `compile` accepted them.

### Only model-checked

- `PrintsWhatItShould` is about the example programs and what each of them prints: executions of their instructions, which TLC carries out.
- `BothSidesAgree` computes with the values of `|`, `&` and `^`: the operators of `Bitwise` are recursive, and no prover has facts about them.
- Liveness (`CallsEnd`, `ParseEnds`, `MainEnds`) is outside of what TLAPS does. Of `ParseEnds` and of `MainEnds` up to the execution the
  safety half is proved: a measure in the natural numbers falls with every step (`TurnsAdvance`, `PhasesAdvance`). What is left to TLC is that
  a step is always possible, and fairness. `CallsEnd` has no measure: it is about the programs of its run.

## 5. Not modelled

- The leaks and the order of the frees: `freeAssemberInstruction`, `bytecodeFree`, `vmFree`, `ramFree` read nothing that
  a property could see; a wild `next` in `freeConstants` and `freeLabels` is in `Assembler`.
- The layout of a listing, the texts of messages, `atof` and `strtol` digit by digit.
- `ramReadBytes` and `strStartsWith`, which have no caller; the two string comparisons are equality of names.
- What follows `vmInit` on a RAM of size 0 (`-r 0 -s 0`), whose `$sp` is the largest address, or on one that an `Address` does not
  reach the end of (`-r 5000000000`, where `long` has 64 bits and `malloc` a block): `vmInit` leads to them, in `otherRam`, but the assumptions
  of `Ram` exclude them as a `RamSize`.
- What a C compiler may do with a signed overflow beside wrapping around and trapping (`OnOverflow`), and anything that happens after a write
  outside of an allocation: the models end there.

## 6. What could come next

1. Assembler output as the program of the call theorems: a decidable check of the convention for assembled files.
2. The machine on a RAM that an `Address` does not reach the end of.
