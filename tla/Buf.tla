--------------------------------- MODULE Buf ---------------------------------
(***************************************************************************)
(* The stretchy buffer of src/buf.h and src/buf.c, in which parseLine      *)
(* gathers characters and arguments.  A buffer is NULL or a block with a   *)
(* header (len, cap) and cap elements.  One action is one macro of buf.h,  *)
(* with the buf__grow it may call.                                         *)
(*                                                                         *)
(* Sizes are size_t: the size handed to malloc wraps modulo SizeMax + 1.   *)
(***************************************************************************)
EXTENDS Integers, Sequences

CONSTANTS
  Elements,       \* what is pushed
  Strings,        \* what buf__printf formats, as sequences of elements
  Junk,           \* the indeterminate element of fresh memory
  Zero,           \* the element that ends a C string
  MinCap,         \* the smallest capacity (16 in the program)
  ElemSize,       \* sizeof(*b)
  HdrSize,        \* offsetof(BufHdr, buf)
  SizeMax         \* SIZE_MAX

ASSUME ElementsAssumption == Junk \notin Elements /\ Strings \subseteq Seq(Elements)
ASSUME SizesAssumption ==
  /\ MinCap \in Nat \ {0} /\ ElemSize \in Nat \ {0} /\ HdrSize \in Nat \ {0}
  /\ SizeMax \in Nat /\ SizeMax > HdrSize

VARIABLES
  null,           \* the buffer is a NULL pointer
  len, cap,       \* buf_len and buf_cap, 0 for NULL
  data,           \* the elements of the block
  block,          \* the size malloc was asked for, in bytes
  status          \* running, or how the process ended

bufVars == <<null, len, cap, data, block, status>>

Statuses == {"running", "assertion", "no_memory", "overrun"}

BufInit ==
  /\ null = TRUE /\ len = 0 /\ cap = 0 /\ block = 0
  /\ data = [i \in {} |-> Junk]
  /\ status = "running"

-----------------------------------------------------------------------------
(* buf__grow: its assertions, the capacity it chooses and the block it     *)
(* gets.  realloc keeps the elements of the old block.                     *)
AtLeast(x, y) == IF x >= y THEN x ELSE y

NewCap(new_len) == AtLeast(2 * cap, AtLeast(new_len, MinCap))

GrowAssertsHalfOnly(new_len) == 2 * cap <= SizeMax - 1      \* mutant
GrowAsserts(new_len) ==
  /\ 2 * cap <= SizeMax - 1
  /\ new_len <= NewCap(new_len)
  /\ NewCap(new_len) <= (SizeMax - HdrSize) \div ElemSize

BlockSize(c) == (HdrSize + c * ElemSize) % (SizeMax + 1)

(* Mutant: a new block without the old elements.                           *)
GrownAfresh(old, new_len) ==
  [cap   |-> NewCap(new_len),
   data  |-> [i \in 0 .. NewCap(new_len) - 1 |-> Junk],
   block |-> BlockSize(NewCap(new_len))]

Grown(old, new_len) ==
  [cap   |-> NewCap(new_len),
   data  |-> [i \in 0 .. NewCap(new_len) - 1 |-> IF i < cap THEN old[i] ELSE Junk],
   block |-> BlockSize(NewCap(new_len))]

(* buf_fit: the buffer with room for n elements, if it had the elements    *)
(* old.  The rest of the macro happens unless an assertion aborts, or      *)
(* malloc or realloc return NULL, whose header is then written.            *)
Fits(n) == n <= cap
Fitted(old, n) == IF Fits(n) THEN [cap |-> cap, data |-> old, block |-> block] ELSE Grown(old, n)

Stop(reason) == status' = reason /\ UNCHANGED <<null, len, cap, data, block>>

Reserve(n, Rest) ==
  /\ status = "running"
  /\ \/ ~ Fits(n) /\ ~ GrowAsserts(n) /\ Stop("assertion")
     \/ ~ Fits(n) /\ GrowAsserts(n) /\ Stop("no_memory")
     \/ (Fits(n) \/ GrowAsserts(n)) /\ Rest

Become(b, new_len, elements) ==
  /\ null' = FALSE
  /\ len' = new_len /\ cap' = b.cap /\ data' = elements /\ block' = b.block
  /\ UNCHANGED status

-----------------------------------------------------------------------------
(* buf_push: the element goes behind the last one.                         *)
RoomForLen  == len                  \* mutant: the pushed element has no room
RoomForPush == 1 + len

Push(v) ==
  LET b == Fitted(data, RoomForPush)
  IN  Reserve(RoomForPush, IF len < b.cap THEN Become(b, len + 1, [b.data EXCEPT ![len] = v])
                           ELSE Stop("overrun"))

(* buf_printf: a first attempt with the room there is, writing what fits,  *)
(* and a second one if that was not enough.  A 0 is written behind the     *)
(* text and not counted.                                                   *)
RoomWithoutEnd(s) == len + Len(s)   \* mutant: the 0 has no room
RoomForText(s)    == len + (1 + Len(s))

Formatted(d, s, room) ==
  [i \in DOMAIN d |-> IF i < len \/ i >= len + room \/ i > len + Len(s) THEN d[i]
                      ELSE IF i - len < Len(s) /\ i - len < room - 1 THEN s[i - len + 1]
                      ELSE Zero]

Printf(s) ==
  LET first == Formatted(data, s, cap - len)
      b     == Fitted(first, RoomForText(s))
  IN  Reserve(RoomForText(s),
              IF 1 + Len(s) <= b.cap - len
              THEN Become(b, len + Len(s), Formatted(b.data, s, b.cap - len))
              ELSE Stop("assertion"))

(* buf_clear keeps the block, buf_free gives it back.                      *)
Clear ==
  /\ status = "running"
  /\ len' = 0
  /\ UNCHANGED <<null, cap, data, block, status>>

Free ==
  /\ status = "running"
  /\ null' = TRUE /\ len' = 0 /\ cap' = 0 /\ block' = 0
  /\ data' = [i \in {} |-> Junk]
  /\ UNCHANGED status

Ended == status # "running" /\ UNCHANGED bufVars

BufNext ==
  \/ \E v \in Elements : Push(v)
  \/ \E s \in Strings : Printf(s)
  \/ Clear \/ Free \/ Ended

BufSpec == BufInit /\ [][BufNext]_bufVars

-----------------------------------------------------------------------------
(* Type invariant: the header describes the block, and no element is ever  *)
(* written behind it.                                                      *)
BufTypeOK ==
  /\ null \in BOOLEAN /\ len \in Nat /\ cap \in Nat /\ block \in 0 .. SizeMax
  /\ len <= cap
  /\ null => cap = 0
  /\ data \in [0 .. cap - 1 -> Elements \cup {Junk, Zero}]
  /\ status \in Statuses \ {"overrun"}

(* The block that malloc or realloc returned is as large as the header     *)
(* says: the multiplication in buf__grow never wraps.                      *)
BlockHoldsElements == ~ null => block = HdrSize + cap * ElemSize

(* The buffer behaves as a sequence, whatever mixture of pushes, formatted *)
(* text, clearing and freeing: growing loses nothing, no indeterminate     *)
(* element becomes visible, and a failure ends the process.                *)
Contents == [i \in 1 .. len |-> data[i - 1]]

Seq1 == INSTANCE Text WITH content <- Contents, stopped <- status # "running"

ImplementsText == Seq1!Spec

(* An assertion stops the program only if no size_t can express the size   *)
(* of the block that doubling, or the text to be printed, asks for.        *)
GivesUpOnlyAtSizeMax ==
  [][status = "running" /\ status' = "assertion" =>
       \E n \in {2 * cap, MinCap, len + 1} \cup {len + 1 + Len(s) : s \in Strings} :
         HdrSize + n * ElemSize > SizeMax]_bufVars
=============================================================================
