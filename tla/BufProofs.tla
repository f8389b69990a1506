----------------------------- MODULE BufProofs ------------------------------
(***************************************************************************)
(* The stretchy buffer for every size of element, of header, of address    *)
(* space and every smallest capacity: its block is as large as its header  *)
(* says, no write leaves it, and it implements the sequence of Text.       *)
(***************************************************************************)
EXTENDS Buf, SequenceTheorems, TLAPS

Values == Elements \cup {Junk, Zero}

(* Inductive invariant: besides its type, the block has the size that the  *)
(* unbounded product gives.                                                *)
BufInv == BufTypeOK /\ BlockHoldsElements

(* A buffer that can take the place of the present one: its elements are   *)
(* typed and its block holds them.                                         *)
WellSized(b, n) ==
  /\ b.cap \in Nat /\ b.cap >= n /\ b.cap >= cap
  /\ b.data \in [0 .. b.cap - 1 -> Values]
  /\ b.block \in 0 .. SizeMax
  /\ b.block = HdrSize + b.cap * ElemSize

LEMMA Sizes ==
  /\ MinCap \in Nat /\ ElemSize \in Nat /\ ElemSize > 0 /\ HdrSize \in Nat
  /\ SizeMax \in Nat /\ SizeMax - HdrSize \in Nat
BY SizesAssumption

(* What the third assertion of buf__grow is for: elements counted by the   *)
(* quotient fit the space that was divided.                                *)
LEMMA QuotientFits ==
  ASSUME NEW space \in Nat, NEW size \in Nat, size > 0, NEW c \in Nat, c <= space \div size
  PROVE  c * size <= space /\ c * size \in Nat
<1>1. space = size * (space \div size) + (space % size) /\ space % size >= 0 /\ space \div size \in Nat
  OBVIOUS
<1>2. c * size <= (space \div size) * size
  BY <1>1
<1>. QED
  BY <1>1, <1>2

LEMMA BlockOfChecked ==
  ASSUME NEW c \in Nat, c <= (SizeMax - HdrSize) \div ElemSize
  PROVE  BlockSize(c) = HdrSize + c * ElemSize /\ BlockSize(c) \in 0 .. SizeMax
<1> DEFINE bytes == c * ElemSize
<1>1. bytes <= SizeMax - HdrSize /\ bytes \in Nat
  BY Sizes, QuotientFits
<1>2. HdrSize + bytes \in 0 .. SizeMax
  BY <1>1, Sizes
<1> HIDE DEF bytes
<1>3. (HdrSize + bytes) % (SizeMax + 1) = HdrSize + bytes
  BY <1>2, Sizes
<1>. QED
  BY <1>2, <1>3 DEF BlockSize, bytes

LEMMA NewCapBounds ==
  ASSUME cap \in Nat, NEW n \in Nat
  PROVE  NewCap(n) \in Nat /\ NewCap(n) >= n /\ NewCap(n) >= cap
BY Sizes DEF NewCap, AtLeast

(* buf_fit leaves a buffer with the room that was asked for and all        *)
(* elements that were there.                                               *)
LEMMA FittedIsWellSized ==
  ASSUME BufInv, NEW old \in [0 .. cap - 1 -> Values], NEW n \in Nat, n > 0,
         Fits(n) \/ GrowAsserts(n)
  PROVE  /\ WellSized(Fitted(old, n), n)
         /\ \A i \in 0 .. cap - 1 : Fitted(old, n).data[i] = old[i]
<1>1. CASE Fits(n)
  <2>1. n <= cap
    BY <1>1 DEF Fits
  <2>2. ~ null /\ cap \in Nat /\ block \in 0 .. SizeMax
    BY <2>1 DEF BufInv, BufTypeOK
  <2>3. block = HdrSize + cap * ElemSize
    BY <2>2 DEF BufInv, BlockHoldsElements
  <2>4. Fitted(old, n) = [cap |-> cap, data |-> old, block |-> block]
    BY <1>1 DEF Fitted
  <2>. QED
    BY <2>1, <2>2, <2>3, <2>4 DEF WellSized
<1>2. CASE ~ Fits(n)
  <2> DEFINE c == NewCap(n)
  <2>1. cap \in Nat
    BY DEF BufInv, BufTypeOK
  <2>2. c \in Nat /\ c >= n /\ c >= cap
    BY <2>1, NewCapBounds
  <2>3. BlockSize(c) = HdrSize + c * ElemSize /\ BlockSize(c) \in 0 .. SizeMax
    BY <1>2, <2>2, BlockOfChecked DEF GrowAsserts
  <2> HIDE DEF c
  <2>4. Fitted(old, n) =
          [cap |-> c, data |-> [i \in 0 .. c - 1 |-> IF i < cap THEN old[i] ELSE Junk],
           block |-> BlockSize(c)]
    BY <1>2 DEF Fitted, Grown, c
  <2>5. [i \in 0 .. c - 1 |-> IF i < cap THEN old[i] ELSE Junk] \in [0 .. c - 1 -> Values]
    BY <2>1, <2>2 DEF Values
  <2>6. \A i \in 0 .. cap - 1 : [j \in 0 .. c - 1 |-> IF j < cap THEN old[j] ELSE Junk][i] = old[i]
    BY <2>1, <2>2
  <2>. QED
    BY <2>2, <2>3, <2>4, <2>5, <2>6 DEF WellSized
<1>. QED
  BY <1>1, <1>2

(* vsnprintf writes characters and the 0 only.                             *)
LEMMA FormattedType ==
  ASSUME NEW c \in Int, NEW d \in [0 .. c - 1 -> Values], NEW s \in Strings, NEW room \in Int, len \in Nat
  PROVE  Formatted(d, s, room) \in [0 .. c - 1 -> Values]
<1>1. s \in Seq(Elements)
  BY ElementsAssumption
<1>. QED
  BY <1>1 DEF Formatted, Values

-----------------------------------------------------------------------------
(* What an operation that reserves room for n elements can do: stop the    *)
(* process and change nothing else, or go on with the rest of the macro.   *)
LEMMA StopKeepsInv ==
  ASSUME BufInv, NEW reason \in {"assertion", "no_memory"}, Stop(reason)
  PROVE  BufInv'
BY DEF BufInv, BufTypeOK, BlockHoldsElements, Stop, Statuses

LEMMA BecomeKeepsInv ==
  ASSUME BufInv, NEW b, NEW new_len \in Nat, NEW elements, WellSized(b, new_len),
         elements \in [0 .. b.cap - 1 -> Values], Become(b, new_len, elements)
  PROVE  BufInv'
BY DEF BufInv, BufTypeOK, BlockHoldsElements, Become, WellSized, Values

(* The first attempt of buf_printf, and the buffer for the second one.     *)
FirstAttempt(s) == Formatted(data, s, cap - len)
Reserved(s)     == Fitted(FirstAttempt(s), RoomForText(s))

LEMMA ReservedForPush ==
  ASSUME BufInv, Fits(RoomForPush) \/ GrowAsserts(RoomForPush)
  PROVE  LET b == Fitted(data, RoomForPush)
         IN  /\ WellSized(b, len + 1) /\ len < b.cap /\ len \in Nat
             /\ \A i \in 0 .. cap - 1 : b.data[i] = data[i]
<1>1. len \in Nat /\ cap \in Nat /\ data \in [0 .. cap - 1 -> Values]
  BY DEF BufInv, BufTypeOK, Values
<1>2. RoomForPush = len + 1 /\ RoomForPush \in Nat /\ RoomForPush > 0
  BY <1>1 DEF RoomForPush
<1>3. /\ WellSized(Fitted(data, RoomForPush), RoomForPush)
      /\ \A i \in 0 .. cap - 1 : Fitted(data, RoomForPush).data[i] = data[i]
  BY <1>1, <1>2, FittedIsWellSized
<1>. QED
  BY <1>1, <1>2, <1>3 DEF WellSized

LEMMA ReservedForText ==
  ASSUME BufInv, NEW s \in Strings, Fits(RoomForText(s)) \/ GrowAsserts(RoomForText(s))
  PROVE  /\ WellSized(Reserved(s), len + 1 + Len(s)) /\ len \in Nat /\ Len(s) \in Nat
         /\ 1 + Len(s) <= Reserved(s).cap - len
         /\ \A i \in 0 .. cap - 1 : Reserved(s).data[i] = FirstAttempt(s)[i]
<1>1. len \in Nat /\ cap \in Nat /\ data \in [0 .. cap - 1 -> Values]
  BY DEF BufInv, BufTypeOK, Values
<1>2. Len(s) \in Nat
  BY ElementsAssumption
<1>3. FirstAttempt(s) \in [0 .. cap - 1 -> Values]
  BY <1>1, FormattedType DEF FirstAttempt
<1>4. RoomForText(s) = len + 1 + Len(s) /\ RoomForText(s) \in Nat /\ RoomForText(s) > 0
  BY <1>1, <1>2 DEF RoomForText
<1>5. /\ WellSized(Reserved(s), RoomForText(s))
      /\ \A i \in 0 .. cap - 1 : Reserved(s).data[i] = FirstAttempt(s)[i]
  BY <1>3, <1>4, FittedIsWellSized DEF Reserved
<1>. QED
  BY <1>1, <1>2, <1>4, <1>5 DEF WellSized

(* Push and Printf, with what they reserve for granted.                    *)
LEMMA PushOutcomes ==
  ASSUME BufInv, NEW v \in Elements, Push(v)
  PROVE  \/ \E reason \in {"assertion", "no_memory"} : Stop(reason)
         \/ /\ Fits(RoomForPush) \/ GrowAsserts(RoomForPush)
            /\ Become(Fitted(data, RoomForPush), len + 1,
                      [Fitted(data, RoomForPush).data EXCEPT ![len] = v])
<1>1. CASE ~ (Fits(RoomForPush) \/ GrowAsserts(RoomForPush))
  BY <1>1 DEF Push, Reserve
<1>2. CASE Fits(RoomForPush) \/ GrowAsserts(RoomForPush)
  BY <1>2, ReservedForPush DEF Push, Reserve
<1>. QED
  BY <1>1, <1>2

LEMMA PrintfOutcomes ==
  ASSUME BufInv, NEW s \in Strings, Printf(s)
  PROVE  \/ \E reason \in {"assertion", "no_memory"} : Stop(reason)
         \/ /\ Fits(RoomForText(s)) \/ GrowAsserts(RoomForText(s))
            /\ Become(Reserved(s), len + Len(s), Formatted(Reserved(s).data, s, Reserved(s).cap - len))
<1>1. CASE ~ (Fits(RoomForText(s)) \/ GrowAsserts(RoomForText(s)))
  BY <1>1 DEF Printf, Reserve
<1>2. CASE Fits(RoomForText(s)) \/ GrowAsserts(RoomForText(s))
  BY <1>2, ReservedForText DEF Printf, Reserve, Reserved, FirstAttempt
<1>. QED
  BY <1>1, <1>2

LEMMA InitInv == BufInit => BufInv
BY Sizes DEF BufInit, BufInv, BufTypeOK, BlockHoldsElements, Statuses

LEMMA StepInv ==
  ASSUME BufInv, [BufNext]_bufVars
  PROVE  BufInv'
<1>1. ASSUME NEW v \in Elements, Push(v)
      PROVE  BufInv'
  <2> DEFINE b == Fitted(data, RoomForPush)
  <2>1. CASE \E reason \in {"assertion", "no_memory"} : Stop(reason)
    BY <2>1, StopKeepsInv
  <2>2. CASE /\ Fits(RoomForPush) \/ GrowAsserts(RoomForPush)
             /\ Become(b, len + 1, [b.data EXCEPT ![len] = v])
    <3>1. WellSized(b, len + 1) /\ len < b.cap /\ len \in Nat
      BY <2>2, ReservedForPush
    <3> HIDE DEF b
    <3>2. [b.data EXCEPT ![len] = v] \in [0 .. b.cap - 1 -> Values]
      BY <3>1 DEF WellSized, Values
    <3>3. len + 1 \in Nat /\ Become(b, len + 1, [b.data EXCEPT ![len] = v])
      BY <2>2, <3>1
    <3> DEFINE elements == [b.data EXCEPT ![len] = v]
    <3> HIDE DEF elements
    <3>4. Become(b, len + 1, elements) /\ elements \in [0 .. b.cap - 1 -> Values]
      BY <3>2, <3>3 DEF elements
    <3>. QED
      BY <3>1, <3>3, <3>4, BecomeKeepsInv
  <2>. QED
    BY <1>1, <2>1, <2>2, PushOutcomes
<1>2. ASSUME NEW s \in Strings, Printf(s)
      PROVE  BufInv'
  <2> DEFINE b == Reserved(s)
  <2>1. CASE \E reason \in {"assertion", "no_memory"} : Stop(reason)
    BY <2>1, StopKeepsInv
  <2>2. CASE /\ Fits(RoomForText(s)) \/ GrowAsserts(RoomForText(s))
             /\ Become(b, len + Len(s), Formatted(b.data, s, b.cap - len))
    <3>1. WellSized(b, len + 1 + Len(s)) /\ len \in Nat /\ Len(s) \in Nat
      BY <2>2, ReservedForText
    <3> HIDE DEF b
    <3>2. Formatted(b.data, s, b.cap - len) \in [0 .. b.cap - 1 -> Values]
      BY <3>1, FormattedType, SMTT(30) DEF WellSized
    <3>3. WellSized(b, len + Len(s)) /\ len + Len(s) \in Nat
      BY <3>1 DEF WellSized
    <3>. QED
      BY <2>2, <3>2, <3>3, BecomeKeepsInv
  <2>. QED
    BY <1>2, <2>1, <2>2, PrintfOutcomes
<1>3. CASE Clear
  BY <1>3 DEF Clear, BufInv, BufTypeOK, BlockHoldsElements
<1>4. CASE Free
  BY <1>4, Sizes DEF Free, BufInv, BufTypeOK, BlockHoldsElements
<1>5. CASE Ended \/ UNCHANGED bufVars
  BY <1>5 DEF Ended, bufVars, BufInv, BufTypeOK, BlockHoldsElements
<1>. QED
  BY <1>1, <1>2, <1>3, <1>4, <1>5 DEF BufNext

(* The header describes the block and no element is written behind it,     *)
(* whatever is pushed, printed, cleared and freed (buf.h, buf.c).          *)
THEOREM BufTypeCorrect == BufSpec => []BufTypeOK
<1>1. BufInv => BufTypeOK
  BY DEF BufInv
<1>. QED
  BY InitInv, StepInv, <1>1, PTL DEF BufSpec

(* The size handed to malloc never wraps: the assertions of buf__grow are  *)
(* enough for every address space.                                         *)
THEOREM BlockIsLargeEnough == BufSpec => []BlockHoldsElements
<1>1. BufInv => BlockHoldsElements
  BY DEF BufInv
<1>. QED
  BY InitInv, StepInv, <1>1, PTL DEF BufSpec

-----------------------------------------------------------------------------
(* Refinement: the first len elements are the sequence of Text.            *)
LEMMA FirstElements ==
  ASSUME NEW c \in Nat, NEW n \in 0 .. c, NEW d \in [0 .. c - 1 -> Values]
  PROVE  LET t == [i \in 1 .. n |-> d[i - 1]]
         IN  t \in Seq(Values) /\ Len(t) = n /\ \A i \in 1 .. n : t[i] = d[i - 1]
<1>1. \A i \in 0 .. n - 1 : d[i] \in Values
  OBVIOUS
<1>2. [i \in 1 .. n |-> d[i - 1]] \in Seq(Values)
  BY <1>1
<1>3. Len([i \in 1 .. n |-> d[i - 1]]) = n
  BY <1>1, <1>2
<1>. QED
  BY <1>1, <1>2, <1>3

LEMMA ContentsType ==
  ASSUME BufInv
  PROVE  /\ Contents \in Seq(Values) /\ Len(Contents) = len
         /\ \A i \in 1 .. len : Contents[i] = data[i - 1]
<1>1. cap \in Nat /\ len \in 0 .. cap /\ data \in [0 .. cap - 1 -> Values]
  BY DEF BufInv, BufTypeOK, Values
<1>. QED
  BY <1>1, FirstElements DEF Contents

LEMMA NextContentsType ==
  ASSUME BufInv'
  PROVE  /\ Contents' \in Seq(Values) /\ Len(Contents') = len'
         /\ \A i \in 1 .. len' : Contents'[i] = data'[i - 1]
<1>1. BufTypeOK'
  BY DEF BufInv
<1>2. cap' \in Nat /\ len' \in Nat /\ len' <= cap'
  BY <1>1 DEF BufTypeOK
<1>3. data' \in [0 .. cap' - 1 -> Values]
  BY <1>1 DEF BufTypeOK, Values
<1>4. len' \in 0 .. cap'
  BY <1>2
<1>5. Contents' = [i \in 1 .. len' |-> data'[i - 1]]
  BY DEF Contents
<1>. QED
  BY <1>2, <1>3, <1>4, <1>5, FirstElements

LEMMA SameContents ==
  ASSUME UNCHANGED <<len, data>>
  PROVE  UNCHANGED Contents
BY DEF Contents

(* buf_push.                                                               *)
LEMMA PushAppends ==
  ASSUME BufInv, BufInv', NEW v \in Elements,
         Fits(RoomForPush) \/ GrowAsserts(RoomForPush),
         Become(Fitted(data, RoomForPush), len + 1, [Fitted(data, RoomForPush).data EXCEPT ![len] = v])
  PROVE  Contents' = Append(Contents, v)
<1> DEFINE b == Fitted(data, RoomForPush)
<1>1. /\ WellSized(b, len + 1) /\ len < b.cap /\ len \in Nat
      /\ \A i \in 0 .. cap - 1 : b.data[i] = data[i]
  BY ReservedForPush
<1>2. len' = len + 1 /\ data' = [b.data EXCEPT ![len] = v]
  BY DEF Become
<1> HIDE DEF b
<1>3. len <= cap /\ cap \in Nat
  BY DEF BufInv, BufTypeOK
<1>4. \A i \in 0 .. len - 1 : data'[i] = data[i]
  BY <1>1, <1>2, <1>3 DEF WellSized
<1>5. data'[len] = v
  BY <1>1, <1>2 DEF WellSized
<1>6. /\ Contents \in Seq(Values) /\ Len(Contents) = len
      /\ \A i \in 1 .. len : Contents[i] = data[i - 1]
  BY ContentsType
<1>7. /\ Contents' \in Seq(Values) /\ Len(Contents') = len'
      /\ \A i \in 1 .. len' : Contents'[i] = data'[i - 1]
  BY NextContentsType
<1> DEFINE pushed == Append(Contents, v)
<1>8. /\ pushed \in Seq(Values) /\ Len(pushed) = len + 1
      /\ \A i \in 1 .. len : pushed[i] = Contents[i]
      /\ pushed[len + 1] = v
  BY <1>6, v \in Values, AppendProperties DEF Values
<1> HIDE DEF pushed
<1>9. \A i \in 1 .. len + 1 : Contents'[i] = pushed[i]
  <2>1. ASSUME NEW i \in 1 .. len
        PROVE  Contents'[i] = pushed[i]
    <3>1. i \in 1 .. len' /\ i - 1 \in 0 .. len - 1
      BY <1>1, <1>2
    <3>. QED
      BY <3>1, <1>4, <1>6, <1>7, <1>8
  <2>2. Contents'[len + 1] = pushed[len + 1]
    BY <1>1, <1>2, <1>5, <1>7, <1>8
  <2>. QED
    BY <2>1, <2>2, <1>1
<1>10. Contents' = pushed
  BY <1>1, <1>2, <1>7, <1>8, <1>9, SeqEqual
<1>. QED
  BY <1>10 DEF pushed

(* What vsnprintf leaves if the room is enough: the elements before it,    *)
(* then the text.                                                          *)
LEMMA FormattedElements ==
  ASSUME NEW c \in Nat, NEW d \in [0 .. c - 1 -> Values], NEW s \in Strings,
         len \in Nat, len <= c
  PROVE  /\ \A room \in Int : \A i \in 0 .. len - 1 : Formatted(d, s, room)[i] = d[i]
         /\ 1 + Len(s) <= c - len =>
              \A i \in 1 .. Len(s) : Formatted(d, s, c - len)[len + i - 1] = s[i]
<1>1. Len(s) \in Nat
  BY ElementsAssumption
<1>2. ASSUME NEW room \in Int, NEW i \in 0 .. len - 1
      PROVE  Formatted(d, s, room)[i] = d[i]
  BY DEF Formatted
<1>3. ASSUME 1 + Len(s) <= c - len, NEW i \in 1 .. Len(s)
      PROVE  Formatted(d, s, c - len)[len + i - 1] = s[i]
  <2> DEFINE k == len + i - 1
  <2>1. k \in 0 .. c - 1 /\ ~ (k < len) /\ ~ (k >= len + (c - len)) /\ ~ (k > len + Len(s))
    BY <1>1, <1>3
  <2>2. k - len < Len(s) /\ k - len < (c - len) - 1 /\ k - len + 1 = i
    BY <1>1, <1>3
  <2> HIDE DEF k
  <2>3. Formatted(d, s, c - len)[k] = s[i]
    BY <2>1, <2>2 DEF Formatted
  <2>. QED
    BY <2>3 DEF k
<1>. QED
  BY <1>2, <1>3

(* buf_printf, in one attempt or in two.                                   *)
LEMMA PrintfExtends ==
  ASSUME BufInv, BufInv', NEW s \in Strings,
         Fits(RoomForText(s)) \/ GrowAsserts(RoomForText(s)),
         Become(Reserved(s), len + Len(s), Formatted(Reserved(s).data, s, Reserved(s).cap - len))
  PROVE  Contents' = Contents \o s
<1> DEFINE b == Reserved(s)
<1>1. /\ WellSized(b, len + 1 + Len(s)) /\ len \in Nat /\ Len(s) \in Nat
      /\ 1 + Len(s) <= b.cap - len
      /\ \A i \in 0 .. cap - 1 : b.data[i] = FirstAttempt(s)[i]
  BY ReservedForText
<1>2. len' = len + Len(s) /\ data' = Formatted(b.data, s, b.cap - len)
  BY DEF Become
<1> HIDE DEF b
<1>3. len <= cap /\ cap \in Nat /\ data \in [0 .. cap - 1 -> Values]
  BY DEF BufInv, BufTypeOK, Values
<1>4. b.cap \in Nat /\ len <= b.cap /\ b.data \in [0 .. b.cap - 1 -> Values]
  BY <1>1 DEF WellSized
<1>5. \A i \in 0 .. len - 1 : FirstAttempt(s)[i] = data[i]
  BY <1>1, <1>3, cap - len \in Int, FormattedElements DEF FirstAttempt
<1>6. \A i \in 0 .. len - 1 : data'[i] = b.data[i]
  BY <1>1, <1>2, <1>4, b.cap - len \in Int, FormattedElements
<1>7. \A i \in 0 .. len - 1 : data'[i] = data[i]
  BY <1>1, <1>3, <1>5, <1>6
<1>8. \A i \in 1 .. Len(s) : data'[len + i - 1] = s[i]
  BY <1>1, <1>2, <1>4, FormattedElements
<1>9. /\ Contents \in Seq(Values) /\ Len(Contents) = len
      /\ \A i \in 1 .. len : Contents[i] = data[i - 1]
  BY ContentsType
<1>10. /\ Contents' \in Seq(Values) /\ Len(Contents') = len'
       /\ \A i \in 1 .. len' : Contents'[i] = data'[i - 1]
  BY NextContentsType
<1>11. s \in Seq(Values)
  BY ElementsAssumption DEF Values
<1> DEFINE extended == Contents \o s
<1>12. /\ extended \in Seq(Values) /\ Len(extended) = len + Len(s)
       /\ \A i \in 1 .. len + Len(s) :
            extended[i] = IF i <= len THEN Contents[i] ELSE s[i - len]
  BY <1>9, <1>11, ConcatProperties
<1> HIDE DEF extended
<1>13. ASSUME NEW i \in 1 .. len + Len(s)
       PROVE  Contents'[i] = extended[i]
  <2>1. CASE i <= len
    BY <2>1, <1>1, <1>2, <1>7, <1>9, <1>10, <1>12
  <2>2. CASE i > len
    <3>1. i - len \in 1 .. Len(s) /\ len + (i - len) - 1 = i - 1
      BY <2>2, <1>1
    <3>2. data'[i - 1] = s[i - len]
      BY <3>1, <1>8
    <3>. QED
      BY <2>2, <3>2, <1>1, <1>2, <1>10, <1>12
  <2>. QED
    BY <2>1, <2>2, <1>1
<1>14. Contents' = extended
  BY <1>1, <1>2, <1>10, <1>12, <1>13, SeqEqual
<1>. QED
  BY <1>14 DEF extended

LEMMA StopIsAStop ==
  ASSUME BufInv, status = "running", NEW reason \in {"assertion", "no_memory"}, Stop(reason)
  PROVE  Seq1!Next
<1>1. UNCHANGED Contents
  BY SameContents DEF Stop
<1>2. status' # "running"
  BY DEF Stop
<1>. QED
  BY <1>1, <1>2 DEF Seq1!Next

LEMMA StepImplementsText ==
  ASSUME BufInv, BufInv', [BufNext]_bufVars
  PROVE  [Seq1!Next]_<<Contents, status # "running">>
<1>1. ASSUME NEW v \in Elements, Push(v)
      PROVE  Seq1!Next
  <2>1. status = "running"
    BY <1>1 DEF Push, Reserve
  <2>2. CASE \E reason \in {"assertion", "no_memory"} : Stop(reason)
    BY <2>1, <2>2, StopIsAStop
  <2>3. CASE /\ Fits(RoomForPush) \/ GrowAsserts(RoomForPush)
             /\ Become(Fitted(data, RoomForPush), len + 1,
                       [Fitted(data, RoomForPush).data EXCEPT ![len] = v])
    <3>1. Contents' = Append(Contents, v)
      BY <2>3, PushAppends
    <3>2. status' = status
      BY <2>3 DEF Become
    <3>. QED
      BY <2>1, <3>1, <3>2 DEF Seq1!Next, Seq1!Operation, Seq1!Append1
  <2>. QED
    BY <1>1, <2>2, <2>3, PushOutcomes
<1>2. ASSUME NEW s \in Strings, Printf(s)
      PROVE  Seq1!Next
  <2>1. status = "running"
    BY <1>2 DEF Printf, Reserve
  <2>2. CASE \E reason \in {"assertion", "no_memory"} : Stop(reason)
    BY <2>1, <2>2, StopIsAStop
  <2>3. CASE /\ Fits(RoomForText(s)) \/ GrowAsserts(RoomForText(s))
             /\ Become(Reserved(s), len + Len(s),
                       Formatted(Reserved(s).data, s, Reserved(s).cap - len))
    <3>1. Contents' = Contents \o s
      BY <2>3, PrintfExtends
    <3>2. status' = status
      BY <2>3 DEF Become
    <3>. QED
      BY <2>1, <3>1, <3>2 DEF Seq1!Next, Seq1!Operation, Seq1!Extend
  <2>. QED
    BY <1>2, <2>2, <2>3, PrintfOutcomes
<1>3. ASSUME Clear \/ Free
      PROVE  Seq1!Next
  <2>1. status = "running" /\ status' = status /\ len' = 0
    BY <1>3 DEF Clear, Free
  <2>2. Contents' = <<>>
    BY <2>1 DEF Contents
  <2>. QED
    BY <2>1, <2>2 DEF Seq1!Next, Seq1!Operation, Seq1!Empty
<1>4. ASSUME Ended \/ UNCHANGED bufVars
      PROVE  UNCHANGED <<Contents, status # "running">>
  BY <1>4, SameContents DEF Ended, bufVars
<1>. QED
  BY <1>1, <1>2, <1>3, <1>4 DEF BufNext

(* A buffer is a sequence to its user: pushing, printing, clearing and     *)
(* freeing do to it what they say, whenever the block is moved, and a      *)
(* failed assertion or malloc ends the process (buf.h:19-41, buf.c).       *)
THEOREM BufImplementsText == BufSpec => ImplementsText
<1>1. BufInit => Seq1!Init
  BY DEF BufInit, Seq1!Init, Contents
<1>2. BufInv /\ BufInv' /\ [BufNext]_bufVars => [Seq1!Next]_<<Contents, status # "running">>
  BY StepImplementsText
<1>. QED
  BY InitInv, StepInv, <1>1, <1>2, PTL DEF BufSpec, ImplementsText, Seq1!Spec

-----------------------------------------------------------------------------
(* When the assertions of buf__grow fail.                                  *)
LEMMA QuotientExceeded ==
  ASSUME NEW space \in Nat, NEW size \in Nat, size > 0, NEW c \in Nat, ~ (c <= space \div size)
  PROVE  c * size > space
<1>1. /\ space = size * (space \div size) + (space % size)
      /\ space % size < size /\ space \div size \in Nat
  OBVIOUS
<1>2. c * size >= (space \div size + 1) * size
  BY <1>1
<1>. QED
  BY <1>1, <1>2

TooLarge(n) == HdrSize + n * ElemSize > SizeMax

LEMMA AssertionMeansTooLarge ==
  ASSUME cap \in Nat, NEW n \in Nat, ~ GrowAsserts(n)
  PROVE  \E m \in {2 * cap, MinCap, n} : TooLarge(m)
<1>1. CASE ~ (2 * cap <= SizeMax - 1)
  <2>1. (2 * cap) * ElemSize >= 2 * cap
    BY Sizes
  <2>2. (2 * cap) * ElemSize \in Nat /\ HdrSize > 0
    BY Sizes, SizesAssumption
  <2>3. TooLarge(2 * cap)
    BY <1>1, <2>1, <2>2, Sizes DEF TooLarge
  <2>. QED
    BY <2>3
<1>2. CASE ~ (NewCap(n) <= (SizeMax - HdrSize) \div ElemSize)
  <2>1. NewCap(n) \in Nat /\ NewCap(n) \in {2 * cap, MinCap, n}
    BY Sizes DEF NewCap, AtLeast
  <2>2. NewCap(n) * ElemSize > SizeMax - HdrSize /\ NewCap(n) * ElemSize \in Nat
    BY <1>2, <2>1, Sizes, QuotientExceeded
  <2>3. TooLarge(NewCap(n))
    BY <2>2, Sizes DEF TooLarge
  <2>. QED
    BY <2>1, <2>3
<1>3. n <= NewCap(n)
  BY NewCapBounds
<1>. QED
  BY <1>1, <1>2, <1>3 DEF GrowAsserts

LEMMA StepGivesUp ==
  ASSUME BufInv, [BufNext]_bufVars, status = "running", status' = "assertion"
  PROVE  \E n \in {2 * cap, MinCap, len + 1} \cup {len + 1 + Len(s) : s \in Strings} : TooLarge(n)
<1>1. len \in Nat /\ cap \in Nat
  BY DEF BufInv, BufTypeOK
<1>2. ASSUME NEW v \in Elements, Push(v)
      PROVE  ~ GrowAsserts(len + 1)
  <2>1. CASE Fits(RoomForPush) \/ GrowAsserts(RoomForPush)
    <3>1. len < Fitted(data, RoomForPush).cap
      BY <2>1, ReservedForPush
    <3>. QED
      BY <1>2, <2>1, <3>1 DEF Push, Reserve, Become, Stop
  <2>2. RoomForPush = len + 1
    BY <1>1 DEF RoomForPush
  <2>. QED
    BY <2>1, <2>2
<1>3. ASSUME NEW s \in Strings, Printf(s)
      PROVE  Len(s) \in Nat /\ ~ GrowAsserts(len + 1 + Len(s))
  <2>1. Len(s) \in Nat
    BY ElementsAssumption
  <2>2. CASE Fits(RoomForText(s)) \/ GrowAsserts(RoomForText(s))
    <3>1. 1 + Len(s) <= Reserved(s).cap - len
      BY <2>2, ReservedForText
    <3>. QED
      BY <1>3, <2>2, <3>1 DEF Printf, Reserve, Become, Stop, Reserved, FirstAttempt
  <2>3. RoomForText(s) = len + 1 + Len(s)
    BY <1>1, <2>1 DEF RoomForText
  <2>. QED
    BY <2>1, <2>2, <2>3
<1>4. ~ (Clear \/ Free \/ Ended \/ UNCHANGED bufVars)
  BY DEF Clear, Free, Ended, bufVars
<1>5. \/ \E v \in Elements : Push(v)
      \/ \E s \in Strings : Printf(s)
  BY <1>4 DEF BufNext
<1>6. CASE \E v \in Elements : Push(v)
  <2>1. len + 1 \in Nat /\ ~ GrowAsserts(len + 1)
    BY <1>1, <1>2, <1>6
  <2>. QED
    BY <1>1, <2>1, AssertionMeansTooLarge
<1>7. CASE \E s \in Strings : Printf(s)
  <2>1. PICK s \in Strings : Printf(s)
    BY <1>7
  <2>2. len + 1 + Len(s) \in Nat /\ ~ GrowAsserts(len + 1 + Len(s))
    BY <1>1, <1>3, <2>1
  <2>. QED
    BY <1>1, <2>2, AssertionMeansTooLarge
<1>. QED
  BY <1>5, <1>6, <1>7

(* The assertions stop no program whose block a size_t could express       *)
(* (buf.c:14-17).                                                          *)
THEOREM GivesUpOnlyIfTooLarge == BufSpec => GivesUpOnlyAtSizeMax
<1>1. BufInv /\ [BufNext]_bufVars =>
        [status = "running" /\ status' = "assertion" =>
           \E n \in {2 * cap, MinCap, len + 1} \cup {len + 1 + Len(s) : s \in Strings} :
             HdrSize + n * ElemSize > SizeMax]_bufVars
  BY StepGivesUp DEF TooLarge
<1>. QED
  BY InitInv, StepInv, <1>1, PTL DEF BufSpec, GivesUpOnlyAtSizeMax
=============================================================================
