---------------------------- MODULE TokensProofs ----------------------------
(***************************************************************************)
(* Theorems about parse and parseLine of Tokens, for texts of any length.  *)
(***************************************************************************)
EXTENDS Tokens, FiniteSetTheorems, TLAPS

-----------------------------------------------------------------------------
(* Numbers in ascending order.                                             *)
LEMMA Smallest ==
  ASSUME NEW T \in SUBSET Nat, T # {}
  PROVE  \E x \in T : \A y \in T : x <= y
<1> DEFINE L == OpToRel(<, Nat)
<1>1. IsWellFoundedOn(L, Nat)
  BY NatLessThanWellFounded
<1>2. \A x, y \in Nat : x < y => <<x, y>> \in L
  BY DEF OpToRel
<1> HIDE DEF L
<1>3. PICK x \in T : \A y \in T : ~ (<<y, x>> \in L)
  BY <1>1, WFMin
<1>4. ASSUME NEW y \in T PROVE x <= y
  <2>1. x \in Nat /\ y \in Nat
    OBVIOUS
  <2>2. ~ (y < x)
    BY <1>2, <1>3, <2>1
  <2>. QED  BY <2>1, <2>2
<1>. QED
  BY <1>4

LEMMA MinIs ==
  ASSUME NEW T \in SUBSET Nat, NEW x \in T, \A y \in T : x <= y
  PROVE  Min(T) = x
<1>1. \A z \in T : (\A y \in T : z <= y) => z = x
  OBVIOUS
<1>. QED
  BY <1>1 DEF Min

LEMMA MinExists ==
  ASSUME NEW T \in SUBSET Nat, T # {}
  PROVE  Min(T) \in T /\ \A y \in T : Min(T) <= y
<1>1. PICK x \in T : \A y \in T : x <= y
  BY Smallest
<1>. QED
  BY <1>1, MinIs

Within(S, N) == N \in Nat /\ \A y \in S : y \in Nat /\ y <= N

LEMMA BelowFinite ==
  ASSUME NEW N, NEW S, Within(S, N)
  PROVE  /\ IsFiniteSet(S) /\ Cardinality(S) \in Nat
         /\ \A x : /\ IsFiniteSet(Below(S, x)) /\ Cardinality(Below(S, x)) \in Nat
                   /\ Cardinality(Below(S, x)) <= Cardinality(S)
<1>1. IsFiniteSet(S)
  <2>1. S \in SUBSET Nat
    BY DEF Within
  <2>. QED
    BY <2>1, FS_BoundedSetOfNaturals DEF Within
<1>2. ASSUME NEW x
      PROVE  IsFiniteSet(Below(S, x)) /\ Cardinality(Below(S, x)) <= Cardinality(S)
  <2>1. Below(S, x) \in SUBSET S
    BY DEF Below, Within
  <2>. QED
    BY <1>1, <2>1, FS_Subset
<1>. QED
  BY <1>1, <1>2, FS_CardinalityType

LEMMA BelowNext ==
  ASSUME NEW N, NEW S, Within(S, N), NEW x \in Nat
  PROVE  Cardinality(Below(S, x + 1)) = Cardinality(Below(S, x)) + (IF x \in S THEN 1 ELSE 0)
<1>1. IsFiniteSet(Below(S, x)) /\ Cardinality(Below(S, x)) \in Nat
  BY BelowFinite
<1>2. CASE x \in S
  <2>1. Below(S, x + 1) = Below(S, x) \cup {x}
    <3>1. \A y \in S : y \in Nat
      BY DEF Within
    <3>2. \A y : y \in Below(S, x + 1) <=> y \in S /\ (y < x \/ y = x)
      BY <3>1 DEF Below
    <3>3. \A y : y \in Below(S, x) \cup {x} <=> y \in S /\ (y < x \/ y = x)
      BY <1>2, <3>1 DEF Below
    <3>. QED
      BY <3>2, <3>3
  <2>2. x \notin Below(S, x)
    BY DEF Below
  <2>. QED
    BY <1>1, <1>2, <2>1, <2>2, FS_AddElement
<1>3. CASE x \notin S
  <2>1. Below(S, x + 1) = Below(S, x)
    BY <1>3 DEF Below, Within
  <2>. QED
    BY <1>1, <1>3, <2>1
<1>. QED
  BY <1>2, <1>3

LEMMA BelowStrict ==
  ASSUME NEW N, NEW S, Within(S, N), NEW x \in S, NEW y \in Nat, x < y
  PROVE  Cardinality(Below(S, x)) < Cardinality(Below(S, y))
<1>1. x \in Nat /\ Cardinality(Below(S, x + 1)) = Cardinality(Below(S, x)) + 1
  BY BelowNext DEF Within
<1>2. Below(S, x + 1) \in SUBSET Below(S, y)
  BY DEF Below, Within
<1>3. Cardinality(Below(S, x + 1)) <= Cardinality(Below(S, y))
  BY <1>2, BelowFinite, FS_Subset
<1>. QED
  BY <1>1, <1>3, BelowFinite

LEMMA NthIs ==
  ASSUME NEW N, NEW S, Within(S, N), NEW x \in S
  PROVE  Nth(S, Cardinality(Below(S, x)) + 1) = x
<1>1. \A y \in S : Cardinality(Below(S, y)) = Cardinality(Below(S, x)) => y = x
  <2>1. ASSUME NEW y \in S, Cardinality(Below(S, y)) = Cardinality(Below(S, x)) PROVE y = x
    <3>1. y \in Nat /\ x \in Nat
      BY DEF Within
    <3>2. Cardinality(Below(S, x)) \in Nat
      BY BelowFinite
    <3>3. ~ (y < x)
      BY <2>1, <3>1, <3>2, BelowStrict
    <3>4. ~ (x < y)
      BY <2>1, <3>1, <3>2, BelowStrict
    <3>. QED  BY <3>1, <3>3, <3>4
  <2>. QED  BY <2>1
<1>2. PICK k : k = Cardinality(Below(S, x)) + 1
  OBVIOUS
<1>3. k - 1 = Cardinality(Below(S, x))
  BY <1>2, BelowFinite
<1>4. Nth(S, k) \in S /\ Cardinality(Below(S, Nth(S, k))) = k - 1
  BY <1>3, Zenon DEF Nth
<1>5. Nth(S, k) = x
  BY <1>1, <1>3, <1>4
<1>. QED
  BY <1>2, <1>5

LEMMA NthExists ==
  ASSUME NEW N, NEW S, Within(S, N), NEW k \in 1 .. Cardinality(S)
  PROVE  Nth(S, k) \in S /\ Cardinality(Below(S, Nth(S, k))) = k - 1
<1> DEFINE T == {y \in Nat : Cardinality(Below(S, y)) >= k}
<1>1. Below(S, N + 1) = S /\ Below(S, 0) = {}
  BY DEF Below, Within
<1>2. N + 1 \in T /\ 0 \notin T
  BY <1>1, BelowFinite, FS_EmptySet DEF Within
<1>3. PICK y \in T : \A z \in T : y <= z
  BY <1>2, Smallest
<1>4. y - 1 \in Nat /\ y - 1 \notin T /\ (y - 1) + 1 = y
  BY <1>2, <1>3
<1>5. y - 1 \in S /\ Cardinality(Below(S, y - 1)) = k - 1
  BY <1>3, <1>4, BelowNext, BelowFinite
<1>6. Nth(S, k) = y - 1
  BY <1>4, <1>5, NthIs
<1>. QED
  BY <1>5, <1>6

LEMMA InOrderType ==
  ASSUME NEW N, NEW S, Within(S, N)
  PROVE  /\ InOrder(S) \in Seq(S) /\ Len(InOrder(S)) = Cardinality(S)
         /\ DOMAIN InOrder(S) = 1 .. Cardinality(S) /\ Cardinality(S) \in Nat
<1>1. InOrder(S) \in [1 .. Cardinality(S) -> S] /\ Cardinality(S) \in Nat
  BY NthExists, BelowFinite DEF InOrder
<1>. QED
  BY <1>1

(* A greater number comes last.                                            *)
LEMMA InOrderAdd ==
  ASSUME NEW N, NEW S, Within(S, N), NEW m \in 0 .. N, \A x \in S : x < m
  PROVE  /\ Cardinality(S \cup {m}) = Cardinality(S) + 1
         /\ InOrder(S \cup {m}) = Append(InOrder(S), m)
<1> DEFINE T == S \cup {m}
<1>1. Within(T, N) /\ m \in T /\ m \notin S
  BY DEF Within
<1>2. Cardinality(T) = Cardinality(S) + 1 /\ Cardinality(S) \in Nat
  BY <1>1, BelowFinite, FS_AddElement
<1>3. Below(T, m) = S /\ \A x \in S : Below(T, x) = Below(S, x)
  BY DEF Below, Within
<1>4. Nth(T, Cardinality(S) + 1) = m
  BY <1>1, <1>3, NthIs
<1>5. ASSUME NEW k \in 1 .. Cardinality(S) PROVE Nth(T, k) = Nth(S, k)
  <2>1. Nth(S, k) \in S /\ Cardinality(Below(S, Nth(S, k))) = k - 1
    BY NthExists
  <2>2. Nth(S, k) \in T /\ Cardinality(Below(T, Nth(S, k))) + 1 = k
    BY <1>3, <2>1
  <2>. QED
    BY <1>1, <2>2, NthIs
<1>6. /\ InOrder(S) \in Seq(S) /\ Len(InOrder(S)) = Cardinality(S)
      /\ \A k \in 1 .. Cardinality(S) : InOrder(S)[k] = Nth(S, k)
  BY InOrderType DEF InOrder
<1>7. /\ InOrder(T) \in Seq(T) /\ Len(InOrder(T)) = Cardinality(T)
      /\ \A k \in 1 .. Cardinality(T) : InOrder(T)[k] = Nth(T, k)
  BY <1>1, InOrderType DEF InOrder
<1>8. Append(InOrder(S), m) \in Seq(T)
  BY <1>1, <1>6
<1> HIDE DEF T
<1>9. InOrder(T) = Append(InOrder(S), m)
  BY <1>2, <1>4, <1>5, <1>6, <1>7, <1>8
<1>. QED
  BY <1>2, <1>9 DEF T

-----------------------------------------------------------------------------
(* One more character.                                                     *)
LEMMA AppendFacts ==
  ASSUME NEW s \in Seq(Characters), NEW c \in Characters
  PROVE  /\ Append(s, c) \in Seq(Characters) /\ Len(s) \in Nat /\ Len(Append(s, c)) = Len(s) + 1
         /\ DOMAIN s = 1 .. Len(s) /\ DOMAIN Append(s, c) = 1 .. Len(s) + 1
         /\ \A i \in 1 .. Len(s) : Append(s, c)[i] = s[i]
         /\ Append(s, c)[Len(s) + 1] = c
OBVIOUS

LEMMA SubSeqFacts ==
  ASSUME NEW s \in Seq(Characters), NEW a \in 1 .. Len(s) + 1, NEW b \in 0 .. Len(s), a <= b + 1
  PROVE  /\ SubSeq(s, a, b) \in Seq(Characters) /\ Len(SubSeq(s, a, b)) = b - a + 1
         /\ \A i \in 1 .. b - a + 1 : SubSeq(s, a, b)[i] = s[a + i - 1]
OBVIOUS

LEMMA SameSequence ==
  ASSUME NEW s \in Seq(Characters), NEW t \in Seq(Characters), Len(s) = Len(t),
         \A i \in 1 .. Len(s) : s[i] = t[i]
  PROVE  s = t
OBVIOUS

LEMMA AppendIs ==
  ASSUME NEW S, NEW s \in Seq(S), NEW t \in Seq(S), NEW x \in S, Len(t) = Len(s) + 1,
         \A k \in 1 .. Len(s) : t[k] = s[k], t[Len(s) + 1] = x
  PROVE  t = Append(s, x)
OBVIOUS

LEMMA SubSeqAppend ==
  ASSUME NEW s \in Seq(Characters), NEW c \in Characters,
         NEW a \in 1 .. Len(s) + 1, NEW b \in 0 .. Len(s), a <= b + 1
  PROVE  /\ SubSeq(Append(s, c), a, b) = SubSeq(s, a, b)
         /\ SubSeq(Append(s, c), a, Len(s) + 1) = Append(SubSeq(s, a, Len(s)), c)
<1> DEFINE t == Append(s, c)
<1>1. /\ t \in Seq(Characters) /\ Len(t) = Len(s) + 1 /\ Len(s) \in Nat
      /\ \A i \in 1 .. Len(s) : t[i] = s[i]
      /\ t[Len(s) + 1] = c
  BY AppendFacts
<1> HIDE DEF t
<1>2. SubSeq(t, a, b) = SubSeq(s, a, b)
  <2>1. /\ SubSeq(t, a, b) \in Seq(Characters) /\ Len(SubSeq(t, a, b)) = b - a + 1
        /\ \A i \in 1 .. b - a + 1 : SubSeq(t, a, b)[i] = t[a + i - 1]
    BY <1>1, SubSeqFacts
  <2>2. /\ SubSeq(s, a, b) \in Seq(Characters) /\ Len(SubSeq(s, a, b)) = b - a + 1
        /\ \A i \in 1 .. b - a + 1 : SubSeq(s, a, b)[i] = s[a + i - 1]
    BY SubSeqFacts
  <2>3. \A i \in 1 .. b - a + 1 : t[a + i - 1] = s[a + i - 1]
    BY <1>1
  <2>. QED
    BY <2>1, <2>2, <2>3, SameSequence
<1>3. SubSeq(t, a, Len(s) + 1) = Append(SubSeq(s, a, Len(s)), c)
  <2>1. /\ SubSeq(t, a, Len(t)) \in Seq(Characters) /\ Len(SubSeq(t, a, Len(t))) = Len(t) - a + 1
        /\ \A i \in 1 .. Len(t) - a + 1 : SubSeq(t, a, Len(t))[i] = t[a + i - 1]
    BY <1>1, SubSeqFacts
  <2>2. /\ SubSeq(s, a, Len(s)) \in Seq(Characters) /\ Len(SubSeq(s, a, Len(s))) = Len(s) - a + 1
        /\ \A i \in 1 .. Len(s) - a + 1 : SubSeq(s, a, Len(s))[i] = s[a + i - 1]
    BY <1>1, SubSeqFacts
  <2>3. PICK r : r = Append(SubSeq(s, a, Len(s)), c)
    OBVIOUS
  <2>4. /\ r \in Seq(Characters) /\ Len(r) = Len(s) - a + 2
        /\ \A i \in 1 .. Len(s) - a + 1 : r[i] = s[a + i - 1]
        /\ r[Len(s) - a + 2] = c
    BY <1>1, <2>2, <2>3, AppendFacts
  <2>5. \A i \in 1 .. Len(t) - a + 1 : t[a + i - 1] = r[i]
    <3> SUFFICES ASSUME NEW i \in 1 .. Len(t) - a + 1 PROVE t[a + i - 1] = r[i]
      OBVIOUS
    <3>1. CASE i = Len(s) - a + 2
      BY <1>1, <2>4, <3>1
    <3>2. CASE i # Len(s) - a + 2
      <4>1. i \in 1 .. Len(s) - a + 1 /\ a + i - 1 \in 1 .. Len(s)
        BY <1>1, <3>2
      <4>. QED
        BY <1>1, <2>4, <4>1
    <3>. QED
      BY <3>1, <3>2
  <2>. QED
    BY <1>1, <2>1, <2>3, <2>4, <2>5, SameSequence
<1>. QED
  BY <1>2, <1>3 DEF t

LEMMA PositionsWithin ==
  ASSUME NEW s \in Seq(Characters), NEW d
  PROVE  Within(Positions(s, d), Len(s)) /\ Below(Positions(s, d), Len(s) + 1) = Positions(s, d)
BY DEF Positions, Within, Below

LEMMA InStringAppend ==
  ASSUME NEW s \in Seq(Characters), NEW c \in Characters
  PROVE  /\ \A i \in 0 .. Len(s) + 1 : InString(Append(s, c), i) <=> InString(s, i)
         /\ InString(Append(s, c), Len(s) + 2) <=> (InString(s, Len(s) + 1) <=> c # "quote")
<1> DEFINE t == Append(s, c)
           q == Positions(s, "quote")
           r == Positions(t, "quote")
<1>1. /\ t \in Seq(Characters) /\ Len(s) \in Nat /\ Len(t) = Len(s) + 1
      /\ DOMAIN s = 1 .. Len(s) /\ DOMAIN t = 1 .. Len(s) + 1
      /\ \A i \in 1 .. Len(s) : t[i] = s[i]
      /\ t[Len(s) + 1] = c
  BY AppendFacts
<1>2. /\ \A x : x \in q <=> x \in 1 .. Len(s) /\ s[x] = "quote"
      /\ \A x : x \in r <=> x \in 1 .. Len(s) + 1 /\ t[x] = "quote"
  BY <1>1 DEF Positions
<1>3. Within(r, Len(s) + 1) /\ Within(q, Len(s))
  BY <1>1, PositionsWithin
<1> HIDE DEF t, q, r
<1>4. \A i \in 0 .. Len(s) + 1 : Below(r, i) = Below(q, i)
  BY <1>1, <1>2 DEF Below
<1>5. Cardinality(Below(r, Len(s) + 2)) = Cardinality(Below(r, Len(s) + 1)) + (IF c = "quote" THEN 1 ELSE 0)
  <2>1. Len(s) + 1 \in r <=> c = "quote"
    BY <1>1, <1>2
  <2>2. Cardinality(Below(r, (Len(s) + 1) + 1)) =
          Cardinality(Below(r, Len(s) + 1)) + (IF Len(s) + 1 \in r THEN 1 ELSE 0)
    BY <1>1, <1>3, BelowNext, SMTT(30)
  <2>. QED
    BY <1>1, <2>1, <2>2
<1>6. Cardinality(Below(q, Len(s) + 1)) \in Nat
  BY <1>3, BelowFinite
<1>7. Cardinality(Below(r, Len(s) + 2)) = Cardinality(Below(q, Len(s) + 1)) + (IF c = "quote" THEN 1 ELSE 0)
  BY <1>1, <1>4, <1>5
<1>8. \A n \in Nat : (n + 1) % 2 = 1 <=> n % 2 # 1
  OBVIOUS
<1>9. Cardinality(Below(r, Len(s) + 2)) % 2 = 1 <=> (Cardinality(Below(q, Len(s) + 1)) % 2 = 1 <=> c # "quote")
  BY <1>6, <1>7, <1>8
<1>. QED
  BY <1>4, <1>9 DEF InString, t, q, r

LEMMA CommentsAppend ==
  ASSUME NEW s \in Seq(Characters), NEW c \in Characters
  PROVE  /\ Comments(Append(s, c)) =
              Comments(s) \cup (IF c = "semi" /\ ~ InString(s, Len(s) + 1) THEN {Len(s) + 1} ELSE {})
         /\ \A i \in Comments(s) : i \in 1 .. Len(s)
<1> DEFINE t == Append(s, c)
<1>1. /\ t \in Seq(Characters) /\ Len(s) \in Nat /\ Len(t) = Len(s) + 1
      /\ DOMAIN s = 1 .. Len(s) /\ DOMAIN t = 1 .. Len(s) + 1
      /\ \A i \in 1 .. Len(s) : t[i] = s[i]
      /\ t[Len(s) + 1] = c
  BY AppendFacts
<1>2. \A i \in 0 .. Len(s) + 1 : InString(t, i) <=> InString(s, i)
  BY InStringAppend
<1> HIDE DEF t
<1>3. \A x : x \in Comments(s) <=> x \in 1 .. Len(s) /\ s[x] = "semi" /\ ~ InString(s, x)
  BY <1>1 DEF Comments, Positions
<1>4. \A x : x \in Comments(t) <=> x \in 1 .. Len(s) + 1 /\ t[x] = "semi" /\ ~ InString(t, x)
  BY <1>1 DEF Comments, Positions
<1>5. \A x : x \in Comments(t) <=> x \in Comments(s) \/ (x = Len(s) + 1 /\ c = "semi" /\ ~ InString(s, Len(s) + 1))
  BY <1>1, <1>2, <1>3, <1>4
<1>. QED
  BY <1>3, <1>5 DEF t

LEMMA UncommentedAppend ==
  ASSUME NEW s \in Seq(Characters), NEW c \in Characters
  PROVE  /\ Comments(s) # {} => Uncommented(Append(s, c)) = Uncommented(s)
         /\ Comments(s) = {} /\ c = "semi" /\ ~ InString(s, Len(s) + 1) => Uncommented(Append(s, c)) = s
         /\ Comments(s) = {} /\ ~ (c = "semi" /\ ~ InString(s, Len(s) + 1)) =>
              Comments(Append(s, c)) = {} /\ Uncommented(Append(s, c)) = Append(s, c)
<1> DEFINE t == Append(s, c)
<1>1. Len(s) \in Nat /\ t \in Seq(Characters) /\ \A i \in Comments(s) : i \in 1 .. Len(s)
  BY AppendFacts, CommentsAppend
<1>2. ASSUME Comments(s) # {}
      PROVE  Uncommented(t) = Uncommented(s)
  <2>1. Comments(s) \in SUBSET Nat /\ Comments(t) \in SUBSET Nat
    BY <1>1, CommentsAppend
  <2>2. Min(Comments(s)) \in Comments(s) /\ \A y \in Comments(s) : Min(Comments(s)) <= y
    BY <1>2, <2>1, MinExists
  <2>3. Min(Comments(s)) \in Comments(t) /\ \A y \in Comments(t) : Min(Comments(s)) <= y
    BY <1>1, <2>2, CommentsAppend
  <2>4. Min(Comments(t)) = Min(Comments(s)) /\ Min(Comments(s)) \in 1 .. Len(s)
    BY <1>1, <2>1, <2>2, <2>3, MinIs
  <2>5. SubSeq(t, 1, Min(Comments(s)) - 1) = SubSeq(s, 1, Min(Comments(s)) - 1)
    <3>1. PICK b : b = Min(Comments(s)) - 1
      OBVIOUS
    <3>2. b \in 0 .. Len(s) /\ 1 \in 1 .. Len(s) + 1 /\ 1 <= b + 1
      BY <1>1, <2>4, <3>1
    <3>. QED
      BY <3>1, <3>2, SubSeqAppend
  <2>. QED
    BY <1>2, <2>3, <2>4, <2>5 DEF Uncommented
<1>3. ASSUME Comments(s) = {}, c = "semi", ~ InString(s, Len(s) + 1)
      PROVE  Uncommented(t) = s
  <2>1. Comments(t) = {Len(s) + 1}
    BY <1>3, CommentsAppend
  <2>2. Min(Comments(t)) = Len(s) + 1
    BY <1>1, <2>1, MinIs
  <2>3. SubSeq(t, 1, Len(s)) = SubSeq(s, 1, Len(s))
    BY <1>1, SubSeqAppend
  <2>4. SubSeq(s, 1, Len(s)) = s
    BY <1>1, SubSeqFacts, SameSequence
  <2>5. Min(Comments(t)) - 1 = Len(s) /\ Comments(t) # {}
    BY <1>1, <2>1, <2>2
  <2>. QED
    BY <2>3, <2>4, <2>5 DEF Uncommented
<1>4. ASSUME Comments(s) = {}, ~ (c = "semi" /\ ~ InString(s, Len(s) + 1))
      PROVE  Comments(t) = {} /\ Uncommented(t) = t
  BY <1>4, CommentsAppend DEF Uncommented
<1>. QED
  BY <1>2, <1>3, <1>4

-----------------------------------------------------------------------------
(* What one more character does to the arguments.                          *)
LEMMA SeparatesAppend ==
  ASSUME NEW s \in Seq(Characters), NEW c \in Characters
  PROVE  /\ \A i \in 0 .. Len(s) : Separates(Append(s, c), i) <=> Separates(s, i)
         /\ Separates(Append(s, c), Len(s) + 1) <=> c = "space" /\ ~ InString(s, Len(s) + 1)
         /\ Separates(s, 0) /\ Separates(s, Len(s) + 1) /\ Separates(Append(s, c), Len(s) + 2)
<1> DEFINE t == Append(s, c)
<1>1. /\ t \in Seq(Characters) /\ Len(s) \in Nat /\ Len(t) = Len(s) + 1
      /\ DOMAIN s = 1 .. Len(s) /\ DOMAIN t = 1 .. Len(s) + 1
      /\ \A i \in 1 .. Len(s) : t[i] = s[i]
      /\ t[Len(s) + 1] = c
  BY AppendFacts
<1>2. \A i \in 0 .. Len(s) + 1 : InString(t, i) <=> InString(s, i)
  BY InStringAppend
<1> HIDE DEF t
<1>3. \A i \in 0 .. Len(s) : Separates(t, i) <=> Separates(s, i)
  BY <1>1, <1>2 DEF Separates
<1>4. Separates(t, Len(s) + 1) <=> c = "space" /\ ~ InString(s, Len(s) + 1)
  BY <1>1, <1>2 DEF Separates
<1>5. Separates(s, 0) /\ Separates(s, Len(s) + 1) /\ Separates(t, Len(s) + 2)
  BY <1>1 DEF Separates
<1>. QED
  BY <1>3, <1>4, <1>5 DEF t

LEMMA StartsAppend ==
  ASSUME NEW s \in Seq(Characters), NEW c \in Characters
  PROVE  /\ Starts(Append(s, c)) = Starts(s) \cup
              (IF Separates(s, Len(s)) /\ ~ Separates(Append(s, c), Len(s) + 1) THEN {Len(s) + 1} ELSE {})
         /\ \A i \in Starts(s) : i \in 1 .. Len(s) /\ Separates(s, i - 1) /\ ~ Separates(s, i)
<1> DEFINE t == Append(s, c)
<1>1. /\ Len(s) \in Nat /\ DOMAIN s = 1 .. Len(s) /\ DOMAIN t = 1 .. Len(s) + 1
  BY AppendFacts
<1>2. \A i \in 0 .. Len(s) : Separates(t, i) <=> Separates(s, i)
  BY SeparatesAppend
<1> HIDE DEF t
<1>3. \A x : x \in Starts(s) <=> x \in 1 .. Len(s) /\ Separates(s, x - 1) /\ ~ Separates(s, x)
  BY <1>1 DEF Starts
<1>4. \A x : x \in Starts(t) <=> x \in 1 .. Len(s) + 1 /\ Separates(t, x - 1) /\ ~ Separates(t, x)
  BY <1>1 DEF Starts
<1>5. Len(s) + 1 - 1 = Len(s) /\ Len(s) \in 0 .. Len(s)
  BY <1>1
<1>6. \A x : x \in Starts(t) <=>
        x \in Starts(s) \/ (x = Len(s) + 1 /\ Separates(s, Len(s)) /\ ~ Separates(t, Len(s) + 1))
  <2> SUFFICES ASSUME NEW x
               PROVE  x \in Starts(t) <=>
                 x \in Starts(s) \/ (x = Len(s) + 1 /\ Separates(s, Len(s)) /\ ~ Separates(t, Len(s) + 1))
    OBVIOUS
  <2>1. CASE x \in 1 .. Len(s)
    <3>1. x - 1 \in 0 .. Len(s) /\ x \in 0 .. Len(s) /\ x # Len(s) + 1 /\ x \in 1 .. Len(s) + 1
      BY <1>1, <2>1
    <3>. QED
      BY <1>2, <1>3, <1>4, <2>1, <3>1
  <2>2. CASE x = Len(s) + 1
    <3>1. x \notin 1 .. Len(s) /\ x \in 1 .. Len(s) + 1
      BY <1>1, <2>2
    <3>. QED
      BY <1>2, <1>3, <1>4, <1>5, <2>2, <3>1
  <2>3. CASE x \notin 1 .. Len(s) + 1
    <3>1. x \notin 1 .. Len(s) /\ x # Len(s) + 1
      BY <1>1, <2>3
    <3>. QED
      BY <1>3, <1>4, <2>3, <3>1
  <2>. QED
    BY <1>1, <2>1, <2>2, <2>3
<1>. QED
  BY <1>3, <1>6 DEF t

LEMMA StartsWithin == ASSUME NEW s \in Seq(Characters) PROVE Within(Starts(s), Len(s))
BY DEF Starts, Within

(* Where the stretch of s from i on may end.                               *)
Stops(s, i) == {j \in i .. Len(s) : Separates(s, j + 1)}

LEMMA StretchStops ==
  ASSUME NEW s \in Seq(Characters), NEW i \in 1 .. Len(s)
  PROVE  /\ Min(Stops(s, i)) \in Stops(s, i) /\ Min(Stops(s, i)) \in i .. Len(s)
         /\ \A j \in Stops(s, i) : Min(Stops(s, i)) <= j
         /\ Stretch(s, i) = SubSeq(s, i, Min(Stops(s, i))) /\ Stretch(s, i) \in Seq(Characters)
         /\ Stretch(s, i) # <<>>
<1>1. Len(s) \in Nat /\ Separates(s, Len(s) + 1)
  BY DEF Separates
<1>2. Stops(s, i) \in SUBSET Nat /\ Len(s) \in Stops(s, i)
  BY <1>1 DEF Stops
<1>3. Min(Stops(s, i)) \in Stops(s, i) /\ \A j \in Stops(s, i) : Min(Stops(s, i)) <= j
  BY <1>2, MinExists
<1>4. Min(Stops(s, i)) \in i .. Len(s)
  BY <1>3 DEF Stops
<1>5. Stretch(s, i) = SubSeq(s, i, Min(Stops(s, i)))
  BY DEF Stretch, Stops
<1>6. PICK m : m = Min(Stops(s, i))
  OBVIOUS
<1>7. SubSeq(s, i, m) \in Seq(Characters) /\ Len(SubSeq(s, i, m)) = m - i + 1
  BY <1>1, <1>4, <1>6, SubSeqFacts
<1>8. SubSeq(s, i, m) # <<>>
  <2>1. \A q : q = <<>> => Len(q) = 0
    OBVIOUS
  <2>2. m - i + 1 # 0
    BY <1>1, <1>4, <1>6
  <2>. QED
    BY <1>7, <2>1, <2>2
<1>. QED
  BY <1>3, <1>4, <1>5, <1>6, <1>7, <1>8

LEMMA StretchKept ==
  ASSUME NEW s \in Seq(Characters), NEW c \in Characters, NEW i \in Starts(s),
         Separates(Append(s, c), Len(s) + 1) \/ \E j \in i .. Len(s) : Separates(s, j)
  PROVE  Stretch(Append(s, c), i) = Stretch(s, i)
<1> DEFINE t == Append(s, c)
           m == Min(Stops(s, i))
<1>1. t \in Seq(Characters) /\ Len(t) = Len(s) + 1 /\ Len(s) \in Nat
  BY AppendFacts
<1>2. i \in 1 .. Len(s) /\ ~ Separates(s, i) /\ i \in 1 .. Len(t)
  BY <1>1, StartsAppend
<1>3. /\ \A k \in 0 .. Len(s) : Separates(t, k) <=> Separates(s, k)
      /\ Separates(s, Len(s) + 1)
  BY SeparatesAppend
<1>4. m \in Stops(s, i) /\ m \in i .. Len(s) /\ \A j \in Stops(s, i) : m <= j
  BY <1>2, StretchStops
<1>5. Stretch(s, i) = SubSeq(s, i, m)
  BY <1>2, StretchStops
<1>6. Stretch(t, i) = SubSeq(t, i, Min(Stops(t, i)))
  BY <1>1, <1>2, StretchStops
<1>7. Separates(t, Len(s) + 1) \/ \E j \in i .. Len(s) : Separates(s, j)
  OBVIOUS
<1> HIDE DEF t, m
<1>8. m \in Stops(t, i)
  <2>1. CASE m < Len(s)
    <3>1. m + 1 \in 0 .. Len(s) /\ Separates(s, m + 1) /\ m \in i .. Len(t)
      BY <1>1, <1>2, <1>4, <2>1 DEF Stops
    <3>. QED
      BY <1>3, <3>1 DEF Stops
  <2>2. CASE m = Len(s)
    <3>1. ASSUME NEW j \in i .. Len(s), Separates(s, j) PROVE FALSE
      <4>1. j - 1 \in i .. Len(s) /\ (j - 1) + 1 = j /\ j - 1 < Len(s)
        BY <1>1, <1>2, <3>1
      <4>2. j - 1 \in Stops(s, i)
        BY <3>1, <4>1 DEF Stops
      <4>. QED
        BY <1>1, <1>4, <2>2, <4>1, <4>2
    <3>. QED
      BY <1>1, <1>4, <1>7, <2>2, <3>1 DEF Stops
  <2>. QED
    BY <1>1, <1>4, <2>1, <2>2
<1>9. \A j \in Stops(t, i) : m <= j
  <2> SUFFICES ASSUME NEW j \in Stops(t, i) PROVE m <= j
    OBVIOUS
  <2>1. j \in i .. Len(s) + 1 /\ Separates(t, j + 1)
    BY <1>1 DEF Stops
  <2>2. CASE j < Len(s)
    <3>1. j + 1 \in 0 .. Len(s) /\ j \in i .. Len(s)
      BY <1>1, <1>2, <2>1, <2>2
    <3>2. j \in Stops(s, i)
      BY <1>3, <2>1, <3>1 DEF Stops
    <3>. QED
      BY <1>4, <3>2
  <2>3. CASE j >= Len(s)
    BY <1>1, <1>2, <1>4, <2>1, <2>3
  <2>. QED
    BY <1>1, <1>2, <2>1, <2>2, <2>3
<1>10. Min(Stops(t, i)) = m
  <2>1. Stops(t, i) \in SUBSET Nat
    BY <1>1, <1>2 DEF Stops
  <2>. QED
    BY <1>8, <1>9, <2>1, MinIs
<1>11. SubSeq(t, i, m) = SubSeq(s, i, m)
  BY <1>1, <1>2, <1>4, SubSeqAppend DEF t
<1>. QED
  BY <1>5, <1>6, <1>10, <1>11 DEF t

LEMMA StretchGrown ==
  ASSUME NEW s \in Seq(Characters), NEW c \in Characters, NEW i \in 1 .. Len(s) + 1,
         ~ Separates(Append(s, c), Len(s) + 1), \A j \in i .. Len(s) : ~ Separates(s, j)
  PROVE  /\ Stretch(Append(s, c), i) = Append(SubSeq(s, i, Len(s)), c)
         /\ i <= Len(s) => Stretch(s, i) = SubSeq(s, i, Len(s))
<1> DEFINE t == Append(s, c)
<1>1. t \in Seq(Characters) /\ Len(t) = Len(s) + 1 /\ Len(s) \in Nat
  BY AppendFacts
<1>2. /\ \A k \in 0 .. Len(s) : Separates(t, k) <=> Separates(s, k)
      /\ Separates(s, Len(s) + 1) /\ Separates(t, Len(s) + 2) /\ ~ Separates(t, Len(s) + 1)
  BY SeparatesAppend
<1> HIDE DEF t
<1>3. \A j \in i .. Len(s) + 1 : Separates(t, j + 1) => j = Len(s) + 1
  <2> SUFFICES ASSUME NEW j \in i .. Len(s) + 1, Separates(t, j + 1), j # Len(s) + 1 PROVE FALSE
    OBVIOUS
  <2>1. CASE j = Len(s)
    BY <1>2, <2>1
  <2>2. CASE j # Len(s)
    <3>1. j + 1 \in i .. Len(s) /\ j + 1 \in 0 .. Len(s)
      BY <1>1, <2>2
    <3>. QED
      BY <1>2, <3>1
  <2>. QED
    BY <2>1, <2>2
<1>4. Min(Stops(t, i)) = Len(s) + 1
  <2>1. Stops(t, i) \in SUBSET Nat /\ Len(s) + 1 \in Stops(t, i)
    BY <1>1, <1>2 DEF Stops
  <2>2. \A j \in Stops(t, i) : Len(s) + 1 <= j
    BY <1>1, <1>3 DEF Stops
  <2>. QED
    BY <2>1, <2>2, MinIs
<1>5. Stretch(t, i) = SubSeq(t, i, Len(s) + 1)
  BY <1>4 DEF Stretch, Stops
<1>6. SubSeq(t, i, Len(s) + 1) = Append(SubSeq(s, i, Len(s)), c)
  <2>1. i <= Len(s) + 1 /\ Len(s) \in 0 .. Len(s)
    BY <1>1
  <2>. QED
    BY <2>1, SubSeqAppend DEF t
<1>7. ASSUME i <= Len(s) PROVE Stretch(s, i) = SubSeq(s, i, Len(s))
  <2>1. Stops(s, i) \in SUBSET Nat /\ Len(s) \in Stops(s, i)
    BY <1>1, <1>2, <1>7 DEF Stops
  <2>2. \A j \in Stops(s, i) : Len(s) <= j
    <3> SUFFICES ASSUME NEW j \in Stops(s, i), j < Len(s) PROVE FALSE
      BY <1>1 DEF Stops
    <3>1. j + 1 \in i .. Len(s) /\ Separates(s, j + 1)
      BY <1>1 DEF Stops
    <3>. QED
      BY <3>1
  <2>3. Min(Stops(s, i)) = Len(s)
    BY <2>1, <2>2, MinIs
  <2>. QED
    BY <2>3 DEF Stretch, Stops
<1>. QED
  BY <1>5, <1>6, <1>7 DEF t

LEMMA ArgumentsType ==
  ASSUME NEW s \in Seq(Characters)
  PROVE  /\ Arguments(s) \in Seq(Seq(Characters) \ {<<>>})
         /\ Len(Arguments(s)) = Cardinality(Starts(s)) /\ Cardinality(Starts(s)) \in Nat
         /\ \A k \in 1 .. Cardinality(Starts(s)) :
              InOrder(Starts(s))[k] \in Starts(s) /\ Arguments(s)[k] = Stretch(s, InOrder(Starts(s))[k])
<1>1. /\ InOrder(Starts(s)) \in Seq(Starts(s)) /\ Len(InOrder(Starts(s))) = Cardinality(Starts(s))
      /\ DOMAIN InOrder(Starts(s)) = 1 .. Cardinality(Starts(s)) /\ Cardinality(Starts(s)) \in Nat
  BY StartsWithin, InOrderType
<1>2. \A k \in 1 .. Cardinality(Starts(s)) : InOrder(Starts(s))[k] \in Starts(s)
  BY <1>1
<1>3. \A i \in Starts(s) : Stretch(s, i) \in Seq(Characters) \ {<<>>}
  <2>1. \A i \in Starts(s) : i \in 1 .. Len(s)
    BY DEF Starts
  <2>. QED
    BY <2>1, StretchStops
<1>4. Arguments(s) \in [1 .. Cardinality(Starts(s)) -> Seq(Characters) \ {<<>>}]
  BY <1>1, <1>2, <1>3 DEF Arguments
<1>5. \A k \in 1 .. Cardinality(Starts(s)) : Arguments(s)[k] = Stretch(s, InOrder(Starts(s))[k])
  BY <1>1 DEF Arguments
<1>6. \A S, f, n : n \in Nat /\ f \in [1 .. n -> S] => f \in Seq(S) /\ Len(f) = n
  OBVIOUS
<1>. QED
  BY <1>1, <1>2, <1>4, <1>5, <1>6

(* A separator: nothing changes.                                           *)
LEMMA ArgumentsSeparated ==
  ASSUME NEW s \in Seq(Characters), NEW c \in Characters, Separates(Append(s, c), Len(s) + 1)
  PROVE  Arguments(Append(s, c)) = Arguments(s)
<1>1. Starts(Append(s, c)) = Starts(s)
  BY StartsAppend
<1>2. \A i \in Starts(s) : Stretch(Append(s, c), i) = Stretch(s, i)
  BY StretchKept
<1>3. /\ DOMAIN InOrder(Starts(s)) = 1 .. Cardinality(Starts(s))
      /\ \A k \in 1 .. Cardinality(Starts(s)) : InOrder(Starts(s))[k] \in Starts(s)
  BY StartsWithin, InOrderType, ArgumentsType
<1>. QED
  BY <1>1, <1>2, <1>3 DEF Arguments

(* The first character of an argument.                                     *)
LEMMA ArgumentsBegin ==
  ASSUME NEW s \in Seq(Characters), NEW c \in Characters,
         Separates(s, Len(s)), ~ Separates(Append(s, c), Len(s) + 1)
  PROVE  Arguments(Append(s, c)) = Append(Arguments(s), <<c>>)
<1> DEFINE t == Append(s, c)
           n == Cardinality(Starts(s))
<1>1. t \in Seq(Characters) /\ Len(s) \in Nat /\ Len(t) = Len(s) + 1
  BY AppendFacts
<1>2. Starts(t) = Starts(s) \cup {Len(s) + 1} /\ \A i \in Starts(s) : i \in 1 .. Len(s)
  BY StartsAppend
<1>3. Cardinality(Starts(t)) = n + 1 /\ InOrder(Starts(t)) = Append(InOrder(Starts(s)), Len(s) + 1)
  <2>1. Within(Starts(s), Len(s) + 1) /\ Len(s) + 1 \in 0 .. Len(s) + 1 /\ \A x \in Starts(s) : x < Len(s) + 1
    BY <1>1, <1>2 DEF Within
  <2>2. PICK m : m = Len(s) + 1
    OBVIOUS
  <2>3. Cardinality(Starts(s) \cup {m}) = Cardinality(Starts(s)) + 1
        /\ InOrder(Starts(s) \cup {m}) = Append(InOrder(Starts(s)), m)
    BY <2>1, <2>2, InOrderAdd
  <2>. QED
    BY <1>2, <2>2, <2>3
<1>4. \A i \in Starts(s) : Stretch(t, i) = Stretch(s, i)
  <2>1. \A i \in Starts(s) : \E j \in i .. Len(s) : Separates(s, j)
    BY <1>1, <1>2
  <2>. QED
    BY <2>1, StretchKept
<1>5. Stretch(t, Len(s) + 1) = <<c>>
  <2>1. PICK i : i = Len(s) + 1
    OBVIOUS
  <2>2. i \in 1 .. Len(s) + 1 /\ \A j \in i .. Len(s) : ~ Separates(s, j)
    BY <1>1, <2>1
  <2>3. Stretch(t, i) = Append(SubSeq(s, i, Len(s)), c)
    BY <2>2, StretchGrown
  <2>4. SubSeq(s, i, Len(s)) = <<>>
    BY <1>1, <2>1
  <2>. QED
    BY <2>1, <2>3, <2>4
<1>6. /\ InOrder(Starts(s)) \in Seq(Starts(s)) /\ Len(InOrder(Starts(s))) = n /\ n \in Nat
      /\ \A k \in 1 .. n : InOrder(Starts(s))[k] \in Starts(s) /\ Arguments(s)[k] = Stretch(s, InOrder(Starts(s))[k])
      /\ Arguments(s) \in Seq(Seq(Characters) \ {<<>>}) /\ Len(Arguments(s)) = n
  BY StartsWithin, InOrderType, ArgumentsType
<1>7. /\ Arguments(t) \in Seq(Seq(Characters) \ {<<>>}) /\ Len(Arguments(t)) = n + 1
      /\ \A k \in 1 .. n + 1 : Arguments(t)[k] = Stretch(t, InOrder(Starts(t))[k])
  BY <1>1, <1>3, ArgumentsType
<1> HIDE DEF t, n
<1>8. InOrder(Starts(t))[n + 1] = Len(s) + 1 /\ \A k \in 1 .. n : InOrder(Starts(t))[k] = InOrder(Starts(s))[k]
  BY <1>3, <1>6
<1>9. \A k \in 1 .. n : Arguments(t)[k] = Arguments(s)[k]
  <2> SUFFICES ASSUME NEW k \in 1 .. n PROVE Arguments(t)[k] = Arguments(s)[k]
    OBVIOUS
  <2>1. k \in 1 .. n + 1
    BY <1>6
  <2>2. Arguments(t)[k] = Stretch(t, InOrder(Starts(s))[k])
    BY <1>7, <1>8, <2>1
  <2>. QED
    BY <1>4, <1>6, <2>2
<1>10. Arguments(t)[n + 1] = <<c>>
  BY <1>5, <1>6, <1>7, <1>8
<1>. QED
  BY <1>6, <1>7, <1>9, <1>10, AppendIs DEF t

(* A further character of the argument that began last.                    *)
LEMMA ArgumentsExtend ==
  ASSUME NEW s \in Seq(Characters), NEW c \in Characters, ~ Separates(Append(s, c), Len(s) + 1),
         NEW last \in Starts(s), \A i \in Starts(s) : i <= last,
         \A j \in last .. Len(s) : ~ Separates(s, j),
         NEW before \in Seq(Seq(Characters)), NEW begun \in Seq(Characters),
         Arguments(s) = Append(before, begun)
  PROVE  Starts(Append(s, c)) = Starts(s) /\ Arguments(Append(s, c)) = Append(before, Append(begun, c))
<1> DEFINE t == Append(s, c)
           n == Cardinality(Starts(s))
<1>1. t \in Seq(Characters) /\ Len(s) \in Nat /\ Len(t) = Len(s) + 1
  BY AppendFacts
<1>2. \A i \in Starts(s) : i \in 1 .. Len(s) /\ Separates(s, i - 1) /\ ~ Separates(s, i)
  BY StartsAppend
<1>3. Starts(t) = Starts(s)
  <2>1. ~ Separates(s, Len(s))
    BY <1>1, <1>2
  <2>. QED
    BY <2>1, StartsAppend
<1>4. /\ n \in Nat /\ Len(Arguments(s)) = n
      /\ \A k \in 1 .. n : InOrder(Starts(s))[k] \in Starts(s) /\ Arguments(s)[k] = Stretch(s, InOrder(Starts(s))[k])
  BY ArgumentsType
<1>5. /\ Arguments(t) \in Seq(Seq(Characters) \ {<<>>}) /\ Len(Arguments(t)) = n
      /\ \A k \in 1 .. n : Arguments(t)[k] = Stretch(t, InOrder(Starts(s))[k])
  BY <1>1, <1>3, ArgumentsType
<1>6. n = Len(before) + 1 /\ begun = Arguments(s)[n] /\ \A k \in 1 .. n - 1 : before[k] = Arguments(s)[k]
  BY <1>4
<1>7. InOrder(Starts(s))[n] = last /\ \A k \in 1 .. n - 1 : InOrder(Starts(s))[k] # last
  <2>1. Cardinality(Below(Starts(s), last)) = n - 1
    <3>1. /\ Below(Starts(s), last + 1) = Starts(s)
          /\ Cardinality(Below(Starts(s), last + 1)) = Cardinality(Below(Starts(s), last)) + 1
          /\ Cardinality(Below(Starts(s), last)) \in Nat
      <4>1. last \in Nat /\ Below(Starts(s), last + 1) = Starts(s)
        BY <1>2 DEF Below
      <4>. QED
        BY <4>1, StartsWithin, BelowNext, BelowFinite
    <3>. QED
      BY <3>1
  <2>2. Nth(Starts(s), n) = last
    <3>1. Cardinality(Below(Starts(s), last)) + 1 = n
      BY <1>4, <2>1
    <3>. QED
      BY <3>1, StartsWithin, NthIs
  <2>3. \A k \in 1 .. n : InOrder(Starts(s))[k] = Nth(Starts(s), k)
                          /\ Cardinality(Below(Starts(s), Nth(Starts(s), k))) = k - 1
    BY StartsWithin, NthExists DEF InOrder
  <2>4. n \in 1 .. n
    BY <1>4, <1>6
  <2>5. ASSUME NEW k \in 1 .. n - 1, InOrder(Starts(s))[k] = last PROVE FALSE
    <3>1. k \in 1 .. n
      BY <1>4
    <3>2. k - 1 = n - 1
      BY <2>1, <2>3, <2>5, <3>1
    <3>. QED
      BY <1>4, <3>2
  <2>. QED
    BY <2>2, <2>3, <2>4, <2>5
<1>8. \A k \in 1 .. n - 1 : Arguments(t)[k] = before[k]
  <2> SUFFICES ASSUME NEW k \in 1 .. n - 1 PROVE Arguments(t)[k] = before[k]
    OBVIOUS
  <2>1. PICK i : i = InOrder(Starts(s))[k]
    OBVIOUS
  <2>2. k \in 1 .. n /\ i \in Starts(s) /\ i # last
    BY <1>4, <1>7, <2>1
  <2>3. last - 1 \in i .. Len(s) /\ Separates(s, last - 1)
    BY <1>1, <1>2, <2>2
  <2>4. Stretch(t, i) = Stretch(s, i)
    BY <2>2, <2>3, StretchKept
  <2>. QED
    BY <1>4, <1>5, <1>6, <2>1, <2>2, <2>4
<1>9. Arguments(t)[n] = Append(begun, c)
  <2>1. last \in 1 .. Len(s) + 1 /\ last <= Len(s)
    BY <1>1, <1>2
  <2>2. Stretch(t, last) = Append(SubSeq(s, last, Len(s)), c) /\ Stretch(s, last) = SubSeq(s, last, Len(s))
    BY <2>1, StretchGrown
  <2>3. n \in 1 .. n
    BY <1>4, <1>6
  <2>. QED
    BY <1>4, <1>5, <1>6, <1>7, <2>2, <2>3
<1>10. Arguments(t) = Append(before, Append(begun, c))
  <2>1. Arguments(t) \in Seq(Seq(Characters)) /\ before \in Seq(Seq(Characters)) /\ Append(begun, c) \in Seq(Characters)
    BY <1>5
  <2> HIDE DEF t, n
  <2>. QED
    BY <1>5, <1>6, <1>8, <1>9, <2>1, AppendIs
<1>. QED
  BY <1>3, <1>10

-----------------------------------------------------------------------------
(* What parseLine has made of the characters s of a line: where it is, and *)
(* the arguments it has gathered, the last of which may grow.              *)
Joined(begun, before) == IF begun # <<>> THEN Append(before, begun) ELSE before

OpenEnd(s, begun) ==
  \/ begun = <<>> /\ Separates(s, Len(s))
  \/ begun # <<>> /\ \E last \in Starts(s) :
       (\A i \in Starts(s) : i <= last) /\ \A j \in last .. Len(s) : ~ Separates(s, j)

Reads(s, comment, string, begun, before) ==
  /\ s \in Seq(Characters) /\ begun \in Seq(Characters) /\ before \in Seq(Seq(Characters))
  /\ comment <=> Comments(s) # {}
  /\ ~ comment => (string <=> InString(s, Len(s) + 1)) /\ OpenEnd(s, begun)
  /\ Joined(begun, before) = Arguments(Uncommented(s))

LEMMA ReadNothing == Reads(<<>>, FALSE, FALSE, <<>>, <<>>)
<1>1. Comments(<<>>) = {} /\ Starts(<<>>) = {} /\ Positions(<<>>, "quote") = {}
  BY DEF Comments, Positions, Starts
<1>2. ~ InString(<<>>, Len(<<>>) + 1)
  <2>1. Below(Positions(<<>>, "quote"), Len(<<>>) + 1) = {}
    BY <1>1 DEF Below
  <2>2. 0 % 2 # 1
    OBVIOUS
  <2>. QED
    BY <2>1, <2>2, FS_EmptySet DEF InString
<1>3. OpenEnd(<<>>, <<>>)
  BY DEF OpenEnd, Separates
<1>4. Arguments(<<>>) = <<>>
  <2>1. <<>> \in Seq(Characters)
    OBVIOUS
  <2>2. Len(Arguments(<<>>)) = 0 /\ Arguments(<<>>) \in Seq(Seq(Characters) \ {<<>>})
    BY <1>1, <2>1, ArgumentsType, FS_EmptySet
  <2>. QED
    BY <2>2
<1>5. <<>> \in Seq(Characters) /\ <<>> \in Seq(Seq(Characters))
  OBVIOUS
<1>6. Joined(<<>>, <<>>) = Arguments(Uncommented(<<>>))
  BY <1>1, <1>4 DEF Joined, Uncommented
<1>. QED
  BY <1>1, <1>2, <1>3, <1>5, <1>6, Zenon DEF Reads

LEMMA ReadOutsideComment ==
  ASSUME NEW s, NEW string, NEW begun, NEW before, Reads(s, FALSE, string, begun, before)
  PROVE  /\ s \in Seq(Characters) /\ begun \in Seq(Characters) /\ before \in Seq(Seq(Characters))
         /\ Comments(s) = {} /\ (string <=> InString(s, Len(s) + 1)) /\ OpenEnd(s, begun)
         /\ Joined(begun, before) = Arguments(s)
BY DEF Reads, Uncommented

LEMMA ReadInComment ==
  ASSUME NEW s, NEW c \in Characters, NEW string, NEW begun, NEW before,
         Reads(s, TRUE, string, begun, before), NEW anyString
  PROVE  Reads(Append(s, c), TRUE, anyString, begun, before)
<1>1. /\ s \in Seq(Characters) /\ begun \in Seq(Characters) /\ before \in Seq(Seq(Characters))
      /\ Comments(s) # {} /\ Joined(begun, before) = Arguments(Uncommented(s))
  BY DEF Reads
<1>2. Append(s, c) \in Seq(Characters) /\ Comments(Append(s, c)) # {}
      /\ Uncommented(Append(s, c)) = Uncommented(s)
  <2>1. \A x \in Comments(s) : x \in Comments(Append(s, c))
    BY <1>1, CommentsAppend
  <2>. QED
    BY <1>1, <2>1, UncommentedAppend, AppendFacts
<1>. QED
  BY <1>1, <1>2, Zenon DEF Reads

LEMMA ReadSemicolon ==
  ASSUME NEW s, NEW begun, NEW before, Reads(s, FALSE, FALSE, begun, before), NEW anyString
  PROVE  Reads(Append(s, "semi"), TRUE, anyString, begun, before)
<1>1. /\ s \in Seq(Characters) /\ begun \in Seq(Characters) /\ before \in Seq(Seq(Characters))
      /\ Comments(s) = {} /\ ~ InString(s, Len(s) + 1)
      /\ Joined(begun, before) = Arguments(s)
  BY ReadOutsideComment
<1>2. "semi" \in Characters
  BY DEF Characters
<1>3. Append(s, "semi") \in Seq(Characters) /\ Comments(Append(s, "semi")) # {}
      /\ Uncommented(Append(s, "semi")) = s
  <2>1. Len(s) + 1 \in Comments(Append(s, "semi"))
    BY <1>1, <1>2, CommentsAppend
  <2>. QED
    BY <1>1, <1>2, <2>1, UncommentedAppend, AppendFacts
<1>. QED
  BY <1>1, <1>3, Zenon DEF Reads

LEMMA ReadSpace ==
  ASSUME NEW s, NEW begun, NEW before, Reads(s, FALSE, FALSE, begun, before)
  PROVE  Reads(Append(s, "space"), FALSE, FALSE, <<>>, Joined(begun, before))
<1> DEFINE t == Append(s, "space")
<1>1. /\ s \in Seq(Characters) /\ begun \in Seq(Characters) /\ before \in Seq(Seq(Characters))
      /\ Comments(s) = {} /\ ~ InString(s, Len(s) + 1)
      /\ Joined(begun, before) = Arguments(s)
  BY ReadOutsideComment
<1>2. "space" \in Characters
  BY DEF Characters
<1>3. t \in Seq(Characters) /\ Len(t) = Len(s) + 1 /\ Len(s) \in Nat
  BY <1>1, <1>2, AppendFacts
<1>4. Comments(t) = {} /\ Uncommented(t) = t
  BY <1>1, <1>2, UncommentedAppend
<1>5. Separates(t, Len(s) + 1) /\ ~ InString(t, Len(s) + 2)
  BY <1>1, <1>2, SeparatesAppend, InStringAppend
<1>6. OpenEnd(t, <<>>)
  BY <1>3, <1>5 DEF OpenEnd
<1>7. ~ InString(t, Len(t) + 1)
  <2>1. Len(t) + 1 = Len(s) + 2
    BY <1>3
  <2>. QED
    BY <1>5, <2>1
<1>8. Arguments(t) = Arguments(s)
  BY <1>1, <1>2, <1>5, ArgumentsSeparated
<1>9. <<>> \in Seq(Characters) /\ Joined(begun, before) \in Seq(Seq(Characters))
  BY <1>1 DEF Joined
<1>10. Joined(<<>>, Joined(begun, before)) = Arguments(Uncommented(t))
  BY <1>1, <1>4, <1>8 DEF Joined
<1> HIDE DEF t
<1>11. Reads(t, FALSE, FALSE, <<>>, Joined(begun, before))
  BY <1>3, <1>4, <1>6, <1>7, <1>9, <1>10, Zenon DEF Reads
<1>. QED
  BY <1>11 DEF t

LEMMA ReadArgument ==
  ASSUME NEW s, NEW c \in Characters, NEW string, NEW begun, NEW before,
         Reads(s, FALSE, string, begun, before), string \/ c \notin {"semi", "space"}
  PROVE  Reads(Append(s, c), FALSE, string <=> c # "quote", Append(begun, c), before)
<1> DEFINE t == Append(s, c)
<1>1. /\ s \in Seq(Characters) /\ begun \in Seq(Characters) /\ before \in Seq(Seq(Characters))
      /\ Comments(s) = {} /\ (string <=> InString(s, Len(s) + 1)) /\ OpenEnd(s, begun)
      /\ Joined(begun, before) = Arguments(s)
  BY ReadOutsideComment
<1>2. /\ t \in Seq(Characters) /\ Len(t) = Len(s) + 1 /\ Len(s) \in Nat
      /\ Append(begun, c) \in Seq(Characters) /\ Append(begun, c) # <<>>
  <2>1. begun \in Seq(Characters)
    BY <1>1
  <2>2. Append(begun, c) # <<>>
    <3>1. Len(Append(begun, c)) = Len(begun) + 1 /\ Len(begun) \in Nat
      BY <2>1, AppendFacts
    <3>2. Len(<<>>) = 0
      OBVIOUS
    <3>. QED
      BY <3>1, <3>2
  <2>. QED
    BY <1>1, <2>2, AppendFacts
<1>3. Comments(t) = {} /\ Uncommented(t) = t
  BY <1>1, UncommentedAppend
<1>4. ~ Separates(t, Len(s) + 1)
  BY <1>1, SeparatesAppend
<1>5. (string <=> c # "quote") <=> InString(t, Len(t) + 1)
  <2>1. Len(t) + 1 = Len(s) + 2
    BY <1>2
  <2>2. InString(t, Len(s) + 2) <=> (InString(s, Len(s) + 1) <=> c # "quote")
    BY <1>1, InStringAppend
  <2>. QED
    BY <1>1, <2>1, <2>2, Zenon
<1>6. OpenEnd(t, Append(begun, c)) /\ Append(before, Append(begun, c)) = Arguments(t)
  <2>1. CASE begun = <<>>
    <3>1. Separates(s, Len(s)) /\ Append(begun, c) = <<c>>
      BY <2>1, <1>1 DEF OpenEnd
    <3>2. Arguments(t) = Append(Arguments(s), <<c>>) /\ before = Arguments(s)
      BY <1>1, <1>4, <2>1, <3>1, ArgumentsBegin DEF Joined
    <3>3. Starts(t) = Starts(s) \cup {Len(s) + 1} /\ \A i \in Starts(s) : i \in 1 .. Len(s)
      BY <1>1, <1>4, <3>1, StartsAppend
    <3>4. \A i \in Starts(t) : i <= Len(s) + 1
      BY <1>2, <3>3
    <3>5. \A j \in Len(s) + 1 .. Len(t) : ~ Separates(t, j)
      <4> SUFFICES ASSUME NEW j \in Len(s) + 1 .. Len(t) PROVE ~ Separates(t, j)
        OBVIOUS
      <4>1. j = Len(s) + 1
        BY <1>2
      <4>. QED
        BY <1>4, <4>1
    <3>6. Len(s) + 1 \in Starts(t)
      BY <3>3
    <3>. QED
      BY <1>2, <3>1, <3>2, <3>4, <3>5, <3>6 DEF OpenEnd
  <2>2. CASE begun # <<>>
    <3>1. PICK last \in Starts(s) :
            (\A i \in Starts(s) : i <= last) /\ \A j \in last .. Len(s) : ~ Separates(s, j)
      BY <1>1, <2>2 DEF OpenEnd
    <3>2. Starts(t) = Starts(s) /\ Arguments(t) = Append(before, Append(begun, c))
      <4>1. Arguments(s) = Append(before, begun)
        BY <1>1, <2>2 DEF Joined
      <4>. QED
        BY <1>1, <1>4, <3>1, <4>1, ArgumentsExtend
    <3>3. \A j \in last .. Len(t) : ~ Separates(t, j)
      <4> SUFFICES ASSUME NEW j \in last .. Len(t), j # Len(s) + 1 PROVE ~ Separates(t, j)
        BY <1>4
      <4>1. last \in 1 .. Len(s)
        BY <1>1, StartsAppend
      <4>2. j \in last .. Len(s) /\ j \in 0 .. Len(s)
        BY <1>2, <4>1
      <4>. QED
        BY <1>1, <3>1, <4>2, SeparatesAppend
    <3>. QED
      BY <1>2, <3>1, <3>2, <3>3 DEF OpenEnd
  <2>. QED
    BY <2>1, <2>2
<1>7. Joined(Append(begun, c), before) = Arguments(Uncommented(t))
  BY <1>2, <1>3, <1>6 DEF Joined
<1> HIDE DEF t
<1>8. Reads(t, FALSE, string <=> c # "quote", Append(begun, c), before)
  BY <1>1, <1>2, <1>3, <1>5, <1>6, <1>7, Zenon DEF Reads
<1>. QED
  BY <1>8 DEF t

-----------------------------------------------------------------------------
(* The characters of a line, as far as it is read.                         *)
LEMMA VisibleWithin ==
  ASSUME NEW t, NEW from \in Nat, NEW to \in Nat
  PROVE  Within(Visible(t, from, to), to) /\ \A i \in Visible(t, from, to) : i < to /\ i > from
BY DEF Visible, Within

LEMMA BetweenFacts ==
  ASSUME NEW t \in Seq(Characters), NEW from \in 0 .. Len(t), NEW to \in from + 1 .. Len(t) + 1
  PROVE  /\ Between(t, from, to) \in Seq(Characters)
         /\ Len(Between(t, from, to)) = Len(InOrder(Visible(t, from, to)))
         /\ InOrder(Visible(t, from, to)) \in Seq(Visible(t, from, to))
         /\ \A k \in 1 .. Len(Between(t, from, to)) :
              Between(t, from, to)[k] = t[InOrder(Visible(t, from, to))[k]]
<1> DEFINE V == Visible(t, from, to)
<1>1. /\ InOrder(V) \in Seq(V) /\ Len(InOrder(V)) \in Nat
      /\ DOMAIN InOrder(V) = 1 .. Len(InOrder(V))
  BY VisibleWithin, InOrderType, SMTT(30)
<1>2. \A i \in V : i \in 1 .. Len(t)
  BY DEF Visible
<1>3. \A i \in V : t[i] \in Characters
  BY <1>2
<1>4. \A k \in 1 .. Len(InOrder(V)) : t[InOrder(V)[k]] \in Characters
  BY <1>1, <1>3
<1>5. Between(t, from, to) = [k \in 1 .. Len(InOrder(V)) |-> t[InOrder(V)[k]]]
  BY <1>1 DEF Between
<1>6. \A f, n : n \in Nat /\ f \in [1 .. n -> Characters] => f \in Seq(Characters) /\ Len(f) = n
  OBVIOUS
<1> HIDE DEF V
<1>7. Between(t, from, to) \in [1 .. Len(InOrder(V)) -> Characters]
  BY <1>4, <1>5
<1>8. Between(t, from, to) \in Seq(Characters) /\ Len(Between(t, from, to)) = Len(InOrder(V))
  BY <1>1, <1>6, <1>7
<1>. QED
  BY <1>1, <1>5, <1>8 DEF V

LEMMA BetweenFirst ==
  ASSUME NEW t \in Seq(Characters), NEW from \in 0 .. Len(t)
  PROVE  Between(t, from, from + 1) = <<>>
<1>1. Visible(t, from, from + 1) = {}
  BY DEF Visible
<1>2. Len(InOrder({})) = 0
  <2>1. Within({}, 0)
    BY DEF Within
  <2>. QED
    BY <2>1, InOrderType, FS_EmptySet
<1>3. from + 1 \in from + 1 .. Len(t) + 1
  OBVIOUS
<1>4. Between(t, from, from + 1) \in Seq(Characters) /\ Len(Between(t, from, from + 1)) = 0
  BY <1>1, <1>2, <1>3, BetweenFacts
<1>. QED
  BY <1>4

LEMMA BetweenNext ==
  ASSUME NEW t \in Seq(Characters), NEW from \in 0 .. Len(t), NEW to \in from + 1 .. Len(t)
  PROVE  Between(t, from, to + 1) =
           IF t[to] = "cr" THEN Between(t, from, to) ELSE Append(Between(t, from, to), t[to])
<1>1. from \in Nat /\ to \in Nat /\ to + 1 \in from + 1 .. Len(t) + 1 /\ to \in from + 1 .. Len(t) + 1 /\ t[to] \in Characters
  OBVIOUS
<1>2. CASE t[to] = "cr"
  <2>1. \A i : i \in Visible(t, from, to + 1) <=> i \in Visible(t, from, to)
    BY <1>1, <1>2 DEF Visible
  <2>2. Visible(t, from, to + 1) = Visible(t, from, to)
    BY <2>1
  <2>. QED
    BY <1>2, <2>2 DEF Between
<1>3. CASE t[to] # "cr"
  <2> DEFINE V == Visible(t, from, to)
             s == Between(t, from, to)
             r == Between(t, from, to + 1)
  <2>1. \A i : i \in Visible(t, from, to + 1) <=> i \in V \/ i = to
    BY <1>1, <1>3 DEF Visible
  <2>2. Visible(t, from, to + 1) = V \cup {to}
    BY <2>1
  <2>3. Within(V, to) /\ to \in 0 .. to /\ \A i \in V : i < to
    <3>1. Within(V, to) /\ \A i \in V : i < to /\ i > from
      BY <1>1, VisibleWithin
    <3>2. to \in 0 .. to
      BY <1>1
    <3> HIDE DEF V
    <3>. QED
      BY <3>1, <3>2
  <2>4. InOrder(Visible(t, from, to + 1)) = Append(InOrder(V), to)
    BY <2>2, <2>3, InOrderAdd
  <2>5. /\ s \in Seq(Characters) /\ Len(s) = Len(InOrder(V)) /\ InOrder(V) \in Seq(V)
        /\ \A k \in 1 .. Len(s) : s[k] = t[InOrder(V)[k]]
    BY BetweenFacts
  <2>6. /\ r \in Seq(Characters) /\ Len(r) = Len(Append(InOrder(V), to))
        /\ \A k \in 1 .. Len(r) : r[k] = t[Append(InOrder(V), to)[k]]
    BY <1>1, <2>4, BetweenFacts
  <2> HIDE DEF V, s, r
  <2>7. /\ Len(Append(InOrder(V), to)) = Len(s) + 1 /\ Append(InOrder(V), to)[Len(s) + 1] = to
        /\ \A k \in 1 .. Len(s) : Append(InOrder(V), to)[k] = InOrder(V)[k]
    BY <2>5
  <2>8. Len(s) \in Nat /\ Len(s) + 1 \in 1 .. Len(r) /\ \A k \in 1 .. Len(s) : k \in 1 .. Len(r)
    BY <2>5, <2>6, <2>7
  <2>9. r[Len(s) + 1] = t[to] /\ \A k \in 1 .. Len(s) : r[k] = s[k]
    BY <2>5, <2>6, <2>7, <2>8
  <2>10. r = Append(s, t[to])
    BY <1>1, <2>5, <2>6, <2>7, <2>9, AppendIs
  <2>. QED
    BY <1>3, <2>10 DEF r, s
<1>. QED
  BY <1>2, <1>3

(* The ends of lines, and the lines between them.                          *)
LEMMA EndsWithin ==
  ASSUME NEW t \in Seq(Characters)
  PROVE  /\ Within(Ends(t), Len(t) + 1) /\ 0 \in Ends(t) /\ Len(t) + 1 \in Ends(t)
         /\ \A i \in 1 .. Len(t) + 1 :
              i \in Ends(t) <=> (i = Len(t) + 1 \/ t[i] = "nl")
<1>1. Len(t) \in Nat /\ DOMAIN t = 1 .. Len(t)
  OBVIOUS
<1>2. \A i : i \in Ends(t) <=> i = 0 \/ i = Len(t) + 1 \/ (i \in 1 .. Len(t) /\ t[i] = "nl")
  BY <1>1 DEF Ends, Positions
<1>. QED
  BY <1>1, <1>2 DEF Within

(* Two ends with none between them are the ends of a line.                 *)
LEMMA NextEnd ==
  ASSUME NEW t \in Seq(Characters), NEW from \in Ends(t), NEW to \in Ends(t), from < to,
         \A i \in from + 1 .. to - 1 : i \notin Ends(t)
  PROVE  Cardinality(Below(Ends(t), to)) = Cardinality(Below(Ends(t), from)) + 1
<1>1. Within(Ends(t), Len(t) + 1)
  BY EndsWithin
<1>2. from \in Nat /\ to \in Nat
  BY <1>1 DEF Within
<1>3. Below(Ends(t), to) = Below(Ends(t), from + 1)
  <2>1. \A i \in Ends(t) : i \in Nat
    BY <1>1 DEF Within
  <2>2. \A i \in Ends(t) : i < to <=> i < from + 1
    BY <1>2, <2>1
  <2>. QED
    BY <2>2 DEF Below
<1>. QED
  BY <1>1, <1>2, <1>3, BelowNext

LEMMA LineIs ==
  ASSUME NEW t \in Seq(Characters), NEW from \in Ends(t), NEW to \in Ends(t), from < to,
         \A i \in from + 1 .. to - 1 : i \notin Ends(t),
         NEW n, n = Cardinality(Below(Ends(t), from)) + 1
  PROVE  /\ LineOf(t, n) = Between(t, from, to)
         /\ n \in 1 .. Cardinality(Ends(t)) - 1
<1>1. Within(Ends(t), Len(t) + 1)
  BY EndsWithin
<1>2. Cardinality(Below(Ends(t), to)) = Cardinality(Below(Ends(t), from)) + 1
      /\ Cardinality(Below(Ends(t), from)) \in Nat
  BY <1>1, NextEnd, BelowFinite
<1>3. Nth(Ends(t), n) = from /\ Nth(Ends(t), n + 1) = to
  <2>1. Nth(Ends(t), Cardinality(Below(Ends(t), from)) + 1) = from
    BY <1>1, NthIs
  <2>2. Nth(Ends(t), Cardinality(Below(Ends(t), to)) + 1) = to
    BY <1>1, NthIs
  <2>. QED
    BY <1>2, <2>1, <2>2
<1>4. n \in 1 .. Cardinality(Ends(t)) - 1
  <2>1. to \in Nat /\ Cardinality(Below(Ends(t), to + 1)) = Cardinality(Below(Ends(t), to)) + 1
    BY <1>1, BelowNext DEF Within
  <2>2. Cardinality(Below(Ends(t), to + 1)) <= Cardinality(Ends(t)) /\ Cardinality(Ends(t)) \in Nat
    BY <1>1, BelowFinite
  <2>. QED
    BY <1>2, <2>1, <2>2
<1>. QED
  BY <1>3, <1>4 DEF LineOf

(* The lines with an argument, in their order.                             *)
LEMMA NonBlankWithin ==
  ASSUME NEW t \in Seq(Characters)
  PROVE  Within(NonBlank(t), Cardinality(Ends(t))) /\ \A n \in NonBlank(t) : n < Cardinality(Ends(t))
<1>1. Cardinality(Ends(t)) \in Nat
  BY EndsWithin, BelowFinite
<1>. QED
  BY <1>1 DEF NonBlank, Within

LEMMA LinesLength ==
  ASSUME NEW t \in Seq(Characters)
  PROVE  Len(Lines(t)) = Cardinality(NonBlank(t)) /\ Cardinality(NonBlank(t)) \in Nat
<1>1. DOMAIN InOrder(NonBlank(t)) = 1 .. Cardinality(NonBlank(t)) /\ Cardinality(NonBlank(t)) \in Nat
  BY NonBlankWithin, InOrderType
<1>2. DOMAIN Lines(t) = 1 .. Cardinality(NonBlank(t))
  BY <1>1 DEF Lines
<1>3. Lines(t) = [k \in DOMAIN Lines(t) |-> Lines(t)[k]]
  BY DEF Lines
<1>4. \A f, n : n \in Nat /\ DOMAIN f = 1 .. n /\ f = [k \in DOMAIN f |-> f[k]] => Len(f) = n
  OBVIOUS
<1>. QED
  BY <1>1, <1>2, <1>3, <1>4

LEMMA NextLine ==
  ASSUME NEW t \in Seq(Characters), NEW n \in NonBlank(t), NEW k, k = Cardinality(Below(NonBlank(t), n)) + 1
  PROVE  /\ k \in 1 .. Len(Lines(t))
         /\ Lines(t)[k] = AssemblerInstruction(ArgumentsOf(t, n), n)
<1>1. Within(NonBlank(t), Cardinality(Ends(t))) /\ n \in Nat
  BY NonBlankWithin DEF Within
<1>2. Nth(NonBlank(t), k) = n
  BY <1>1, NthIs
<1>3. k \in 1 .. Cardinality(NonBlank(t))
  <2>1. Cardinality(Below(NonBlank(t), n + 1)) = Cardinality(Below(NonBlank(t), n)) + 1
    BY <1>1, BelowNext
  <2>2. /\ Cardinality(Below(NonBlank(t), n)) \in Nat /\ Cardinality(NonBlank(t)) \in Nat
        /\ Cardinality(Below(NonBlank(t), n + 1)) <= Cardinality(NonBlank(t))
    BY <1>1, BelowFinite
  <2>. QED
    BY <2>1, <2>2
<1>4. DOMAIN InOrder(NonBlank(t)) = 1 .. Cardinality(NonBlank(t)) /\ Cardinality(NonBlank(t)) \in Nat
  BY <1>1, InOrderType
<1>5. InOrder(NonBlank(t))[k] = n
  BY <1>2, <1>3 DEF InOrder
<1>6. Len(Lines(t)) = Cardinality(NonBlank(t))
  BY LinesLength
<1>. QED
  BY <1>3, <1>4, <1>5, <1>6 DEF Lines

-----------------------------------------------------------------------------
(* Types.                                                                  *)
Kept     == Characters \ {"nl", "cr"}
Argument == Seq(Kept) \ {<<>>}

AnInstr == [line : [kind : {"constant", "label", "code"}, name : Argument,
                    args : Seq(Argument), lineNumber : Nat],
            address : Nat]

Cursors ==
  /\ text \in Texts /\ loop \in {"text", "trim", "line", "break", "parsed"}
  /\ assembly \in 1 .. Len(text) + 1 /\ line \in 1 .. Len(text) + 2
  /\ loop \in {"text", "trim", "line"} => line <= assembly
  /\ loop = "break" => line = assembly + 1

Gathering ==
  /\ inComment \in BOOLEAN /\ inString \in BOOLEAN /\ ~ (inComment /\ inString)
  /\ buf \in Seq(Kept) /\ args \in Seq(Argument)

Counting ==
  /\ instrs \in Seq(AnInstr) /\ address \in Nat /\ lineNumber \in Nat
  /\ address <= Len(instrs) /\ Len(instrs) < lineNumber

TokInv == Cursors /\ Gathering /\ Counting

LEMMA InitTokInv == TokInit => TokInv
<1> SUFFICES ASSUME TokInit PROVE TokInv
  OBVIOUS
<1>1. Cursors
  <2>1. Len(text) \in Nat
    BY TextsAssumption DEF TokInit
  <2>. QED
    BY <2>1 DEF TokInit, Cursors
<1>2. Gathering
  <2>1. <<>> \in Seq(Kept) /\ <<>> \in Seq(Argument)
    OBVIOUS
  <2>. QED
    BY <2>1, Zenon DEF TokInit, Gathering
<1>3. Counting
  BY DEF TokInit, Counting
<1>. QED
  BY <1>1, <1>2, <1>3 DEF TokInv

LEMMA TextIsSeq == Cursors => text \in Seq(Characters) /\ Len(text) \in Nat
BY TextsAssumption DEF Cursors

LEMMA GatheredType == Gathering => Gathered \in Seq(Argument)
<1>1. Gathering /\ buf # <<>> => buf \in Argument
  BY DEF Gathering, Argument
<1>. QED
  BY <1>1 DEF Gathering, Gathered

-----------------------------------------------------------------------------
(* The loop of parse.                                                      *)
LEMMA CursorStep ==
  ASSUME TokInv, ScanCharacter \/ CallParseLine \/ BreakOrContinue \/ Trim \/ BeginLine
  PROVE  TokInv'
<1>1. text \in Seq(Characters) /\ Len(text) \in Nat
  BY TextIsSeq DEF TokInv
<1>2. CharAt(assembly) # "end" => assembly <= Len(text)
  BY <1>1 DEF CharAt, TokInv, Cursors
<1>3. Cursors'
  BY <1>1, <1>2 DEF ScanCharacter, CallParseLine, BreakOrContinue, Trim, Trims, BeginLine, EndsLine,
    lineVars, fileVars, TokInv, Cursors
<1>4. Gathering'
  <2>1. CASE CallParseLine
    <3>1. <<>> \in Seq(Kept) /\ <<>> \in Seq(Argument)
      OBVIOUS
    <3>. QED
      BY <2>1, <3>1, Zenon DEF CallParseLine, Gathering
  <2>2. CASE ScanCharacter \/ BreakOrContinue \/ Trim \/ BeginLine
    <3>1. UNCHANGED <<inComment, inString, buf, args>>
      BY <2>2 DEF ScanCharacter, BreakOrContinue, Trim, BeginLine, lineVars
    <3>. QED
      BY <3>1 DEF TokInv, Gathering
  <2>. QED
    BY <2>1, <2>2
<1>5. Counting'
  BY DEF ScanCharacter, CallParseLine, BreakOrContinue, Trim, BeginLine, lineVars, fileVars, TokInv, Counting
<1>. QED
  BY <1>3, <1>4, <1>5 DEF TokInv

-----------------------------------------------------------------------------
(* A character of a line.                                                  *)
LEMMA KeptCharacter ==
  ASSUME TokInv, NEW c \in Kept, AtCharacter(c), NEW commented, Keep(commented)
  PROVE  buf' \in Seq(Kept)
BY DEF TokInv, Gathering, AtCharacter, Keep

LEMMA CharacterStep ==
  ASSUME TokInv, Semicolon \/ CarriageReturn \/ Quote \/ Space \/ OtherCharacter
  PROVE  TokInv'
<1>1. text \in Seq(Characters) /\ Len(text) \in Nat
  BY TextIsSeq DEF TokInv
<1>2. Advance /\ loop = "line" /\ line < assembly
  BY DEF Semicolon, CarriageReturn, Quote, Space, OtherCharacter, AtCharacter
<1>3. Cursors' /\ Counting'
  BY <1>1, <1>2 DEF Advance, fileVars, TokInv, Cursors, Counting
<1>4. buf' \in Seq(Kept)
  <2>1. {"semi", "quote", "space", "dot", "colon", "x"} \subseteq Kept
    BY DEF Kept, Characters
  <2>2. CASE Semicolon
    BY <2>1, <2>2, KeptCharacter DEF Semicolon
  <2>3. CASE CarriageReturn
    BY <2>3 DEF CarriageReturn, TokInv, Gathering
  <2>4. CASE Quote
    BY <2>1, <2>4, KeptCharacter DEF Quote
  <2>5. CASE Space
    <3>1. AtCharacter("space") /\ (Keep(inComment) \/ buf' = <<>>)
      BY <2>5 DEF Space
    <3>2. CASE Keep(inComment)
      BY <2>1, <3>1, <3>2, KeptCharacter
    <3>3. CASE buf' = <<>>
      BY <3>3
    <3>. QED
      BY <3>1, <3>2, <3>3
  <2>6. CASE OtherCharacter
    BY <2>1, <2>6, KeptCharacter DEF OtherCharacter
  <2>. QED
    BY <2>2, <2>3, <2>4, <2>5, <2>6
<1>5. args' \in Seq(Argument)
  BY GatheredType DEF Semicolon, CarriageReturn, Quote, Space, OtherCharacter, TokInv, Gathering
<1>6. inComment' \in BOOLEAN /\ inString' \in BOOLEAN /\ ~ (inComment' /\ inString')
  <2>1. \/ inComment' = (inComment \/ ~ inString) /\ inString' = inString
        \/ inString' = (~ inString /\ ~ inComment) /\ inComment' = inComment
        \/ inComment' = inComment /\ inString' = inString
    BY DEF Semicolon, CarriageReturn, Quote, Space, OtherCharacter
  <2>2. inComment \in BOOLEAN /\ inString \in BOOLEAN /\ ~ (inComment /\ inString)
    BY DEF TokInv, Gathering
  <2>3. \A a, b \in BOOLEAN : (a \/ ~ b) \in BOOLEAN /\ (~ b /\ ~ a) \in BOOLEAN
    OBVIOUS
  <2>4. inComment' \in BOOLEAN /\ inString' \in BOOLEAN
    BY <2>1, <2>2, <2>3, Zenon
  <2>5. ~ (inComment' /\ inString')
    BY <2>1, <2>2, Zenon
  <2>. QED
    BY <2>4, <2>5
<1>. QED
  BY <1>3, <1>4, <1>5, <1>6 DEF TokInv, Gathering

-----------------------------------------------------------------------------
(* The end of a line.                                                      *)
LEMMA LineType ==
  ASSUME NEW arguments \in Seq(Argument), arguments # <<>>, NEW n \in Nat, NEW a \in Nat
  PROVE  [line |-> AssemblerInstruction(arguments, n), address |-> a] \in AnInstr
<1>1. Head(arguments) \in Argument /\ Tail(arguments) \in Seq(Argument)
  OBVIOUS
<1>2. Kind(arguments) \in {"constant", "label", "code"}
  BY DEF Kind
<1>. QED
  BY <1>1, <1>2 DEF AssemblerInstruction, AnInstr

LEMMA ReturnStep ==
  ASSUME TokInv, Return
  PROVE  Cursors' /\ Gathering'
<1>1. Len(text) \in Nat
  BY TextIsSeq DEF TokInv
<1>. QED
  BY <1>1 DEF Return, TokInv, Cursors, Gathering

LEMMA LineStep ==
  ASSUME TokInv, BlankLine \/ EndLine
  PROVE  TokInv'
<1>1. Return /\ lineNumber' = lineNumber + 1
  BY DEF BlankLine, EndLine, Return
<1>2. Counting'
  <2>1. CASE UNCHANGED <<address, instrs>>
    BY <1>1, <2>1 DEF TokInv, Counting
  <2>2. CASE ~ UNCHANGED <<address, instrs>>
    <3> DEFINE next == AssemblerInstruction(Gathered, lineNumber)
               instr == [line |-> next, address |-> address]
    <3>1. Gathered # <<>> /\ instrs' = Append(instrs, instr)
          /\ address' = address + (IF next.kind = "code" THEN 1 ELSE 0)
      BY <2>2 DEF BlankLine, EndLine
    <3>2. instr \in AnInstr
      BY <3>1, GatheredType, LineType DEF TokInv, Counting
    <3>3. instrs' \in Seq(AnInstr) /\ Len(instrs') = Len(instrs) + 1
      <4> HIDE DEF instr
      <4>. QED
        BY <3>1, <3>2 DEF TokInv, Counting
    <3>4. address' \in Nat /\ address' <= address + 1
      <4> HIDE DEF next
      <4>. QED
        BY <3>1 DEF TokInv, Counting
    <3>. QED
      BY <1>1, <3>3, <3>4 DEF TokInv, Counting
  <2>. QED
    BY <2>1, <2>2
<1>. QED
  BY <1>1, <1>2, ReturnStep DEF TokInv

-----------------------------------------------------------------------------
LEMMA TokStepKeepsInv == TokInv /\ [TokNext]_tokVars => TokInv'
<1>1. CASE TokStep
  BY <1>1, CursorStep, CharacterStep, LineStep DEF TokStep
<1>2. CASE UNCHANGED tokVars
  BY <1>2 DEF tokVars, lineVars, fileVars, TokInv, Cursors, Gathering, Counting
<1>. QED
  BY <1>1, <1>2 DEF TokNext, Parsed

THEOREM TokInvHolds == TokSpec => []TokInv
BY InitTokInv, TokStepKeepsInv, PTL DEF TokSpec

(* In a text of any length the cursors of parse and parseLine stay inside  *)
(* the text and its final 0, no argument is empty or holds a newline or a  *)
(* carriage return, and a line is an instruction at most once.             *)
THEOREM TokTypeCorrect == TokSpec => []TokTypeOK
<1>1. TokInv => TokTypeOK
  BY DEF TokInv, Cursors, Gathering, Counting, TokTypeOK, Argument, Kept
<1>. QED
  BY <1>1, TokInvHolds, PTL

-----------------------------------------------------------------------------
(* A measure of the three loops.                                           *)
LEMMA TurnsLeftNat == TokInv => TurnsLeft \in Nat
<1> SUFFICES ASSUME TokInv PROVE TurnsLeft \in Nat
  OBVIOUS
<1>1. Len(text) \in Nat /\ Cursors
  BY TextIsSeq DEF TokInv
<1>2. AfterThis[loop] \in 0 .. 4
  BY <1>1 DEF Cursors, AfterThis
<1>. QED
  BY <1>1, <1>2 DEF Cursors, TurnsLeft

LEMMA TurnAdvances ==
  ASSUME TokInv, TokStep
  PROVE  TurnsLeft' \in 0 .. TurnsLeft - 1
<1>1. Len(text) \in Nat /\ Cursors /\ text' = text
  BY TextIsSeq DEF TokInv, TokStep, ScanCharacter, CallParseLine, BreakOrContinue, Trim, BlankLine,
    BeginLine, Semicolon, CarriageReturn, Quote, Space, OtherCharacter, EndLine, Return, Advance
<1>2. TurnsLeft \in Nat /\ TurnsLeft' \in Nat
  <2>1. TokInv'
    BY TokStepKeepsInv DEF TokNext
  <2>2. (TurnsLeft \in Nat)'
    BY <2>1, TurnsLeftNat, PTL
  <2>. QED
    BY <2>2, TurnsLeftNat
<1>3. CASE ScanCharacter \/ BreakOrContinue
  <2>1. CharAt(assembly) # "end" => assembly <= Len(text)
    BY <1>1 DEF CharAt, Cursors
  <2>2. CASE ScanCharacter
    <3>1. assembly' = assembly + 1 /\ line' = line /\ loop' = loop
      BY <2>2 DEF ScanCharacter, lineVars
    <3>2. AfterThis[loop] \in 0 .. 4 /\ (AfterThis[loop])' = AfterThis[loop]
      BY <1>1, <3>1 DEF Cursors, AfterThis
    <3>3. TurnsLeft' = TurnsLeft - 4
      BY <1>1, <3>1, <3>2 DEF TurnsLeft, Cursors
    <3>. QED
      BY <1>2, <3>3
  <2>3. CASE BreakOrContinue
    <3>1. line' = line /\ loop = "break"
      BY <2>3 DEF BreakOrContinue, lineVars
    <3>2. (loop' = "parsed" /\ assembly' = assembly) \/ (loop' = "text" /\ assembly' = assembly + 1)
      BY <2>3 DEF BreakOrContinue
    <3>. QED
      BY <1>1, <1>2, <3>1, <3>2, SMTT(30) DEF TurnsLeft, Cursors, AfterThis
  <2>. QED
    BY <1>3, <2>2, <2>3
<1>4. CASE CallParseLine \/ BeginLine
  <2>1. assembly' = assembly /\ line' = line
    BY <1>4 DEF CallParseLine, BeginLine, lineVars
  <2>2. (loop = "text" /\ loop' = "trim") \/ (loop = "trim" /\ loop' = "line")
    BY <1>4 DEF CallParseLine, BeginLine
  <2>. QED
    BY <1>1, <1>2, <2>1, <2>2 DEF TurnsLeft, Cursors, AfterThis
<1>5. CASE Trim \/ Semicolon \/ CarriageReturn \/ Quote \/ Space \/ OtherCharacter
  <2>1. line' = line + 1 /\ assembly' = assembly /\ loop' = loop
    BY <1>5 DEF Trim, Semicolon, CarriageReturn, Quote, Space, OtherCharacter, Advance
  <2>2. AfterThis[loop] \in 0 .. 4 /\ (AfterThis[loop])' = AfterThis[loop]
    BY <1>1, <2>1 DEF Cursors, AfterThis
  <2>3. TurnsLeft' = TurnsLeft - 1
    BY <1>1, <2>1, <2>2 DEF TurnsLeft, Cursors
  <2>. QED
    BY <1>2, <2>3
<1>6. CASE BlankLine \/ EndLine
  <2>1. loop \in {"trim", "line"} /\ line >= assembly /\ line <= assembly
    BY <1>1, <1>6 DEF BlankLine, EndLine, Cursors
  <2>2. line' = assembly + 1 /\ assembly' = assembly /\ loop' = "break"
    BY <1>6 DEF BlankLine, EndLine, Return
  <2>. QED
    BY <1>1, <1>2, <2>1, <2>2 DEF TurnsLeft, Cursors, AfterThis
<1>. QED
  BY <1>3, <1>4, <1>5, <1>6 DEF TokStep

(* Whatever a file of any length holds, every turn of the three loops of   *)
(* parse and parseLine brings them nearer to their end, which is at most   *)
(* five turns a character away: no character makes a loop stay.            *)
THEOREM TurnsAdvance == TokSpec => EveryTurnAdvances
<1>1. TokInv /\ [TokNext]_tokVars => [TurnsLeft' \in 0 .. TurnsLeft - 1]_tokVars
  BY TurnAdvances DEF TokNext, Parsed
<1>. QED
  BY <1>1, TokInvHolds, PTL DEF TokSpec, EveryTurnAdvances
-----------------------------------------------------------------------------
(* The inductive invariant of the refinement: which line is read, what of  *)
(* it, and how many lines have joined the list.                            *)
From == Nth(Ends(text), lineNumber)

AtLine ==
  /\ From \in Ends(text) /\ Cardinality(Below(Ends(text), From)) = lineNumber - 1
  /\ loop \in {"text", "trim", "line"} =>
       From < assembly /\ \A i \in From + 1 .. assembly - 1 : i \notin Ends(text)
  /\ loop = "text" => line = From + 1
  /\ loop \in {"trim", "line"} => From < line /\ assembly \in Ends(text)
  /\ loop \in {"break", "parsed"} => assembly = From
  /\ loop = "parsed" => assembly = Len(text) + 1

ReadSoFar ==
  /\ loop \in {"trim", "line"} => Reads(Between(text, From, line), inComment, inString, buf, args)
  /\ loop = "trim" => inComment = FALSE /\ inString = FALSE /\ buf = <<>> /\ args = <<>>

Listed == Len(instrs) = Cardinality(Below(NonBlank(text), lineNumber))

LineInv == TokInv /\ AtLine /\ ReadSoFar /\ Listed

LEMMA TextType ==
  ASSUME TokInv
  PROVE  /\ text \in Seq(Characters) /\ Len(text) \in Nat /\ lineNumber \in Nat
         /\ assembly \in 1 .. Len(text) + 1 /\ line \in 1 .. Len(text) + 2
         /\ \A i \in Ends(text) : i \in Nat
BY TextIsSeq, EndsWithin DEF TokInv, Cursors, Counting, Within

LEMMA CharacterEnds ==
  ASSUME TokInv, NEW i \in 1 .. Len(text) + 1
  PROVE  /\ i \in Ends(text) <=> EndsLine(CharAt(i))
         /\ CharAt(i) = "end" <=> i = Len(text) + 1
         /\ i <= Len(text) => CharAt(i) = text[i] /\ text[i] \in Characters
<1>1. text \in Seq(Characters) /\ Len(text) \in Nat
  BY TextType
<1>2. i <= Len(text) => text[i] \in Characters
  BY <1>1
<1>3. "end" \notin Characters
  BY DEF Characters
<1>. QED
  BY <1>1, <1>2, <1>3, EndsWithin DEF EndsLine, CharAt

LEMMA InitLineInv == TokInit => LineInv
<1> SUFFICES ASSUME TokInit PROVE LineInv
  OBVIOUS
<1>1. TokInv
  BY InitTokInv
<1>2. text \in Seq(Characters) /\ Within(Ends(text), Len(text) + 1) /\ 0 \in Ends(text) /\ Len(text) \in Nat
  BY <1>1, TextType, EndsWithin
<1>3. Below(Ends(text), 0) = {}
  BY <1>2 DEF Below, Within
<1>4. Cardinality(Below(Ends(text), 0)) = 0
  BY <1>3, FS_EmptySet
<1>5. Nth(Ends(text), 1) = 0
  <2>1. Nth(Ends(text), Cardinality(Below(Ends(text), 0)) + 1) = 0
    BY <1>2, NthIs
  <2>. QED
    BY <1>4, <2>1
<1>6. AtLine
  BY <1>2, <1>4, <1>5 DEF TokInit, AtLine, From
<1>7. ReadSoFar
  BY DEF TokInit, ReadSoFar
<1>8. Listed
  <2>1. Below(NonBlank(text), 1) = {}
    <3>1. Cardinality(Ends(text)) \in Nat
      BY <1>2, BelowFinite
    <3>. QED
      BY <3>1 DEF Below, NonBlank
  <2>. QED
    BY <2>1, FS_EmptySet DEF TokInit, Listed
<1>. QED
  BY <1>1, <1>6, <1>7, <1>8 DEF LineInv

(* Steps within a line of the text.                                        *)
LEMMA SameLine ==
  ASSUME UNCHANGED <<text, lineNumber>>
  PROVE  From' = From /\ (UNCHANGED instrs /\ Listed => Listed')
BY DEF From, Listed

LEMMA ScanLine ==
  ASSUME LineInv, ScanCharacter
  PROVE  LineInv'
<1>1. TokInv /\ AtLine /\ ReadSoFar /\ Listed /\ TokInv'
  BY CursorStep DEF LineInv
<1>2. UNCHANGED <<text, loop, line, lineNumber, instrs>> /\ assembly' = assembly + 1 /\ loop = "text"
  BY DEF ScanCharacter, lineVars, fileVars
<1>3. assembly \notin Ends(text)
  BY <1>1, TextType, CharacterEnds DEF ScanCharacter
<1>4. From' = From /\ Listed'
  BY <1>1, <1>2, SameLine
<1>5. AtLine'
  <2>1. From \in Nat /\ assembly \in Nat
    BY <1>1, TextType DEF AtLine
  <2>2. \A i \in From + 1 .. assembly : i \notin Ends(text)
    BY <1>1, <1>2, <1>3, <2>1 DEF AtLine
  <2>. QED
    BY <1>1, <1>2, <1>4, <2>1, <2>2 DEF AtLine
<1>6. ReadSoFar'
  BY <1>2 DEF ReadSoFar
<1>. QED
  BY <1>1, <1>4, <1>5, <1>6 DEF LineInv

LEMMA StartLine ==
  ASSUME LineInv, CallParseLine
  PROVE  LineInv'
<1>1. TokInv /\ AtLine /\ ReadSoFar /\ Listed /\ TokInv'
  BY CursorStep DEF LineInv
<1>2. /\ UNCHANGED <<text, assembly, line, lineNumber, instrs>> /\ loop = "text" /\ loop' = "trim"
      /\ inComment' = FALSE /\ inString' = FALSE /\ buf' = <<>> /\ args' = <<>>
  BY DEF CallParseLine, fileVars
<1>3. assembly \in Ends(text)
  BY <1>1, TextType, CharacterEnds DEF CallParseLine
<1>4. From' = From /\ Listed'
  BY <1>1, <1>2, SameLine
<1>5. From \in Nat /\ assembly \in Nat /\ line = From + 1 /\ From < assembly
  BY <1>1, <1>2, TextType DEF AtLine
<1>6. AtLine'
  BY <1>1, <1>2, <1>3, <1>4, <1>5 DEF AtLine
<1>7. ReadSoFar'
  <2>1. From \in 0 .. Len(text) /\ text \in Seq(Characters)
    BY <1>1, <1>5, TextType
  <2>2. Between(text, From, line) = <<>>
    BY <1>5, <2>1, BetweenFirst
  <2>. QED
    BY <1>2, <1>4, <2>2, ReadNothing DEF ReadSoFar
<1>. QED
  BY <1>1, <1>4, <1>6, <1>7 DEF LineInv

LEMMA AfterLine ==
  ASSUME LineInv, BreakOrContinue
  PROVE  LineInv'
<1>1. TokInv /\ AtLine /\ ReadSoFar /\ Listed /\ TokInv'
  BY CursorStep DEF LineInv
<1>2. UNCHANGED <<text, line, lineNumber, instrs>> /\ loop = "break"
  BY DEF BreakOrContinue, lineVars, fileVars
<1>3. From' = From /\ Listed'
  BY <1>1, <1>2, SameLine
<1>4. assembly = From /\ line = assembly + 1 /\ From \in Nat
  BY <1>1, <1>2, TextType DEF AtLine, TokInv, Cursors
<1>5. AtLine'
  <2>1. CASE CharAt(assembly) = "end"
    <3>1. loop' = "parsed" /\ assembly' = assembly /\ assembly = Len(text) + 1
      BY <1>1, <2>1, TextType, CharacterEnds DEF BreakOrContinue
    <3>. QED
      BY <1>1, <1>2, <1>3, <1>4, <3>1 DEF AtLine
  <2>2. CASE CharAt(assembly) # "end"
    <3>1. loop' = "text" /\ assembly' = assembly + 1
      BY <2>2 DEF BreakOrContinue
    <3>. QED
      BY <1>1, <1>2, <1>3, <1>4, <3>1 DEF AtLine
  <2>. QED
    BY <2>1, <2>2
<1>6. ReadSoFar'
  BY <1>2 DEF ReadSoFar, BreakOrContinue
<1>. QED
  BY <1>1, <1>3, <1>5, <1>6 DEF LineInv

LEMMA TrimmedLine ==
  ASSUME LineInv, BeginLine
  PROVE  LineInv'
<1>1. TokInv /\ AtLine /\ ReadSoFar /\ Listed /\ TokInv'
  BY CursorStep DEF LineInv
<1>2. UNCHANGED <<text, assembly, line, inComment, inString, buf, args, lineNumber, instrs>>
      /\ loop = "trim" /\ loop' = "line"
  BY DEF BeginLine, lineVars, fileVars
<1>3. From' = From /\ Listed'
  BY <1>1, <1>2, SameLine
<1>4. AtLine' /\ ReadSoFar'
  BY <1>1, <1>2, <1>3 DEF AtLine, ReadSoFar
<1>. QED
  BY <1>1, <1>3, <1>4 DEF LineInv

(* A character of the line is read.                                        *)
Reading(c) ==
  /\ loop \in {"trim", "line"} /\ loop' = loop /\ line < assembly /\ CharAt(line) = c /\ line' = line + 1
  /\ UNCHANGED <<text, assembly, lineNumber, instrs>>

LEMMA ReadingOn ==
  ASSUME LineInv, NEW c, Reading(c)
  PROVE  /\ c \in Characters /\ From' = From /\ Listed' /\ AtLine'
         /\ Between(text, From, line)' =
              IF c = "cr" THEN Between(text, From, line) ELSE Append(Between(text, From, line), c)
<1>1. TokInv /\ AtLine /\ ReadSoFar /\ Listed
  BY DEF LineInv
<1>2. From' = From /\ Listed'
  BY <1>1, SameLine DEF Reading
<1>3. text \in Seq(Characters) /\ Len(text) \in Nat /\ From \in Nat /\ line \in Nat /\ From < line
      /\ assembly \in 1 .. Len(text) + 1 /\ line < assembly
  BY <1>1, TextType DEF AtLine, Reading
<1>4. line \in 1 .. Len(text) + 1 /\ line <= Len(text) /\ From \in 0 .. Len(text) /\ line \in From + 1 .. Len(text)
  BY <1>3
<1>5. text[line] = c /\ c \in Characters
  BY <1>1, <1>4, CharacterEnds DEF Reading
<1>6. Between(text, From, line + 1) =
        IF text[line] = "cr" THEN Between(text, From, line) ELSE Append(Between(text, From, line), text[line])
  BY <1>3, <1>4, BetweenNext
<1>7. Between(text, From, line)' = Between(text, From, line + 1)
  BY <1>2 DEF Reading
<1>8. AtLine'
  BY <1>1, <1>2, <1>3 DEF AtLine, Reading
<1>. QED
  BY <1>2, <1>5, <1>6, <1>7, <1>8

LEMMA TrimLine ==
  ASSUME LineInv, Trim
  PROVE  LineInv'
<1>1. TokInv /\ ReadSoFar /\ TokInv'
  BY CursorStep DEF LineInv
<1>2. PICK c \in {"space", "cr"} : Reading(c)
  BY DEF Trim, Trims, Reading, fileVars
<1>3. UNCHANGED <<loop, inComment, inString, buf, args>> /\ loop = "trim"
  BY DEF Trim
<1>4. Listed' /\ AtLine' /\ Between(text, From, line)' =
         IF c = "cr" THEN Between(text, From, line) ELSE Append(Between(text, From, line), c)
  BY <1>2, ReadingOn
<1>5. Reads(Between(text, From, line), FALSE, FALSE, <<>>, <<>>)
  BY <1>1, <1>3 DEF ReadSoFar
<1>6. Reads(Append(Between(text, From, line), "space"), FALSE, FALSE, <<>>, <<>>)
  BY <1>5, ReadSpace DEF Joined
<1>7. Reads(Between(text, From, line)', FALSE, FALSE, <<>>, <<>>)
  BY <1>2, <1>4, <1>5, <1>6
<1>8. ReadSoFar'
  BY <1>1, <1>3, <1>7 DEF ReadSoFar
<1>. QED
  BY <1>1, <1>4, <1>8 DEF LineInv

LEMMA ReadLine ==
  ASSUME LineInv, Semicolon \/ CarriageReturn \/ Quote \/ Space \/ OtherCharacter
  PROVE  LineInv'
<1> DEFINE s == Between(text, From, line)
<1>1. TokInv /\ ReadSoFar /\ TokInv' /\ inComment \in BOOLEAN /\ inString \in BOOLEAN
  BY CharacterStep DEF LineInv, TokInv, Gathering
<1>2. PICK c : Reading(c) /\ AtCharacter(c) /\
        \/ c = "semi" /\ Semicolon
        \/ c = "cr" /\ CarriageReturn
        \/ c = "quote" /\ Quote
        \/ c = "space" /\ Space
        \/ c \in {"dot", "colon", "x"} /\ OtherCharacter
  BY DEF Semicolon, CarriageReturn, Quote, Space, OtherCharacter, AtCharacter, Advance, Reading, fileVars
<1>3. /\ c \in Characters /\ Listed' /\ AtLine'
      /\ s' = IF c = "cr" THEN s ELSE Append(s, c)
  BY <1>2, ReadingOn
<1>4. Reads(s, inComment, inString, buf, args) /\ loop' = "line"
  BY <1>1, <1>2 DEF ReadSoFar, AtCharacter, Reading
<1> HIDE DEF s
<1>5. ASSUME inComment = TRUE PROVE Reads(s', inComment', inString', buf', args')
  <2>1. inComment' = TRUE /\ buf' = buf /\ args' = args
    BY <1>2, <1>5 DEF Semicolon, CarriageReturn, Quote, Space, OtherCharacter, Keep
  <2>2. Reads(s, TRUE, inString, buf, args)
    BY <1>4, <1>5
  <2>3. CASE c = "cr"
    <3>1. inString' = inString /\ s' = s
      BY <1>2, <1>3, <2>3 DEF CarriageReturn
    <3>. QED
      BY <2>1, <2>2, <3>1
  <2>4. CASE c # "cr"
    <3>1. s' = Append(s, c)
      BY <1>3, <2>4
    <3>2. Reads(Append(s, c), TRUE, inString', buf, args)
      BY <1>3, <2>2, ReadInComment
    <3>. QED
      BY <2>1, <3>1, <3>2
  <2>. QED
    BY <2>3, <2>4
<1>6. ASSUME inComment = FALSE PROVE Reads(s', inComment', inString', buf', args')
  <2>0. Reads(s, FALSE, inString, buf, args)
    BY <1>4, <1>6
  <2>1. CASE c = "cr"
    <3>1. inComment' = inComment /\ inString' = inString /\ buf' = buf /\ args' = args /\ s' = s
      BY <1>2, <1>3, <2>1 DEF CarriageReturn
    <3>. QED
      BY <1>4, <3>1
  <2>2. CASE c = "semi" /\ ~ inString
    <3>1. inComment' = TRUE /\ buf' = buf /\ args' = args /\ s' = Append(s, "semi")
      BY <1>2, <1>3, <2>2 DEF Semicolon, Keep
    <3>2. Reads(s, FALSE, FALSE, buf, args)
      BY <1>1, <2>0, <2>2
    <3>3. Reads(Append(s, "semi"), TRUE, inString', buf, args)
      BY <3>2, ReadSemicolon
    <3>. QED
      BY <3>1, <3>3
  <2>3. CASE c = "space" /\ ~ inString
    <3>1. inComment' = FALSE /\ inString' = FALSE /\ buf' = <<>> /\ args' = Joined(buf, args)
      BY <1>1, <1>2, <1>6, <2>3 DEF Space, Gathered, Joined
    <3>2. Reads(s, FALSE, FALSE, buf, args) /\ s' = Append(s, "space")
      BY <1>1, <1>3, <2>0, <2>3
    <3>3. Reads(Append(s, "space"), FALSE, FALSE, <<>>, Joined(buf, args))
      BY <3>2, ReadSpace
    <3>. QED
      BY <3>1, <3>2, <3>3
  <2>4. CASE c # "cr" /\ (inString \/ c \notin {"semi", "space"})
    <3>1. inComment' = FALSE /\ args' = args
      BY <1>1, <1>2, <1>6, <2>4 DEF Semicolon, Quote, Space, OtherCharacter
    <3>2. inString' <=> (inString <=> c # "quote")
      <4>1. CASE c = "quote"
        <5>1. inString' = (~ inString /\ ~ inComment)
          BY <1>2, <4>1 DEF Quote
        <5>. QED
          BY <1>1, <1>6, <4>1, <5>1
      <4>2. CASE c # "quote"
        <5>1. inString' = inString
          BY <1>2, <2>4, <4>2 DEF Semicolon, Space, OtherCharacter
        <5>. QED
          BY <1>1, <4>2, <5>1
      <4>. QED
        BY <4>1, <4>2
    <3>3. buf' = Append(buf, c)
      BY <1>1, <1>2, <1>6, <2>4 DEF Semicolon, Quote, Space, OtherCharacter, Keep, AtCharacter
    <3>4. Reads(Append(s, c), FALSE, inString <=> c # "quote", Append(buf, c), args)
      <4>1. inString \/ c \notin {"semi", "space"}
        BY <2>4
      <4>. QED
        BY <1>3, <2>0, <4>1, ReadArgument
    <3>5. Reads(Append(s, c), FALSE, inString', Append(buf, c), args)
      BY <3>2, <3>4 DEF Reads
    <3>. QED
      BY <1>3, <2>4, <3>1, <3>3, <3>5
  <2>. QED
    BY <2>1, <2>2, <2>3, <2>4
<1>7. Reads(s', inComment', inString', buf', args')
  BY <1>1, <1>5, <1>6
<1>8. s' = Between(text, From, line)'
  BY DEF s
<1>9. ReadSoFar'
  BY <1>4, <1>7, <1>8 DEF ReadSoFar
<1>. QED
  BY <1>1, <1>3, <1>9 DEF LineInv

-----------------------------------------------------------------------------
(* The line ends.  Either it has no argument, or it is the next of the     *)
(* lines that the text has.                                                *)
LEMMA AtLineEnd ==
  ASSUME LineInv, loop \in {"trim", "line"}, line >= assembly
  PROVE  /\ text \in Seq(Characters) /\ From \in Ends(text) /\ assembly \in Ends(text) /\ From < assembly
         /\ From \in Nat /\ assembly \in Nat /\ lineNumber \in Nat /\ line = assembly
         /\ Cardinality(Below(Ends(text), From)) = lineNumber - 1
         /\ Cardinality(Below(Ends(text), assembly)) = lineNumber
         /\ lineNumber \in 1 .. Cardinality(Ends(text)) - 1
         /\ Reads(LineOf(text, lineNumber), inComment, inString, buf, args)
         /\ Gathered = ArgumentsOf(text, lineNumber)
         /\ lineNumber \in NonBlank(text) <=> Gathered # <<>>
<1>1. TokInv /\ AtLine /\ ReadSoFar
  BY DEF LineInv
<1>2. /\ text \in Seq(Characters) /\ From \in Ends(text) /\ assembly \in Ends(text) /\ From < assembly
      /\ From \in Nat /\ assembly \in Nat /\ lineNumber \in Nat /\ line = assembly
      /\ Cardinality(Below(Ends(text), From)) = lineNumber - 1
      /\ \A i \in From + 1 .. assembly - 1 : i \notin Ends(text)
  BY <1>1, TextType DEF AtLine, TokInv, Cursors
<1>3. Cardinality(Below(Ends(text), assembly)) = lineNumber
  <2>1. Cardinality(Below(Ends(text), assembly)) = Cardinality(Below(Ends(text), From)) + 1
    BY <1>2, NextEnd
  <2>. QED
    BY <1>2, <2>1
<1>4. LineOf(text, lineNumber) = Between(text, From, assembly)
      /\ lineNumber \in 1 .. Cardinality(Ends(text)) - 1
  <2>1. lineNumber = Cardinality(Below(Ends(text), From)) + 1
    BY <1>2
  <2>. QED
    BY <1>2, <2>1, LineIs
<1>5. Reads(LineOf(text, lineNumber), inComment, inString, buf, args)
  BY <1>1, <1>2, <1>4 DEF ReadSoFar
<1>6. Gathered = ArgumentsOf(text, lineNumber)
  <2>1. Joined(buf, args) = Arguments(Uncommented(LineOf(text, lineNumber)))
    BY <1>5 DEF Reads
  <2>. QED
    BY <2>1 DEF Joined, Gathered, ArgumentsOf
<1>7. lineNumber \in NonBlank(text) <=> Gathered # <<>>
  BY <1>4, <1>6 DEF NonBlank
<1>. QED
  BY <1>2, <1>3, <1>4, <1>5, <1>6, <1>7

LEMMA LineEnds ==
  ASSUME LineInv, BlankLine \/ EndLine
  PROVE  LineInv' /\ (instrs' # instrs <=> lineNumber \in NonBlank(text))
<1>1. TokInv /\ AtLine /\ ReadSoFar /\ Listed /\ TokInv'
  BY LineStep DEF LineInv
<1>2. /\ loop \in {"trim", "line"} /\ line >= assembly
      /\ text' = text /\ lineNumber' = lineNumber + 1 /\ assembly' = assembly /\ loop' = "break"
  BY DEF BlankLine, EndLine, Return
<1>3. /\ text \in Seq(Characters) /\ assembly \in Ends(text) /\ lineNumber \in Nat
      /\ Cardinality(Below(Ends(text), assembly)) = lineNumber
      /\ (lineNumber \in NonBlank(text) <=> Gathered # <<>>)
  BY <1>2, AtLineEnd
<1>4. From' = assembly
  <2>1. Nth(Ends(text), Cardinality(Below(Ends(text), assembly)) + 1) = assembly
    BY <1>3, EndsWithin, NthIs
  <2>. QED
    BY <1>2, <1>3, <2>1 DEF From
<1>5. AtLine'
  <2>1. (lineNumber + 1) - 1 = lineNumber
    BY <1>3
  <2>. QED
    BY <1>2, <1>3, <1>4, <2>1 DEF AtLine
<1>6. ReadSoFar'
  BY <1>2 DEF ReadSoFar
<1>7. /\ lineNumber \in NonBlank(text) => Len(instrs') = Len(instrs) + 1
      /\ lineNumber \notin NonBlank(text) => instrs' = instrs
  <2>1. CASE BlankLine
    <3>1. Gathered = <<>>
      BY <1>1, <2>1 DEF BlankLine, ReadSoFar, Gathered
    <3>. QED
      BY <1>3, <2>1, <3>1 DEF BlankLine
  <2>2. CASE EndLine
    <3>1. Gathered # <<>> => \E e : instrs' = Append(instrs, e)
      BY <2>2 DEF EndLine
    <3>2. Gathered = <<>> => instrs' = instrs
      BY <2>2 DEF EndLine
    <3>3. \A e : Len(Append(instrs, e)) = Len(instrs) + 1
      BY <1>1 DEF TokInv, Counting
    <3>. QED
      BY <1>3, <3>1, <3>2, <3>3
  <2>. QED
    BY <2>1, <2>2
<1>8. Listed'
  <2>1. Cardinality(Below(NonBlank(text), lineNumber + 1))
          = Cardinality(Below(NonBlank(text), lineNumber)) + (IF lineNumber \in NonBlank(text) THEN 1 ELSE 0)
    BY <1>3, NonBlankWithin, BelowNext
  <2>2. Len(instrs) \in Nat
    BY <1>1 DEF TokInv, Counting
  <2>. QED
    BY <1>1, <1>2, <1>7, <2>1, <2>2 DEF Listed
<1>9. instrs' # instrs <=> lineNumber \in NonBlank(text)
  <2>1. Len(instrs) \in Nat
    BY <1>1 DEF TokInv, Counting
  <2>. QED
    BY <1>7, <2>1
<1>. QED
  BY <1>1, <1>5, <1>6, <1>8, <1>9 DEF LineInv

LEMMA StepKeepsLineInv == LineInv /\ [TokNext]_tokVars => LineInv'
<1>1. CASE LineInv /\ TokStep
  BY <1>1, ScanLine, StartLine, AfterLine, TrimLine, TrimmedLine, ReadLine, LineEnds DEF TokStep
<1>2. CASE LineInv /\ UNCHANGED tokVars
  <2>1. UNCHANGED <<text, loop, assembly, line, inComment, inString, buf, args, lineNumber, address, instrs>>
    BY <1>2 DEF tokVars, lineVars, fileVars
  <2>2. TokInv' /\ From' = From
    BY <1>2, <2>1 DEF LineInv, TokInv, Cursors, Gathering, Counting, From
  <2>3. AtLine' /\ ReadSoFar' /\ Listed'
    BY <1>2, <2>1, <2>2 DEF LineInv, AtLine, ReadSoFar, Listed
  <2>. QED
    BY <2>2, <2>3 DEF LineInv
<1>. QED
  BY <1>1, <1>2 DEF TokNext, Parsed

THEOREM LineInvHolds == TokSpec => []LineInv
BY InitLineInv, StepKeepsLineInv, PTL DEF TokSpec

-----------------------------------------------------------------------------
(* The refinement.                                                         *)
LEMMA TheLines == TokInv => LinesOf[text] = Lines(text) /\ LinesOf[text] \in AllLines
BY DEF TokInv, Cursors, LinesOf, AllLines

LEMMA InitRefines == TokInit => Pass!AsmInit
<1> SUFFICES ASSUME TokInit PROVE Pass!AsmInit
  OBVIOUS
<1>1. LinesOf[text] \in AllLines
  BY InitTokInv, TheLines
<1>2. loop = "text" /\ address = 0 /\ instrs = <<>> /\ Len(instrs) + 1 = 1
  BY DEF TokInit
<1>. QED
  BY <1>1, <1>2 DEF Pass!AsmInit

(* parseLine returns with an argument: the next line joins the list.       *)
LEMMA LineJoins ==
  ASSUME LineInv, EndLine, Gathered # <<>>
  PROVE  Pass!ParseLine
<1> DEFINE k == Len(instrs) + 1
           next == AssemblerInstruction(Gathered, lineNumber)
<1>1. TokInv /\ Listed /\ loop = "line" /\ loop' = "break" /\ text' = text
  BY DEF LineInv, EndLine, Return
<1>2. text \in Seq(Characters) /\ lineNumber \in NonBlank(text) /\ Gathered = ArgumentsOf(text, lineNumber)
  BY AtLineEnd DEF EndLine
<1>3. k \in 1 .. Len(Lines(text)) /\ Lines(text)[k] = next
  BY <1>1, <1>2, NextLine DEF Listed
<1>4. LinesOf[text] = Lines(text) /\ k \in Nat
  BY <1>1, TheLines DEF TokInv, Counting
<1>5. /\ instrs' = Append(instrs, [line |-> next, address |-> address])
      /\ address' = address + (IF next.kind = "code" THEN 1 ELSE 0)
  BY DEF EndLine
<1>6. Len(instrs') = Len(instrs) + 1
  BY <1>1, <1>5 DEF TokInv, Counting
<1> HIDE DEF next
<1>. QED
  BY <1>1, <1>3, <1>4, <1>5, <1>6 DEF Pass!ParseLine, Pass!In, Pass!Walked, Pass!current

(* parse leaves its loop: every line has joined the list.                  *)
LEMMA AllJoined ==
  ASSUME LineInv, loop = "break", assembly = Len(text) + 1
  PROVE  Len(instrs) = Len(Lines(text))
<1>1. TokInv /\ AtLine /\ Listed
  BY DEF LineInv
<1>2. text \in Seq(Characters) /\ Len(text) \in Nat /\ lineNumber \in Nat /\ Within(Ends(text), Len(text) + 1)
      /\ Len(text) + 1 \in Ends(text)
  BY <1>1, TextType, EndsWithin
<1>3. Cardinality(Below(Ends(text), Len(text) + 1)) = lineNumber - 1
  BY <1>1 DEF AtLine
<1>4. Cardinality(Ends(text)) = lineNumber
  <2>1. Below(Ends(text), Len(text) + 2) = Ends(text)
    BY <1>2 DEF Below, Within
  <2>2. Cardinality(Below(Ends(text), (Len(text) + 1) + 1)) = (lineNumber - 1) + 1
    <3>1. Len(text) + 1 \in Nat
      BY <1>2
    <3>. QED
      BY <1>2, <1>3, <3>1, BelowNext
  <2>3. (Len(text) + 1) + 1 = Len(text) + 2 /\ (lineNumber - 1) + 1 = lineNumber
    BY <1>2
  <2>. QED
    BY <2>1, <2>2, <2>3
<1>5. Below(NonBlank(text), lineNumber) = NonBlank(text)
  BY <1>2, <1>4, NonBlankWithin DEF Below
<1>. QED
  BY <1>1, <1>2, <1>5, LinesLength DEF Listed

LEMMA LoopEnds ==
  ASSUME LineInv, BreakOrContinue
  PROVE  Pass!EndPass \/ UNCHANGED Pass!asmVars
<1>1. TokInv /\ loop = "break" /\ UNCHANGED <<text, lineNumber, address, instrs>>
  BY DEF LineInv, BreakOrContinue, fileVars
<1>2. LinesOf[text] = Lines(text) /\ Len(instrs) \in Nat
  BY <1>1, TheLines DEF TokInv, Counting
<1>3. CASE CharAt(assembly) = "end"
  <2>1. loop' = "parsed" /\ assembly = Len(text) + 1
    BY <1>1, <1>3, TextType, CharacterEnds DEF BreakOrContinue
  <2>2. Len(instrs) + 1 > Len(Lines(text))
    BY <1>1, <1>2, <2>1, AllJoined
  <2>3. Len(Pass!Passes) = 6 /\ Pass!Passes[1] = "parse" /\ Pass!Passes[2] = "labels"
    BY DEF Pass!Passes
  <2>. QED
    BY <1>1, <1>2, <2>1, <2>2, <2>3 DEF Pass!EndPass, Pass!Walked
<1>4. CASE CharAt(assembly) # "end"
  <2>1. loop' = "text"
    BY <1>4 DEF BreakOrContinue
  <2>. QED
    BY <1>1, <2>1 DEF Pass!asmVars
<1>. QED
  BY <1>3, <1>4

LEMMA StepRefines == LineInv /\ [TokNext]_tokVars => [Pass!AsmNext]_Pass!asmVars
<1> SUFFICES ASSUME LineInv, [TokNext]_tokVars PROVE Pass!AsmNext \/ UNCHANGED Pass!asmVars
  OBVIOUS
<1>1. CASE EndLine /\ Gathered # <<>>
  BY <1>1, LineJoins DEF Pass!AsmNext, Pass!AsmStep
<1>2. CASE BreakOrContinue
  BY <1>2, LoopEnds DEF Pass!AsmNext, Pass!AsmStep
<1>3. CASE BlankLine \/ (EndLine /\ Gathered = <<>>)
  <2>1. UNCHANGED <<text, address, instrs>> /\ loop' = "break" /\ loop # "parsed"
    BY <1>3 DEF BlankLine, EndLine, Return
  <2>. QED
    BY <2>1 DEF Pass!asmVars
<1>4. CASE ScanCharacter \/ CallParseLine \/ Trim \/ BeginLine
  <2>1. UNCHANGED <<text, address, instrs>> /\ loop # "parsed" /\ loop' # "parsed"
    BY <1>4 DEF ScanCharacter, CallParseLine, Trim, BeginLine, fileVars
  <2>. QED
    BY <2>1 DEF Pass!asmVars
<1>5. CASE Semicolon \/ CarriageReturn \/ Quote \/ Space \/ OtherCharacter
  <2>1. UNCHANGED <<text, address, instrs, loop>>
    BY <1>5 DEF Semicolon, CarriageReturn, Quote, Space, OtherCharacter, Advance, fileVars
  <2>. QED
    BY <2>1 DEF Pass!asmVars
<1>6. CASE UNCHANGED tokVars
  <2>1. UNCHANGED <<text, address, instrs, loop>>
    BY <1>6 DEF tokVars, fileVars
  <2>. QED
    BY <2>1 DEF Pass!asmVars
<1>. QED
  BY <1>1, <1>2, <1>3, <1>4, <1>5, <1>6 DEF TokNext, TokStep, Parsed

(* For a text of any length, whatever comments, strings, spaces, carriage  *)
(* returns and blank lines it has, parse hands the passes of Assembler     *)
(* exactly the lines of the text: their arguments in order, with the       *)
(* numbers of the lines and the addresses of the instructions.             *)
THEOREM TokensImplementParse == TokSpec => ImplementsParse
BY InitRefines, StepRefines, LineInvHolds, PTL DEF TokSpec, ImplementsParse, Pass!AsmSpec
=============================================================================
