-------------------------- MODULE TcpParserProofs --------------------------
(***************************************************************************)
(* What the scans of the parser find, for every content of its buffers,    *)
(* and what they make of a text that nobody else works on.                 *)
(***************************************************************************)
EXTENDS TcpParser, WellFoundedInduction, FiniteSetTheorems, SequenceTheorems, TLAPS

\* What the constants are.
LEMMA Limits ==
  /\ MaxInput \in Nat /\ MaxInput >= 1 /\ MaxFields \in Nat
  /\ Nul \in Chars /\ Comma \in Chars /\ Blank \in Chars
BY TcpParserAssumption

-----------------------------------------------------------------------------
(* Least and greatest elements.                                             *)

\* A set of natural numbers that is not empty has a least element.
LEMMA Least ==
  ASSUME NEW T \in SUBSET Nat, T # {}
  PROVE  \E x \in T : \A y \in T : x <= y
<1> DEFINE R == OpToRel(<, Nat)
<1>1. \E x \in T : \A y \in T : ~ (<<y, x>> \in R)
  <2>1. IsWellFoundedOn(R, Nat)
    BY NatLessThanWellFounded
  <2> HIDE DEF R
  <2> QED
    BY <2>1, WFMin
<1>2. \A x, y \in Nat : <<y, x>> \in R <=> y < x
  BY DEF OpToRel
<1> HIDE DEF R
<1>3. PICK x \in T : \A y \in T : ~ (<<y, x>> \in R)
  BY <1>1
<1>4. ASSUME NEW y \in T PROVE x <= y
  <2>1. x \in Nat /\ y \in Nat
    OBVIOUS
  <2>2. ~ (y < x)
    BY <1>2, <1>3, <2>1
  <2> QED
    BY <2>1, <2>2
<1> QED
  BY <1>4

\* Min and Max of a set are the elements that bound it.
LEMMA MinMax ==
  ASSUME NEW T \in SUBSET Int, NEW x \in T
  PROVE  /\ (\A y \in T : x <= y) => Min(T) = x
         /\ (\A y \in T : y <= x) => Max(T) = x
<1>1. ASSUME \A y \in T : x <= y PROVE Min(T) = x
  <2>1. Min(T) \in T /\ \A y \in T : Min(T) <= y
    BY <1>1 DEF Min
  <2>2. x \in Int /\ Min(T) \in Int /\ x <= Min(T) /\ Min(T) <= x
    BY <1>1, <2>1
  <2> QED
    BY <2>2
<1>2. ASSUME \A y \in T : y <= x PROVE Max(T) = x
  <2>1. Max(T) \in T /\ \A y \in T : Max(T) >= y
    BY <1>2 DEF Max
  <2>2. x \in Int /\ Max(T) \in Int /\ Max(T) <= x /\ Max(T) >= x
    BY <1>2, <2>1
  <2> QED
    BY <2>2
<1> QED
  BY <1>1, <1>2

-----------------------------------------------------------------------------
(* Scans of a buffer.                                                       *)

\* A scan ends at the first character it looks for.
LEMMA FirstFromIs ==
  ASSUME NEW m, NEW S, NEW i \in 1 .. MaxInput + 1, NEW n \in i .. MaxInput, m[n] \in S
  PROVE  /\ FirstFrom(m, i, S) \in i .. n
         /\ m[FirstFrom(m, i, S)] \in S
         /\ \A j \in i .. FirstFrom(m, i, S) - 1 : m[j] \notin S
<1> DEFINE T == {k \in i .. MaxInput : m[k] \in S}
<1>1. MaxInput \in Nat
  BY Limits
<1>2. T \in SUBSET Nat /\ T # {}
  BY <1>1
<1>3. PICK k \in T : \A y \in T : k <= y
  BY <1>2, Least
<1>4. /\ k \in i .. MaxInput /\ m[k] \in S
      /\ \A j \in i .. k - 1 : m[j] \notin S
  BY <1>1, <1>3
<1>5. /\ FirstFrom(m, i, S) \in i .. MaxInput /\ m[FirstFrom(m, i, S)] \in S
      /\ \A j \in i .. FirstFrom(m, i, S) - 1 : m[j] \notin S
  BY <1>4 DEF FirstFrom
<1> QED
  BY <1>1, <1>5

\* It is the only position of that kind.
LEMMA FirstFromUnique ==
  ASSUME NEW m, NEW S, NEW i \in 1 .. MaxInput + 1, NEW n \in i .. MaxInput, m[n] \in S,
         \A j \in i .. n - 1 : m[j] \notin S
  PROVE  FirstFrom(m, i, S) = n
<1>1. /\ FirstFrom(m, i, S) \in i .. n /\ m[FirstFrom(m, i, S)] \in S
  BY FirstFromIs
<1> QED
  BY <1>1, Limits

\* A string ends at its first NUL.
LEMMA NulIs ==
  ASSUME NEW m, NEW i \in 1 .. MaxInput + 1, NEW n \in i .. MaxInput, m[n] = Nul
  PROVE  /\ FirstFrom(m, i, {Nul}) \in i .. n
         /\ m[FirstFrom(m, i, {Nul})] = Nul
         /\ \A j \in i .. FirstFrom(m, i, {Nul}) - 1 : m[j] # Nul
<1>1. m[n] \in {Nul}
  OBVIOUS
<1>2. /\ FirstFrom(m, i, {Nul}) \in i .. n
      /\ m[FirstFrom(m, i, {Nul})] \in {Nul}
      /\ \A j \in i .. FirstFrom(m, i, {Nul}) - 1 : m[j] \notin {Nul}
  BY <1>1, FirstFromIs
<1> QED
  BY <1>2

\* The end that trim finds: what is behind it is blank, what is before it is not.
LEMMA TrimEndIs ==
  ASSUME NEW m, NEW i \in 1 .. MaxInput + 1, NEW n \in i .. MaxInput, m[n] = Nul
  PROVE  /\ TrimEnd(m, i) \in i .. FirstFrom(m, i, {Nul})
         /\ TrimEnd(m, i) = i \/ m[TrimEnd(m, i) - 1] # Blank
         /\ \A j \in TrimEnd(m, i) .. FirstFrom(m, i, {Nul}) - 1 : m[j] = Blank
<1> DEFINE nul == FirstFrom(m, i, {Nul})
           T == {k \in i .. nul : \A j \in k .. nul - 1 : m[j] = Blank}
<1>1. nul \in i .. MaxInput
  <2>1. nul \in i .. n
    BY NulIs
  <2> HIDE DEF nul
  <2> QED
    BY <2>1, Limits
<1> HIDE DEF nul
<1>2. T \in SUBSET Nat /\ nul \in T
  BY <1>1
<1>3. PICK k \in T : \A y \in T : k <= y
  BY <1>2, Least
<1>4. ASSUME k # i, m[k - 1] = Blank PROVE FALSE
  <2>1. k - 1 \in i .. nul
    BY <1>1, <1>3, <1>4
  <2>2. \A j \in (k - 1) .. nul - 1 : m[j] = Blank
    BY <1>1, <1>3, <1>4, <2>1
  <2> QED
    BY <1>1, <1>3, <2>1, <2>2
<1>5. \E e \in i .. nul : (e = i \/ m[e - 1] # Blank) /\ \A j \in e .. nul - 1 : m[j] = Blank
  BY <1>3, <1>4
<1>6. TrimEnd(m, i) = CHOOSE e \in i .. nul :
        (e = i \/ m[e - 1] # Blank) /\ \A j \in e .. nul - 1 : m[j] = Blank
  BY DEF TrimEnd, nul
<1>7. /\ TrimEnd(m, i) \in i .. nul
      /\ TrimEnd(m, i) = i \/ m[TrimEnd(m, i) - 1] # Blank
      /\ \A j \in TrimEnd(m, i) .. nul - 1 : m[j] = Blank
  BY <1>5, <1>6
<1> QED
  BY <1>7 DEF nul

\* Ending a string writes one character.
LEMMA EndAtIs ==
  ASSUME NEW m \in Memory, NEW i \in 1 .. MaxInput
  PROVE  /\ EndAt(m, i) \in Memory
         /\ EndAt(m, i)[i] = Nul
         /\ \A k \in 1 .. MaxInput : k # i => EndAt(m, i)[k] = m[k]
BY Limits DEF EndAt, Memory

\* Copying a text that fits puts a NUL behind it.
LEMMA CopyIs ==
  ASSUME NEW m \in Memory, NEW text \in Texts
  PROVE  /\ Copy(m, text) \in Memory
         /\ Len(text) + 1 \in 1 .. MaxInput
         /\ \A k \in 1 .. Len(text) : Copy(m, text)[k] = text[k]
         /\ Copy(m, text)[Len(text) + 1] = Nul
<1>1. /\ text \in Seq(Chars \ {Nul}) /\ Len(text) \in Nat /\ Len(text) < MaxInput
      /\ MaxInput \in Nat /\ Nul \in Chars
  BY Limits DEF Texts
<1>2. \A k \in 1 .. Len(text) : text[k] \in Chars
  BY <1>1
<1> QED
  BY <1>1, <1>2 DEF Copy, Memory

\* A C string in a buffer is a sequence of characters.
LEMMA CStringType ==
  ASSUME NEW m \in Memory, NEW i \in 1 .. MaxInput + 1, NEW n \in i .. MaxInput, m[n] = Nul
  PROVE  CString(m, i) \in Seq(Chars)
<1> DEFINE z == FirstFrom(m, i, {Nul}) - 1
<1>1. z \in i - 1 .. MaxInput - 1
  <2>1. FirstFrom(m, i, {Nul}) \in i .. n
    BY FirstFromIs
  <2> QED
    BY <2>1, Limits
<1> HIDE DEF z
<1>2. /\ \A k \in i .. z : m[k] \in Chars
      /\ MaxInput \in Nat
  BY <1>1, Limits DEF Memory
<1>3. SubSeq(m, i, z) \in Seq(Chars)
  BY <1>1, <1>2
<1> QED
  BY <1>3 DEF CString, z

\* A string is not changed by writes behind its end.
LEMMA CStringStable ==
  ASSUME NEW m, NEW n, NEW i \in 1 .. MaxInput, NEW r \in i .. MaxInput, m[r] = Nul,
         \A k \in i .. FirstFrom(m, i, {Nul}) : n[k] = m[k]
  PROVE  /\ FirstFrom(n, i, {Nul}) = FirstFrom(m, i, {Nul})
         /\ CString(n, i) = CString(m, i)
<1> DEFINE z == FirstFrom(m, i, {Nul})
<1>1. /\ z \in i .. r /\ m[z] = Nul
      /\ \A j \in i .. z - 1 : m[j] # Nul
  BY FirstFromIs, Limits
<1>2. \A k \in i .. z : n[k] = m[k]
  OBVIOUS
<1> HIDE DEF z
<1>3. FirstFrom(n, i, {Nul}) = z
  <2>1. n[z] \in {Nul} /\ \A j \in i .. z - 1 : n[j] \notin {Nul}
    BY <1>1, <1>2, Limits
  <2>2. z \in i .. MaxInput
    BY <1>1, Limits
  <2> QED
    BY <2>1, <2>2, Limits, FirstFromUnique
<1>4. SubSeq(n, i, z - 1) = SubSeq(m, i, z - 1)
  BY <1>1, <1>2, Limits
<1> QED
  BY <1>3, <1>4 DEF CString, z

\* Parts with the same characters are the same.
LEMMA SameSub ==
  ASSUME NEW m, NEW n, NEW i \in Int, NEW j \in Int,
         \A k \in i .. j : m[k] \in Chars /\ n[k] = m[k]
  PROVE  SubSeq(n, i, j) = SubSeq(m, i, j)
<1> DEFINE p == SubSeq(m, i, j)
           q == SubSeq(n, i, j)
<1>1. /\ p \in Seq(Chars) /\ Len(p) = IF i <= j THEN j - i + 1 ELSE 0
      /\ \A k \in 1 .. j - i + 1 : p[k] = m[i + k - 1]
  BY SubSeqProperties
<1>2. /\ q \in Seq(Chars) /\ Len(q) = IF i <= j THEN j - i + 1 ELSE 0
      /\ \A k \in 1 .. j - i + 1 : q[k] = n[i + k - 1]
  BY SubSeqProperties
<1>3. \A k \in 1 .. j - i + 1 : i + k - 1 \in i .. j
  OBVIOUS
<1> HIDE DEF p, q
<1>4. Len(p) = Len(q) /\ \A k \in 1 .. Len(p) : p[k] = q[k]
  BY <1>1, <1>2, <1>3
<1>5. p = q
  BY <1>1, <1>2, <1>4, SeqEqual
<1> QED
  BY <1>5 DEF p, q

-----------------------------------------------------------------------------
(* The pieces of a text.                                                    *)

LEMMA TextType ==
  ASSUME NEW T \in Texts
  PROVE  /\ T \in Seq(Chars) /\ Len(T) \in Nat /\ Len(T) + 1 \in 1 .. MaxInput
         /\ \A k \in 1 .. Len(T) : T[k] \in Chars /\ T[k] # Nul
<1>1. T \in Seq(Chars \ {Nul}) /\ Len(T) < MaxInput
  BY DEF Texts
<1>2. \A k \in 1 .. Len(T) : T[k] \in Chars \ {Nul}
  BY <1>1
<1>3. T \in Seq(Chars)
  BY <1>1
<1> QED
  BY <1>1, <1>2, <1>3, Limits

\* There are finitely many pieces, and fewer up to an earlier one.
LEMMA StartsFinite ==
  ASSUME NEW T \in Texts, NEW i
  PROVE  /\ Starts(T) \subseteq 1 .. Len(T)
         /\ IsFiniteSet(Starts(T)) /\ IsFiniteSet(StartsTo(T, i))
         /\ Cardinality(Starts(T)) \in Nat /\ Cardinality(StartsTo(T, i)) \in Nat
         /\ Cardinality(StartsTo(T, i)) <= Cardinality(Starts(T))
<1>1. Starts(T) \subseteq 1 .. Len(T) /\ StartsTo(T, i) \subseteq Starts(T)
  BY DEF Starts, StartsTo
<1>2. IsFiniteSet(1 .. Len(T))
  BY TextType, FS_Interval
<1>3. IsFiniteSet(Starts(T))
  BY <1>1, <1>2, FS_Subset
<1> QED
  BY <1>1, <1>3, FS_Subset, FS_CardinalityType

\* No piece starts where there are only commas.
LEMMA OnlyCommas ==
  ASSUME NEW T \in Texts, NEW r \in 1 .. Len(T) + 1, NEW s \in r .. Len(T) + 1,
         \A j \in r .. s - 1 : T[j] = Comma
  PROVE  StartsTo(T, s - 1) = StartsTo(T, r - 1)
<1>1. ASSUME NEW j \in Starts(T) PROVE j <= s - 1 <=> j <= r - 1
  <2>1. j \in 1 .. Len(T) /\ T[j] # Comma /\ Len(T) \in Nat
    BY TextType DEF Starts
  <2>2. j \notin r .. s - 1
    BY <2>1
  <2> QED
    BY <2>1, <2>2
<1> QED
  BY <1>1 DEF StartsTo

\* Behind them the next piece starts.
LEMMA StartHere ==
  ASSUME NEW T \in Texts, NEW r \in 1 .. Len(T) + 1,
         r \in {1, Len(T) + 1} \/ T[r - 1] = Comma,
         NEW s \in r .. Len(T), \A j \in r .. s - 1 : T[j] = Comma, T[s] # Comma
  PROVE  s \in Starts(T)
<1>1. Len(T) \in Nat
  BY TextType
<1>2. s = 1 \/ T[s - 1] = Comma
  <2>1. CASE s = r
    BY <1>1, <2>1
  <2>2. CASE s # r
    BY <1>1, <2>2
  <2> QED
    BY <2>1, <2>2
<1> QED
  BY <1>1, <1>2 DEF Starts

\* All pieces start in the text, and each adds one to those before it.
LEMMA CountStarts ==
  ASSUME NEW T \in Texts
  PROVE  /\ StartsTo(T, Len(T)) = Starts(T)
         /\ \A s \in Starts(T) :
              Cardinality(StartsTo(T, s)) = Cardinality(StartsTo(T, s - 1)) + 1
<1>1. Len(T) \in Nat /\ Starts(T) \subseteq 1 .. Len(T)
  BY TextType, StartsFinite
<1>2. StartsTo(T, Len(T)) = Starts(T)
  BY <1>1 DEF StartsTo
<1>3. ASSUME NEW s \in Starts(T)
      PROVE  Cardinality(StartsTo(T, s)) = Cardinality(StartsTo(T, s - 1)) + 1
  <2>1. s \notin StartsTo(T, s - 1) /\ StartsTo(T, s) = StartsTo(T, s - 1) \cup {s}
    BY <1>1 DEF StartsTo
  <2>2. IsFiniteSet(StartsTo(T, s - 1))
    BY StartsFinite
  <2> QED
    BY <2>1, <2>2, FS_AddElement
<1> QED
  BY <1>2, <1>3

\* No piece starts inside of another one, nor at the comma behind it.
LEMMA WithinPiece ==
  ASSUME NEW T \in Texts, NEW s \in 1 .. Len(T), NEW e \in s + 1 .. Len(T) + 1,
         \A j \in s .. e - 1 : T[j] # Comma, e = Len(T) + 1 \/ T[e] = Comma
  PROVE  StartsTo(T, s) = StartsTo(T, IF e = Len(T) + 1 THEN e - 1 ELSE e)
<1> DEFINE q == IF e = Len(T) + 1 THEN e - 1 ELSE e
<1>1. Len(T) \in Nat /\ q \in s .. Len(T)
  BY TextType
<1>2. ASSUME NEW j \in Starts(T) PROVE j <= s <=> j <= q
  <2>1. /\ j \in 1 .. Len(T) /\ T[j] # Comma
        /\ j = 1 \/ T[j - 1] = Comma
    BY DEF Starts
  <2>2. ~ (j > s /\ j <= q)
    <3> SUFFICES ASSUME j > s, j <= q PROVE FALSE
      OBVIOUS
    <3>1. j - 1 \in s .. e - 1
      BY <1>1, <2>1
    <3> QED
      BY <1>1, <2>1, <3>1
  <2> QED
    BY <1>1, <2>1, <2>2
<1> HIDE DEF q
<1>3. StartsTo(T, s) = StartsTo(T, q)
  BY <1>2 DEF StartsTo
<1> QED
  BY <1>3 DEF q

\* A piece is known by the number of pieces that start up to it.
LEMMA KthStart ==
  ASSUME NEW T \in Texts, NEW s \in Starts(T)
  PROVE  (CHOOSE i \in Starts(T) : Cardinality(StartsTo(T, i)) = Cardinality(StartsTo(T, s))) = s
<1>1. ASSUME NEW i \in Starts(T), NEW j \in Starts(T), i < j
      PROVE  Cardinality(StartsTo(T, i)) < Cardinality(StartsTo(T, j))
  <2>1. i \in Int /\ j \in Int
    BY TextType, StartsFinite
  <2>2. j \in StartsTo(T, j)
    BY <2>1 DEF StartsTo
  <2>3. StartsTo(T, i) \subseteq StartsTo(T, j) \ {j}
    <3> SUFFICES ASSUME NEW k \in StartsTo(T, i) PROVE k \in StartsTo(T, j) \ {j}
      OBVIOUS
    <3>1. k \in Starts(T) /\ k <= i
      BY DEF StartsTo
    <3>2. k \in Int
      BY <3>1, TextType, StartsFinite
    <3> QED
      BY <1>1, <2>1, <3>1, <3>2 DEF StartsTo
  <2>4. /\ IsFiniteSet(StartsTo(T, j) \ {j})
        /\ Cardinality(StartsTo(T, j) \ {j}) = Cardinality(StartsTo(T, j)) - 1
    BY <2>2, StartsFinite, FS_RemoveElement
  <2>5. Cardinality(StartsTo(T, i)) <= Cardinality(StartsTo(T, j) \ {j})
    BY <2>3, <2>4, FS_Subset
  <2> QED
    BY <2>4, <2>5, StartsFinite
<1>2. ASSUME NEW i \in Starts(T), Cardinality(StartsTo(T, i)) = Cardinality(StartsTo(T, s))
      PROVE  i = s
  <2>1. i \in Int /\ s \in Int
    BY TextType, StartsFinite
  <2>2. ~ (i < s) /\ ~ (s < i)
    BY <1>1, <1>2, StartsFinite
  <2> QED
    BY <2>1, <2>2
<1> QED
  BY <1>2

\* The piece of a text between a position and the comma or the end behind it.
LEMMA PieceIs ==
  ASSUME NEW T \in Texts, NEW s \in 1 .. Len(T), NEW e \in s + 1 .. Len(T) + 1,
         \A j \in s .. e - 1 : T[j] # Comma, e = Len(T) + 1 \/ T[e] = Comma
  PROVE  Piece(T, s) = SubSeq(T, s, e - 1)
<1> DEFINE Pieces == {SubSeq(T, s, j) : j \in s .. Len(T)}
           Whole(p) == /\ \A k \in 1 .. Len(p) : p[k] # Comma
                       /\ s + Len(p) > Len(T) \/ T[s + Len(p)] = Comma
<1>1. T \in Seq(Chars) /\ Len(T) \in Nat
  BY TextType
<1>2. ASSUME NEW j \in s .. Len(T)
      PROVE  /\ Len(SubSeq(T, s, j)) = j - s + 1
             /\ \A k \in 1 .. j - s + 1 : SubSeq(T, s, j)[k] = T[s + k - 1]
  BY <1>1
<1>3. e - 1 \in s .. Len(T)
  BY <1>1
<1>4. Whole(SubSeq(T, s, e - 1))
  BY <1>1, <1>2, <1>3
<1>5. ASSUME NEW j \in s .. Len(T), Whole(SubSeq(T, s, j)) PROVE j = e - 1
  <2>1. \A k \in s .. j : T[k] # Comma
    <3> SUFFICES ASSUME NEW k \in s .. j PROVE T[k] # Comma
      OBVIOUS
    <3>1. k - s + 1 \in 1 .. j - s + 1 /\ SubSeq(T, s, j)[k - s + 1] = T[s + (k - s + 1) - 1]
      BY <1>1, <1>2
    <3>2. s + (k - s + 1) - 1 = k
      BY <1>1
    <3> QED
      BY <1>2, <1>5, <3>1, <3>2
  <2>2. j + 1 > Len(T) \/ T[j + 1] = Comma
    <3>1. s + Len(SubSeq(T, s, j)) = j + 1
      BY <1>1, <1>2
    <3> QED
      BY <1>5, <3>1
  <2>3. ~ (j < e - 1)
    BY <1>1, <1>3, <2>2
  <2>4. ~ (j > e - 1)
    BY <1>1, <1>3, <2>1
  <2> QED
    BY <1>1, <2>3, <2>4
<1>6. SubSeq(T, s, e - 1) \in Pieces
  BY <1>3
<1>7. \A p \in Pieces : Whole(p) => p = SubSeq(T, s, e - 1)
  BY <1>5
<1>8. Piece(T, s) = CHOOSE p \in Pieces : Whole(p)
  BY DEF Piece
<1> HIDE DEF Pieces, Whole
<1> QED
  BY <1>4, <1>6, <1>7, <1>8

\* A piece that ends in a NUL is a string.
LEMMA PieceStands ==
  ASSUME NEW T \in Texts, NEW m, NEW s \in 1 .. Len(T), NEW e \in s + 1 .. Len(T) + 1,
         \A j \in s .. e - 1 : T[j] # Comma, e = Len(T) + 1 \/ T[e] = Comma,
         \A j \in s .. e - 1 : m[j] = T[j], m[e] = Nul
  PROVE  CString(m, s) = Piece(T, s)
<1>1. /\ Len(T) \in Nat /\ MaxInput \in Nat /\ Len(T) + 1 <= MaxInput
      /\ \A k \in 1 .. Len(T) : T[k] \in Chars /\ T[k] # Nul
  BY TextType, Limits
<1>2. FirstFrom(m, s, {Nul}) = e
  <2>1. e \in s .. MaxInput /\ s \in 1 .. MaxInput + 1 /\ m[e] \in {Nul}
    BY <1>1
  <2>2. \A j \in s .. e - 1 : m[j] \notin {Nul}
    BY <1>1
  <2> QED
    BY <2>1, <2>2, FirstFromUnique
<1> DEFINE z == e - 1
<1>3. /\ s \in Int /\ z \in Int
      /\ \A k \in s .. z : T[k] \in Chars /\ m[k] = T[k]
  BY <1>1
<1>4. CString(m, s) = SubSeq(m, s, z)
  BY <1>2 DEF CString
<1>5. Piece(T, s) = SubSeq(T, s, z)
  BY PieceIs
<1> HIDE DEF z
<1> QED
  BY ONLY <1>3, <1>4, <1>5, SameSub

\* A string between its first and its last solid character.
LEMMA StrippedIs ==
  ASSUME NEW P \in Seq(Chars)
  PROVE  /\ (\A k \in 1 .. Len(P) : P[k] = Blank) => Stripped(P) = <<>>
         /\ \A a, b \in 1 .. Len(P) :
              (/\ P[a] # Blank /\ P[b] # Blank
               /\ \A k \in 1 .. Len(P) : P[k] # Blank => a <= k /\ k <= b)
              => Stripped(P) = SubSeq(P, a, b)
<1> DEFINE solid == {k \in 1 .. Len(P) : P[k] # Blank}
<1>1. Len(P) \in Nat /\ solid \in SUBSET Int
  OBVIOUS
<1>2. Stripped(P) = IF solid = {} THEN <<>> ELSE SubSeq(P, Min(solid), Max(solid))
  BY DEF Stripped
<1>3. ASSUME \A k \in 1 .. Len(P) : P[k] = Blank PROVE Stripped(P) = <<>>
  BY <1>2, <1>3
<1>4. ASSUME NEW a \in 1 .. Len(P), NEW b \in 1 .. Len(P), P[a] # Blank, P[b] # Blank,
             \A k \in 1 .. Len(P) : P[k] # Blank => a <= k /\ k <= b
      PROVE  Stripped(P) = SubSeq(P, a, b)
  <2>1. /\ a \in solid /\ b \in solid
        /\ \A k \in solid : a <= k /\ k <= b
    BY <1>4
  <2> HIDE DEF solid
  <2>2. Min(solid) = a /\ Max(solid) = b
    BY <1>1, <2>1, MinMax
  <2> QED
    BY <1>2, <2>1, <2>2
<1> QED
  BY <1>3, <1>4

-----------------------------------------------------------------------------
(* What trim makes of a string.                                             *)

\* Once its end is written, the string at the position trim has found is the one
\* it was given without the blanks around.
LEMMA TrimIs ==
  ASSUME NEW m \in Memory, NEW s \in 1 .. MaxInput, NEW n \in s .. MaxInput, m[n] = Nul,
         NEW i, i = TrimStart(m, s), NEW t, t = TrimEnd(m, i)
  PROVE  /\ i \in s .. n /\ t \in i .. n
         /\ Ended(m, i, t)[t] = Nul
         /\ CString(Ended(m, i, t), i) = Stripped(CString(m, s))
<1> DEFINE e == FirstFrom(m, s, {Nul})
           m2 == Ended(m, i, t)
<1>0. /\ MaxInput \in Nat /\ s \in Nat /\ n \in Nat
      /\ s \in 1 .. MaxInput + 1
  BY Limits
<1>1. e \in s .. n /\ m[e] = Nul /\ \A j \in s .. e - 1 : m[j] # Nul
  BY <1>0, NulIs
<1> HIDE DEF e
<1>2. e \in 1 .. MaxInput
  BY <1>0, <1>1
<1>3. /\ i \in s .. e /\ i \in 1 .. MaxInput
      /\ m[i] # Blank /\ \A j \in s .. i - 1 : m[j] = Blank
  <2>1. e \in s .. MaxInput /\ m[e] \in Chars \ {Blank}
    <3>1. Nul # Blank
      BY DEF Nul, Blank
    <3>2. e \in s .. MaxInput /\ m[e] = Nul
      BY <1>0, <1>1
    <3> QED
      BY <3>1, <3>2, Limits
  <2>2. /\ i \in s .. e /\ m[i] \in Chars \ {Blank}
        /\ \A j \in s .. i - 1 : m[j] \notin Chars \ {Blank}
    BY <1>0, <2>1, FirstFromIs DEF TrimStart
  <2>3. \A j \in s .. i - 1 : m[j] \in Chars
    BY <1>0, <1>2, <2>2 DEF Memory
  <2> QED
    BY <1>0, <1>2, <2>2, <2>3
<1>4. FirstFrom(m, i, {Nul}) = e
  <2>1. e \in i .. MaxInput /\ m[e] \in {Nul} /\ \A j \in i .. e - 1 : m[j] \notin {Nul}
    BY <1>0, <1>1, <1>2, <1>3
  <2> QED
    BY <1>0, <1>3, <2>1, FirstFromUnique
<1>5. /\ t \in i .. e /\ t \in 1 .. MaxInput
      /\ t = i \/ m[t - 1] # Blank
      /\ \A j \in t .. e - 1 : m[j] = Blank
  <2>1. e \in i .. MaxInput
    BY <1>0, <1>2, <1>3
  <2>2. /\ t \in i .. e
        /\ t = i \/ m[t - 1] # Blank
        /\ \A j \in t .. e - 1 : m[j] = Blank
    BY <1>0, <1>1, <1>3, <1>4, <2>1, TrimEndIs
  <2> QED
    BY <1>0, <1>2, <1>3, <2>2
<1>6. /\ i \in Int /\ t \in Int /\ e \in Int /\ s <= i /\ i <= t /\ t <= e
      /\ t = i <=> i = e
  <2>1. /\ i \in Int /\ t \in Int /\ e \in Int /\ s <= i /\ i <= t /\ t <= e
    BY <1>0, <1>2, <1>3, <1>5
  <2>2. ASSUME t = i, i # e PROVE FALSE
    <3>1. i \in t .. e - 1
      BY <2>1, <2>2
    <3> QED
      BY <1>3, <1>5, <3>1
  <2> QED
    BY <2>1, <2>2
<1>7. /\ m2[t] = Nul
      /\ \A k \in 1 .. MaxInput : k # t => m2[k] = m[k]
  BY <1>1, <1>5, <1>6, EndAtIs DEF Ended
<1> HIDE DEF m2
<1>8. FirstFrom(m2, i, {Nul}) = t
  <2>1. t \in i .. MaxInput /\ m2[t] \in {Nul}
    BY <1>0, <1>5, <1>7
  <2>2. \A j \in i .. t - 1 : m2[j] \notin {Nul}
    BY <1>0, <1>1, <1>2, <1>3, <1>5, <1>7
  <2> QED
    BY <1>0, <1>3, <2>1, <2>2, FirstFromUnique
<1>9. CString(m2, i) = SubSeq(m, i, t - 1)
  <2>1. SubSeq(m2, i, t - 1) = SubSeq(m, i, t - 1)
    <3> DEFINE j == t - 1
    <3>1. i \in Int /\ j \in Int
      BY <1>6
    <3>2. ASSUME NEW k \in i .. j PROVE m[k] \in Chars /\ m2[k] = m[k]
      <4>1. k \in 1 .. MaxInput /\ k # t
        BY <1>0, <1>3, <1>5, <1>6
      <4> QED
        BY <1>7, <4>1 DEF Memory
    <3> HIDE DEF j
    <3>3. SubSeq(m2, i, j) = SubSeq(m, i, j)
      BY ONLY <3>1, <3>2, SameSub
    <3> QED
      BY <3>3 DEF j
  <2> QED
    BY <1>8, <2>1 DEF CString
<1> DEFINE P == SubSeq(m, s, e - 1)
<1>10. /\ P \in Seq(Chars) /\ Len(P) = e - s
       /\ \A k \in 1 .. e - s : P[k] = m[s + k - 1]
  <2>1. \A k \in s .. e - 1 : m[k] \in Chars
    BY <1>0, <1>2 DEF Memory
  <2> QED
    BY <1>0, <1>1, <2>1
<1>11. CString(m, s) = P
  BY DEF CString, e
<1> HIDE DEF P
<1>12. Stripped(P) = SubSeq(m, i, t - 1)
  <2>1. CASE i = e
    <3>1. ASSUME NEW k \in 1 .. Len(P) PROVE P[k] = Blank
      <4>1. k \in 1 .. e - s /\ s + k - 1 \in s .. i - 1
        BY <1>0, <1>1, <1>10, <2>1
      <4> QED
        BY <1>3, <1>10, <4>1
    <3>2. Stripped(P) = <<>>
      BY <1>10, <3>1, StrippedIs
    <3>3. SubSeq(m, i, t - 1) = <<>>
      BY <1>0, <1>3, <1>6, <2>1
    <3> QED
      BY <3>2, <3>3
  <2>2. CASE i # e
    <3>1. i < e /\ t > i /\ m[t - 1] # Blank
      BY <1>5, <1>6, <2>2
    <3> DEFINE a == i - s + 1
               b == t - s
    <3>2. a \in 1 .. Len(P) /\ b \in 1 .. Len(P)
      BY <1>0, <1>1, <1>3, <1>5, <1>10, <3>1
    <3>3. P[a] # Blank /\ P[b] # Blank
      <4>1. s + a - 1 = i /\ s + b - 1 = t - 1
        BY <1>0, <1>1, <1>3, <1>5
      <4> QED
        BY <1>3, <1>10, <3>1, <3>2, <4>1
    <3>4. ASSUME NEW k \in 1 .. Len(P), P[k] # Blank PROVE a <= k /\ k <= b
      <4>1. m[s + k - 1] # Blank /\ s + k - 1 \in s .. e - 1
        <5>1. k \in 1 .. e - s /\ s + k - 1 \in s .. e - 1
          BY <1>0, <1>6, <1>10
        <5> QED
          BY <1>10, <3>4, <5>1
      <4>2. s + k - 1 \notin s .. i - 1 /\ s + k - 1 \notin t .. e - 1
        BY <1>3, <1>5, <4>1
      <4> QED
        BY <1>0, <1>1, <1>3, <1>5, <4>1, <4>2
    <3>5. Stripped(P) = SubSeq(P, a, b)
      <4> HIDE DEF a, b
      <4> QED
        BY <1>10, <3>2, <3>3, <3>4, StrippedIs
    <3>6. SubSeq(P, a, b) = SubSeq(m, i, t - 1)
      <4> DEFINE j == t - 1
      <4>1. /\ a \in Int /\ b \in Int /\ j \in Int
            /\ i \in Int /\ j - i = b - a /\ a >= 1
        BY <1>0, <1>6
      <4>2. b <= e - s
        BY <1>0, <1>6
      <4>3. ASSUME NEW k \in 1 .. b - a + 1 PROVE P[a + k - 1] = m[i + k - 1]
        <5>1. a + k - 1 \in 1 .. e - s
          <6> HIDE DEF a, b, j
          <6> QED
            BY <1>0, <1>6, <4>1, <4>2
        <5>2. s + (a + k - 1) - 1 = i + k - 1
          BY <1>0, <1>6
        <5> QED
          BY <1>10, <5>1, <5>2
      <4>5. \A k \in a .. b : P[k] \in Chars
        <5>1. \A k \in a .. b : k \in 1 .. Len(P)
          BY <1>10, <4>1, <4>2
        <5> QED
          BY <1>10, <5>1
      <4>6. \A k \in i .. j : m[k] \in Chars
        BY <1>0, <1>2, <1>6 DEF Memory
      <4> HIDE DEF a, b, j
      <4> DEFINE x == SubSeq(P, a, b)
                 y == SubSeq(m, i, j)
      <4>7. /\ x \in Seq(Chars) /\ Len(x) = IF a <= b THEN b - a + 1 ELSE 0
            /\ \A k \in 1 .. b - a + 1 : x[k] = P[a + k - 1]
        BY ONLY <4>1, <4>5, SubSeqProperties
      <4>8. /\ y \in Seq(Chars) /\ Len(y) = IF i <= j THEN j - i + 1 ELSE 0
            /\ \A k \in 1 .. j - i + 1 : y[k] = m[i + k - 1]
        BY ONLY <4>1, <4>6, SubSeqProperties
      <4> HIDE DEF x, y
      <4>9. x = y
        <5> DEFINE l == b - a + 1
        <5>0. l \in Int /\ l = j - i + 1 /\ (a <= b <=> i <= j) /\ (~ (a <= b) => l <= 0)
          BY ONLY <4>1
        <5>1. /\ Len(x) = Len(y) /\ Len(x) \in {0, l}
              /\ \A k \in 1 .. l : x[k] = y[k]
          <6> HIDE DEF l
          <6>1. \A k \in 1 .. l : P[a + k - 1] = m[i + k - 1]
            BY ONLY <4>3 DEF l
          <6>2. Len(x) = IF a <= b THEN l ELSE 0
            BY ONLY <4>7 DEF l
          <6>3. \A k \in 1 .. l : x[k] = P[a + k - 1]
            BY ONLY <4>7 DEF l
          <6>4. Len(y) = IF i <= j THEN l ELSE 0
            BY ONLY <4>8, <5>0
          <6>5. \A k \in 1 .. l : y[k] = m[i + k - 1]
            BY ONLY <4>8, <5>0
          <6> QED
            BY ONLY <5>0, <6>1, <6>2, <6>3, <6>4, <6>5
        <5>2. \A k \in 1 .. Len(x) : x[k] = y[k]
          BY ONLY <5>0, <5>1
        <5> QED
          BY ONLY <4>7, <4>8, <5>1, <5>2, SeqEqual
      <4> QED
        BY <4>9 DEF j, x, y
    <3> QED
      BY <3>5, <3>6
  <2> QED
    BY <2>1, <2>2
<1> QED
  BY <1>0, <1>1, <1>3, <1>5, <1>7, <1>9, <1>11, <1>12 DEF m2

-----------------------------------------------------------------------------
(* The steps of a parse.                                                    *)

\* A pointer refers to a position of somebody's buffer, or behind it.
LEMMA PointerType ==
  /\ \A c \in Clients, i \in 1 .. MaxInput + 1 :
       Pointer(c, i) \in Pointers /\ Pointer(c, i).owner = c /\ Pointer(c, i).pos = i
  /\ \A p \in Pointers : p.owner \in Clients /\ p.pos \in 1 .. MaxInput + 1
                         /\ p = Pointer(p.owner, p.pos)
BY DEF Pointer, Pointers

\* What a scan that ends in the array finds, whoever's array it is.
LEMMA ScanIs ==
  ASSUME ParserTypeOK, NEW c \in Clients, ~ Overruns(c),
         step[c] \in {"start", "token"} \/ (step[c] = "trim" /\ Room(c)),
         NEW k, k = FirstFrom(Scanned(c), at[c].pos, Sought(c))
  PROVE  /\ at[c].owner \in Clients /\ at[c].pos \in 1 .. MaxInput + 1
         /\ Scanned(c) \in Memory
         /\ k \in at[c].pos .. MaxInput /\ k \in 1 .. MaxInput
         /\ Scanned(c)[k] \in Sought(c)
         /\ \A j \in at[c].pos .. k - 1 : Scanned(c)[j] \notin Sought(c)
<1>1. at[c] \in Pointers /\ buffer \in [Clients -> Memory]
  BY DEF ParserTypeOK
<1>2. at[c].owner \in Clients /\ at[c].pos \in 1 .. MaxInput + 1 /\ Scanned(c) \in Memory
  BY <1>1, PointerType DEF Scanned
<1>3. at[c] \in Touched(c) /\ step[c] \in Scanning
  BY DEF Touched, Scanning
<1>4. PICK n \in at[c].pos .. MaxInput : Scanned(c)[n] \in Sought(c)
  BY <1>3 DEF Overruns, Scanned
<1>5. /\ k \in at[c].pos .. n /\ Scanned(c)[k] \in Sought(c)
      /\ \A j \in at[c].pos .. k - 1 : Scanned(c)[j] \notin Sought(c)
  BY <1>2, <1>4, FirstFromIs
<1> QED
  BY <1>2, <1>4, <1>5, Limits

\* The types, one by one.
LEMMA TypeIs ==
  ParserTypeOK <=>
    /\ step \in [Clients -> Steps] /\ buffer \in [Clients -> Memory]
    /\ fields \in [Clients -> Seq(Pointers)] /\ at \in [Clients -> Pointers]
    /\ stop \in [Clients -> 1 .. MaxInput + 1] /\ save \in Pointers
    /\ \A c \in Clients :
         /\ Len(fields[c]) <= MaxFields
         /\ step[c] \in {"cut", "end"} => stop[c] <= MaxInput
         /\ step[c] = "end" => Room(c)
BY DEF ParserTypeOK

LEMMA BeginType ==
  ASSUME ParserTypeOK, NEW c \in Clients, NEW text \in Texts, Begin(c, text)
  PROVE  ParserTypeOK'
<1>1. Copy(buffer[c], text) \in Memory
  BY TypeIs, CopyIs
<1>2. Pointer(c, 1) \in Pointers /\ <<>> \in Seq(Pointers) /\ Len(<<>>) <= MaxFields
  BY PointerType, Limits
<1>3. /\ buffer' = [buffer EXCEPT ![c] = Copy(buffer[c], text)]
      /\ fields' = [fields EXCEPT ![c] = <<>>]
      /\ at' = [at EXCEPT ![c] = Pointer(c, 1)]
      /\ step' = [step EXCEPT ![c] = "start"] /\ save' = save /\ stop' = stop
  BY DEF Begin, Goto
<1>4. /\ step' \in [Clients -> Steps] /\ buffer' \in [Clients -> Memory]
      /\ at' \in [Clients -> Pointers] /\ save' \in Pointers
      /\ fields' \in [Clients -> Seq(Pointers)]
      /\ stop' \in [Clients -> 1 .. MaxInput + 1]
  <2>1. "start" \in Steps
    BY DEF Steps, Scanning
  <2> QED
    BY <1>1, <1>2, <1>3, <2>1, TypeIs
<1>5. ASSUME NEW d \in Clients
      PROVE  /\ Len(fields'[d]) <= MaxFields
             /\ step'[d] \in {"cut", "end"} => stop'[d] <= MaxInput
             /\ step'[d] = "end" => Room(d)'
  <2>1. CASE d = c
    BY <1>2, <1>3, <2>1, TypeIs
  <2>2. CASE d # c
    BY <1>3, <2>2, TypeIs DEF Room
  <2> QED
    BY <2>1, <2>2
<1> QED
  BY <1>4, <1>5 DEF ParserTypeOK

\* A step of split_fields keeps the types when what it leaves of its own thread
\* has them.
LEMMA SplitFrame ==
  ASSUME ParserTypeOK, NEW c \in Clients,
         NEW p \in Steps, Goto(c, p),
         buffer' \in [Clients -> Memory], save' \in Pointers,
         \/ fields' = fields
         \/ fields' = [fields EXCEPT ![c] = <<>>]
         \/ fields' = [fields EXCEPT ![c] = Append(fields[c], at[c])] /\ Room(c),
         at' = at \/ \E a \in Pointers : at' = [at EXCEPT ![c] = a],
         stop' = stop \/ \E k \in 1 .. MaxInput + 1 : stop' = [stop EXCEPT ![c] = k],
         p \in {"cut", "end"} => stop'[c] <= MaxInput,
         p = "end" => Room(c) /\ fields' = fields
  PROVE  ParserTypeOK'
<1>1. /\ step' \in [Clients -> Steps] /\ step'[c] = p
      /\ \A d \in Clients : d # c => step'[d] = step[d] /\ stop'[d] = stop[d]
      /\ at' \in [Clients -> Pointers] /\ stop' \in [Clients -> 1 .. MaxInput + 1]
  BY TypeIs DEF Goto
<1>2. /\ fields' \in [Clients -> Seq(Pointers)] /\ Len(fields'[c]) <= MaxFields
      /\ \A d \in Clients : d # c => fields'[d] = fields[d]
  <2>1. /\ fields \in [Clients -> Seq(Pointers)] /\ Len(fields[c]) <= MaxFields
        /\ at[c] \in Pointers /\ MaxFields \in Nat
    BY TypeIs, Limits
  <2>2. CASE fields' = fields
    BY <2>1, <2>2
  <2>3. CASE fields' = [fields EXCEPT ![c] = <<>>]
    BY <2>1, <2>3
  <2>4. CASE fields' = [fields EXCEPT ![c] = Append(fields[c], at[c])] /\ Room(c)
    <3>1. /\ Append(fields[c], at[c]) \in Seq(Pointers)
          /\ Len(Append(fields[c], at[c])) = Len(fields[c]) + 1
      BY <2>1
    <3>2. Len(fields[c]) + 1 <= MaxFields
      BY <2>1, <2>4 DEF Room
    <3> QED
      BY <2>1, <2>4, <3>1, <3>2
  <2> QED
    BY <2>2, <2>3, <2>4
<1>3. ASSUME NEW d \in Clients
      PROVE  /\ Len(fields'[d]) <= MaxFields
             /\ step'[d] \in {"cut", "end"} => stop'[d] <= MaxInput
             /\ step'[d] = "end" => Room(d)'
  <2>1. CASE d = c
    BY <1>1, <1>2, <2>1 DEF Room
  <2>2. CASE d # c
    BY <1>1, <1>2, <2>2, TypeIs DEF Room
  <2> QED
    BY <2>1, <2>2
<1> QED
  BY <1>1, <1>2, <1>3 DEF ParserTypeOK

\* Whatever position strtok remembers, of this thread or another, every step of
\* split_fields keeps the types, and so writes inside the arrays.
LEMMA SplitType ==
  ASSUME ParserTypeOK, NEW c \in Clients, Split(c)
  PROVE  ParserTypeOK'
<1>1. /\ buffer \in [Clients -> Memory] /\ save \in Pointers /\ at[c] \in Pointers
      /\ at[c].owner \in Clients /\ stop[c] \in 1 .. MaxInput + 1 /\ MaxInput \in Nat
      /\ Scanned(c) \in Memory
  BY TypeIs, PointerType, Limits DEF Scanned
<1> USE DEF Steps, Scanning
<1>2. CASE LoadPosition(c)
  BY <1>1, <1>2, SplitFrame DEF LoadPosition
<1>3. CASE FindStart(c)
  <2>1. PICK k : k = FirstFrom(Scanned(c), at[c].pos, Sought(c))
    OBVIOUS
  <2>2. k \in 1 .. MaxInput
    BY <1>3, <2>1, ScanIs DEF FindStart
  <2>3. Pointer(at[c].owner, k) \in Pointers
    BY <1>1, <2>2, PointerType
  <2>4. PICK p \in {"none", "token"} :
          /\ at' = [at EXCEPT ![c] = Pointer(at[c].owner, k)] /\ Goto(c, p)
          /\ UNCHANGED <<buffer, fields, stop, save>>
    BY <1>3, <2>1 DEF FindStart
  <2> QED
    BY <1>1, <2>3, <2>4, SplitFrame
<1>4. CASE NoToken(c)
  BY <1>1, <1>4, SplitFrame DEF NoToken
<1>5. CASE FindEnd(c)
  <2>1. PICK k : k = FirstFrom(Scanned(c), at[c].pos, Sought(c))
    OBVIOUS
  <2>2. k \in 1 .. MaxInput
    BY <1>5, <2>1, ScanIs DEF FindEnd
  <2>3. PICK p \in {"keep", "cut"} :
          /\ stop' = [stop EXCEPT ![c] = k] /\ Goto(c, p)
          /\ UNCHANGED <<buffer, fields, at, save>>
    BY <1>5, <2>1 DEF FindEnd
  <2>4. stop'[c] <= MaxInput /\ k \in 1 .. MaxInput + 1
    BY <1>1, <2>2, <2>3, TypeIs
  <2> QED
    BY <1>1, <2>3, <2>4, SplitFrame
<1>6. CASE CutToken(c)
  <2>1. stop[c] \in 1 .. MaxInput /\ stop[c] + 1 \in 1 .. MaxInput + 1
    BY <1>1, <1>6, TypeIs DEF CutToken
  <2>2. EndAt(Scanned(c), stop[c]) \in Memory
    BY <1>1, <2>1, EndAtIs
  <2>3. buffer' \in [Clients -> Memory]
    BY <1>1, <1>6, <2>2 DEF CutToken
  <2> QED
    BY <1>1, <1>6, <2>1, <2>3, SplitFrame DEF CutToken
<1>7. CASE KeepPosition(c)
  <2>1. Pointer(at[c].owner, stop[c]) \in Pointers
    BY <1>1, PointerType
  <2> QED
    BY <1>1, <1>7, <2>1, SplitFrame DEF KeepPosition
<1>8. CASE TooManyFields(c)
  BY <1>1, <1>8, SplitFrame DEF TooManyFields
<1>9. CASE Trim(c)
  <2>1. PICK i, t : i = TrimStart(Scanned(c), at[c].pos) /\ t = TrimEnd(Scanned(c), i)
    OBVIOUS
  <2>2. PICK n : n = FirstFrom(Scanned(c), at[c].pos, Sought(c))
    OBVIOUS
  <2>3. Sought(c) = {Nul}
    BY <1>9 DEF Trim, Sought
  <2>4. /\ at[c].pos \in 1 .. MaxInput /\ n \in at[c].pos .. MaxInput
        /\ Scanned(c)[n] = Nul
    <3>1. /\ n \in at[c].pos .. MaxInput /\ at[c].pos \in 1 .. MaxInput + 1
          /\ Scanned(c)[n] \in Sought(c)
      BY <1>9, <2>2, ScanIs DEF Trim
    <3> QED
      BY <1>1, <2>3, <3>1
  <2>5. i \in at[c].pos .. n /\ t \in i .. n
    BY <1>1, <2>1, <2>4, TrimIs
  <2>6. i \in 1 .. MaxInput + 1 /\ t \in 1 .. MaxInput
    BY <1>1, <2>4, <2>5
  <2>7. Pointer(at[c].owner, i) \in Pointers
    BY <1>1, <2>6, PointerType
  <2>8. /\ at' = [at EXCEPT ![c] = Pointer(at[c].owner, i)]
        /\ stop' = [stop EXCEPT ![c] = t] /\ Goto(c, "end") /\ Room(c)
        /\ UNCHANGED <<buffer, fields, save>>
    BY <1>9, <2>1 DEF Trim
  <2>9. stop'[c] <= MaxInput /\ t \in 1 .. MaxInput + 1
    BY <1>1, <2>6, <2>8, TypeIs
  <2> QED
    BY <1>1, <2>7, <2>8, <2>9, SplitFrame
<1>10. CASE EndField(c)
  <2>1. stop[c] \in 1 .. MaxInput /\ Room(c)
    BY <1>1, <1>10, TypeIs DEF EndField
  <2>2. Ended(Scanned(c), at[c].pos, stop[c]) \in Memory
    BY <1>1, <2>1, EndAtIs DEF Ended
  <2>3. buffer' \in [Clients -> Memory]
    BY <1>1, <1>10, <2>2 DEF EndField
  <2> QED
    BY <1>1, <1>10, <2>1, <2>3, SplitFrame DEF EndField
<1> QED
  BY <1>2, <1>3, <1>4, <1>5, <1>6, <1>7, <1>8, <1>9, <1>10 DEF Split

\* Control that is lost, and a stack used for something else, keep them too.
LEMMA StrayType ==
  ASSUME ParserTypeOK, NEW c \in Clients, Stray(c) \/ Overwrite(c)
  PROVE  ParserTypeOK'
<1>1. CASE Stray(c)
  <2>1. step' \in [Clients -> Steps] /\ \A d \in Clients : step'[d] = "lost"
    BY <1>1 DEF Stray, Steps
  <2> QED
    BY <1>1, <2>1 DEF Stray, ParserTypeOK
<1>2. CASE Overwrite(c)
  <2>1. buffer' \in [Clients -> Memory]
    BY <1>2, TcpParserAssumption DEF Overwrite, ParserTypeOK
  <2> QED
    BY <1>2, <2>1 DEF Overwrite, ParserTypeOK, Room
<1> QED
  BY <1>1, <1>2

-----------------------------------------------------------------------------
(* Commands.                                                                *)

Commands == [type : {"SENSOR", "QUERY", "HELP", "INVALID"}, args : Seq(Seq(Chars))]

LEMMA InterpretType ==
  ASSUME NEW f \in Seq(Seq(Chars))
  PROVE  Interpret(f) \in Commands
<1> DEFINE Sensor == [type |-> "SENSOR", args |-> Tail(f)]
           Query  == [type |-> "QUERY", args |-> Ordered(f[2], f[3])]
           Help   == [type |-> "HELP", args |-> <<>>]
<1>1. <<>> \in Seq(Seq(Chars))
  OBVIOUS
<1>2. Help \in Commands /\ Invalid \in Commands
  BY <1>1 DEF Commands, Invalid
<1>3. IsSensor(f) => Sensor \in Commands
  <2> SUFFICES ASSUME IsSensor(f) PROVE Sensor \in Commands
    OBVIOUS
  <2>1. Tail(f) \in Seq(Seq(Chars))
    BY DEF IsSensor
  <2> QED
    BY <2>1 DEF Commands
<1>4. IsQuery(f) => Query \in Commands
  <2> SUFFICES ASSUME IsQuery(f) PROVE Query \in Commands
    OBVIOUS
  <2>1. f[2] \in Seq(Chars) /\ f[3] \in Seq(Chars)
    BY DEF IsQuery
  <2>2. Ordered(f[2], f[3]) \in Seq(Seq(Chars))
    BY <2>1 DEF Ordered
  <2> QED
    BY <2>2 DEF Commands
<1>5. \/ IsSensor(f) /\ Interpret(f) = Sensor
      \/ IsQuery(f) /\ Interpret(f) = Query
      \/ IsHelp(f) /\ Interpret(f) = Help
      \/ Interpret(f) = Invalid
  BY DEF Interpret, IsSensor, IsQuery, IsHelp
<1> QED
  BY <1>2, <1>3, <1>4, <1>5

\* Without fields there is no command.
LEMMA InterpretNothing ==
  ASSUME NEW f, Len(f) = 0
  PROVE  Interpret(f) = Invalid
<1>1. ~ IsSensor(f) /\ ~ IsQuery(f)
  BY DEF IsSensor, IsQuery
<1>2. ~ IsHelp(f)
  <2>1. Len(<< <<"HELP">> >>) = 1
    OBVIOUS
  <2> QED
    BY <2>1 DEF IsHelp
<1> QED
  BY <1>1, <1>2, Zenon DEF Interpret

LEMMA ParsedType ==
  ASSUME ParserTypeOK, NEW c \in Clients, step[c] = "done", ~ Overruns(c)
  PROVE  Parsed(c) \in Commands
<1> DEFINE f == [k \in 1 .. Len(fields[c]) |->
                   CString(buffer[fields[c][k].owner], fields[c][k].pos)]
<1>1. buffer \in [Clients -> Memory] /\ fields[c] \in Seq(Pointers)
  BY TypeIs
<1>2. ASSUME NEW k \in 1 .. Len(fields[c]) PROVE f[k] \in Seq(Chars)
  <2>1. fields[c][k] \in Pointers /\ fields[c][k] \in Touched(c)
    BY <1>1 DEF Touched, ToSet
  <2>2. PICK n \in fields[c][k].pos .. MaxInput :
          buffer[fields[c][k].owner][n] \in Sought(c)
    BY <2>1 DEF Overruns, Scanning
  <2>3. Sought(c) = {Nul}
    BY DEF Sought
  <2>4. /\ buffer[fields[c][k].owner] \in Memory
        /\ fields[c][k].pos \in 1 .. MaxInput + 1
    BY <1>1, <2>1, PointerType
  <2> QED
    BY <2>2, <2>3, <2>4, CStringType
<1>3. f \in Seq(Seq(Chars))
  <2>1. Len(fields[c]) \in Nat /\ DOMAIN f = 1 .. Len(fields[c])
        /\ f = [k \in 1 .. Len(fields[c]) |-> f[k]]
    BY <1>1
  <2> HIDE DEF f
  <2> QED
    BY <1>2, <2>1
<1> QED
  BY <1>3, InterpretType DEF Parsed

=============================================================================
