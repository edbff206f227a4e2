--------------------------- MODULE WriteAheadProofs ---------------------------
(***************************************************************************)
(* The log and the memtable hold the same writes; and whatever a crash     *)
(* leaves of the log is read back as a prefix of them.  For any widths of  *)
(* integers, any size of blocks, any keys and values whose lengths fit     *)
(* their fields, and as many writes as there are sequence numbers.         *)
(*                                                                         *)
(* The argument goes along the file: a chain is the states that the reader *)
(* has behind each piece.  add_record makes the chain longer; a cut leaves *)
(* a beginning of it, behind which the reader stops; and the records of a  *)
(* chain are the encoded entries, which decode to what was written.        *)
(***************************************************************************)
EXTENDS WriteAhead, NumberLemmas

----------------------------------------------------------------------------
(* Bytes and numbers *)

\* The value of a sequence of digits, digit by digit.
LEMMA ValueRuns ==
  ASSUME NEW b \in Nat \ {0}, NEW s, Len(s) \in Nat, \A i \in 1 .. Len(s) : s[i] \in Nat
  PROVE  \E f \in [0 .. Len(s) -> Nat] :
           /\ Value(s, b) = f[Len(s)] /\ f[0] = 0
           /\ \A i \in 1 .. Len(s) : f[i] = f[i - 1] + s[i] * Power(b, i - 1)
<1> DEFINE N == Len(s)
           add(i, x) == x + s[i] * Power(b, i - 1)
           step == [i \in 1 .. N |-> [x \in Nat |-> add(i, x)]]
           Body(f) == [i \in 0 .. N |-> IF i = 0 THEN 0 ELSE f[i - 1] + s[i] * Power(b, i - 1)]
           sum == CHOOSE f : f = Body(f)
<1>1. \A i \in 1 .. N, x \in Nat : add(i, x) \in Nat
  <2>1. \A i \in 1 .. N : s[i] \in Nat /\ i - 1 \in Nat
    OBVIOUS
  <2>2. \A i \in 1 .. N : Power(b, i - 1) \in Nat
    BY <2>1, PowerFacts
  <2>3. \A i \in 1 .. N : s[i] * Power(b, i - 1) \in Nat
    BY <2>1, <2>2
  <2> QED BY <2>3
<1>2. step \in [1 .. N -> [Nat -> Nat]] /\ N \in Nat
  <2> HIDE DEF add
  <2> QED BY <1>1
<1>3. PICK f \in [0 .. N -> Nat] : Recursive(f, N, 0, step)
  <2> HIDE DEF step, N
  <2> QED BY <1>2, RecursionExists
<1>4. f[0] = 0 /\ \A i \in 1 .. N : f[i] = add(i, f[i - 1])
  <2>1. f[0] = 0 /\ \A i \in 1 .. N : f[i] = step[i][f[i - 1]]
    BY <1>3 DEF Recursive
  <2>2. \A i \in 1 .. N : i - 1 \in 0 .. N
    OBVIOUS
  <2>3. \A i \in 1 .. N : f[i - 1] \in Nat
    <3> HIDE DEF N
    <3> QED BY <1>3, <2>2
  <2> HIDE DEF add, N
  <2> QED BY <2>1, <2>3
<1>5. f = Body(f)
  <2> HIDE DEF N
  <2> QED BY <1>3, <1>4
<1>6. sum = Body(sum)
  <2> HIDE DEF Body
  <2> QED BY <1>5
<1>7. Value(s, b) = sum[N]
  BY DEF Value
<1>8. PICK g : Value(s, b) = g[N] /\ g = Body(g)
  <2> HIDE DEF sum, Body, N
  <2> QED BY <1>6, <1>7
<1>9. PICK h : h = g /\ h = Body(g)
  <2> HIDE DEF Body
  <2> QED BY <1>8
<1>10. \A i \in 0 .. N : h[i] = IF i = 0 THEN 0 ELSE add(i, g[i - 1])
  <2> HIDE DEF sum, N, step
  <2> QED BY <1>9
<1>11. h[0] = 0 /\ \A i \in 1 .. N : h[i] = add(i, h[i - 1])
  <2>1. h = g /\ 0 \in 0 .. N /\ \A i \in 1 .. N : i \in 0 .. N /\ i # 0
    <3>1. N \in Nat
      OBVIOUS
    <3> HIDE DEF N, sum, Body, step, add
    <3>2. 0 \in 0 .. N /\ \A i \in 1 .. N : i \in 0 .. N /\ i # 0
      BY <3>1
    <3>3. h = g
      BY <1>9
    <3> QED BY <3>2, <3>3
  <2> HIDE DEF sum, N, step, Body, add
  <2> QED BY <1>10, <2>1
<1> DEFINE A == {i \in 0 .. N : h[i] \in Nat}
<1>12. 0 .. N \subseteq A
  <2>1. 0 \in A
    BY <1>11
  <2>2. ASSUME NEW i \in 1 .. N, i - 1 \in A PROVE i \in A
    <3>1. h[i - 1] \in Nat /\ i \in 0 .. N /\ h[i] = add(i, h[i - 1])
      <4> HIDE DEF add, N
      <4> QED BY <2>2, <1>2, <1>11
    <3>2. h[i] \in Nat
      <4> HIDE DEF add, N
      <4> QED BY <3>1, <1>1
    <3> QED BY <3>1, <3>2
  <2> HIDE DEF A, N
  <2> QED BY <2>1, <2>2, <1>2, CountingUp
<1>13. h \in [0 .. N -> Nat]
  <2> HIDE DEF add, N, sum, step
  <2> QED BY <1>9, <1>12
<1> QED BY <1>8, <1>9, <1>11, <1>13

\* The digits of a number are digits.
LEMMA DigitsFacts ==
  ASSUME NEW n \in Nat, NEW b \in Nat \ {0}, NEW w \in Nat
  PROVE  /\ Digits(n, b, w) \in Seq(0 .. b - 1)
         /\ Len(Digits(n, b, w)) = w
         /\ \A i \in 1 .. w : Digits(n, b, w)[i] = (n \div Power(b, i - 1)) % b
<1>1. ASSUME NEW i \in 1 .. w PROVE (n \div Power(b, i - 1)) % b \in 0 .. b - 1
  <2>1. Power(b, i - 1) \in Nat \ {0}
    <3>1. i - 1 \in Nat
      OBVIOUS
    <3> QED BY <3>1, PowerFacts
  <2>2. n \div Power(b, i - 1) \in Nat
    BY <2>1, DivFacts
  <2> QED BY <2>2, DivFacts
<1> QED BY <1>1 DEF Digits

\* The w lowest digits of a number stand for its remainder.
LEMMA DigitsValue ==
  ASSUME NEW n \in Nat, NEW b \in Nat \ {0}, NEW w \in Nat
  PROVE  Value(Digits(n, b, w), b) = n % Power(b, w)
<1> DEFINE s == Digits(n, b, w)
<1>1. Len(s) = w /\ \A i \in 1 .. w : s[i] \in Nat /\ s[i] = (n \div Power(b, i - 1)) % b
  <2>1. Len(s) = w /\ s \in Seq(0 .. b - 1) /\ \A i \in 1 .. w : s[i] = (n \div Power(b, i - 1)) % b
    BY DigitsFacts
  <2> HIDE DEF s
  <2>2. \A i \in 1 .. w : s[i] \in 0 .. b - 1
    BY <2>1
  <2> QED BY <2>1, <2>2
<1>2. PICK f \in [0 .. w -> Nat] :
        /\ Value(s, b) = f[w] /\ f[0] = 0
        /\ \A i \in 1 .. w : f[i] = f[i - 1] + s[i] * Power(b, i - 1)
  <2> HIDE DEF s
  <2> QED BY <1>1, ValueRuns
<1> DEFINE A == {i \in 0 .. w : f[i] = n % Power(b, i)}
<1>3. 0 \in A
  <2>1. Power(b, 0) = 1
    BY PowerFacts
  <2> QED BY <2>1, <1>2
<1>4. ASSUME NEW i \in 1 .. w, i - 1 \in A PROVE i \in A
  <2>1. i - 1 \in Nat /\ (i - 1) + 1 = i
    OBVIOUS
  <2>2. Power(b, i - 1) \in Nat \ {0} /\ Power(b, i) = b * Power(b, i - 1)
    BY <2>1, PowerFacts
  <2>3. f[i] = (n % Power(b, i - 1)) + ((n \div Power(b, i - 1)) % b) * Power(b, i - 1)
    <3> HIDE DEF s
    <3> QED BY <1>1, <1>2, <1>4
  <2>4. n % (b * Power(b, i - 1)) = (n % Power(b, i - 1)) + ((n \div Power(b, i - 1)) % b) * Power(b, i - 1)
    BY <2>2, DigitStep
  <2> QED BY <2>2, <2>3, <2>4
<1>5. w \in A
  <2>1. 0 .. w \subseteq A
    <3> HIDE DEF A
    <3> QED BY <1>3, <1>4, CountingUp
  <2> HIDE DEF A
  <2> QED BY <2>1
<1> QED BY <1>2, <1>5

\* Widths.
LEMMA Widths ==
  /\ BYTE \in Nat /\ BYTE >= 4 /\ MORE_BIT \in Nat /\ MORE_BIT >= 2 /\ BYTE = 2 * MORE_BIT
  /\ HALF \in Nat \ {0} /\ WORD \in Nat \ {0, 1} /\ LONG \in Nat \ {0, 1, 2}
  /\ HEADER_SIZE \in Nat /\ HEADER_SIZE = WORD + HALF + 1
  /\ SUMS \in Nat /\ SUMS >= 16 /\ SUMS = Power(BYTE, WORD)
<1>1. {BITS, HALF, WORD, LONG} \subseteq Nat \ {0} /\ BITS > 1 /\ HALF < WORD /\ WORD < LONG
  BY WidthsAssumption DEF WidthsAssumption
<1>2. BITS - 1 \in Nat /\ BITS - 2 \in Nat /\ (BITS - 2) + 1 = BITS - 1 /\ (BITS - 1) + 1 = BITS
  BY <1>1
<1>3. Power(2, BITS - 2) \in Nat \ {0} /\ Power(2, BITS - 1) = 2 * Power(2, BITS - 2)
  BY <1>2, PowerFacts
<1>4. Power(2, BITS) = 2 * Power(2, BITS - 1)
  BY <1>2, PowerFacts
<1>5. BYTE \in Nat /\ BYTE >= 4 /\ MORE_BIT \in Nat /\ MORE_BIT >= 2 /\ BYTE = 2 * MORE_BIT
  BY <1>3, <1>4 DEF BYTE, MORE_BIT
<1>6. WORD \in Nat \ {0, 1} /\ WORD - 2 \in Nat /\ 2 + (WORD - 2) = WORD
  BY <1>1
<1>7. Power(BYTE, 2) = BYTE * BYTE
  <2>0. BYTE \in Nat \ {0} /\ 0 \in Nat /\ 1 \in Nat
    BY <1>5
  <2>1. Power(BYTE, 0) = 1 /\ Power(BYTE, 0 + 1) = BYTE * Power(BYTE, 0)
    BY <2>0, PowerFacts
  <2>2. Power(BYTE, 1 + 1) = BYTE * Power(BYTE, 1)
    BY <2>0, PowerFacts
  <2>3. BYTE * 1 = BYTE
    BY <1>5
  <2> QED BY <2>1, <2>2, <2>3
<1>8. Power(BYTE, 2) >= 16
  <2>1. \A x \in Nat : x >= 4 => x * x >= 16
    OBVIOUS
  <2> QED BY <2>1, <1>5, <1>7
<1>9. Power(BYTE, WORD) \in Nat /\ Power(BYTE, WORD) >= Power(BYTE, 2)
  <2>1. 2 <= WORD /\ BYTE \in Nat \ {0} /\ 2 \in Nat /\ WORD \in Nat
    BY <1>5, <1>6
  <2>2. Power(BYTE, WORD) \in Nat
    BY <2>1, PowerFacts
  <2>3. Power(BYTE, 2) <= Power(BYTE, WORD)
    BY <2>1, PowerGrows
  <2> QED BY <2>2, <2>3
<1>10. HALF \in Nat \ {0} /\ LONG \in Nat \ {0, 1, 2}
  BY <1>1, <1>6
<1>11. Power(BYTE, 2) \in Nat
  <2>1. BYTE \in Nat \ {0} /\ 2 \in Nat
    BY <1>5
  <2> QED BY <2>1, PowerFacts
<1> QED BY <1>5, <1>6, <1>8, <1>9, <1>10, <1>11 DEF HEADER_SIZE, SUMS

\* from_le_bytes undoes to_le_bytes.
LEMMA FixedFacts ==
  ASSUME NEW n \in Nat, NEW w \in Nat
  PROVE  /\ Fixed(n, w) \in Seq(0 .. BYTE - 1) /\ Len(Fixed(n, w)) = w
         /\ n < Power(BYTE, w) => Unfixed(Fixed(n, w)) = n
<1>1. BYTE \in Nat \ {0}
  BY Widths
<1>2. Power(BYTE, w) \in Nat \ {0}
  BY <1>1, PowerFacts
<1>3. n < Power(BYTE, w) => n % Power(BYTE, w) = n
  BY <1>2
<1> QED BY <1>1, <1>3, DigitsFacts, DigitsValue DEF Fixed, Unfixed

----------------------------------------------------------------------------
(* Sequences and pieces *)

\* What a byte may be.
Bytes == 0 .. BYTE - 1

\* Bytes are numbers, and the types of pieces are bytes.
LEMMA ByteFacts == Bytes \subseteq Nat /\ 1 .. 4 \subseteq Bytes /\ 0 \in Bytes
<1>1. BYTE \in Nat /\ 4 < BYTE
  BY Widths, BlockAssumption DEF BlockAssumption, Last
<1> QED BY <1>1 DEF Bytes

\* A sequence is given by its length and its elements.
LEMMA SameSeq ==
  ASSUME NEW A, NEW B, NEW s \in Seq(A), NEW t \in Seq(B), Len(s) = Len(t), \A i \in 1 .. Len(s) : s[i] = t[i]
  PROVE  s = t
OBVIOUS

\* A sequence over a set is one over a larger set.
LEMMA WiderSeq ==
  ASSUME NEW A, NEW B, A \subseteq B, NEW s \in Seq(A)
  PROVE  s \in Seq(B)
OBVIOUS

\* Two sequences in one.
LEMMA ConcatFacts ==
  ASSUME NEW A, NEW s \in Seq(A), NEW t \in Seq(A)
  PROVE  /\ s \o t \in Seq(A) /\ Len(s \o t) = Len(s) + Len(t)
         /\ \A i \in 1 .. Len(s) : (s \o t)[i] = s[i]
         /\ \A i \in 1 .. Len(t) : (s \o t)[Len(s) + i] = t[i]
OBVIOUS

\* A part of a sequence.
LEMMA SliceFacts ==
  ASSUME NEW A, NEW s \in Seq(A), NEW from \in Nat, NEW n \in Nat, from + n <= Len(s)
  PROVE  /\ Slice(s, from, from + n) \in Seq(A) /\ Len(Slice(s, from, from + n)) = n
         /\ \A i \in 1 .. n : Slice(s, from, from + n)[i] = s[from + i]
<1>1. SubSeq(s, from + 1, from + n) \in Seq(A)
  OBVIOUS
<1>2. Len(SubSeq(s, from + 1, from + n)) = n
  OBVIOUS
<1>3. \A i \in 1 .. n : SubSeq(s, from + 1, from + n)[i] = s[from + i]
  OBVIOUS
<1> QED BY <1>1, <1>2, <1>3 DEF Slice

\* A checksum fits its field.
LEMMA ChecksumFacts ==
  ASSUME NEW rtype \in 1 .. 4, NEW data \in Seq(Nat)
  PROVE  Checksum(rtype, data) \in Nat /\ Checksum(rtype, data) < SUMS
<1> DEFINE N == Len(data)
           S == 0 .. SUMS - 1
           add(i, x) == (x * 11 + data[i] + 1) % SUMS
           step == [i \in 1 .. N |-> [x \in S |-> add(i, x)]]
           Body(f) == [i \in 0 .. N |-> IF i = 0 THEN rtype ELSE (f[i - 1] * 11 + data[i] + 1) % SUMS]
           sum == CHOOSE f : f = Body(f)
<1>0. N \in Nat /\ SUMS \in Nat /\ SUMS >= 16 /\ \A i \in 1 .. N : data[i] \in Nat
  BY Widths
<1>1. \A i \in 1 .. N, x \in S : add(i, x) \in S
  <2> SUFFICES ASSUME NEW i \in 1 .. N, NEW x \in S PROVE add(i, x) \in S
    OBVIOUS
  <2> DEFINE y == x * 11 + data[i] + 1
  <2>1. y \in Nat /\ SUMS \in Nat \ {0}
    BY <1>0
  <2>2. y % SUMS \in S
    <3> HIDE DEF y
    <3> QED BY <2>1, DivFacts
  <2> QED BY <2>2
<1>2. rtype \in S
  BY <1>0
<1>3. step \in [1 .. N -> [S -> S]]
  <2> HIDE DEF add, N, S
  <2> QED BY <1>1
<1>4. PICK f \in [0 .. N -> S] : Recursive(f, N, rtype, step)
  <2> HIDE DEF step, N, S
  <2> QED BY <1>0, <1>2, <1>3, RecursionExists
<1>5. f = Body(f)
  <2>1. f[0] = rtype /\ \A i \in 1 .. N : f[i] = step[i][f[i - 1]]
    BY <1>4 DEF Recursive
  <2>2. \A i \in 1 .. N : i - 1 \in 0 .. N
    BY <1>0
  <2>3. \A i \in 1 .. N : f[i - 1] \in S
    <3> HIDE DEF N, S
    <3> QED BY <1>4, <2>2
  <2>4. \A i \in 1 .. N : f[i] = add(i, f[i - 1])
    <3> HIDE DEF add, N, S
    <3> QED BY <2>1, <2>3
  <2> HIDE DEF N, S, step
  <2> QED BY <1>4, <2>1, <2>4
<1>6. sum = Body(sum) /\ Checksum(rtype, data) = sum[N]
  <2>1. sum = Body(sum)
    <3> HIDE DEF Body
    <3> QED BY <1>5
  <2>2. Checksum(rtype, data) = sum[N]
    BY DEF Checksum
  <2> QED BY <2>1, <2>2
<1>7. PICK g : Checksum(rtype, data) = g[N] /\ g = Body(g)
  <2> HIDE DEF sum, Body, N
  <2> QED BY <1>6
<1>8. PICK h : h = g /\ h = Body(g)
  <2> HIDE DEF Body
  <2> QED BY <1>7
<1>9. \A i \in 0 .. N : h[i] = IF i = 0 THEN rtype ELSE add(i, g[i - 1])
  <2> HIDE DEF sum, N, step
  <2> QED BY <1>8
<1>10. 0 \in 0 .. N /\ \A i \in 1 .. N : i \in 0 .. N /\ i # 0
  <2> HIDE DEF N, sum, Body, step, add
  <2> QED BY <1>0
<1>11. h[0] = rtype /\ \A i \in 1 .. N : h[i] = add(i, h[i - 1])
  <2> HIDE DEF sum, N, step, Body, add
  <2> QED BY <1>8, <1>9, <1>10
<1> DEFINE A == {i \in 0 .. N : h[i] \in S}
<1> HIDE DEF N, sum, step, Body, add, S
<1>12. 0 .. N \subseteq A
  <2>1. 0 \in A
    BY <1>2, <1>10, <1>11
  <2>2. ASSUME NEW i \in 1 .. N, i - 1 \in A PROVE i \in A
    BY <2>2, <1>1, <1>10, <1>11
  <2> HIDE DEF A
  <2> QED BY <2>1, <2>2, <1>0, CountingUp
<1>13. N \in 0 .. N
  BY <1>0
<1>14. Checksum(rtype, data) \in S
  <2>1. N \in A
    <3> HIDE DEF A
    <3> QED BY <1>12, <1>13
  <2> QED BY <2>1, <1>7, <1>8
<1> QED BY <1>0, <1>14 DEF S

\* The parts of a piece.
LEMMA PieceFacts ==
  ASSUME NEW rtype \in 1 .. 4, NEW data \in Seq(Bytes)
  PROVE  LET piece == EncodePiece(rtype, data)
         IN /\ piece \in Seq(Bytes) /\ Len(piece) = HEADER_SIZE + Len(data)
            /\ \A i \in 1 .. WORD : piece[i] = Fixed(Checksum(rtype, data), WORD)[i]
            /\ \A i \in 1 .. HALF : piece[WORD + i] = Fixed(Len(data), HALF)[i]
            /\ piece[HEADER_SIZE] = rtype
            /\ \A i \in 1 .. Len(data) : piece[HEADER_SIZE + i] = data[i]
<1> DEFINE a == Fixed(Checksum(rtype, data), WORD)
           b == Fixed(Len(data), HALF)
           c == <<rtype>>
<1>0. WORD \in Nat /\ HALF \in Nat /\ HEADER_SIZE = WORD + HALF + 1 /\ BYTE \in Nat
  BY Widths
<1>1. data \in Seq(Nat) /\ rtype \in Bytes
  BY ByteFacts, WiderSeq
<1>2. a \in Seq(Bytes) /\ Len(a) = WORD
  BY <1>0, <1>1, ChecksumFacts, FixedFacts DEF Bytes
<1>3. b \in Seq(Bytes) /\ Len(b) = HALF
  <2>1. Len(data) \in Nat
    OBVIOUS
  <2> QED BY <1>0, <2>1, FixedFacts DEF Bytes
<1>4. c \in Seq(Bytes) /\ Len(c) = 1 /\ c[1] = rtype
  BY <1>1
<1>5. EncodePiece(rtype, data) = ((a \o b) \o c) \o data
  BY DEF EncodePiece
<1> DEFINE ab == a \o b
           abc == ab \o c
<1> HIDE DEF a, b, c
<1>6. /\ ab \in Seq(Bytes) /\ Len(ab) = WORD + HALF
      /\ \A i \in 1 .. WORD : ab[i] = a[i]
      /\ \A i \in 1 .. HALF : ab[WORD + i] = b[i]
  BY <1>2, <1>3
<1> HIDE DEF ab
<1>7. /\ abc \in Seq(Bytes) /\ Len(abc) = HEADER_SIZE
      /\ \A i \in 1 .. WORD + HALF : abc[i] = ab[i]
      /\ abc[HEADER_SIZE] = rtype
  <2>0. ab \in Seq(Bytes) /\ c \in Seq(Bytes)
    BY <1>4, <1>6
  <2>1. /\ abc \in Seq(Bytes) /\ Len(abc) = Len(ab) + Len(c)
        /\ \A i \in 1 .. Len(ab) : abc[i] = ab[i]
        /\ \A i \in 1 .. Len(c) : abc[Len(ab) + i] = c[i]
    BY <2>0
  <2> HIDE DEF abc
  <2>2. 1 \in 1 .. Len(c)
    BY <1>4
  <2> QED BY <1>0, <1>4, <1>6, <2>1, <2>2
<1> HIDE DEF abc
<1> DEFINE piece == abc \o data
<1>8. /\ piece \in Seq(Bytes) /\ Len(piece) = HEADER_SIZE + Len(data)
      /\ \A i \in 1 .. HEADER_SIZE : piece[i] = abc[i]
      /\ \A i \in 1 .. Len(data) : piece[HEADER_SIZE + i] = data[i]
  BY <1>7
<1>9. EncodePiece(rtype, data) = piece
  BY <1>5 DEF ab, abc
<1> HIDE DEF piece
<1>10. \A i \in 1 .. WORD : piece[i] = a[i]
  BY <1>0, <1>6, <1>7, <1>8
<1>11. \A i \in 1 .. HALF : piece[WORD + i] = b[i]
  BY <1>0, <1>6, <1>7, <1>8
<1>12. piece[HEADER_SIZE] = rtype
  BY <1>0, <1>7, <1>8
<1> QED BY <1>8, <1>9, <1>10, <1>11, <1>12 DEF a, b

\* What the reader makes of the header of a piece.
LEMMA HeaderRead ==
  ASSUME NEW rtype \in 1 .. 4, NEW data \in Seq(Bytes), Len(data) < Power(BYTE, HALF),
         NEW file \in Seq(Bytes), NEW at \in Nat, at + HEADER_SIZE <= Len(file),
         \A i \in 1 .. HEADER_SIZE : file[at + i] = EncodePiece(rtype, data)[i]
  PROVE  /\ Unfixed(Slice(file, at, at + WORD)) = Checksum(rtype, data)
         /\ Unfixed(Slice(file, at + WORD, at + WORD + HALF)) = Len(data)
         /\ file[at + HEADER_SIZE] = rtype
<1> DEFINE piece == EncodePiece(rtype, data)
           a == Fixed(Checksum(rtype, data), WORD)
           b == Fixed(Len(data), HALF)
<1>0. WORD \in Nat /\ HALF \in Nat /\ HEADER_SIZE = WORD + HALF + 1 /\ HEADER_SIZE \in Nat
  BY Widths
<1>1. /\ \A i \in 1 .. WORD : piece[i] = a[i]
      /\ \A i \in 1 .. HALF : piece[WORD + i] = b[i]
      /\ piece[HEADER_SIZE] = rtype
  BY PieceFacts
<1>2. \A i \in 1 .. HEADER_SIZE : file[at + i] = piece[i]
  OBVIOUS
<1>3. a \in Seq(Bytes) /\ Len(a) = WORD /\ Unfixed(a) = Checksum(rtype, data)
  <2>1. data \in Seq(Nat)
    BY ByteFacts, WiderSeq
  <2>2. Checksum(rtype, data) \in Nat /\ Checksum(rtype, data) < Power(BYTE, WORD)
    BY <2>1, ChecksumFacts DEF SUMS
  <2> QED BY <1>0, <2>2, FixedFacts DEF Bytes
<1>4. b \in Seq(Bytes) /\ Len(b) = HALF /\ Unfixed(b) = Len(data)
  <2>1. Len(data) \in Nat
    OBVIOUS
  <2> QED BY <1>0, <2>1, FixedFacts DEF Bytes
<1> HIDE DEF piece, a, b
<1>5. Slice(file, at, at + WORD) = a
  <2>1. /\ Slice(file, at, at + WORD) \in Seq(Bytes) /\ Len(Slice(file, at, at + WORD)) = WORD
        /\ \A i \in 1 .. WORD : Slice(file, at, at + WORD)[i] = file[at + i]
    <3>1. at + WORD <= Len(file) /\ WORD \in Nat
      BY <1>0
    <3>2. Slice(file, at, at + WORD) \in Seq(Bytes)
      BY <3>1, SliceFacts
    <3>3. Len(Slice(file, at, at + WORD)) = WORD
      BY <3>1, SliceFacts
    <3>4. ASSUME NEW i \in 1 .. WORD PROVE Slice(file, at, at + WORD)[i] = file[at + i]
      BY <3>1 DEF Slice
    <3> QED BY <3>2, <3>3, <3>4
  <2>2. \A i \in 1 .. WORD : file[at + i] = a[i]
    BY <1>0, <1>1, <1>2
  <2> QED BY <1>3, <2>1, <2>2, SameSeq
<1>6. Slice(file, at + WORD, at + WORD + HALF) = b
  <2>1. /\ Slice(file, at + WORD, at + WORD + HALF) \in Seq(Bytes)
        /\ Len(Slice(file, at + WORD, at + WORD + HALF)) = HALF
        /\ \A i \in 1 .. HALF : Slice(file, at + WORD, at + WORD + HALF)[i] = file[at + WORD + i]
    <3>1. at + WORD \in Nat /\ at + WORD + HALF <= Len(file)
      BY <1>0
    <3> QED BY <1>0, <3>1, SliceFacts
  <2>2. \A i \in 1 .. HALF : file[at + WORD + i] = b[i]
    <3> SUFFICES ASSUME NEW i \in 1 .. HALF PROVE file[at + WORD + i] = b[i]
      OBVIOUS
    <3>1. WORD + i \in 1 .. HEADER_SIZE /\ at + (WORD + i) = at + WORD + i
      BY <1>0
    <3> QED BY <1>1, <1>2, <3>1
  <2> QED BY <1>4, <2>1, <2>2, SameSeq
<1>7. file[at + HEADER_SIZE] = rtype
  <2>1. HEADER_SIZE \in 1 .. HEADER_SIZE
    BY <1>0
  <2> QED BY <1>1, <1>2, <2>1
<1> QED BY <1>3, <1>4, <1>5, <1>6, <1>7

----------------------------------------------------------------------------
(* The turns of the reader *)

\* Where the block behind a place begins, and where the next piece does.
NextBlock(p) == (p \div BLOCK_SIZE + 1) * BLOCK_SIZE
Begin(p) == IF NextBlock(p) - p < HEADER_SIZE THEN NextBlock(p) ELSE p

\* The states of the reader, and the one it begins in.
StateSet == [pos : Nat, records : Seq(Seq(Bytes)), fragment : [open : BOOLEAN, data : Seq(Bytes)], done : BOOLEAN]

StartState == [pos |-> 0, records |-> <<>>, fragment |-> NoFragment, done |-> FALSE]

\* An encoded piece is there in a file.
PieceAt(file, at, rtype, data) ==
  /\ at + HEADER_SIZE + Len(data) <= Len(file)
  /\ \A i \in 1 .. HEADER_SIZE + Len(data) : file[at + i] = EncodePiece(rtype, data)[i]

\* One sequence begins with another.
Prefix(s, t) == Len(s) <= Len(t) /\ \A i \in 1 .. Len(s) : s[i] = t[i]

\* Where the next block begins, from the place in this one.
LEMMA PlaceFacts ==
  ASSUME NEW p \in Nat, NEW q \in Nat, NEW r \in 0 .. BLOCK_SIZE - 1, p = BLOCK_SIZE * q + r
  PROVE  NextBlock(p) = p + (BLOCK_SIZE - r)
<1>1. BLOCK_SIZE \in Nat \ {0}
  BY Widths, BlockAssumption DEF BlockAssumption
<1>2. p \div BLOCK_SIZE = q
  BY <1>1, DivUnique
<1>3. (q + 1) * BLOCK_SIZE = BLOCK_SIZE * q + BLOCK_SIZE
  BY <1>1
<1>4. BLOCK_SIZE * q \in Nat
  BY <1>1
<1> QED BY <1>1, <1>2, <1>3, <1>4 DEF NextBlock

\* The next piece begins in less than a header, and the block has room for its header.
LEMMA BlockFacts ==
  ASSUME NEW p \in Nat
  PROVE  /\ NextBlock(p) \in Nat /\ NextBlock(p) > p
         /\ Begin(p) \in Nat /\ Begin(p) >= p /\ Begin(p) < p + HEADER_SIZE
         /\ NextBlock(Begin(p)) - Begin(p) >= HEADER_SIZE
         /\ Begin(Begin(p)) = Begin(p)
<1>1. BLOCK_SIZE \in Nat \ {0} /\ HEADER_SIZE \in Nat \ {0} /\ BLOCK_SIZE > HEADER_SIZE
  BY Widths, BlockAssumption DEF BlockAssumption
<1> DEFINE q == p \div BLOCK_SIZE
           r == p % BLOCK_SIZE
<1>2. q \in Nat /\ r \in 0 .. BLOCK_SIZE - 1 /\ p = BLOCK_SIZE * q + r
  BY <1>1, DivFacts
<1> HIDE DEF q, r
<1>3. NextBlock(p) = p + (BLOCK_SIZE - r)
  BY <1>2, PlaceFacts
<1>4. NextBlock(p) \in Nat /\ NextBlock(p) > p
  BY <1>1, <1>2, <1>3
<1>5. NextBlock(NextBlock(p)) = NextBlock(p) + BLOCK_SIZE
  <2>1. NextBlock(p) = BLOCK_SIZE * (q + 1) + 0
    <3>1. BLOCK_SIZE * (q + 1) = BLOCK_SIZE * q + BLOCK_SIZE /\ BLOCK_SIZE * q \in Nat
      BY <1>1, <1>2
    <3> QED BY <1>1, <1>2, <1>3, <3>1
  <2>2. q + 1 \in Nat /\ 0 \in 0 .. BLOCK_SIZE - 1
    BY <1>1, <1>2
  <2>3. NextBlock(NextBlock(p)) = NextBlock(p) + (BLOCK_SIZE - 0)
    BY <1>4, <2>1, <2>2, PlaceFacts
  <2> QED BY <1>1, <1>4, <2>3
<1>6. Begin(p) \in Nat /\ Begin(p) >= p /\ Begin(p) < p + HEADER_SIZE
  BY <1>1, <1>4 DEF Begin
<1>7. NextBlock(Begin(p)) - Begin(p) >= HEADER_SIZE
  <2>1. CASE NextBlock(p) - p < HEADER_SIZE
    <3>1. Begin(p) = NextBlock(p)
      BY <2>1 DEF Begin
    <3>2. NextBlock(Begin(p)) = Begin(p) + BLOCK_SIZE
      BY <3>1, <1>5
    <3> QED BY <3>2, <1>1, <1>6
  <2>2. CASE ~(NextBlock(p) - p < HEADER_SIZE)
    BY <2>2, <1>1, <1>4 DEF Begin
  <2> QED BY <2>1, <2>2
<1>8. Begin(Begin(p)) = Begin(p)
  <2>1. NextBlock(Begin(p)) \in Int
    BY <1>1, <1>6 DEF NextBlock
  <2>2. ~(NextBlock(Begin(p)) - Begin(p) < HEADER_SIZE)
    BY <1>1, <1>6, <1>7, <2>1
  <2> QED BY <2>2 DEF Begin
<1> QED BY <1>4, <1>6, <1>7, <1>8

\* A piece moves the reader to its end and takes away no record.
LEMMA AssembleFacts ==
  ASSUME NEW a \in StateSet, NEW rtype \in 1 .. 4, NEW data \in Seq(Bytes), NEW next \in Nat
  PROVE  LET b == Assemble(a, rtype, data, next)
         IN /\ b \in StateSet /\ b.pos = next /\ b.done = a.done
            /\ Prefix(a.records, b.records)
<1> DEFINE b == Assemble(a, rtype, data, next)
           moved == [a EXCEPT !.pos = next]
<1>0. /\ a.records \in Seq(Seq(Bytes)) /\ a.fragment.data \in Seq(Bytes) /\ a.fragment.open \in BOOLEAN
      /\ a.done \in BOOLEAN /\ a.fragment \in [open : BOOLEAN, data : Seq(Bytes)]
      /\ NoFragment \in [open : BOOLEAN, data : Seq(Bytes)]
  BY DEF StateSet, NoFragment
<1>1. moved \in StateSet /\ moved.pos = next /\ moved.done = a.done /\ moved.records = a.records
  BY DEF StateSet
<1>2. \A x \in Seq(Bytes) : /\ Append(a.records, x) \in Seq(Seq(Bytes))
                            /\ Prefix(a.records, Append(a.records, x))
  BY <1>0 DEF Prefix
<1>3. Prefix(a.records, a.records)
  BY <1>0 DEF Prefix
<1>4. a.fragment.data \o data \in Seq(Bytes)
  BY <1>0
<1>5. CASE rtype = 1
  <2>1. b = [moved EXCEPT !.records = Append(@, data), !.fragment = NoFragment]
    BY <1>5 DEF Assemble, Full, First, Middle, Last
  <2> QED BY <2>1, <1>0, <1>1, <1>2 DEF StateSet
<1>6. CASE rtype = 2
  <2>1. b = [moved EXCEPT !.fragment = [open |-> TRUE, data |-> data]]
    BY <1>6 DEF Assemble, Full, First, Middle, Last
  <2> DEFINE g == [open |-> TRUE, data |-> data]
  <2>2. g \in [open : BOOLEAN, data : Seq(Bytes)]
    OBVIOUS
  <2> HIDE DEF g
  <2>3. b = [moved EXCEPT !.fragment = g]
    BY <2>1 DEF g
  <2> HIDE DEF b
  <2>4. b \in StateSet /\ b.pos = next /\ b.done = a.done /\ b.records = a.records
    BY <2>2, <2>3, <1>0, <1>1 DEF StateSet
  <2> QED BY <2>4, <1>3 DEF b
<1>7. CASE rtype \in {3, 4} /\ ~a.fragment.open
  <2>1. b = moved
    BY <1>7 DEF Assemble, Full, First, Middle, Last
  <2> QED BY <2>1, <1>0, <1>1, <1>3 DEF StateSet
<1>8. CASE rtype = 3 /\ a.fragment.open
  <2>1. b = [moved EXCEPT !.fragment.data = @ \o data]
    BY <1>8 DEF Assemble, Full, First, Middle, Last
  <2> QED BY <2>1, <1>0, <1>1, <1>3, <1>4 DEF StateSet
<1>9. CASE rtype = 4 /\ a.fragment.open
  <2>1. b = [moved EXCEPT !.records = Append(@, a.fragment.data \o data), !.fragment = NoFragment]
    BY <1>9 DEF Assemble, Full, First, Middle, Last
  <2> QED BY <2>1, <1>0, <1>1, <1>2, <1>4 DEF StateSet
<1> QED BY <1>5, <1>6, <1>7, <1>8, <1>9

\* The reader at another place.
Moved(a, p) == [a EXCEPT !.pos = p]

\* Only the place is another.
LEMMA MovedFacts ==
  ASSUME NEW a \in StateSet, NEW p \in Nat
  PROVE  /\ Moved(a, p) \in StateSet /\ Moved(a, p).pos = p /\ Moved(a, p).done = a.done
         /\ Moved(a, p).records = a.records /\ Moved(a, p).fragment = a.fragment
         /\ Moved(a, a.pos) = a
BY DEF Moved, StateSet

\* What a piece adds does not depend on the place the reader came from.
LEMMA AssembleMoved ==
  ASSUME NEW a \in StateSet, NEW p \in Nat, NEW rtype \in 1 .. 4, NEW data \in Seq(Bytes), NEW next \in Nat
  PROVE  Assemble(Moved(a, p), rtype, data, next) = Assemble(a, rtype, data, next)
<1>1. [Moved(a, p) EXCEPT !.pos = next] = [a EXCEPT !.pos = next]
  BY DEF Moved, StateSet
<1>2. Moved(a, p).fragment = a.fragment
  BY MovedFacts
<1> QED BY <1>1, <1>2 DEF Assemble

\* What one turn does at a place, by what is there.
Skips(file, p) == NextBlock(p) - p < HEADER_SIZE \/ file[p + HEADER_SIZE] = 0

\* Where the piece at a place ends by its header, and whether the reader takes it.
EndAt(file, p) == p + HEADER_SIZE + Unfixed(Slice(file, p + WORD, p + WORD + HALF))

Accepted(file, p) ==
  LET data == Slice(file, p + HEADER_SIZE, EndAt(file, p))
  IN /\ file[p + HEADER_SIZE] \in 1 .. 4
     /\ EndAt(file, p) <= Len(file)
     /\ Verified(file[p + HEADER_SIZE], data, Unfixed(Slice(file, p, p + WORD)))

\* The turns of the loop: the end, a trailer, a piece that is taken, one that is not.
LEMMA TurnFacts ==
  ASSUME NEW file \in Seq(Bytes), NEW a \in StateSet
  PROVE  /\ a.done => Turn(file, a) = a
         /\ ~a.done /\ a.pos + HEADER_SIZE > Len(file) => Turn(file, a) = Stopped(a)
         /\ ~a.done /\ a.pos + HEADER_SIZE <= Len(file) /\ Skips(file, a.pos)
              => Turn(file, a) = Moved(a, NextBlock(a.pos))
         /\ ~a.done /\ a.pos + HEADER_SIZE <= Len(file) /\ ~Skips(file, a.pos) /\ Accepted(file, a.pos)
              => Turn(file, a) = Assemble(a, file[a.pos + HEADER_SIZE],
                                          Slice(file, a.pos + HEADER_SIZE, EndAt(file, a.pos)), EndAt(file, a.pos))
         /\ ~a.done /\ a.pos + HEADER_SIZE <= Len(file) /\ ~Skips(file, a.pos) /\ ~Accepted(file, a.pos)
              => Turn(file, a) = Stopped(a)
<1> DEFINE p == a.pos
           header == p + HEADER_SIZE <= Len(file)
           skip == NextBlock(p) - p < HEADER_SIZE \/ file[p + HEADER_SIZE] = 0
           data == Slice(file, p + HEADER_SIZE, EndAt(file, p))
           ok == /\ file[p + HEADER_SIZE] \in {Full, First, Middle, Last}
                 /\ EndAt(file, p) <= Len(file)
                 /\ Verified(file[p + HEADER_SIZE], data, Unfixed(Slice(file, p, p + WORD)))
           more == IF ok THEN Assemble(a, file[p + HEADER_SIZE], data, EndAt(file, p)) ELSE Stopped(a)
<1>1. a.done \in BOOLEAN /\ p \in Nat /\ HEADER_SIZE \in Nat /\ Len(file) \in Nat
  BY Widths DEF StateSet
<1>2. Turn(file, a) = CASE a.done -> a
                        [] ~a.done /\ p + HEADER_SIZE > Len(file) -> Stopped(a)
                        [] ~a.done /\ header /\ skip -> Moved(a, NextBlock(p))
                        [] OTHER -> more
  BY DEF Turn, NextBlock, EndAt, Moved
<1>3. ok <=> Accepted(file, p)
  BY DEF Accepted, Full, First, Middle, Last
<1>4. skip <=> Skips(file, p)
  BY DEF Skips
<1> HIDE DEF skip, data, more, ok
<1>5. header <=> ~(p + HEADER_SIZE > Len(file))
  BY <1>1
<1>6. a.done => Turn(file, a) = a
  BY <1>2, <1>5
<1>7. ~a.done /\ ~header => Turn(file, a) = Stopped(a)
  BY <1>2, <1>5
<1>8. ~a.done /\ header /\ skip => Turn(file, a) = Moved(a, NextBlock(p))
  BY <1>2, <1>5
<1>9. ~a.done /\ header /\ ~skip => Turn(file, a) = more
  BY <1>2, <1>5
<1> QED BY <1>3, <1>4, <1>5, <1>6, <1>7, <1>8, <1>9 DEF data, more

\* The parts of a piece that is there.
LEMMA PieceRead ==
  ASSUME NEW file \in Seq(Bytes), NEW p \in Nat,
         NEW rtype \in 1 .. 4, NEW data \in Seq(Bytes), Len(data) < Power(BYTE, HALF),
         PieceAt(file, p, rtype, data)
  PROVE  /\ Unfixed(Slice(file, p, p + WORD)) = Checksum(rtype, data)
         /\ EndAt(file, p) = p + HEADER_SIZE + Len(data)
         /\ p + HEADER_SIZE + Len(data) <= Len(file)
         /\ file[p + HEADER_SIZE] = rtype
         /\ Slice(file, p + HEADER_SIZE, p + HEADER_SIZE + Len(data)) = data
<1>1. HEADER_SIZE \in Nat /\ Len(file) \in Nat /\ Len(data) \in Nat
  BY Widths
<1>2. p + HEADER_SIZE + Len(data) <= Len(file)
  BY DEF PieceAt
<1>3. \A i \in 1 .. HEADER_SIZE + Len(data) : file[p + i] = EncodePiece(rtype, data)[i]
  BY DEF PieceAt
<1>4. /\ Unfixed(Slice(file, p, p + WORD)) = Checksum(rtype, data)
      /\ EndAt(file, p) = p + HEADER_SIZE + Len(data)
      /\ file[p + HEADER_SIZE] = rtype
  <2>1. p + HEADER_SIZE <= Len(file)
    BY <1>1, <1>2
  <2>2. \A i \in 1 .. HEADER_SIZE : file[p + i] = EncodePiece(rtype, data)[i]
    BY <1>1, <1>3
  <2> QED BY <2>1, <2>2, HeaderRead DEF EndAt
<1> DEFINE slice == Slice(file, p + HEADER_SIZE, p + HEADER_SIZE + Len(data))
<1>5. slice \in Seq(Bytes) /\ Len(slice) = Len(data)
  <2>1. p + HEADER_SIZE \in Nat
    BY <1>1
  <2> QED BY <1>1, <1>2, <2>1, SliceFacts
<1>6. \A i \in 1 .. Len(data) : slice[i] = data[i]
  <2> SUFFICES ASSUME NEW i \in 1 .. Len(data) PROVE slice[i] = data[i]
    OBVIOUS
  <2>1. slice[i] = file[p + HEADER_SIZE + i]
    BY <1>1, <1>2 DEF Slice
  <2>2. HEADER_SIZE + i \in 1 .. HEADER_SIZE + Len(data) /\ p + (HEADER_SIZE + i) = p + HEADER_SIZE + i
    BY <1>1
  <2>3. EncodePiece(rtype, data)[HEADER_SIZE + i] = data[i]
    BY PieceFacts
  <2> QED BY <1>3, <2>1, <2>2, <2>3
<1>7. slice = data
  <2> HIDE DEF slice
  <2> QED BY <1>5, <1>6, SameSeq
<1> QED BY <1>2, <1>4, <1>7

\* A piece is read.
LEMMA TurnReads ==
  ASSUME NEW file \in Seq(Bytes), NEW a \in StateSet, ~a.done, Begin(a.pos) = a.pos,
         NEW rtype \in 1 .. 4, NEW data \in Seq(Bytes), Len(data) < Power(BYTE, HALF),
         PieceAt(file, a.pos, rtype, data)
  PROVE  Turn(file, a) = Assemble(a, rtype, data, a.pos + HEADER_SIZE + Len(data))
<1> DEFINE p == a.pos
<1>1. p \in Nat /\ HEADER_SIZE \in Nat /\ Len(file) \in Nat /\ Len(data) \in Nat
  BY Widths DEF StateSet
<1>2. /\ Unfixed(Slice(file, p, p + WORD)) = Checksum(rtype, data)
      /\ EndAt(file, p) = p + HEADER_SIZE + Len(data)
      /\ p + HEADER_SIZE + Len(data) <= Len(file)
      /\ file[p + HEADER_SIZE] = rtype
      /\ Slice(file, p + HEADER_SIZE, p + HEADER_SIZE + Len(data)) = data
  BY <1>1, PieceRead
<1>3. ~Skips(file, p)
  <2>1. NextBlock(Begin(p)) - Begin(p) >= HEADER_SIZE /\ NextBlock(p) \in Nat
    BY <1>1, BlockFacts
  <2> QED BY <1>1, <1>2, <2>1 DEF Skips
<1>4. Accepted(file, p)
  BY <1>1, <1>2 DEF Accepted, Verified
<1>5. p + HEADER_SIZE <= Len(file)
  BY <1>1, <1>2
<1> HIDE DEF p
<1> QED BY <1>2, <1>3, <1>4, <1>5, TurnFacts DEF p

\* The trailer of a block is passed over.
LEMMA TurnPasses ==
  ASSUME NEW file \in Seq(Bytes), NEW a \in StateSet, ~a.done, Begin(a.pos) # a.pos,
         a.pos + HEADER_SIZE <= Len(file)
  PROVE  Turn(file, a) = Moved(a, Begin(a.pos))
BY TurnFacts DEF Skips, Begin

\* Bytes stand for a number.
LEMMA UnfixedFacts ==
  ASSUME NEW s \in Seq(Bytes)
  PROVE  Unfixed(s) \in Nat
<1>1. Len(s) \in Nat /\ \A i \in 1 .. Len(s) : s[i] \in Nat
  <2>1. s \in Seq(Nat)
    BY ByteFacts, WiderSeq
  <2> QED BY <2>1
<1>2. BYTE \in Nat \ {0}
  BY Widths
<1>3. PICK f \in [0 .. Len(s) -> Nat] : Value(s, BYTE) = f[Len(s)]
  BY <1>1, <1>2, ValueRuns
<1> QED BY <1>1, <1>3 DEF Unfixed

\* Whatever the file, the reader stays in its states.
LEMMA TurnType ==
  ASSUME NEW file \in Seq(Bytes), NEW a \in StateSet
  PROVE  Turn(file, a) \in StateSet
<1> DEFINE p == a.pos
           e == EndAt(file, p)
           data == Slice(file, p + HEADER_SIZE, e)
<1>1. /\ p \in Nat /\ HEADER_SIZE \in Nat /\ Len(file) \in Nat /\ a.done \in BOOLEAN
      /\ WORD \in Nat /\ HALF \in Nat /\ HEADER_SIZE = WORD + HALF + 1
  BY Widths DEF StateSet
<1>2. Stopped(a) \in StateSet
  BY DEF Stopped, StateSet
<1>3. Moved(a, NextBlock(p)) \in StateSet
  BY <1>1, BlockFacts, MovedFacts
<1>4. ASSUME p + HEADER_SIZE <= Len(file), Accepted(file, p)
      PROVE  Assemble(a, file[p + HEADER_SIZE], data, e) \in StateSet
  <2>1. file[p + HEADER_SIZE] \in 1 .. 4 /\ e <= Len(file)
    BY <1>4 DEF Accepted
  <2>2. Unfixed(Slice(file, p + WORD, p + WORD + HALF)) \in Nat
    <3>1. p + WORD \in Nat /\ p + WORD + HALF <= Len(file)
      BY <1>1, <1>4
    <3>2. Slice(file, p + WORD, p + WORD + HALF) \in Seq(Bytes)
      BY <1>1, <3>1, SliceFacts
    <3> QED BY <3>2, UnfixedFacts
  <2>3. e \in Nat /\ e >= p + HEADER_SIZE
    BY <1>1, <2>2 DEF EndAt
  <2> HIDE DEF e
  <2>4. data \in Seq(Bytes)
    BY <1>1, <2>1, <2>3 DEF Slice
  <2> HIDE DEF data, p
  <2> QED BY <2>1, <2>3, <2>4, AssembleFacts
<1>5. CASE a.done
  BY <1>5, TurnFacts
<1>6. CASE ~a.done /\ ~(p + HEADER_SIZE <= Len(file))
  <2>1. p + HEADER_SIZE > Len(file)
    BY <1>1, <1>6
  <2> QED BY <1>2, <1>6, <2>1, TurnFacts
<1>7. CASE ~a.done /\ p + HEADER_SIZE <= Len(file)
  BY <1>2, <1>3, <1>4, <1>7, TurnFacts
<1> QED BY <1>5, <1>6, <1>7

\* The reader begins in one of its states.
LEMMA StartType == StartState \in StateSet
<1>1. <<>> \in Seq(Bytes) /\ <<>> \in Seq(Seq(Bytes)) /\ 0 \in Nat
  OBVIOUS
<1> QED BY <1>1 DEF StartState, StateSet, NoFragment

\* The turns of the loop.
LEMMA ReadRuns ==
  ASSUME NEW file \in Seq(Bytes)
  PROVE  /\ Turns(file) \in Nat
         /\ \E r \in [0 .. Turns(file) -> StateSet] :
              /\ ReadRecords(file) = r[Turns(file)].records
              /\ r[0] = StartState
              /\ \A n \in 1 .. Turns(file) : r[n] = Turn(file, r[n - 1])
<1> DEFINE N == Turns(file)
           step == [i \in 1 .. N |-> [x \in StateSet |-> Turn(file, x)]]
           Body(f) == [n \in 0 .. N |->
                         IF n = 0 THEN [pos |-> 0, records |-> <<>>, fragment |-> NoFragment, done |-> FALSE]
                         ELSE Turn(file, f[n - 1])]
           at == CHOOSE f : f = Body(f)
<1>0. N \in Nat
  <2>1. HEADER_SIZE \in Nat \ {0} /\ Len(file) \in Nat
    BY Widths
  <2>2. Len(file) \div HEADER_SIZE \in Nat
    BY <2>1, DivFacts
  <2> QED BY <2>2 DEF Turns
<1>1. \A x \in StateSet : Turn(file, x) \in StateSet
  BY TurnType
<1>2. step \in [1 .. N -> [StateSet -> StateSet]]
  <2> HIDE DEF N
  <2> QED BY <1>1
<1>3. PICK f \in [0 .. N -> StateSet] : Recursive(f, N, StartState, step)
  <2> HIDE DEF step, N
  <2> QED BY <1>0, <1>2, StartType, RecursionExists
<1>4. 0 \in 0 .. N /\ \A i \in 1 .. N : i \in 0 .. N /\ i # 0 /\ i - 1 \in 0 .. N
  <2> HIDE DEF N, at, Body, step
  <2> QED BY <1>0
<1>5. f = Body(f)
  <2>1. f[0] = StartState /\ \A i \in 1 .. N : f[i] = step[i][f[i - 1]]
    BY <1>3 DEF Recursive
  <2>2. \A i \in 1 .. N : f[i - 1] \in StateSet
    <3> HIDE DEF N
    <3> QED BY <1>3, <1>4
  <2>3. \A i \in 1 .. N : f[i] = Turn(file, f[i - 1])
    <3> HIDE DEF N
    <3> QED BY <2>1, <2>2
  <2> HIDE DEF N, step
  <2>4. f \in [0 .. N -> StateSet]
    BY <1>3
  <2> QED BY <2>1, <2>3, <2>4 DEF StartState
<1>6. at = Body(at)
  <2> HIDE DEF Body
  <2> QED BY <1>5
<1>7. ReadRecords(file) = at[N].records
  BY DEF ReadRecords
<1>8. PICK g : ReadRecords(file) = g[N].records /\ g = Body(g)
  <2> HIDE DEF at, Body, N
  <2> QED BY <1>6, <1>7
<1>9. PICK h : h = g /\ h = Body(g)
  <2> HIDE DEF Body
  <2> QED BY <1>8
<1>10. \A i \in 0 .. N : h[i] = IF i = 0 THEN StartState ELSE Turn(file, g[i - 1])
  <2> HIDE DEF at, N, step
  <2> QED BY <1>9 DEF StartState
<1>11. DOMAIN h = 0 .. N /\ h = [i \in 0 .. N |-> h[i]]
  <2> HIDE DEF at, N, step
  <2> QED BY <1>9
<1>12. h[0] = StartState /\ \A i \in 1 .. N : h[i] = Turn(file, h[i - 1])
  <2> HIDE DEF at, N, step, Body
  <2> QED BY <1>9, <1>10, <1>4
<1> DEFINE A == {i \in 0 .. N : h[i] \in StateSet}
<1> HIDE DEF at, N, step, Body
<1>13. 0 .. N \subseteq A
  <2>1. 0 \in A
    BY <1>4, <1>12, StartType
  <2>2. ASSUME NEW i \in 1 .. N, i - 1 \in A PROVE i \in A
    BY <2>2, <1>1, <1>4, <1>12
  <2> HIDE DEF A
  <2> QED BY <2>1, <2>2, <1>0, CountingUp
<1>14. h \in [0 .. N -> StateSet]
  BY <1>11, <1>13
<1> QED BY <1>0, <1>8, <1>9, <1>12, <1>14 DEF N

----------------------------------------------------------------------------
(* Files the reader gets through *)

\* From a state of the reader to the one behind the next piece.
Step(file, a, b) ==
  \E rtype \in 1 .. 4, data \in Seq(Bytes) :
    /\ Len(data) < Power(BYTE, HALF) /\ data \in Texts
    /\ PieceAt(file, Begin(a.pos), rtype, data)
    /\ b = Assemble(a, rtype, data, Begin(a.pos) + HEADER_SIZE + Len(data))

\* The states of a reader behind every piece.
Chain(file, c) ==
  /\ c \in Seq(StateSet) /\ Len(c) > 0
  /\ c[1] = StartState
  /\ \A i \in 1 .. Len(c) - 1 : Step(file, c[i], c[i + 1])

\* A step goes forward in the file and takes away no record.
LEMMA StepFacts ==
  ASSUME NEW file \in Seq(Bytes), NEW a \in StateSet, NEW b, Step(file, a, b)
  PROVE  /\ b \in StateSet /\ b.done = a.done
         /\ b.pos >= a.pos + HEADER_SIZE /\ b.pos <= Len(file)
         /\ Prefix(a.records, b.records)
<1>1. PICK rtype \in 1 .. 4, data \in Seq(Bytes) :
        /\ PieceAt(file, Begin(a.pos), rtype, data)
        /\ b = Assemble(a, rtype, data, Begin(a.pos) + HEADER_SIZE + Len(data))
  BY DEF Step
<1> DEFINE next == Begin(a.pos) + HEADER_SIZE + Len(data)
<1>2. a.pos \in Nat /\ HEADER_SIZE \in Nat /\ Len(data) \in Nat
  BY Widths DEF StateSet
<1>3. Begin(a.pos) \in Nat /\ Begin(a.pos) >= a.pos
  BY <1>2, BlockFacts
<1>4. next \in Nat /\ next >= a.pos + HEADER_SIZE
  BY <1>2, <1>3
<1>5. next <= Len(file)
  BY <1>1 DEF PieceAt
<1>6. b = Assemble(a, rtype, data, next)
  BY <1>1
<1> HIDE DEF next
<1>7. b \in StateSet /\ b.pos = next /\ b.done = a.done /\ Prefix(a.records, b.records)
  BY <1>4, <1>6, AssembleFacts
<1> QED BY <1>4, <1>5, <1>7

\* A step is one turn of the loop, behind the one that passes over a trailer.
LEMMA StepTurns ==
  ASSUME NEW file \in Seq(Bytes), NEW a \in StateSet, ~a.done, NEW b, Step(file, a, b)
  PROVE  LET m == Moved(a, Begin(a.pos))
         IN Turn(file, m) = b /\ (a = m \/ Turn(file, a) = m)
<1>1. PICK rtype \in 1 .. 4, data \in Seq(Bytes) :
        /\ Len(data) < Power(BYTE, HALF)
        /\ PieceAt(file, Begin(a.pos), rtype, data)
        /\ b = Assemble(a, rtype, data, Begin(a.pos) + HEADER_SIZE + Len(data))
  BY DEF Step
<1> DEFINE m == Moved(a, Begin(a.pos))
           next == Begin(a.pos) + HEADER_SIZE + Len(data)
<1>2. a.pos \in Nat /\ HEADER_SIZE \in Nat /\ Len(data) \in Nat
  BY Widths DEF StateSet
<1>3. Begin(a.pos) \in Nat /\ Begin(a.pos) >= a.pos /\ Begin(Begin(a.pos)) = Begin(a.pos)
  BY <1>2, BlockFacts
<1>4. m \in StateSet /\ m.pos = Begin(a.pos) /\ m.done = a.done
  BY <1>3, MovedFacts
<1>5. Assemble(m, rtype, data, next) = b
  <2>1. next \in Nat
    BY <1>2, <1>3
  <2> HIDE DEF next
  <2>2. b = Assemble(a, rtype, data, next)
    BY <1>1 DEF next
  <2> QED BY <1>3, <2>1, <2>2, AssembleMoved
<1>6. Turn(file, m) = b
  <2> HIDE DEF m
  <2>1. ~m.done /\ Begin(m.pos) = m.pos /\ PieceAt(file, m.pos, rtype, data)
    BY <1>1, <1>3, <1>4
  <2>2. Turn(file, m) = Assemble(m, rtype, data, m.pos + HEADER_SIZE + Len(data))
    BY <1>1, <1>4, <2>1, TurnReads
  <2> QED BY <1>4, <1>5, <2>2
<1>7. CASE Begin(a.pos) = a.pos
  <2>1. a = m
    BY <1>2, <1>7, MovedFacts
  <2> QED BY <1>6, <2>1
<1>8. CASE Begin(a.pos) # a.pos
  <2>1. next <= Len(file)
    BY <1>1 DEF PieceAt
  <2>2. a.pos + HEADER_SIZE <= Len(file)
    BY <1>2, <1>3, <2>1
  <2> QED BY <1>6, <1>8, <2>2, TurnPasses
<1> QED BY <1>7, <1>8

\* The states of a chain lie in the file, a header apart at least.
LEMMA ChainFacts ==
  ASSUME NEW file \in Seq(Bytes), NEW c, Chain(file, c)
  PROVE  \A i \in 1 .. Len(c) :
           /\ c[i] \in StateSet /\ ~c[i].done
           /\ c[i].pos >= (i - 1) * HEADER_SIZE /\ c[i].pos <= Len(file)
<1> DEFINE Good(i) == /\ c[i] \in StateSet /\ ~c[i].done
                      /\ c[i].pos >= (i - 1) * HEADER_SIZE /\ c[i].pos <= Len(file)
           N == Len(c) - 1
           A == {i \in 0 .. N : Good(i + 1)}
<1>0. N \in Nat /\ HEADER_SIZE \in Nat /\ c \in Seq(StateSet) /\ Len(c) \in Nat /\ Len(file) \in Nat
  BY Widths DEF Chain
<1>1. 0 \in A
  <2>1. c[1] = StartState
    BY DEF Chain
  <2>2. (1 - 1) * HEADER_SIZE = 0
    BY <1>0
  <2>3. StartState.pos = 0 /\ ~StartState.done
    BY DEF StartState
  <2>4. Good(1)
    BY <1>0, <2>1, <2>2, <2>3, StartType
  <2> QED BY <1>0, <2>4
<1>2. ASSUME NEW i \in 1 .. N, i - 1 \in A PROVE i \in A
  <2>1. i \in 1 .. Len(c) - 1 /\ i \in Nat
    BY <1>0
  <2>2. Good(i)
    BY <1>2
  <2>3. Step(file, c[i], c[i + 1])
    BY <2>1 DEF Chain
  <2>4. /\ c[i + 1] \in StateSet /\ ~c[i + 1].done
        /\ c[i + 1].pos >= c[i].pos + HEADER_SIZE /\ c[i + 1].pos <= Len(file)
    BY <2>2, <2>3, StepFacts
  <2>5. ((i + 1) - 1) * HEADER_SIZE = (i - 1) * HEADER_SIZE + HEADER_SIZE /\ (i - 1) * HEADER_SIZE \in Nat
    <3>1. (i + 1) - 1 = (i - 1) + 1 /\ i - 1 \in Nat
      BY <2>1
    <3>2. \A x, y \in Nat : (x + 1) * y = x * y + y /\ x * y \in Nat
      OBVIOUS
    <3> QED BY <1>0, <3>1, <3>2
  <2>6. c[i + 1].pos \in Nat /\ c[i].pos \in Nat
    BY <2>2, <2>4 DEF StateSet
  <2>7. Good(i + 1)
    BY <1>0, <2>2, <2>4, <2>5, <2>6
  <2> QED BY <2>7
<1>3. 0 .. N \subseteq A
  <2> HIDE DEF A, N
  <2> QED BY <1>0, <1>1, <1>2, CountingUp
<1>4. ASSUME NEW i \in 1 .. Len(c) PROVE Good(i)
  <2>1. i - 1 \in 0 .. N /\ (i - 1) + 1 = i
    BY <1>0
  <2>2. Good((i - 1) + 1)
    BY <2>1, <1>3
  <2> QED BY <2>1, <2>2
<1> QED BY <1>4

\* What begins with a sequence begins with its beginnings.
LEMMA PrefixThrough ==
  ASSUME NEW A, NEW s \in Seq(A), NEW t \in Seq(A), NEW u \in Seq(A), Prefix(s, t), Prefix(t, u)
  PROVE  Prefix(s, u)
BY DEF Prefix

\* Along a chain the reader goes forward, and its records get more.
LEMMA ChainGrows ==
  ASSUME NEW file \in Seq(Bytes), NEW c, Chain(file, c), NEW i \in 1 .. Len(c), NEW j \in i .. Len(c)
  PROVE  c[i].pos <= c[j].pos /\ Prefix(c[i].records, c[j].records)
<1> DEFINE N == Len(c) - i
           Good(k) == c[i].pos <= c[k].pos /\ Prefix(c[i].records, c[k].records)
           A == {k \in 0 .. N : Good(i + k)}
<1>0. N \in Nat /\ HEADER_SIZE \in Nat /\ Len(c) \in Nat
  BY Widths DEF Chain
<1>1. \A k \in 1 .. Len(c) : c[k] \in StateSet /\ c[k].pos \in Nat /\ c[k].records \in Seq(Seq(Bytes))
  BY ChainFacts DEF StateSet
<1>2. 0 \in A
  <2>1. Good(i)
    BY <1>1 DEF Prefix
  <2> QED BY <1>0, <2>1
<1>3. ASSUME NEW k \in 1 .. N, k - 1 \in A PROVE k \in A
  <2> DEFINE h == i + (k - 1)
  <2>1. h \in 1 .. Len(c) - 1 /\ h + 1 = i + k /\ h \in 1 .. Len(c) /\ h + 1 \in 1 .. Len(c)
    BY <1>0
  <2>2. Good(h)
    BY <1>3
  <2> HIDE DEF h
  <2>3. Step(file, c[h], c[h + 1])
    BY <2>1 DEF Chain
  <2>4. c[h + 1].pos >= c[h].pos + HEADER_SIZE /\ Prefix(c[h].records, c[h + 1].records)
    BY <2>1, <2>3, <1>1, StepFacts
  <2>5. c[i].pos <= c[h + 1].pos
    BY <1>0, <1>1, <2>1, <2>2, <2>4
  <2>6. Prefix(c[i].records, c[h + 1].records)
    <3>1. /\ c[i].records \in Seq(Seq(Bytes)) /\ c[h].records \in Seq(Seq(Bytes))
          /\ c[h + 1].records \in Seq(Seq(Bytes))
      BY <1>1, <2>1
    <3> QED BY <2>2, <2>4, <3>1, PrefixThrough
  <2>7. Good(i + k)
    BY <2>1, <2>5, <2>6
  <2> QED BY <2>7
<1>4. 0 .. N \subseteq A
  <2> HIDE DEF A, N
  <2> QED BY <1>0, <1>2, <1>3, CountingUp
<1>5. j - i \in 0 .. N /\ i + (j - i) = j
  BY <1>0
<1>6. Good(i + (j - i))
  BY <1>4, <1>5
<1> QED BY <1>5, <1>6

\* Places that the reader does not leave with another record.
Quiet(file, P) ==
  \A p \in P :
    \/ p + HEADER_SIZE > Len(file)
    \/ Skips(file, p) /\ NextBlock(p) \in P
    \/ ~Skips(file, p) /\ ~Accepted(file, p)

\* A reader that comes to the end of a chain, and finds nothing behind it, has its records.
LEMMA ReadChain ==
  ASSUME NEW file \in Seq(Bytes), NEW c, Chain(file, c),
         NEW P \in SUBSET Nat, c[Len(c)].pos \in P, Quiet(file, P)
  PROVE  ReadRecords(file) = c[Len(c)].records
<1> DEFINE L == Len(c)
           last == c[L]
           Q == {x \in StateSet : x.records = last.records /\ (x.done \/ x.pos \in P)}
           Mid(i) == Moved(c[i], Begin(c[i].pos))
           K(k, x) == \/ x \in Q
                      \/ \E i \in 1 .. L - 1 : x = c[i] /\ k <= 2 * (i - 1)
                      \/ \E i \in 1 .. L - 1 : x = Mid(i) /\ k <= 2 * (i - 1) + 1
<1>0. L \in Nat \ {0} /\ HEADER_SIZE \in Nat \ {0} /\ Len(file) \in Nat
  BY Widths DEF Chain
<1>1. \A i \in 1 .. L : /\ c[i] \in StateSet /\ ~c[i].done /\ c[i].pos \in Nat
                        /\ c[i].pos >= (i - 1) * HEADER_SIZE /\ c[i].pos <= Len(file)
  BY ChainFacts DEF StateSet
<1>2. last \in Q
  BY <1>0, <1>1
<1>3. ASSUME NEW x \in Q PROVE Turn(file, x) \in Q
  <2>1. x \in StateSet /\ x.records = last.records
    OBVIOUS
  <2>2. Stopped(x) \in Q
    BY <2>1 DEF Stopped, StateSet
  <2>3. CASE x.done
    BY <2>1, <2>3, TurnFacts
  <2>4. CASE ~x.done
    <3>1. x.pos \in P /\ x.pos \in Nat
      BY <2>4
    <3>2. CASE x.pos + HEADER_SIZE > Len(file)
      BY <2>1, <2>2, <2>4, <3>2, TurnFacts
    <3>3. CASE x.pos + HEADER_SIZE <= Len(file) /\ Skips(file, x.pos) /\ NextBlock(x.pos) \in P
      <4>1. Turn(file, x) = Moved(x, NextBlock(x.pos))
        BY <2>1, <2>4, <3>3, TurnFacts
      <4>2. NextBlock(x.pos) \in Nat
        BY <3>3
      <4>3. /\ Moved(x, NextBlock(x.pos)) \in StateSet
            /\ Moved(x, NextBlock(x.pos)).pos = NextBlock(x.pos)
            /\ Moved(x, NextBlock(x.pos)).records = x.records
        BY <2>1, <4>2, MovedFacts
      <4> QED BY <2>1, <3>3, <4>1, <4>3
    <3>4. CASE x.pos + HEADER_SIZE <= Len(file) /\ ~Skips(file, x.pos) /\ ~Accepted(file, x.pos)
      BY <2>1, <2>2, <2>4, <3>4, TurnFacts
    <3> HIDE DEF Q
    <3> QED BY <1>0, <3>1, <3>2, <3>3, <3>4 DEF Quiet
  <2> QED BY <2>3, <2>4
<1>4. \A i \in 1 .. L - 1 : /\ Step(file, c[i], c[i + 1])
                            /\ Turn(file, Mid(i)) = c[i + 1]
                            /\ Mid(i) = c[i] \/ Turn(file, c[i]) = Mid(i)
  <2> SUFFICES ASSUME NEW i \in 1 .. L - 1
               PROVE  /\ Step(file, c[i], c[i + 1])
                      /\ Turn(file, Mid(i)) = c[i + 1]
                      /\ Mid(i) = c[i] \/ Turn(file, c[i]) = Mid(i)
    OBVIOUS
  <2>1. Step(file, c[i], c[i + 1])
    BY DEF Chain
  <2>2. c[i] \in StateSet /\ ~c[i].done
    BY <1>0, <1>1
  <2> QED BY <2>1, <2>2, StepTurns
<1>5. PICK r \in [0 .. Turns(file) -> StateSet] :
        /\ ReadRecords(file) = r[Turns(file)].records
        /\ r[0] = StartState
        /\ \A n \in 1 .. Turns(file) : r[n] = Turn(file, r[n - 1])
  BY ReadRuns
<1>6. Turns(file) \in Nat
  BY ReadRuns
<1> DEFINE A == {k \in 0 .. Turns(file) : K(k, r[k])}
<1>7. 0 \in A
  <2>1. c[1] = StartState
    BY DEF Chain
  <2>2. CASE L = 1
    <3>1. r[0] \in Q
      BY <1>2, <1>5, <2>1, <2>2
    <3> QED BY <1>6, <3>1
  <2>3. CASE L # 1
    <3>1. 1 \in 1 .. L - 1 /\ 0 <= 2 * (1 - 1)
      <4> HIDE DEF L, A, K, Q
      <4>1. L \in Nat /\ L >= 2
        BY <1>0, <2>3
      <4> QED BY <4>1
    <3>2. r[0] = c[1]
      BY <1>5, <2>1
    <3> HIDE DEF Q, Mid
    <3>3. K(0, r[0])
      BY <3>1, <3>2
    <3> QED BY <1>6, <3>3
  <2> QED BY <2>2, <2>3
<1>8. ASSUME NEW k \in 1 .. Turns(file), k - 1 \in A PROVE k \in A
  <2>0. r[k] = Turn(file, r[k - 1]) /\ k \in Nat /\ k \in 0 .. Turns(file)
    BY <1>5, <1>6
  <2>1. K(k - 1, r[k - 1])
    BY <1>8
  <2> HIDE DEF Mid, Q
  <2>2. ASSUME NEW i \in 1 .. L - 1, r[k - 1] = Mid(i), k - 1 <= 2 * (i - 1) + 1 PROVE K(k, r[k])
    <3>1. r[k] = c[i + 1]
      BY <2>0, <2>2, <1>4
    <3>2. CASE i + 1 = L
      BY <3>1, <3>2, <1>2
    <3>3. CASE i + 1 # L
      <4>1. i + 1 \in 1 .. L - 1 /\ k <= 2 * ((i + 1) - 1)
        BY <1>0, <2>0, <2>2, <3>3
      <4> QED BY <3>1, <4>1
    <3> QED BY <3>2, <3>3
  <2>3. ASSUME NEW i \in 1 .. L - 1, r[k - 1] = c[i], k - 1 <= 2 * (i - 1) PROVE K(k, r[k])
    <3>1. CASE Mid(i) = c[i]
      <4>1. r[k - 1] = Mid(i) /\ k - 1 <= 2 * (i - 1) + 1
        BY <1>0, <2>0, <2>3, <3>1
      <4> QED BY <4>1, <2>2
    <3>2. CASE Turn(file, c[i]) = Mid(i)
      <4>1. r[k] = Mid(i) /\ k <= 2 * (i - 1) + 1
        BY <1>0, <2>0, <2>3, <3>2
      <4> QED BY <4>1
    <3> QED BY <1>4, <3>1, <3>2
  <2>4. CASE r[k - 1] \in Q
    BY <2>0, <2>4, <1>3
  <2>5. K(k, r[k])
    <3> HIDE DEF K
    <3>1. \/ r[k - 1] \in Q
          \/ \E i \in 1 .. L - 1 : r[k - 1] = c[i] /\ k - 1 <= 2 * (i - 1)
          \/ \E i \in 1 .. L - 1 : r[k - 1] = Mid(i) /\ k - 1 <= 2 * (i - 1) + 1
      BY <2>1 DEF K
    <3> QED BY <2>2, <2>3, <2>4, <3>1
  <2> HIDE DEF K
  <2> QED BY <2>0, <2>5
<1>9. K(Turns(file), r[Turns(file)])
  <2>1. Turns(file) \in 0 .. Turns(file)
    BY <1>6
  <2>2. 0 .. Turns(file) \subseteq A
    <3> HIDE DEF A
    <3> QED BY <1>6, <1>7, <1>8, CountingUp
  <2> HIDE DEF K
  <2> QED BY <2>1, <2>2
<1>10. \A i \in 1 .. L - 1 : 2 * (i - 1) + 1 < Turns(file)
  <2> SUFFICES ASSUME NEW i \in 1 .. L - 1 PROVE 2 * (i - 1) + 1 < Turns(file)
    OBVIOUS
  <2>1. i + 1 \in 1 .. L /\ (i + 1) - 1 = i /\ i \in Nat
    BY <1>0
  <2>2. Len(file) >= i * HEADER_SIZE
    <3>1. i * HEADER_SIZE \in Nat
      BY <1>0, <2>1
    <3>2. c[i + 1].pos >= ((i + 1) - 1) * HEADER_SIZE /\ c[i + 1].pos <= Len(file) /\ c[i + 1].pos \in Nat
      BY <1>1, <2>1
    <3> QED BY <1>0, <2>1, <3>1, <3>2
  <2> DEFINE q == Len(file) \div HEADER_SIZE
             m == Len(file) % HEADER_SIZE
  <2>3. q \in Nat /\ m \in 0 .. HEADER_SIZE - 1 /\ Len(file) = HEADER_SIZE * q + m
    BY <1>0, DivFacts
  <2>4. Turns(file) = 2 * q + 1
    BY DEF Turns
  <2> HIDE DEF q, m
  <2>5. i <= q
    <3> SUFFICES ASSUME q < i PROVE FALSE
      BY <2>1, <2>3
    <3>1. HEADER_SIZE * (q + 1) <= i * HEADER_SIZE
      <4>1. q + 1 <= i /\ q + 1 \in Nat
        BY <2>1, <2>3
      <4>2. \A x, y, z \in Nat : x <= y => z * x <= y * z
        OBVIOUS
      <4> QED BY <1>0, <2>1, <4>1, <4>2
    <3>2. HEADER_SIZE * (q + 1) = HEADER_SIZE * q + HEADER_SIZE /\ HEADER_SIZE * q \in Nat
      BY <1>0, <2>3
    <3>3. i * HEADER_SIZE \in Nat
      BY <1>0, <2>1
    <3> QED BY <1>0, <2>2, <2>3, <3>1, <3>2, <3>3
  <2> QED BY <2>1, <2>3, <2>4, <2>5
<1>11. r[Turns(file)] \in Q
  <2> HIDE DEF Q, Mid
  <2>1. \A i \in 1 .. L - 1 : ~(Turns(file) <= 2 * (i - 1)) /\ ~(Turns(file) <= 2 * (i - 1) + 1)
    BY <1>0, <1>6, <1>10
  <2> QED BY <1>9, <2>1
<1> QED BY <1>5, <1>11

----------------------------------------------------------------------------
(* What a crash leaves of them *)

\* A step is the same in every file that agrees up to its end.
LEMMA StepKept ==
  ASSUME NEW file \in Seq(Bytes), NEW g \in Seq(Bytes), NEW a \in StateSet, NEW b \in StateSet, Step(file, a, b),
         b.pos <= Len(g), \A k \in 1 .. b.pos : g[k] = file[k]
  PROVE  Step(g, a, b)
<1>1. PICK rtype \in 1 .. 4, data \in Seq(Bytes) :
        /\ Len(data) < Power(BYTE, HALF) /\ data \in Texts
        /\ PieceAt(file, Begin(a.pos), rtype, data)
        /\ b = Assemble(a, rtype, data, Begin(a.pos) + HEADER_SIZE + Len(data))
  BY DEF Step
<1> DEFINE at == Begin(a.pos)
           size == HEADER_SIZE + Len(data)
<1>2. a.pos \in Nat /\ b.pos \in Nat /\ size \in Nat /\ HEADER_SIZE \in Nat /\ Len(data) \in Nat
  <2>1. a.pos \in Nat /\ b.pos \in Nat
    BY DEF StateSet
  <2>2. HEADER_SIZE \in Nat
    BY Widths
  <2>3. Len(data) \in Nat
    OBVIOUS
  <2> QED BY <2>1, <2>2, <2>3
<1>3. at \in Nat
  BY <1>2, BlockFacts
<1>4. b.pos = at + size
  <2>1. at + HEADER_SIZE + Len(data) \in Nat /\ at + HEADER_SIZE + Len(data) = at + size
    BY <1>2, <1>3
  <2>2. b.pos = at + HEADER_SIZE + Len(data)
    BY <1>1, <2>1, AssembleFacts
  <2> QED BY <2>1, <2>2
<1>5. \A i \in 1 .. size : file[at + i] = EncodePiece(rtype, data)[i]
  BY <1>1 DEF PieceAt
<1>6. \A i \in 1 .. size : g[at + i] = EncodePiece(rtype, data)[i]
  <2> SUFFICES ASSUME NEW i \in 1 .. size PROVE g[at + i] = EncodePiece(rtype, data)[i]
    OBVIOUS
  <2>1. at + i \in 1 .. b.pos
    <3> HIDE DEF at, size
    <3> QED BY <1>2, <1>3, <1>4
  <2> QED BY <1>5, <2>1
<1>7. at + HEADER_SIZE + Len(data) <= Len(g)
  BY <1>2, <1>3, <1>4
<1>8. PieceAt(g, at, rtype, data)
  BY <1>6, <1>7 DEF PieceAt
<1> QED BY <1>1, <1>8 DEF Step

\* What a crash leaves of a file, byte by byte.
LEMMA RemainsFacts ==
  ASSUME NEW s \in Seq(Bytes), NEW m \in 0 .. Len(s), NEW n \in m .. Len(s)
  PROVE  /\ Remains(s, m, n) \in Seq(Bytes) /\ Len(Remains(s, m, n)) = n
         /\ \A k \in 1 .. m : Remains(s, m, n)[k] = s[k]
         /\ \A k \in m + 1 .. n : Remains(s, m, n)[k] = 0
<1> DEFINE a == SubSeq(s, 1, m)
           z == Zeros(n - m)
<1>1. a \in Seq(Bytes) /\ Len(a) = m /\ \A k \in 1 .. m : a[k] = s[k]
  OBVIOUS
<1>2. z \in Seq(Bytes) /\ Len(z) = n - m /\ \A k \in 1 .. n - m : z[k] = 0
  <2>1. n - m \in Nat /\ 0 \in Bytes
    BY ByteFacts
  <2> QED BY <2>1 DEF Zeros
<1> HIDE DEF a, z
<1>3. /\ a \o z \in Seq(Bytes) /\ Len(a \o z) = m + (n - m)
      /\ \A k \in 1 .. m : (a \o z)[k] = a[k]
      /\ \A k \in 1 .. n - m : (a \o z)[m + k] = z[k]
  BY <1>1, <1>2
<1>4. Remains(s, m, n) = a \o z
  BY DEF Remains, a, z
<1> DEFINE r == a \o z
<1> HIDE DEF r
<1>5. \A k \in m + 1 .. n : r[k] = 0
  <2> SUFFICES ASSUME NEW k \in m + 1 .. n PROVE r[k] = 0
    OBVIOUS
  <2>1. k - m \in 1 .. n - m /\ m + (k - m) = k
    OBVIOUS
  <2> QED BY <1>2, <1>3, <2>1 DEF r
<1>6. m + (n - m) = n
  OBVIOUS
<1> QED BY <1>1, <1>3, <1>4, <1>5, <1>6 DEF r

\* The beginning of a chain, in a file where its steps are there.
LEMMA CutChain ==
  ASSUME NEW file, NEW g, NEW c, Chain(file, c), NEW j \in 1 .. Len(c),
         \A i \in 1 .. j - 1 : Step(g, c[i], c[i + 1])
  PROVE  /\ Chain(g, SubSeq(c, 1, j)) /\ Len(SubSeq(c, 1, j)) = j
         /\ SubSeq(c, 1, j)[j] = c[j]
<1> DEFINE d == SubSeq(c, 1, j)
<1>1. c \in Seq(StateSet) /\ Len(c) \in Nat /\ c[1] = StartState /\ j \in Nat /\ j >= 1 /\ j <= Len(c)
  BY DEF Chain
<1>2. d \in Seq(StateSet) /\ Len(d) = j /\ \A i \in 1 .. j : d[i] = c[i]
  BY <1>1
<1> HIDE DEF d
<1>3. \A i \in 1 .. Len(d) - 1 : Step(g, d[i], d[i + 1])
  <2> SUFFICES ASSUME NEW i \in 1 .. j - 1 PROVE Step(g, d[i], d[i + 1])
    BY <1>2
  <2>1. i \in 1 .. j /\ i + 1 \in 1 .. j
    BY <1>1
  <2> QED BY <1>2, <2>1
<1>4. 1 \in 1 .. j /\ j \in 1 .. j
  BY <1>1
<1> QED BY <1>1, <1>2, <1>3, <1>4 DEF Chain, d

\* A piece stands behind state a, and the reader has read it in state b.
PieceBetween(file, a, b) ==
  \E rtype \in 1 .. 4, data \in Seq(Bytes) :
    /\ Len(data) < Power(BYTE, HALF) /\ data \in Texts
    /\ PieceAt(file, Begin(a.pos), rtype, data)
    /\ b = Assemble(a, rtype, data, Begin(a.pos) + HEADER_SIZE + Len(data))
    /\ b.pos = Begin(a.pos) + HEADER_SIZE + Len(data)

\* The piece behind the j-th state.
LEMMA NextInChain ==
  ASSUME NEW file \in Seq(Bytes), NEW c, Chain(file, c), NEW j \in 1 .. Len(c) - 1
  PROVE  PieceBetween(file, c[j], c[j + 1])
<1>0. Len(c) \in Nat
  BY DEF Chain
<1>1. Step(file, c[j], c[j + 1])
  BY DEF Chain
<1>2. PICK rtype \in 1 .. 4, data \in Seq(Bytes) :
        /\ Len(data) < Power(BYTE, HALF) /\ data \in Texts
        /\ PieceAt(file, Begin(c[j].pos), rtype, data)
        /\ c[j + 1] = Assemble(c[j], rtype, data, Begin(c[j].pos) + HEADER_SIZE + Len(data))
  BY <1>1 DEF Step
<1>3. c[j] \in StateSet
  BY <1>0, ChainFacts
<1>4. c[j].pos \in Nat /\ HEADER_SIZE \in Nat /\ Len(data) \in Nat
  <2>1. HEADER_SIZE \in Nat
    BY Widths
  <2> QED BY <1>3, <2>1 DEF StateSet
<1>5. Begin(c[j].pos) + HEADER_SIZE + Len(data) \in Nat
  <2>1. Begin(c[j].pos) \in Nat
    BY <1>4, BlockFacts
  <2> QED BY <1>4, <2>1
<1>6. c[j + 1].pos = Begin(c[j].pos) + HEADER_SIZE + Len(data)
  <2> DEFINE next == Begin(c[j].pos) + HEADER_SIZE + Len(data)
             a == c[j]
             b == c[j + 1]
  <2>1. next \in Nat /\ a \in StateSet /\ b = Assemble(a, rtype, data, next)
    BY <1>2, <1>3, <1>5
  <2> HIDE DEF next, a, b
  <2>2. b.pos = next
    BY <2>1, AssembleFacts
  <2> QED BY <2>2 DEF next, a, b
<1> QED BY <1>2, <1>6 DEF PieceBetween

\* Where the next piece begins, or its header is not whole.
LEMMA PassesTrailer ==
  ASSUME NEW g, NEW p \in Nat
  PROVE  Begin(p) = p \/ (Skips(g, p) /\ NextBlock(p) = Begin(p))
BY DEF Begin, Skips

\* A piece that is cut behind its header.
LEMMA CutPiece ==
  ASSUME NEW file \in Seq(Bytes), NEW g \in Seq(Bytes), NEW s \in Nat, NextBlock(s) - s >= HEADER_SIZE,
         NEW rtype \in 1 .. 4, NEW data \in Seq(Bytes), Len(data) < Power(BYTE, HALF),
         PieceAt(file, s, rtype, data),
         \A k \in 1 .. Len(g) : g[k] = file[k],
         s + HEADER_SIZE <= Len(g), Len(g) < s + HEADER_SIZE + Len(data)
  PROVE  ~Skips(g, s) /\ ~Accepted(g, s)
<1>0. HEADER_SIZE \in Nat \ {0} /\ Len(data) \in Nat /\ Len(g) \in Nat
  <2>1. HEADER_SIZE \in Nat \ {0}
    BY Widths
  <2> QED BY <2>1
<1>1. \A i \in 1 .. HEADER_SIZE : g[s + i] = EncodePiece(rtype, data)[i]
  <2> SUFFICES ASSUME NEW i \in 1 .. HEADER_SIZE PROVE g[s + i] = EncodePiece(rtype, data)[i]
    OBVIOUS
  <2>1. s + i \in 1 .. Len(g) /\ i \in 1 .. HEADER_SIZE + Len(data)
    BY <1>0
  <2> QED BY <2>1 DEF PieceAt
<1>2. Unfixed(Slice(g, s + WORD, s + WORD + HALF)) = Len(data) /\ g[s + HEADER_SIZE] = rtype
  BY <1>1, HeaderRead
<1>3. EndAt(g, s) = s + HEADER_SIZE + Len(data)
  BY <1>2 DEF EndAt
<1>4. ~Accepted(g, s)
  BY <1>0, <1>3 DEF Accepted
<1>5. ~Skips(g, s)
  <2>1. NextBlock(s) \in Nat
    BY BlockFacts
  <2> QED BY <1>0, <1>2, <2>1 DEF Skips
<1> QED BY <1>4, <1>5

\* Zeros stand in file from byte m on, and g is what it is now.
ZeroedBehind(file, g, m) ==
  /\ Len(g) = Len(file)
  /\ \A k \in 1 .. m : g[k] = file[k]
  /\ \A k \in m + 1 .. Len(file) : g[k] = 0

\* A piece whose data ends in zeros, and has its checksum, is whole.
LEMMA LostData ==
  ASSUME ChecksumNoticesLoss,
         NEW file \in Seq(Bytes), NEW g \in Seq(Bytes), NEW s \in Nat,
         NEW rtype \in 1 .. 4, NEW data \in Seq(Bytes), data \in Texts,
         PieceAt(file, s, rtype, data),
         NEW m \in Nat, s + HEADER_SIZE <= m, ZeroedBehind(file, g, m),
         Checksum(rtype, Slice(g, s + HEADER_SIZE, s + HEADER_SIZE + Len(data))) = Checksum(rtype, data)
  PROVE  Slice(g, s + HEADER_SIZE, s + HEADER_SIZE + Len(data)) = data
<1> DEFINE lost == Slice(g, s + HEADER_SIZE, s + HEADER_SIZE + Len(data))
<1> USE DEF ZeroedBehind
<1>0. HEADER_SIZE \in Nat \ {0} /\ Len(data) \in Nat /\ Len(g) \in Nat
  <2>1. HEADER_SIZE \in Nat \ {0}
    BY Widths
  <2> QED BY <2>1
<1>1. s + HEADER_SIZE + Len(data) <= Len(g)
  BY DEF PieceAt
<1>2. s + HEADER_SIZE \in Nat
  BY <1>0
<1>3. lost \in Seq(Bytes) /\ Len(lost) = Len(data)
  BY <1>0, <1>1, <1>2, SliceFacts
<1>4. \A i \in 1 .. Len(data) : lost[i] = g[s + HEADER_SIZE + i]
  BY <1>0, <1>1, <1>2 DEF Slice
<1>5. PICK k \in 0 .. Len(data) : k = m - (s + HEADER_SIZE) \/ (k = Len(data) /\ k <= m - (s + HEADER_SIZE))
  <2>1. CASE m - (s + HEADER_SIZE) <= Len(data)
    <3>1. m - (s + HEADER_SIZE) \in 0 .. Len(data)
      BY <1>0, <2>1
    <3> QED BY <3>1
  <2>2. CASE ~(m - (s + HEADER_SIZE) <= Len(data))
    <3>1. Len(data) \in 0 .. Len(data) /\ Len(data) <= m - (s + HEADER_SIZE)
      BY <1>0, <2>2
    <3> QED BY <3>1
  <2> QED BY <2>1, <2>2
<1> DEFINE r == Remains(data, k, Len(data))
<1>6. /\ r \in Seq(Bytes) /\ Len(r) = Len(data)
      /\ \A i \in 1 .. k : r[i] = data[i]
      /\ \A i \in k + 1 .. Len(data) : r[i] = 0
  <2>1. Len(data) \in k .. Len(data)
    BY <1>0
  <2>2. \A t \in Seq(Bytes), x \in Nat, n \in Nat :
          x <= n /\ n <= Len(t)
            => /\ Remains(t, x, n) \in Seq(Bytes) /\ Len(Remains(t, x, n)) = n
               /\ \A i \in 1 .. x : Remains(t, x, n)[i] = t[i]
               /\ \A i \in x + 1 .. n : Remains(t, x, n)[i] = 0
    <3> SUFFICES ASSUME NEW t \in Seq(Bytes), NEW x \in Nat, NEW n \in Nat, x <= n, n <= Len(t)
                 PROVE  /\ Remains(t, x, n) \in Seq(Bytes) /\ Len(Remains(t, x, n)) = n
                        /\ \A i \in 1 .. x : Remains(t, x, n)[i] = t[i]
                        /\ \A i \in x + 1 .. n : Remains(t, x, n)[i] = 0
      OBVIOUS
    <3>1. x \in 0 .. Len(t) /\ n \in x .. Len(t)
      OBVIOUS
    <3> QED BY <3>1, RemainsFacts
  <2> QED BY <1>0, <2>1, <2>2
<1>7. \A i \in 1 .. Len(data) : file[s + HEADER_SIZE + i] = data[i]
  <2>0. \A i \in 1 .. Len(data) : EncodePiece(rtype, data)[HEADER_SIZE + i] = data[i]
    BY PieceFacts
  <2> SUFFICES ASSUME NEW i \in 1 .. Len(data) PROVE file[s + HEADER_SIZE + i] = data[i]
    OBVIOUS
  <2>1. HEADER_SIZE + i \in 1 .. HEADER_SIZE + Len(data) /\ s + (HEADER_SIZE + i) = s + HEADER_SIZE + i
    BY <1>0
  <2>2. EncodePiece(rtype, data)[HEADER_SIZE + i] = data[i]
    BY <2>0
  <2> QED BY <2>1, <2>2 DEF PieceAt
<1> HIDE DEF lost, r
<1>8. ASSUME NEW i \in 1 .. Len(data) PROVE lost[i] = r[i]
  <2>1. CASE i \in 1 .. k
    <3>1. s + HEADER_SIZE + i \in 1 .. m
      BY <1>0, <1>5, <2>1
    <3>2. g[s + HEADER_SIZE + i] = file[s + HEADER_SIZE + i]
      BY <3>1
    <3> QED BY <1>4, <1>6, <1>7, <2>1, <3>2
  <2>2. CASE i \notin 1 .. k
    <3>1. i \in k + 1 .. Len(data)
      BY <1>0, <2>2
    <3>2. s + HEADER_SIZE + i \in m + 1 .. Len(file)
      BY <1>0, <1>1, <1>5, <3>1
    <3> QED BY <1>4, <1>6, <3>1, <3>2
  <2> QED BY <2>1, <2>2
<1>9. lost = r
  BY <1>3, <1>6, <1>8, SameSeq
<1>10. rtype \in {Full, First, Middle, Last}
  BY DEF Full, First, Middle, Last
<1>11. Checksum(rtype, r) = Checksum(rtype, data)
  BY <1>9 DEF lost
<1>12. r = data
  BY <1>10, <1>11 DEF ChecksumNoticesLoss, r
<1> QED BY <1>9, <1>12 DEF lost

\* What the reader makes of a piece of which zeros have taken a part.
LEMMA LostPiece ==
  ASSUME ChecksumNoticesLoss,
         NEW file \in Seq(Bytes), NEW g \in Seq(Bytes), NEW s \in Nat, NextBlock(s) - s >= HEADER_SIZE,
         NEW rtype \in 1 .. 4, NEW data \in Seq(Bytes), data \in Texts, Len(data) < Power(BYTE, HALF),
         PieceAt(file, s, rtype, data), ~PieceAt(g, s, rtype, data),
         NEW m \in Nat, ZeroedBehind(file, g, m)
  PROVE  \/ Skips(g, s) /\ NextBlock(s) >= m
         \/ ~Skips(g, s) /\ ~Accepted(g, s)
<1>h. /\ Len(g) = Len(file)
      /\ \A k \in 1 .. m : g[k] = file[k]
      /\ \A k \in m + 1 .. Len(file) : g[k] = 0
  BY DEF ZeroedBehind
<1>0. HEADER_SIZE \in Nat \ {0} /\ Len(data) \in Nat /\ Len(g) \in Nat /\ NextBlock(s) \in Nat
  <2>1. HEADER_SIZE \in Nat \ {0}
    BY Widths
  <2>2. NextBlock(s) \in Nat
    BY BlockFacts
  <2> QED BY <2>1, <2>2
<1>1. s + HEADER_SIZE + Len(data) <= Len(g)
  BY <1>h DEF PieceAt
<1>2. CASE m < s + HEADER_SIZE
  <2>1. s + HEADER_SIZE \in m + 1 .. Len(file)
    BY <1>h, <1>0, <1>1, <1>2
  <2>2. Skips(g, s)
    BY <1>h, <2>1 DEF Skips
  <2> QED BY <1>0, <1>2, <2>2
<1>3. CASE s + HEADER_SIZE <= m
  <2>1. \A i \in 1 .. HEADER_SIZE : g[s + i] = EncodePiece(rtype, data)[i]
    <3> SUFFICES ASSUME NEW i \in 1 .. HEADER_SIZE PROVE g[s + i] = EncodePiece(rtype, data)[i]
      OBVIOUS
    <3>1. s + i \in 1 .. m /\ i \in 1 .. HEADER_SIZE + Len(data)
      BY <1>0, <1>3
    <3> QED BY <1>h, <3>1 DEF PieceAt
  <2>2. /\ Unfixed(Slice(g, s, s + WORD)) = Checksum(rtype, data)
        /\ Unfixed(Slice(g, s + WORD, s + WORD + HALF)) = Len(data)
        /\ g[s + HEADER_SIZE] = rtype
    <3>1. s + HEADER_SIZE <= Len(g)
      BY <1>0, <1>1
    <3> QED BY <2>1, <3>1, HeaderRead
  <2>3. ~Skips(g, s)
    BY <1>0, <2>2 DEF Skips
  <2>4. ASSUME Accepted(g, s) PROVE FALSE
    <3>1. EndAt(g, s) = s + HEADER_SIZE + Len(data)
      BY <2>2 DEF EndAt
    <3>2. Checksum(rtype, Slice(g, s + HEADER_SIZE, s + HEADER_SIZE + Len(data))) = Checksum(rtype, data)
      BY <2>2, <2>4, <3>1 DEF Accepted, Verified
    <3>3. Slice(g, s + HEADER_SIZE, s + HEADER_SIZE + Len(data)) = data
      <4>1. /\ s \in Nat /\ m \in Nat /\ rtype \in 1 .. 4 /\ data \in Seq(Bytes) /\ file \in Seq(Bytes)
            /\ s + HEADER_SIZE <= m /\ data \in Texts /\ g \in Seq(Bytes)
        BY <1>3
      <4> QED BY <3>2, <4>1, LostData, SMTT(60)
    <3>0. \A h \in 1 .. Len(data) : EncodePiece(rtype, data)[HEADER_SIZE + h] = data[h]
      BY PieceFacts
    <3>4. ASSUME NEW i \in 1 .. HEADER_SIZE + Len(data) PROVE g[s + i] = EncodePiece(rtype, data)[i]
      <4>1. CASE i \in 1 .. HEADER_SIZE
        BY <2>1, <4>1
      <4>2. CASE i \notin 1 .. HEADER_SIZE
        <5>1. PICK h \in 1 .. Len(data) : i = HEADER_SIZE + h /\ s + i = s + HEADER_SIZE + h
          <6>1. i - HEADER_SIZE \in 1 .. Len(data) /\ i = HEADER_SIZE + (i - HEADER_SIZE)
                /\ s + i = s + HEADER_SIZE + (i - HEADER_SIZE)
            BY <1>0, <4>2
          <6> QED BY <6>1
        <5>2. EncodePiece(rtype, data)[HEADER_SIZE + h] = data[h]
          BY <3>0
        <5>3. Slice(g, s + HEADER_SIZE, s + HEADER_SIZE + Len(data))[h] = g[s + HEADER_SIZE + h]
          BY <1>0, <1>1 DEF Slice
        <5> QED BY <3>3, <5>1, <5>2, <5>3
      <4> QED BY <4>1, <4>2
    <3>5. PieceAt(g, s, rtype, data)
      BY <1>1, <3>4 DEF PieceAt
    <3> QED BY <3>5
  <2> QED BY <2>3, <2>4
<1> QED BY <1>0, <1>2, <1>3

\* A log that is cut at m: the reader ends behind the last piece that is whole.
LEMMA CutReads ==
  ASSUME NEW file \in Seq(Bytes), NEW c, Chain(file, c), c[Len(c)].pos = Len(file), NEW m \in 0 .. Len(file)
  PROVE  \E j \in 1 .. Len(c) :
           /\ ReadRecords(Remains(file, m, m)) = c[j].records
           /\ \A i \in 1 .. Len(c) : c[i].pos <= m => i <= j
<1> DEFINE g == Remains(file, m, m)
           W == {i \in 1 .. Len(c) : c[i].pos <= m}
<1>0. Len(c) \in Nat \ {0} /\ HEADER_SIZE \in Nat \ {0} /\ Len(file) \in Nat /\ m \in Nat
  BY Widths DEF Chain
<1>1. g \in Seq(Bytes) /\ Len(g) = m /\ \A k \in 1 .. m : g[k] = file[k]
  <2>1. m \in m .. Len(file)
    BY <1>0
  <2> QED BY <2>1, RemainsFacts
<1>2. \A i \in 1 .. Len(c) : c[i] \in StateSet /\ c[i].pos \in Nat
  BY ChainFacts DEF StateSet
<1>3. 1 \in W
  <2>1. c[1].pos = 0
    BY DEF Chain, StartState
  <2> QED BY <1>0, <2>1
<1>4. PICK j \in W : \A i \in W : i <= j
  <2>1. W \in SUBSET Nat /\ IsFiniteSet(W)
    <3>1. IsFiniteSet(1 .. Len(c))
      BY <1>0, FS_Interval
    <3> QED BY <3>1, FS_Subset
  <2> HIDE DEF W
  <2> QED BY <1>3, <2>1, MaxExists
<1> HIDE DEF g
<1>5. j \in 1 .. Len(c) /\ c[j].pos <= m
  OBVIOUS
<1>6. ASSUME NEW i \in 1 .. j - 1 PROVE Step(g, c[i], c[i + 1])
  <2>1. i \in 1 .. Len(c) - 1 /\ i \in 1 .. Len(c) /\ i + 1 \in 1 .. Len(c) /\ j \in i + 1 .. Len(c)
    BY <1>0, <1>5
  <2>2. Step(file, c[i], c[i + 1])
    BY <2>1 DEF Chain
  <2>3. c[i + 1].pos <= c[j].pos
    BY <2>1, ChainGrows
  <2>4. c[i + 1].pos <= Len(g) /\ \A k \in 1 .. c[i + 1].pos : g[k] = file[k]
    BY <1>0, <1>1, <1>2, <1>5, <2>1, <2>3
  <2> QED BY <1>1, <1>2, <2>1, <2>2, <2>4, StepKept
<1> DEFINE d == SubSeq(c, 1, j)
           p == c[j].pos
           s == Begin(p)
           P == {p, s}
<1>7. Chain(g, d) /\ Len(d) = j /\ d[j] = c[j]
  BY <1>5, <1>6, CutChain
<1> HIDE DEF d
<1>8. p \in Nat /\ s \in Nat /\ s >= p
  BY <1>2, <1>5, BlockFacts
<1>9. NextBlock(s) - s >= HEADER_SIZE /\ NextBlock(s) \in Nat
  BY <1>8, BlockFacts
<1>10. s + HEADER_SIZE > Len(g) \/ (~Skips(g, s) /\ ~Accepted(g, s))
  <2>1. CASE j = Len(c)
    <3>1. p = m
      BY <1>0, <1>5, <2>1
    <3> QED BY <1>0, <1>1, <1>8, <3>1
  <2>2. CASE j # Len(c)
    <3> SUFFICES ASSUME s + HEADER_SIZE <= m PROVE ~Skips(g, s) /\ ~Accepted(g, s)
      BY <1>0, <1>1, <1>8
    <3>1. j \in 1 .. Len(c) - 1 /\ j + 1 \in 1 .. Len(c) /\ ~(j + 1 <= j)
      BY <1>0, <1>5, <2>2
    <3>2. PICK rtype \in 1 .. 4, data \in Seq(Bytes) :
            /\ Len(data) < Power(BYTE, HALF)
            /\ PieceAt(file, s, rtype, data)
            /\ c[j + 1].pos = s + HEADER_SIZE + Len(data)
      <4> HIDE DEF W, p, s, P
      <4>1. PieceBetween(file, c[j], c[j + 1])
        BY <3>1, NextInChain
      <4> QED BY <4>1 DEF PieceBetween, p, s
    <3>3. c[j + 1].pos > m
      <4>1. j + 1 \notin W
        BY <1>4, <3>1
      <4> QED BY <1>0, <1>2, <3>1, <4>1
    <3> HIDE DEF s, p, W
    <3>4. /\ s + HEADER_SIZE <= Len(g) /\ Len(g) < s + HEADER_SIZE + Len(data)
          /\ \A k \in 1 .. Len(g) : g[k] = file[k]
      BY <1>0, <1>1, <3>2, <3>3
    <3> QED BY <1>1, <1>8, <1>9, <3>2, <3>4, CutPiece
  <2> QED BY <2>1, <2>2
<1>11. Quiet(g, P)
  <2>1. p = s \/ (Skips(g, p) /\ NextBlock(p) = s)
    BY <1>8, PassesTrailer
  <2> HIDE DEF s, p
  <2> QED BY <1>10, <2>1 DEF Quiet
<1>12. ReadRecords(g) = d[Len(d)].records
  <2>1. P \in SUBSET Nat /\ d[Len(d)].pos \in P
    BY <1>7, <1>8
  <2> HIDE DEF P
  <2> QED BY <1>1, <1>7, <1>11, <2>1, ReadChain
<1>13. \A i \in 1 .. Len(c) : c[i].pos <= m => i <= j
  BY <1>4
<1> QED BY <1>5, <1>7, <1>12, <1>13 DEF g

\* The same when zeros stand in place of what is lost, and the checksum notices.
LEMMA LossReads ==
  ASSUME ChecksumNoticesLoss,
         NEW file \in Seq(Bytes), NEW c, Chain(file, c), c[Len(c)].pos = Len(file), NEW m \in 0 .. Len(file)
  PROVE  \E j \in 1 .. Len(c) :
           /\ ReadRecords(Remains(file, m, Len(file))) = c[j].records
           /\ \A i \in 1 .. Len(c) : c[i].pos <= m => i <= j
<1> DEFINE g == Remains(file, m, Len(file))
           W == {i \in 1 .. Len(c) : \A k \in 1 .. i - 1 : Step(g, c[k], c[k + 1])}
<1>0. Len(c) \in Nat \ {0} /\ HEADER_SIZE \in Nat \ {0} /\ Len(file) \in Nat /\ m \in Nat
  BY Widths DEF Chain
<1>1. /\ g \in Seq(Bytes) /\ Len(g) = Len(file) /\ \A k \in 1 .. m : g[k] = file[k]
      /\ \A k \in m + 1 .. Len(file) : g[k] = 0
  <2>1. Len(file) \in m .. Len(file)
    BY <1>0
  <2> QED BY <2>1, RemainsFacts
<1>2. \A i \in 1 .. Len(c) : c[i] \in StateSet /\ c[i].pos \in Nat
  BY ChainFacts DEF StateSet
<1>3. 1 \in W
  BY <1>0
<1>4. PICK j \in W : \A i \in W : i <= j
  <2>1. W \in SUBSET Nat /\ IsFiniteSet(W)
    <3>1. IsFiniteSet(1 .. Len(c))
      BY <1>0, FS_Interval
    <3> QED BY <3>1, FS_Subset
  <2> HIDE DEF W
  <2> QED BY <1>3, <2>1, MaxExists
<1> HIDE DEF g
<1>5. j \in 1 .. Len(c) /\ \A i \in 1 .. j - 1 : Step(g, c[i], c[i + 1])
  OBVIOUS
<1>6. ASSUME NEW i \in 1 .. Len(c), c[i].pos <= m PROVE i <= j
  <2>1. ASSUME NEW k \in 1 .. i - 1 PROVE Step(g, c[k], c[k + 1])
    <3>1. k \in 1 .. Len(c) - 1 /\ k \in 1 .. Len(c) /\ k + 1 \in 1 .. Len(c) /\ i \in k + 1 .. Len(c)
      BY <1>0
    <3>2. Step(file, c[k], c[k + 1])
      BY <3>1 DEF Chain
    <3>3. c[k + 1].pos <= c[i].pos
      BY <3>1, ChainGrows
    <3>4. c[k + 1].pos <= Len(g) /\ \A h \in 1 .. c[k + 1].pos : g[h] = file[h]
      BY <1>0, <1>1, <1>2, <1>6, <3>1, <3>3
    <3> QED BY <1>1, <1>2, <3>1, <3>2, <3>4, StepKept
  <2>2. i \in W
    BY <2>1
  <2> QED BY <1>4, <2>2
<1> DEFINE d == SubSeq(c, 1, j)
           p == c[j].pos
           s == Begin(p)
           P == {p, s} \cup {q \in Nat : q >= m}
<1>7. Chain(g, d) /\ Len(d) = j /\ d[j] = c[j]
  BY <1>5, CutChain
<1> HIDE DEF d
<1>8. p \in Nat /\ s \in Nat /\ s >= p
  BY <1>2, <1>5, BlockFacts
<1>9. NextBlock(s) - s >= HEADER_SIZE /\ NextBlock(s) \in Nat
  BY <1>8, BlockFacts
<1>10. \/ s + HEADER_SIZE > Len(g)
       \/ Skips(g, s) /\ NextBlock(s) \in P
       \/ ~Skips(g, s) /\ ~Accepted(g, s)
  <2>1. CASE j = Len(c)
    <3>1. p = Len(file)
      BY <2>1
    <3> QED BY <1>0, <1>1, <1>8, <3>1
  <2>2. CASE j # Len(c)
    <3>1. j \in 1 .. Len(c) - 1 /\ j + 1 \in 1 .. Len(c) /\ ~(j + 1 <= j)
      BY <1>0, <1>5, <2>2
    <3>2. PICK rtype \in 1 .. 4, data \in Seq(Bytes) :
            /\ Len(data) < Power(BYTE, HALF) /\ data \in Texts
            /\ PieceAt(file, s, rtype, data)
            /\ c[j + 1] = Assemble(c[j], rtype, data, s + HEADER_SIZE + Len(data))
      <4> HIDE DEF W, p, s, P
      <4>1. PieceBetween(file, c[j], c[j + 1])
        BY <3>1, NextInChain
      <4> QED BY <4>1 DEF PieceBetween, p, s
    <3>3. ~Step(g, c[j], c[j + 1])
      <4> SUFFICES ASSUME Step(g, c[j], c[j + 1]) PROVE FALSE
        OBVIOUS
      <4>1. \A k \in 1 .. (j + 1) - 1 : Step(g, c[k], c[k + 1])
        BY <1>0, <1>5
      <4>2. j + 1 \in W
        BY <3>1, <4>1
      <4> QED BY <1>4, <3>1, <4>2
    <3>4. ~PieceAt(g, s, rtype, data)
      BY <3>2, <3>3 DEF Step
    <3> HIDE DEF s, p, W
    <3>5. (Skips(g, s) /\ NextBlock(s) >= m) \/ (~Skips(g, s) /\ ~Accepted(g, s))
      <4>1. /\ ChecksumNoticesLoss /\ g \in Seq(Bytes) /\ s \in Nat /\ NextBlock(s) - s >= HEADER_SIZE
            /\ data \in Texts /\ Len(data) < Power(BYTE, HALF) /\ PieceAt(file, s, rtype, data)
            /\ ~PieceAt(g, s, rtype, data) /\ m \in Nat /\ ZeroedBehind(file, g, m)
        BY <1>0, <1>1, <1>8, <1>9, <3>2, <3>4 DEF ZeroedBehind
      <4> HIDE DEF P
      <4> QED BY <4>1, LostPiece
    <3> QED BY <1>9, <3>5
  <2> QED BY <2>1, <2>2
<1>11. Quiet(g, P)
  <2>1. p = s \/ (Skips(g, p) /\ NextBlock(p) = s)
    BY <1>8, PassesTrailer
  <2>2. ASSUME NEW q \in Nat, q >= m
        PROVE  q + HEADER_SIZE > Len(g) \/ (Skips(g, q) /\ NextBlock(q) \in P)
    <3>1. CASE q + HEADER_SIZE > Len(g)
      BY <3>1
    <3>2. CASE ~(q + HEADER_SIZE > Len(g))
      <4>1. q + HEADER_SIZE \in m + 1 .. Len(file)
        BY <1>0, <1>1, <2>2, <3>2
      <4>2. Skips(g, q)
        BY <1>1, <4>1 DEF Skips
      <4>3. NextBlock(q) \in Nat /\ NextBlock(q) > q
        BY BlockFacts
      <4>4. NextBlock(q) >= m
        BY <1>0, <2>2, <4>3
      <4> QED BY <4>2, <4>3, <4>4
    <3> QED BY <3>1, <3>2
  <2>3. ASSUME NEW x \in P
        PROVE  \/ x + HEADER_SIZE > Len(g)
               \/ Skips(g, x) /\ NextBlock(x) \in P
               \/ ~Skips(g, x) /\ ~Accepted(g, x)
    <3>1. CASE x = s
      <4> HIDE DEF P, s
      <4> QED BY <1>10, <3>1
    <3>2. CASE x = p
      <4>1. s \in P
        OBVIOUS
      <4> HIDE DEF P, s, p
      <4> QED BY <1>10, <2>1, <3>2, <4>1
    <3>3. CASE x \in Nat /\ x >= m
      <4> HIDE DEF P
      <4> QED BY <2>2, <3>3
    <3> QED BY <3>1, <3>2, <3>3
  <2> HIDE DEF P
  <2> QED BY <2>3 DEF Quiet
<1>12. ReadRecords(g) = d[Len(d)].records
  <2>1. P \in SUBSET Nat /\ d[Len(d)].pos \in P
    BY <1>7, <1>8
  <2> HIDE DEF P
  <2> QED BY <1>1, <1>7, <1>11, <2>1, ReadChain
<1> QED BY <1>5, <1>6, <1>7, <1>12 DEF g

----------------------------------------------------------------------------
(* A record in pieces *)

\* A part of a file, between two places.
LEMMA Sliced ==
  ASSUME NEW s \in Seq(Bytes), NEW x \in 0 .. Len(s), NEW y \in x .. Len(s)
  PROVE  /\ Slice(s, x, y) \in Seq(Bytes) /\ Len(Slice(s, x, y)) = y - x
         /\ \A i \in 1 .. y - x : Slice(s, x, y)[i] = s[x + i]
<1>1. x \in Nat /\ y - x \in Nat /\ x + (y - x) = y
  OBVIOUS
<1>2. \A n \in Nat : x + n <= Len(s) =>
        /\ Slice(s, x, x + n) \in Seq(Bytes) /\ Len(Slice(s, x, x + n)) = n
        /\ \A i \in 1 .. n : Slice(s, x, x + n)[i] = s[x + i]
  <2> TAKE n \in Nat
  <2> SUFFICES ASSUME x + n <= Len(s)
               PROVE  /\ Slice(s, x, x + n) \in Seq(Bytes) /\ Len(Slice(s, x, x + n)) = n
                      /\ \A i \in 1 .. n : Slice(s, x, x + n)[i] = s[x + i]
    OBVIOUS
  <2> QED BY <1>1, SliceFacts
<1>3. x + (y - x) <= Len(s)
  OBVIOUS
<1> QED BY <1>1, <1>2, <1>3

\* Two sequences in one, with their lengths named.
LEMMA JoinFacts ==
  ASSUME NEW a \in Seq(Bytes), NEW b \in Seq(Bytes), NEW x, x = Len(a), NEW n, n = Len(b)
  PROVE  /\ a \o b \in Seq(Bytes) /\ Len(a \o b) = x + n
         /\ \A i \in 1 .. x : (a \o b)[i] = a[i]
         /\ \A i \in 1 .. n : (a \o b)[x + i] = b[i]
BY ConcatFacts

\* Parts of parts, and a part behind a part.
LEMMA SliceParts ==
  ASSUME NEW s \in Seq(Bytes), NEW x \in 0 .. Len(s), NEW y \in x .. Len(s)
  PROVE  /\ From(Slice(s, x, Len(s)), y - x) = Slice(s, y, Len(s))
         /\ SubSeq(Slice(s, x, Len(s)), 1, y - x) = Slice(s, x, y)
         /\ Slice(s, 0, x) \o Slice(s, x, y) = Slice(s, 0, y)
<1> DEFINE r == Slice(s, x, Len(s))
           n == y - x
<1>0. Len(s) \in x .. Len(s) /\ 0 \in 0 .. Len(s) /\ x \in 0 .. Len(s) /\ y \in 0 .. Len(s) /\ n \in Nat /\ Len(s) \in y .. Len(s)
  OBVIOUS
<1>1. r \in Seq(Bytes) /\ Len(r) = Len(s) - x /\ \A i \in 1 .. Len(s) - x : r[i] = s[x + i]
  BY <1>0, Sliced
<1> HIDE DEF r
<1>2. From(r, n) = Slice(s, y, Len(s))
  <2> DEFINE a == From(r, n)
             b == Slice(s, y, Len(s))
  <2>1. b \in Seq(Bytes) /\ Len(b) = Len(s) - y /\ \A i \in 1 .. Len(s) - y : b[i] = s[y + i]
    BY <1>0, Sliced
  <2>2. a \in Seq(Bytes) /\ Len(a) = Len(s) - y /\ \A i \in 1 .. Len(s) - y : a[i] = r[n + i]
    BY <1>0, <1>1 DEF From
  <2> HIDE DEF a, b
  <2>3. ASSUME NEW i \in 1 .. Len(a) PROVE a[i] = b[i]
    <3>1. i \in 1 .. Len(s) - y /\ n + i \in 1 .. Len(s) - x /\ x + (n + i) = y + i
      BY <2>2
    <3> HIDE DEF n
    <3>2. a[i] = r[n + i] /\ b[i] = s[y + i]
      BY <2>1, <2>2, <3>1
    <3>3. r[n + i] = s[x + (n + i)]
      BY <1>1, <3>1
    <3> QED BY <3>1, <3>2, <3>3
  <2> QED BY <2>1, <2>2, <2>3, SameSeq DEF a, b
<1>3. SubSeq(r, 1, n) = Slice(s, x, y)
  <2> DEFINE a == SubSeq(r, 1, n)
             b == Slice(s, x, y)
  <2>1. b \in Seq(Bytes) /\ Len(b) = n /\ \A i \in 1 .. n : b[i] = s[x + i]
    BY <1>0, Sliced
  <2>2. a \in Seq(Bytes) /\ Len(a) = n /\ \A i \in 1 .. n : a[i] = r[i]
    BY <1>0, <1>1
  <2> HIDE DEF a, b
  <2>3. ASSUME NEW i \in 1 .. n PROVE a[i] = b[i]
    <3>1. i \in 1 .. Len(s) - x
      OBVIOUS
    <3> QED BY <1>1, <2>1, <2>2, <3>1
  <2> HIDE DEF n
  <2> QED BY <2>1, <2>2, <2>3, SameSeq DEF a, b
<1>4. Slice(s, 0, x) \o Slice(s, x, y) = Slice(s, 0, y)
  <2> DEFINE a == Slice(s, 0, x)
             b == Slice(s, x, y)
             c == Slice(s, 0, y)
  <2>1. b \in Seq(Bytes) /\ Len(b) = n /\ \A i \in 1 .. n : b[i] = s[x + i]
    BY <1>0, Sliced
  <2>2. a \in Seq(Bytes) /\ Len(a) = x /\ \A i \in 1 .. x : a[i] = s[i]
    BY <1>0 DEF Slice
  <2>3. c \in Seq(Bytes) /\ Len(c) = y /\ \A i \in 1 .. y : c[i] = s[i]
    BY <1>0 DEF Slice
  <2> HIDE DEF a, b, c
  <2>4. /\ a \o b \in Seq(Bytes) /\ Len(a \o b) = x + n
        /\ \A i \in 1 .. x : (a \o b)[i] = a[i]
        /\ \A i \in 1 .. n : (a \o b)[x + i] = b[i]
    <3>1. a \in Seq(Bytes) /\ b \in Seq(Bytes) /\ x = Len(a) /\ n = Len(b)
      BY <2>1, <2>2
    <3> HIDE DEF n
    <3> QED BY <3>1, JoinFacts
  <2> DEFINE ab == a \o b
  <2> HIDE DEF ab
  <2>5. ASSUME NEW i \in 1 .. y PROVE ab[i] = c[i]
    <3>1. CASE i <= x
      <4>1. i \in 1 .. x
        BY <3>1
      <4> QED BY <2>2, <2>3, <2>4, <4>1 DEF ab
    <3>2. CASE ~(i <= x)
      <4>1. i - x \in 1 .. n /\ x + (i - x) = i
        BY <3>2
      <4>2. ab[x + (i - x)] = b[i - x] /\ b[i - x] = s[x + (i - x)]
        BY <2>1, <2>4, <4>1 DEF ab
      <4> QED BY <2>3, <4>1, <4>2
    <3> QED BY <3>1, <3>2
  <2>6. ab \in Seq(Bytes) /\ Len(ab) = Len(c)
    BY <2>3, <2>4 DEF ab
  <2>7. ab = c
    BY <2>3, <2>5, <2>6, SameSeq
  <2> QED BY <2>7 DEF ab, a, b, c
<1> QED BY <1>2, <1>3, <1>4 DEF r

\* All of a sequence, and nothing of it.
LEMMA WholeSlice ==
  ASSUME NEW s \in Seq(Bytes)
  PROVE  Slice(s, 0, Len(s)) = s /\ Slice(s, 0, 0) = <<>>
BY DEF Slice

\* A record of two fields of which one is set.
LEMMA FieldSet ==
  ASSUME NEW S, NEW f \in [open : S, data : Seq(Bytes)], NEW d, NEW t, f.open = t
  PROVE  [f EXCEPT !.data = d] = [open |-> t, data |-> d]
OBVIOUS

\* What the pieces of a record add to the state of the reader: the only one,
LEMMA AssembleFull ==
  ASSUME NEW a \in StateSet, NEW data \in Seq(Bytes), NEW next \in Nat
  PROVE  /\ Assemble(a, Full, data, next).records = Append(a.records, data)
         /\ Assemble(a, Full, data, next).fragment = NoFragment
<1> DEFINE moved == [a EXCEPT !.pos = next]
<1>1. /\ moved.records = a.records /\ moved.fragment = a.fragment
      /\ DOMAIN moved = {"pos", "records", "fragment", "done"}
      /\ a.fragment \in [open : BOOLEAN, data : Seq(Bytes)]
  BY DEF StateSet
<1>2. Assemble(a, Full, data, next) = [moved EXCEPT !.records = Append(@, data), !.fragment = NoFragment]
  BY DEF Assemble, Full, First, Middle, Last
<1> HIDE DEF moved
<1> QED BY <1>1, <1>2

\* the first of several,
LEMMA AssembleFirst ==
  ASSUME NEW a \in StateSet, NEW data \in Seq(Bytes), NEW next \in Nat
  PROVE  /\ Assemble(a, First, data, next).records = a.records
         /\ Assemble(a, First, data, next).fragment = [open |-> TRUE, data |-> data]
<1> DEFINE moved == [a EXCEPT !.pos = next]
<1>1. /\ moved.records = a.records /\ moved.fragment = a.fragment
      /\ DOMAIN moved = {"pos", "records", "fragment", "done"}
      /\ a.fragment \in [open : BOOLEAN, data : Seq(Bytes)]
  BY DEF StateSet
<1>2. Assemble(a, First, data, next) = [moved EXCEPT !.fragment = [open |-> TRUE, data |-> data]]
  BY DEF Assemble, Full, First, Middle, Last
<1> HIDE DEF moved
<1> QED BY <1>1, <1>2

\* one in between,
LEMMA AssembleMiddle ==
  ASSUME NEW a \in StateSet, NEW data \in Seq(Bytes), NEW next \in Nat, a.fragment.open
  PROVE  /\ Assemble(a, Middle, data, next).records = a.records
         /\ Assemble(a, Middle, data, next).fragment = [open |-> TRUE, data |-> a.fragment.data \o data]
<1> DEFINE moved == [a EXCEPT !.pos = next]
<1>1. /\ moved.records = a.records /\ moved.fragment = a.fragment
      /\ DOMAIN moved = {"pos", "records", "fragment", "done"}
      /\ a.fragment \in [open : BOOLEAN, data : Seq(Bytes)]
  BY DEF StateSet
<1>2. Assemble(a, Middle, data, next) = [moved EXCEPT !.fragment.data = @ \o data]
  BY DEF Assemble, Full, First, Middle, Last
<1> HIDE DEF moved
<1> DEFINE f == a.fragment
           joined == a.fragment.data \o data
<1>3. f \in [open : BOOLEAN, data : Seq(Bytes)] /\ f.open = TRUE
  BY <1>1
<1>4. [f EXCEPT !.data = joined] = [open |-> TRUE, data |-> joined]
  <2> HIDE DEF f, joined
  <2> QED BY <1>3, FieldSet
<1>5. Assemble(a, Middle, data, next) = [moved EXCEPT !.fragment = [f EXCEPT !.data = joined]]
  <2>1. moved.fragment = f /\ f.data \o data = joined
    BY <1>1
  <2>2. [moved EXCEPT !.fragment.data = @ \o data] = [moved EXCEPT !.fragment = [f EXCEPT !.data = f.data \o data]]
    <3> HIDE DEF f, joined
    <3> QED BY <2>1
  <2> QED BY <1>2, <2>1, <2>2
<1> HIDE DEF f, joined
<1>6. /\ Assemble(a, Middle, data, next).records = a.records
      /\ Assemble(a, Middle, data, next).fragment = [f EXCEPT !.data = joined]
  BY <1>1, <1>5
<1> QED BY <1>4, <1>6 DEF joined

\* and the last.
LEMMA AssembleLast ==
  ASSUME NEW a \in StateSet, NEW data \in Seq(Bytes), NEW next \in Nat, a.fragment.open
  PROVE  /\ Assemble(a, Last, data, next).records = Append(a.records, a.fragment.data \o data)
         /\ Assemble(a, Last, data, next).fragment = NoFragment
<1> DEFINE moved == [a EXCEPT !.pos = next]
<1>1. /\ moved.records = a.records /\ moved.fragment = a.fragment
      /\ DOMAIN moved = {"pos", "records", "fragment", "done"}
      /\ a.fragment \in [open : BOOLEAN, data : Seq(Bytes)]
  BY DEF StateSet
<1>2. Assemble(a, Last, data, next)
        = [moved EXCEPT !.records = Append(@, a.fragment.data \o data), !.fragment = NoFragment]
  BY DEF Assemble, Full, First, Middle, Last
<1> HIDE DEF moved
<1> QED BY <1>1, <1>2

\* The order in which sequences are joined does not matter.
LEMMA ConcatAssoc ==
  ASSUME NEW a \in Seq(Bytes), NEW b \in Seq(Bytes), NEW c \in Seq(Bytes)
  PROVE  (a \o b) \o c = a \o (b \o c)
OBVIOUS

\* The room that the last block has, and where the next piece begins.
LEMMA TrailerFacts ==
  ASSUME NEW p \in Nat, NEW q \in Nat, NEW offset \in 0 .. BLOCK_SIZE, p = BLOCK_SIZE * q + offset
  PROVE  /\ Trailer(offset) \in Seq(Bytes) /\ Begin(p) = p + Len(Trailer(offset))
         /\ Start(offset) \in 0 .. BLOCK_SIZE - HEADER_SIZE
         /\ \E u \in Nat : Begin(p) = BLOCK_SIZE * u + Start(offset)
<1>1. BLOCK_SIZE \in Nat \ {0} /\ HEADER_SIZE \in Nat \ {0} /\ BLOCK_SIZE > HEADER_SIZE
  BY BlockAssumption, Widths DEF BlockAssumption
<1>2. /\ \A n \in Nat : Zeros(n) \in Seq(Bytes) /\ Len(Zeros(n)) = n
      /\ <<>> \in Seq(Bytes) /\ Len(<<>>) = 0
  <2>1. ASSUME NEW n \in Nat PROVE Zeros(n) \in Seq(Bytes) /\ Len(Zeros(n)) = n
    BY ByteFacts DEF Zeros
  <2> QED BY <2>1
<1>3. q + 1 \in Nat /\ BLOCK_SIZE * (q + 1) = BLOCK_SIZE * q + BLOCK_SIZE /\ BLOCK_SIZE * q \in Nat
  BY <1>1
<1>4. CASE BLOCK_SIZE - offset >= HEADER_SIZE
  <2>1. Fits(offset) /\ Trailer(offset) = <<>> /\ Start(offset) = offset
    BY <1>4 DEF Fits, Trailer, Start
  <2>2. offset \in 0 .. BLOCK_SIZE - 1
    BY <1>1, <1>4
  <2>3. NextBlock(p) = p + (BLOCK_SIZE - offset)
    BY <2>2, PlaceFacts
  <2>4. Begin(p) = p
    BY <1>1, <1>4, <2>3 DEF Begin
  <2>5. Begin(p) = BLOCK_SIZE * q + Start(offset)
    BY <2>1, <2>4
  <2>6. Start(offset) \in 0 .. BLOCK_SIZE - HEADER_SIZE
    BY <1>1, <1>4, <2>1
  <2>7. Trailer(offset) \in Seq(Bytes) /\ Begin(p) = p + Len(Trailer(offset))
    BY <1>2, <2>1, <2>4
  <2> QED BY <2>5, <2>6, <2>7
<1>5. CASE ~(BLOCK_SIZE - offset >= HEADER_SIZE)
  <2> DEFINE n == BLOCK_SIZE - offset
  <2>1. ~Fits(offset) /\ Trailer(offset) = Zeros(n) /\ Start(offset) = 0 /\ n \in Nat
    BY <1>1, <1>5 DEF Fits, Trailer, Start
  <2>2. Trailer(offset) \in Seq(Bytes) /\ Len(Trailer(offset)) = n
    BY <1>2, <2>1
  <2>3. Begin(p) = p + n
    <3>1. CASE offset = BLOCK_SIZE
      <4>1. p = BLOCK_SIZE * (q + 1) + 0 /\ 0 \in 0 .. BLOCK_SIZE - 1
        BY <1>1, <1>3, <3>1
      <4>2. NextBlock(p) = p + (BLOCK_SIZE - 0)
        BY <1>3, <4>1, PlaceFacts
      <4> QED BY <1>1, <3>1, <4>2 DEF Begin
    <3>2. CASE offset # BLOCK_SIZE
      <4>1. offset \in 0 .. BLOCK_SIZE - 1
        BY <1>1, <3>2
      <4>2. NextBlock(p) = p + (BLOCK_SIZE - offset)
        BY <4>1, PlaceFacts
      <4> QED BY <1>1, <1>5, <4>2 DEF Begin
    <3> QED BY <3>1, <3>2
  <2>4. p + n = BLOCK_SIZE * (q + 1) + 0
    BY <1>1, <1>3
  <2>5. 0 \in 0 .. BLOCK_SIZE - HEADER_SIZE
    BY <1>1
  <2> HIDE DEF n
  <2> QED BY <1>3, <2>1, <2>2, <2>3, <2>4, <2>5
<1> QED BY <1>4, <1>5

\* A file that is longer has the same pieces, and may have one more.
LEMMA ChainExtends ==
  ASSUME NEW file \in Seq(Bytes), NEW g \in Seq(Bytes), NEW c, Chain(file, c),
         Len(file) <= Len(g), \A k \in 1 .. Len(file) : g[k] = file[k],
         NEW b \in StateSet, Step(g, c[Len(c)], b)
  PROVE  Chain(g, Append(c, b))
<1> DEFINE N == Len(c)
           d == Append(c, b)
<1>1. c \in Seq(StateSet) /\ N \in Nat \ {0} /\ c[1] = StartState
  BY DEF Chain
<1>2. d \in Seq(StateSet) /\ Len(d) = N + 1 /\ d[N + 1] = b /\ \A i \in 1 .. N : d[i] = c[i]
  BY <1>1
<1>3. ASSUME NEW i \in 1 .. N - 1 PROVE Step(g, c[i], c[i + 1])
  <2>1. Step(file, c[i], c[i + 1])
    BY <1>3 DEF Chain
  <2>2. i + 1 \in 1 .. Len(c) /\ i \in 1 .. Len(c)
    BY <1>1
  <2>3. c[i] \in StateSet /\ c[i + 1] \in StateSet /\ c[i + 1].pos <= Len(file)
    BY <2>2, ChainFacts
  <2>4. c[i + 1].pos \in Nat
    BY <2>3 DEF StateSet
  <2>5. c[i + 1].pos <= Len(g) /\ \A k \in 1 .. c[i + 1].pos : g[k] = file[k]
    BY <2>3, <2>4
  <2> QED BY <2>1, <2>3, <2>5, StepKept
<1> HIDE DEF d
<1>4. ASSUME NEW i \in 1 .. Len(d) - 1 PROVE Step(g, d[i], d[i + 1])
  <2>1. CASE i = N
    BY <1>2, <2>1
  <2>2. CASE i # N
    <3>1. i \in 1 .. N - 1 /\ i \in 1 .. N /\ i + 1 \in 1 .. N
      BY <1>1, <1>2, <2>2
    <3> QED BY <1>2, <1>3, <3>1
  <2> QED BY <2>1, <2>2
<1>5. d[1] = StartState /\ Len(d) > 0
  BY <1>1, <1>2
<1> QED BY <1>2, <1>4, <1>5 DEF Chain, d

\* Two sequences in one, under a name that steps can refer to.
Joined(s, t) == s \o t

\* Three sequences in one.
LEMMA JoinThree ==
  ASSUME NEW file \in Seq(Bytes), NEW t \in Seq(Bytes), NEW piece \in Seq(Bytes)
  PROVE  LET g == Joined(Joined(file, t), piece)
             at == Len(file) + Len(t)
         IN /\ g \in Seq(Bytes) /\ at \in Nat /\ at >= Len(file) /\ Len(g) = at + Len(piece)
            /\ \A k \in 1 .. Len(file) : g[k] = file[k]
            /\ \A k \in 1 .. Len(piece) : g[at + k] = piece[k]
<1> DEFINE h == file \o t
<1>1. /\ h \in Seq(Bytes) /\ Len(h) = Len(file) + Len(t) /\ \A k \in 1 .. Len(file) : h[k] = file[k]
  OBVIOUS
<1>2. Len(file) \in Nat /\ Len(t) \in Nat /\ Len(piece) \in Nat
  OBVIOUS
<1> HIDE DEF h
<1>4. /\ h \o piece \in Seq(Bytes) /\ Len(h \o piece) = Len(h) + Len(piece)
      /\ \A k \in 1 .. Len(h) : (h \o piece)[k] = h[k]
      /\ \A k \in 1 .. Len(piece) : (h \o piece)[Len(h) + k] = piece[k]
  <2>1. h \in Seq(Bytes) /\ piece \in Seq(Bytes)
    BY <1>1
  <2> QED BY <2>1, ConcatFacts
<1>5. \A k \in 1 .. Len(file) : k \in 1 .. Len(h)
  BY <1>1, <1>2
<1>6. \A k \in 1 .. Len(file) : (h \o piece)[k] = file[k]
  BY <1>1, <1>4, <1>5
<1>7. \A k \in 1 .. Len(piece) : (h \o piece)[(Len(file) + Len(t)) + k] = piece[k]
  BY <1>1, <1>4
<1>8. h \o piece \in Seq(Bytes) /\ Len(h \o piece) = (Len(file) + Len(t)) + Len(piece)
  BY <1>1, <1>4
<1>9. Len(file) + Len(t) \in Nat /\ Len(file) + Len(t) >= Len(file)
  BY <1>2
<1> QED BY <1>6, <1>7, <1>8, <1>9, Zenon DEF Joined, h

\* A file with a piece behind it.
Longer(file, offset, rtype, data) == Joined(Joined(file, Trailer(offset)), EncodePiece(rtype, data))

\* A piece that is written behind a file, and what comes before it.
LEMMA PieceThere ==
  ASSUME NEW file \in Seq(Bytes), NEW offset, Trailer(offset) \in Seq(Bytes),
         NEW rtype \in 1 .. 4, NEW data \in Seq(Bytes)
  PROVE  LET g == Longer(file, offset, rtype, data)
             at == Len(file) + Len(Trailer(offset))
         IN /\ g \in Seq(Bytes) /\ at \in Nat /\ Len(g) = at + HEADER_SIZE + Len(data)
            /\ Prefix(file, g) /\ PieceAt(g, at, rtype, data)
<1> DEFINE piece == EncodePiece(rtype, data)
           t == Trailer(offset)
           g == Longer(file, offset, rtype, data)
           at == Len(file) + Len(t)
<1>1. HEADER_SIZE \in Nat /\ Len(data) \in Nat /\ Len(file) \in Nat
  BY Widths
<1>2. piece \in Seq(Bytes) /\ Len(piece) = HEADER_SIZE + Len(data)
  BY PieceFacts
<1>3. /\ g \in Seq(Bytes) /\ at \in Nat /\ at >= Len(file) /\ Len(g) = at + Len(piece)
      /\ \A k \in 1 .. Len(file) : g[k] = file[k]
      /\ \A k \in 1 .. Len(piece) : g[at + k] = piece[k]
  <2>1. piece \in Seq(Bytes) /\ t \in Seq(Bytes)
    BY <1>2
  <2> HIDE DEF piece, t
  <2> QED BY <2>1, JoinThree DEF Longer, piece, t
<1> HIDE DEF piece, g, at, t
<1>4. Len(g) = at + HEADER_SIZE + Len(data) /\ Len(file) <= Len(g)
  BY <1>1, <1>2, <1>3
<1>5. PieceAt(g, at, rtype, data)
  <2>1. at + HEADER_SIZE + Len(data) <= Len(g)
    BY <1>1, <1>3, <1>4
  <2> QED BY <1>2, <1>3, <2>1 DEF PieceAt, piece
<1>6. Prefix(file, g)
  BY <1>3, <1>4 DEF Prefix
<1> QED BY <1>3, <1>4, <1>5, <1>6 DEF g, at, t

\* The reader behind a piece that follows the last one.
LEMMA PieceBehind ==
  ASSUME NEW file \in Seq(Bytes), NEW c, Chain(file, c), c[Len(c)].pos = Len(file),
         NEW rtype \in 1 .. 4, NEW data \in Seq(Bytes), data \in Texts, Len(data) < Power(BYTE, HALF),
         NEW g \in Seq(Bytes), Prefix(file, g), Len(g) = Begin(Len(file)) + HEADER_SIZE + Len(data),
         PieceAt(g, Begin(Len(file)), rtype, data)
  PROVE  LET b == Assemble(c[Len(c)], rtype, data, Len(g))
         IN b \in StateSet /\ b.pos = Len(g) /\ Chain(g, Append(c, b))
<1> DEFINE a == c[Len(c)]
           b == Assemble(a, rtype, data, Len(g))
<1>1. a \in StateSet /\ a.pos = Len(file)
  <2>1. Len(c) \in 1 .. Len(c)
    BY DEF Chain
  <2> QED BY <2>1, ChainFacts
<1>2. b \in StateSet /\ b.pos = Len(g)
  <2>1. Len(g) \in Nat
    OBVIOUS
  <2> QED BY <1>1, <2>1, AssembleFacts
<1>3. Step(g, a, b)
  <2>1. b = Assemble(a, rtype, data, Begin(a.pos) + HEADER_SIZE + Len(data))
    BY <1>1
  <2>2. PieceAt(g, Begin(a.pos), rtype, data)
    BY <1>1
  <2> QED BY <2>1, <2>2 DEF Step
<1>4. Chain(g, Append(c, b))
  <2>1. Len(file) <= Len(g) /\ \A k \in 1 .. Len(file) : g[k] = file[k]
    BY DEF Prefix
  <2> QED BY <1>2, <1>3, <2>1, ChainExtends
<1> QED BY <1>2, <1>4

----------------------------------------------------------------------------
(* The turns of the writer *)

\* A chain that ends where the file does.
Whole(file, c) == Chain(file, c) /\ c[Len(c)].pos = Len(file)

\* The last block of a file is filled up to offset.
Filled(file, offset) == offset \in 0 .. BLOCK_SIZE /\ \E u \in Nat : Len(file) = BLOCK_SIZE * u + offset

\* Data for which a block has room: its length fits the header, and it ends in the block.
LEMMA RoomFacts ==
  ASSUME NEW offset \in 0 .. BLOCK_SIZE, NEW n \in Nat, n <= Room(Start(offset))
  PROVE  n < Power(BYTE, HALF) /\ Start(offset) + HEADER_SIZE + n \in 0 .. BLOCK_SIZE
<1>1. /\ BLOCK_SIZE \in Nat /\ HEADER_SIZE \in Nat /\ BLOCK_SIZE > HEADER_SIZE
      /\ BLOCK_SIZE - HEADER_SIZE < Power(BYTE, HALF) /\ BYTE \in Nat \ {0} /\ HALF \in Nat
  BY BlockAssumption, Widths DEF BlockAssumption
<1>2. Power(BYTE, HALF) \in Nat
  BY <1>1, PowerFacts
<1>3. Start(offset) \in 0 .. BLOCK_SIZE - HEADER_SIZE
  BY <1>1 DEF Start, Fits
<1> QED BY <1>1, <1>2, <1>3 DEF Room

\* One piece more.
LEMMA PieceWritten ==
  ASSUME NEW file \in Seq(Bytes), NEW offset, Filled(file, offset), NEW c, Whole(file, c),
         NEW rtype \in 1 .. 4, NEW data \in Seq(Bytes), data \in Texts, Len(data) <= Room(Start(offset))
  PROVE  LET g == Longer(file, offset, rtype, data)
             b == Assemble(c[Len(c)], rtype, data, Len(g))
         IN /\ g \in Seq(Bytes) /\ b \in StateSet /\ Whole(g, Append(c, b))
            /\ Filled(g, Start(offset) + HEADER_SIZE + Len(data))
<1> DEFINE t == Trailer(offset)
           at == Begin(Len(file))
           room == Start(offset)
           g == Longer(file, offset, rtype, data)
           b == Assemble(c[Len(c)], rtype, data, Len(g))
<1>1. Len(file) \in Nat /\ Len(data) \in Nat /\ HEADER_SIZE \in Nat
  BY Widths
<1>2. PICK q \in Nat : Len(file) = BLOCK_SIZE * q + offset
  BY DEF Filled
<1>3. offset \in 0 .. BLOCK_SIZE
  BY DEF Filled
<1>4. /\ t \in Seq(Bytes) /\ at = Len(file) + Len(t) /\ room \in 0 .. BLOCK_SIZE - HEADER_SIZE
      /\ \E u \in Nat : at = BLOCK_SIZE * u + room
  BY <1>1, <1>2, <1>3, TrailerFacts
<1>5. Len(data) < Power(BYTE, HALF) /\ room + HEADER_SIZE + Len(data) \in 0 .. BLOCK_SIZE
  BY <1>1, <1>3, RoomFacts
<1>6. /\ g \in Seq(Bytes) /\ at \in Nat /\ Len(g) = at + HEADER_SIZE + Len(data)
      /\ Prefix(file, g) /\ PieceAt(g, at, rtype, data)
  <2>1. Trailer(offset) \in Seq(Bytes) /\ at = Len(file) + Len(t)
    BY <1>4
  <2>2. /\ g \in Seq(Bytes) /\ Len(file) + Len(Trailer(offset)) \in Nat
        /\ Len(g) = (Len(file) + Len(Trailer(offset))) + HEADER_SIZE + Len(data)
        /\ Prefix(file, g) /\ PieceAt(g, Len(file) + Len(Trailer(offset)), rtype, data)
    BY <2>1, PieceThere
  <2> HIDE DEF g, at
  <2> QED BY <2>1, <2>2
<1> HIDE DEF g
<1>7. b \in StateSet /\ b.pos = Len(g) /\ Chain(g, Append(c, b))
  <2>1. Chain(file, c) /\ c[Len(c)].pos = Len(file)
    BY DEF Whole
  <2>2. Len(g) = Begin(Len(file)) + HEADER_SIZE + Len(data) /\ PieceAt(g, Begin(Len(file)), rtype, data)
    BY <1>6
  <2> QED BY <1>5, <1>6, <2>1, <2>2, PieceBehind
<1> HIDE DEF b
<1>8. Whole(g, Append(c, b))
  <2>1. c \in Seq(StateSet)
    BY DEF Whole, Chain
  <2>2. Append(c, b)[Len(Append(c, b))] = b
    BY <1>7, <2>1
  <2> QED BY <1>7, <2>2 DEF Whole
<1>9. \E u \in Nat : Len(g) = BLOCK_SIZE * u + (room + HEADER_SIZE + Len(data))
  <2>1. PICK u \in Nat : at = BLOCK_SIZE * u + room
    BY <1>4
  <2> DEFINE m == BLOCK_SIZE * u
  <2>2. m \in Nat /\ BLOCK_SIZE \in Nat
    BY BlockAssumption DEF BlockAssumption
  <2>3. at = m + room /\ room \in Int
    BY <2>1, <2>2, <1>4
  <2> HIDE DEF m, at, room
  <2>4. Len(g) = m + (room + HEADER_SIZE + Len(data))
    BY <1>1, <1>6, <2>2, <2>3
  <2> QED BY <2>4 DEF m
<1>10. Filled(g, room + HEADER_SIZE + Len(data))
  BY <1>5, <1>9 DEF Filled
<1> QED BY <1>6, <1>7, <1>8, <1>10 DEF g, b

\* The states of add_record.
WriterSet ==
  [bytes : Seq(Bytes), offset : 0 .. BLOCK_SIZE, rest : Seq(Bytes), first : BOOLEAN, done : BOOLEAN]

\* What one turn of add_record does.
LEMMA NextPieceFacts ==
  ASSUME NEW w \in WriterSet
  PROVE  LET start == Start(w.offset)
             room == Room(start)
             piece == SubSeq(w.rest, 1, room)
         IN /\ w.done => NextPiece(w) = w
            /\ ~w.done /\ Len(w.rest) <= room =>
                 NextPiece(w) = [bytes |-> Longer(w.bytes, w.offset, IF w.first THEN Full ELSE Last, w.rest),
                                 offset |-> start + HEADER_SIZE + Len(w.rest),
                                 rest |-> From(w.rest, Len(w.rest)), first |-> FALSE, done |-> TRUE]
            /\ ~w.done /\ ~(Len(w.rest) <= room) =>
                 NextPiece(w) = [bytes |-> Longer(w.bytes, w.offset, IF w.first THEN First ELSE Middle, piece),
                                 offset |-> start + HEADER_SIZE + Len(piece),
                                 rest |-> From(w.rest, Len(piece)), first |-> FALSE, done |-> FALSE]
<1>1. w.done \in BOOLEAN /\ w.first \in BOOLEAN
  BY DEF WriterSet
<1>2. w.done => NextPiece(w) = w
  BY DEF NextPiece
<1> DEFINE start == Start(w.offset)
           room == Room(start)
           last == Len(w.rest) <= room
           Made(l, piece) ==
             [bytes |-> Longer(w.bytes, w.offset, PieceType(w.first, l), piece),
              offset |-> start + HEADER_SIZE + Len(piece),
              rest |-> From(w.rest, Len(piece)), first |-> FALSE, done |-> l]
<1>3. ~w.done => NextPiece(w) = Made(last, Piece(w.rest, room))
  BY DEF NextPiece, Longer, Joined
<1>4. last => last = TRUE /\ Piece(w.rest, room) = w.rest
  BY DEF Piece
<1>5. ~last => last = FALSE /\ Piece(w.rest, room) = SubSeq(w.rest, 1, room)
  <2>1. last \in BOOLEAN
    OBVIOUS
  <2>2. ~last => Piece(w.rest, room) = SubSeq(w.rest, 1, room)
    BY DEF Piece
  <2> HIDE DEF last
  <2> QED BY <2>1, <2>2
<1>6. /\ PieceType(w.first, TRUE) = IF w.first THEN Full ELSE Last
      /\ PieceType(w.first, FALSE) = IF w.first THEN First ELSE Middle
  BY DEF PieceType
<1>7. ~w.done /\ last => NextPiece(w) = Made(TRUE, w.rest)
  <2> HIDE DEF Made, last
  <2> QED BY <1>3, <1>4
<1>8. ~w.done /\ ~last => NextPiece(w) = Made(FALSE, SubSeq(w.rest, 1, room))
  <2> HIDE DEF Made, last
  <2> QED BY <1>3, <1>5
<1> QED BY <1>2, <1>6, <1>7, <1>8, Zenon

\* A trailer is bytes, and a header fits behind it.
LEMMA TrailerType ==
  ASSUME NEW offset \in 0 .. BLOCK_SIZE
  PROVE  Trailer(offset) \in Seq(Bytes) /\ Start(offset) \in 0 .. BLOCK_SIZE - HEADER_SIZE
<1>1. BLOCK_SIZE * 0 + offset = offset /\ offset \in Nat /\ 0 \in Nat
  BY BlockAssumption DEF BlockAssumption
<1> QED BY <1>1, TrailerFacts

\* A piece behind the end of a file, and behind that of a longer file.
LEMMA LongerIs ==
  ASSUME NEW file \in Seq(Bytes), NEW bytes \in Seq(Bytes), NEW offset \in 0 .. BLOCK_SIZE,
         NEW rtype \in 1 .. 4, NEW data \in Seq(Bytes)
  PROVE  /\ Longer(bytes, offset, rtype, data) \in Seq(Bytes)
         /\ Joined(file, Longer(bytes, offset, rtype, data)) = Longer(Joined(file, bytes), offset, rtype, data)
<1> DEFINE t == Trailer(offset)
           piece == EncodePiece(rtype, data)
           h == bytes \o t
<1>1. t \in Seq(Bytes) /\ piece \in Seq(Bytes)
  BY TrailerType, PieceFacts
<1> HIDE DEF t, piece
<1>2. h \in Seq(Bytes) /\ file \o h = (file \o bytes) \o t
  BY <1>1, ConcatAssoc, ConcatFacts
<1> HIDE DEF h
<1>3. h \o piece \in Seq(Bytes) /\ file \o (h \o piece) = (file \o h) \o piece
  BY <1>1, <1>2, ConcatAssoc, ConcatFacts
<1> QED BY <1>2, <1>3 DEF Longer, Joined, t, piece, h

\* A turn of add_record stays in its states.
LEMMA NextPieceType ==
  ASSUME NEW w \in WriterSet
  PROVE  NextPiece(w) \in WriterSet
<1> DEFINE start == Start(w.offset)
           room == Room(start)
           piece == SubSeq(w.rest, 1, room)
<1>1. /\ w.bytes \in Seq(Bytes) /\ w.offset \in 0 .. BLOCK_SIZE /\ w.rest \in Seq(Bytes)
      /\ w.first \in BOOLEAN /\ w.done \in BOOLEAN
  BY DEF WriterSet
<1>2. /\ Full \in 1 .. 4 /\ First \in 1 .. 4 /\ Middle \in 1 .. 4 /\ Last \in 1 .. 4
  BY DEF Full, First, Middle, Last
<1>3. ASSUME NEW data \in Seq(Bytes), Len(data) <= room, NEW rtype \in 1 .. 4, NEW d \in BOOLEAN
      PROVE  [bytes |-> Longer(w.bytes, w.offset, rtype, data),
              offset |-> start + HEADER_SIZE + Len(data),
              rest |-> From(w.rest, Len(data)), first |-> FALSE, done |-> d] \in WriterSet
  <2>1. Longer(w.bytes, w.offset, rtype, data) \in Seq(Bytes)
    BY <1>1, <1>3, LongerIs
  <2>2. start + HEADER_SIZE + Len(data) \in 0 .. BLOCK_SIZE
    BY <1>1, <1>3, RoomFacts
  <2>3. From(w.rest, Len(data)) \in Seq(Bytes)
    BY <1>1 DEF From
  <2> QED BY <1>3, <2>1, <2>2, <2>3 DEF WriterSet
<1>4. CASE w.done
  BY <1>4, NextPieceFacts
<1>5. CASE ~w.done /\ Len(w.rest) <= room
  <2> DEFINE rtype == IF w.first THEN Full ELSE Last
  <2>1. rtype \in 1 .. 4
    BY <1>2
  <2>2. NextPiece(w) = [bytes |-> Longer(w.bytes, w.offset, rtype, w.rest),
                        offset |-> start + HEADER_SIZE + Len(w.rest),
                        rest |-> From(w.rest, Len(w.rest)), first |-> FALSE, done |-> TRUE]
    BY <1>5, NextPieceFacts
  <2> HIDE DEF rtype, start, room
  <2> QED BY <1>1, <1>3, <1>5, <2>1, <2>2
<1>6. CASE ~w.done /\ ~(Len(w.rest) <= room)
  <2> DEFINE rtype == IF w.first THEN First ELSE Middle
  <2>1. rtype \in 1 .. 4
    BY <1>2
  <2>2. NextPiece(w) = [bytes |-> Longer(w.bytes, w.offset, rtype, piece),
                        offset |-> start + HEADER_SIZE + Len(piece),
                        rest |-> From(w.rest, Len(piece)), first |-> FALSE, done |-> FALSE]
    BY <1>6, NextPieceFacts
  <2>3. room \in Nat
    <3>1. BLOCK_SIZE \in Nat /\ HEADER_SIZE \in Nat /\ start \in 0 .. BLOCK_SIZE - HEADER_SIZE
      BY <1>1, TrailerType, Widths, BlockAssumption DEF BlockAssumption
    <3> HIDE DEF start
    <3> QED BY <3>1 DEF Room
  <2> HIDE DEF room
  <2>4. piece \in Seq(Bytes) /\ Len(piece) <= room
    <3>1. room \in 0 .. Len(w.rest)
      BY <1>1, <1>6, <2>3
    <3> QED BY <1>1, <3>1
  <2> HIDE DEF rtype, start, piece
  <2> QED BY <1>1, <1>3, <2>1, <2>2, <2>4
<1> QED BY <1>4, <1>5, <1>6

\* Where add_record begins.
FirstTurn(data, offset) == [bytes |-> <<>>, offset |-> offset, rest |-> data, first |-> TRUE, done |-> FALSE]

\* The turns of add_record.
LEMMA WriteRuns ==
  ASSUME NEW data \in Seq(Bytes), NEW offset \in 0 .. BLOCK_SIZE
  PROVE  \E r \in [0 .. Len(data) + 1 -> WriterSet] :
           /\ AddRecord(data, offset) = r[Len(data) + 1]
           /\ r[0] = FirstTurn(data, offset)
           /\ \A n \in 1 .. Len(data) + 1 : r[n] = NextPiece(r[n - 1])
<1> DEFINE N == Len(data) + 1
           start == FirstTurn(data, offset)
           step == [i \in 1 .. N |-> [x \in WriterSet |-> NextPiece(x)]]
           Body(f) == [n \in 0 .. N |->
                         IF n = 0 THEN [bytes |-> <<>>, offset |-> offset, rest |-> data, first |-> TRUE, done |-> FALSE]
                         ELSE NextPiece(f[n - 1])]
           at == CHOOSE f : f = Body(f)
<1>0. N \in Nat /\ 0 .. N = 0 .. Len(data) + 1
  OBVIOUS
<1>1. \A x \in WriterSet : NextPiece(x) \in WriterSet
  BY NextPieceType
<1>2. step \in [1 .. N -> [WriterSet -> WriterSet]]
  <2> HIDE DEF N
  <2> QED BY <1>1
<1>a. start \in WriterSet
  <2>1. <<>> \in Seq(Bytes)
    OBVIOUS
  <2> QED BY <2>1 DEF FirstTurn, WriterSet
<1> HIDE DEF start
<1>3. PICK f \in [0 .. N -> WriterSet] : Recursive(f, N, start, step)
  <2> HIDE DEF step, N
  <2> QED BY <1>0, <1>2, <1>a, RecursionExists
<1>4. 0 \in 0 .. N /\ \A i \in 1 .. N : i \in 0 .. N /\ i # 0 /\ i - 1 \in 0 .. N
  <2> HIDE DEF N, at, Body, step
  <2> QED BY <1>0
<1>5. f = Body(f)
  <2>1. f[0] = start /\ \A i \in 1 .. N : f[i] = step[i][f[i - 1]]
    BY <1>3 DEF Recursive
  <2>2. \A i \in 1 .. N : f[i - 1] \in WriterSet
    <3> HIDE DEF N
    <3> QED BY <1>3, <1>4
  <2>3. \A i \in 1 .. N : f[i] = NextPiece(f[i - 1])
    <3> HIDE DEF N
    <3> QED BY <2>1, <2>2
  <2> HIDE DEF N, step
  <2>4. f \in [0 .. N -> WriterSet]
    BY <1>3
  <2> QED BY <2>1, <2>3, <2>4 DEF start, FirstTurn
<1>6. at = Body(at)
  <2> HIDE DEF Body
  <2> QED BY <1>5
<1>7. AddRecord(data, offset) = at[N]
  BY DEF AddRecord
<1>8. PICK g : AddRecord(data, offset) = g[N] /\ g = Body(g)
  <2> HIDE DEF at, Body, N
  <2> QED BY <1>6, <1>7
<1>9. PICK h : h = g /\ h = Body(g)
  <2> HIDE DEF Body
  <2> QED BY <1>8
<1>10. \A i \in 0 .. N : h[i] = IF i = 0 THEN start ELSE NextPiece(g[i - 1])
  <2> HIDE DEF at, N, step
  <2> QED BY <1>9 DEF start, FirstTurn
<1>11. DOMAIN h = 0 .. N /\ h = [i \in 0 .. N |-> h[i]]
  <2> HIDE DEF at, N, step
  <2> QED BY <1>9
<1>12. h[0] = start /\ \A i \in 1 .. N : h[i] = NextPiece(h[i - 1])
  <2> HIDE DEF at, N, step, Body
  <2> QED BY <1>9, <1>10, <1>4
<1> DEFINE A == {i \in 0 .. N : h[i] \in WriterSet}
<1> HIDE DEF at, N, step, Body
<1>13. 0 .. N \subseteq A
  <2>1. 0 \in A
    BY <1>4, <1>12, <1>a
  <2>2. ASSUME NEW i \in 1 .. N, i - 1 \in A PROVE i \in A
    BY <2>2, <1>1, <1>4, <1>12
  <2> HIDE DEF A
  <2> QED BY <2>1, <2>2, <1>0, CountingUp
<1>14. h \in [0 .. N -> WriterSet]
  BY <1>11, <1>13
<1> QED BY <1>0, <1>8, <1>9, <1>12, <1>14 DEF N, start

\* What the reader has when n turns of add_record are done.
Reached(a, records, data, w, n) ==
  IF w.done THEN a.records = Append(records, data) /\ a.fragment = NoFragment
  ELSE /\ a.records = records
       /\ \E x \in 0 .. Len(data) :
            /\ w.rest = Slice(data, x, Len(data))
            /\ IF n = 0 THEN w.first /\ x = 0
               ELSE /\ ~w.first /\ x < Len(data) /\ x >= n - 1 /\ w.offset = BLOCK_SIZE
                    /\ a.fragment = [open |-> TRUE, data |-> Slice(data, 0, x)]

\* The last piece of a record.
LEMMA LastPiece ==
  ASSUME NEW a \in StateSet, NEW records, NEW data \in Seq(Bytes), NEW w \in WriterSet, NEW n \in Nat,
         Reached(a, records, data, w, n), ~w.done, Len(w.rest) <= Room(Start(w.offset)),
         NEW next \in Nat
  PROVE  LET b == Assemble(a, IF w.first THEN Full ELSE Last, w.rest, next)
         IN b.records = Append(records, data) /\ b.fragment = NoFragment
<1>1. PICK x \in 0 .. Len(data) :
        /\ w.rest = Slice(data, x, Len(data))
        /\ IF n = 0 THEN w.first /\ x = 0
           ELSE /\ ~w.first /\ x < Len(data) /\ x >= n - 1 /\ w.offset = BLOCK_SIZE
                /\ a.fragment = [open |-> TRUE, data |-> Slice(data, 0, x)]
  BY DEF Reached
<1>2. a.records = records
  BY DEF Reached
<1>3. w.rest \in Seq(Bytes) /\ Len(data) \in x .. Len(data) /\ Len(data) \in 0 .. Len(data)
  BY DEF WriterSet
<1>4. CASE n = 0
  <2>1. w.rest = data /\ w.first
    BY <1>1, <1>4, WholeSlice
  <2> QED BY <1>2, <1>3, <2>1, AssembleFull
<1>5. CASE n # 0
  <2>1. ~w.first /\ a.fragment = [open |-> TRUE, data |-> Slice(data, 0, x)]
    BY <1>1, <1>5
  <2>2. a.fragment.open /\ a.fragment.data = Slice(data, 0, x)
    BY <2>1
  <2>3. Slice(data, 0, x) \o Slice(data, x, Len(data)) = Slice(data, 0, Len(data))
    BY <1>3, SliceParts
  <2>4. a.fragment.data \o w.rest = data
    BY <1>1, <2>2, <2>3, WholeSlice
  <2>5. /\ Assemble(a, Last, w.rest, next).records = Append(a.records, a.fragment.data \o w.rest)
        /\ Assemble(a, Last, w.rest, next).fragment = NoFragment
    <3>1. w.rest \in Seq(Bytes) /\ a.fragment.open
      BY <1>3, <2>2
    <3> QED BY <3>1, AssembleLast
  <2> QED BY <1>2, <2>1, <2>4, <2>5
<1> QED BY <1>4, <1>5

\* A piece is a part of the record, and the reader has the record up to its end.
PartOf(data, piece) == \E from, to \in 0 .. Len(data) : piece = Slice(data, from, to)

UpTo(b, records, data, rest, n) ==
  /\ b.records = records
  /\ \E y \in 0 .. Len(data) :
       /\ rest = Slice(data, y, Len(data))
       /\ y < Len(data) /\ y >= n
       /\ b.fragment = [open |-> TRUE, data |-> Slice(data, 0, y)]

\* A piece that others follow.
LEMMA MorePieces ==
  ASSUME NEW a \in StateSet, NEW records, NEW data \in Seq(Bytes), NEW w \in WriterSet, NEW n \in Nat,
         Reached(a, records, data, w, n), ~w.done, ~(Len(w.rest) <= Room(Start(w.offset))),
         NEW next \in Nat
  PROVE  LET room == Room(Start(w.offset))
             piece == SubSeq(w.rest, 1, room)
             b == Assemble(a, IF w.first THEN First ELSE Middle, piece, next)
         IN /\ room \in Nat /\ Len(piece) = room /\ Start(w.offset) + HEADER_SIZE + room = BLOCK_SIZE
            /\ PartOf(data, piece) /\ UpTo(b, records, data, From(w.rest, room), n)
<1> DEFINE room == Room(Start(w.offset))
           piece == SubSeq(w.rest, 1, room)
           b == Assemble(a, IF w.first THEN First ELSE Middle, piece, next)
<1>1. PICK x \in 0 .. Len(data) :
        /\ w.rest = Slice(data, x, Len(data))
        /\ IF n = 0 THEN w.first /\ x = 0
           ELSE /\ ~w.first /\ x < Len(data) /\ x >= n - 1 /\ w.offset = BLOCK_SIZE
                /\ a.fragment = [open |-> TRUE, data |-> Slice(data, 0, x)]
  BY DEF Reached
<1>2. a.records = records
  BY DEF Reached
<1>3. /\ BLOCK_SIZE \in Nat /\ HEADER_SIZE \in Nat \ {0} /\ BLOCK_SIZE > HEADER_SIZE
      /\ Start(w.offset) \in 0 .. BLOCK_SIZE - HEADER_SIZE
  BY TrailerType, Widths, BlockAssumption DEF BlockAssumption, WriterSet
<1>4. room \in Nat /\ Start(w.offset) + HEADER_SIZE + room = BLOCK_SIZE
  BY <1>3 DEF Room
<1>5. n # 0 => room >= 1
  <2>1. n # 0 => w.offset = BLOCK_SIZE
    BY <1>1
  <2>2. w.offset = BLOCK_SIZE => Start(w.offset) = 0
    BY <1>3 DEF Start, Fits
  <2> QED BY <1>3, <2>1, <2>2 DEF Room
<1>6. w.rest \in Seq(Bytes) /\ Len(w.rest) = Len(data) - x
  <2>1. Len(data) \in x .. Len(data)
    OBVIOUS
  <2> QED BY <1>1, <2>1, Sliced
<1>7. ~(Len(w.rest) <= room)
  OBVIOUS
<1> HIDE DEF room
<1> DEFINE y == x + room
<1>8. /\ y \in x .. Len(data) /\ y \in 0 .. Len(data) /\ y < Len(data) /\ y - x = room
      /\ y >= n
  <2>1. n # 0 => x >= n - 1
    BY <1>1
  <2> QED BY <1>4, <1>5, <1>6, <1>7, <2>1
<1> HIDE DEF y
<1>9. /\ From(Slice(data, x, Len(data)), y - x) = Slice(data, y, Len(data))
      /\ SubSeq(Slice(data, x, Len(data)), 1, y - x) = Slice(data, x, y)
      /\ Slice(data, 0, x) \o Slice(data, x, y) = Slice(data, 0, y)
  BY <1>8, SliceParts
<1>10. From(w.rest, room) = Slice(data, y, Len(data)) /\ piece = Slice(data, x, y)
  BY <1>1, <1>8, <1>9
<1>11. piece \in Seq(Bytes) /\ Len(piece) = room
  <2>1. Slice(data, x, y) \in Seq(Bytes) /\ Len(Slice(data, x, y)) = y - x
    BY <1>8, Sliced
  <2> QED BY <1>8, <1>10, <2>1
<1> HIDE DEF piece
<1>12. b.records = records /\ b.fragment = [open |-> TRUE, data |-> Slice(data, 0, y)]
  <2>1. CASE n = 0
    <3>1. w.first /\ Slice(data, 0, x) = <<>> /\ x = 0
      BY <1>1, <2>1, WholeSlice
    <3>2. piece = Slice(data, 0, y)
      BY <1>10, <3>1
    <3>3. b = Assemble(a, First, piece, next)
      BY <3>1
    <3>4. /\ Assemble(a, First, piece, next).records = a.records
          /\ Assemble(a, First, piece, next).fragment = [open |-> TRUE, data |-> piece]
      <4>1. piece \in Seq(Bytes)
        BY <1>11
      <4> QED BY <4>1, AssembleFirst
    <3> HIDE DEF b
    <3> QED BY <1>2, <3>2, <3>3, <3>4
  <2>2. CASE n # 0
    <3>1. ~w.first /\ a.fragment = [open |-> TRUE, data |-> Slice(data, 0, x)]
      BY <1>1, <2>2
    <3>2. a.fragment.open /\ a.fragment.data = Slice(data, 0, x)
      BY <3>1
    <3>3. a.fragment.data \o piece = Slice(data, 0, y)
      BY <1>9, <1>10, <3>2
    <3>4. b = Assemble(a, Middle, piece, next)
      BY <3>1
    <3>5. /\ Assemble(a, Middle, piece, next).records = a.records
          /\ Assemble(a, Middle, piece, next).fragment = [open |-> TRUE, data |-> a.fragment.data \o piece]
      <4>1. piece \in Seq(Bytes) /\ a.fragment.open
        BY <1>11, <3>2
      <4> QED BY <4>1, AssembleMiddle
    <3> HIDE DEF b
    <3> QED BY <1>2, <3>3, <3>4, <3>5
  <2> QED BY <2>1, <2>2
<1> HIDE DEF b
<1>13. PartOf(data, piece)
  BY <1>8, <1>10 DEF PartOf
<1>14. UpTo(b, records, data, From(w.rest, room), n)
  BY <1>8, <1>10, <1>12 DEF UpTo
<1> QED BY <1>4, <1>11, <1>13, <1>14 DEF room, piece, b

\* n turns of add_record are done: the file is whole, and the reader has what they wrote.
Written(file, c, data, w, n) ==
  /\ Filled(Joined(file, w.bytes), w.offset)
  /\ \E d : /\ Whole(Joined(file, w.bytes), d) /\ Prefix(c, d)
            /\ Reached(d[Len(d)], c[Len(c)].records, data, w, n)

\* A chain and one piece more.
LEMMA ChainAppends ==
  ASSUME NEW file, NEW c, NEW g, NEW d, Chain(file, c), Chain(g, d), Prefix(c, d), NEW b \in StateSet
  PROVE  /\ Prefix(c, Append(d, b)) /\ Append(d, b)[Len(Append(d, b))] = b
         /\ d[Len(d)] \in StateSet
<1>1. c \in Seq(StateSet) /\ d \in Seq(StateSet) /\ Len(d) > 0
  BY DEF Chain
<1>2. Append(d, b) \in Seq(StateSet) /\ Len(Append(d, b)) = Len(d) + 1 /\ Append(d, b)[Len(d) + 1] = b
      /\ \A i \in 1 .. Len(d) : Append(d, b)[i] = d[i]
  BY <1>1
<1>3. Prefix(d, Append(d, b))
  BY <1>1, <1>2 DEF Prefix
<1>4. Prefix(c, Append(d, b))
  BY <1>1, <1>2, <1>3, PrefixThrough
<1>5. d[Len(d)] \in StateSet
  BY <1>1
<1> QED BY <1>2, <1>4, <1>5

\* One turn of add_record.
LEMMA WriteStep ==
  ASSUME NEW file \in Seq(Bytes), NEW c, Whole(file, c), NEW data \in Seq(Bytes),
         \A x, y \in 0 .. Len(data) : Slice(data, x, y) \in Texts,
         NEW w \in WriterSet, NEW n \in Nat, Written(file, c, data, w, n)
  PROVE  Written(file, c, data, NextPiece(w), n + 1)
<1> DEFINE v == NextPiece(w)
           h == Joined(file, w.bytes)
           start == Start(w.offset)
           room == Room(start)
           R == c[Len(c)].records
<1> SUFFICES Written(file, c, data, v, n + 1)
  OBVIOUS
<1>1. PICK d : Whole(h, d) /\ Prefix(c, d) /\ Reached(d[Len(d)], R, data, w, n)
  BY DEF Written
<1>2. Filled(h, w.offset)
  BY DEF Written
<1>3. /\ w.bytes \in Seq(Bytes) /\ w.offset \in 0 .. BLOCK_SIZE /\ w.rest \in Seq(Bytes)
      /\ w.first \in BOOLEAN /\ w.done \in BOOLEAN /\ h \in Seq(Bytes)
  BY ConcatFacts DEF WriterSet, Joined
<1> DEFINE a == d[Len(d)]
<1>4. a \in StateSet /\ Chain(h, d) /\ Chain(file, c)
  <2>1. Chain(h, d) /\ Chain(file, c)
    BY <1>1 DEF Whole
  <2>2. d \in Seq(StateSet) /\ Len(d) > 0
    BY <2>1 DEF Chain
  <2> HIDE DEF h
  <2> QED BY <2>1, <2>2
<1> HIDE DEF h
<1>5. ASSUME NEW rtype \in 1 .. 4, NEW piece \in Seq(Bytes), piece \in Texts, Len(piece) <= room,
             v.bytes = Longer(w.bytes, w.offset, rtype, piece),
             v.offset = start + HEADER_SIZE + Len(piece),
             \A next \in Nat : Reached(Assemble(a, rtype, piece, next), R, data, v, n + 1)
      PROVE  Written(file, c, data, v, n + 1)
  <2> DEFINE g == Longer(h, w.offset, rtype, piece)
             b == Assemble(a, rtype, piece, Len(g))
  <2>1. Joined(file, v.bytes) = g
    <3>1. Joined(file, Longer(w.bytes, w.offset, rtype, piece)) = Longer(Joined(file, w.bytes), w.offset, rtype, piece)
      <4> HIDE DEF v, start, room, a, R
      <4> QED BY <1>3, LongerIs
    <3> QED BY <1>5, <3>1 DEF h
  <2>2. /\ g \in Seq(Bytes) /\ b \in StateSet /\ Whole(g, Append(d, b))
        /\ Filled(g, start + HEADER_SIZE + Len(piece))
    <3>1. Len(piece) <= Room(Start(w.offset))
      BY <1>5
    <3> QED BY <1>1, <1>2, <1>3, <1>5, <3>1, PieceWritten
  <2>3. Len(g) \in Nat
    BY <2>2
  <2>4. Reached(b, R, data, v, n + 1)
    BY <1>5, <2>3
  <2> HIDE DEF g, b
  <2>5. Prefix(c, Append(d, b)) /\ Append(d, b)[Len(Append(d, b))] = b
    BY <1>1, <1>4, <2>2, ChainAppends
  <2>6. Filled(Joined(file, v.bytes), v.offset)
    BY <1>5, <2>1, <2>2
  <2>7. Whole(Joined(file, v.bytes), Append(d, b)) /\ Reached(Append(d, b)[Len(Append(d, b))], R, data, v, n + 1)
    BY <2>1, <2>2, <2>4, <2>5
  <2> HIDE DEF v
  <2> QED BY <2>5, <2>6, <2>7 DEF Written
<1>6. /\ Full \in 1 .. 4 /\ First \in 1 .. 4 /\ Middle \in 1 .. 4 /\ Last \in 1 .. 4
  BY DEF Full, First, Middle, Last
<1>7. CASE w.done
  <2>1. v = w
    BY <1>7, NextPieceFacts
  <2>2. Reached(a, R, data, w, n + 1)
    BY <1>1, <1>7 DEF Reached
  <2>3. Written(file, c, data, w, n + 1)
    <3> HIDE DEF v, start, room
    <3> QED BY <1>1, <1>2, <2>2 DEF Written, h
  <2> HIDE DEF v
  <2> QED BY <2>1, <2>3
<1>8. CASE ~w.done /\ Len(w.rest) <= room
  <2> DEFINE rtype == IF w.first THEN Full ELSE Last
  <2>1. rtype \in 1 .. 4
    BY <1>6
  <2>2. v = [bytes |-> Longer(w.bytes, w.offset, rtype, w.rest),
             offset |-> start + HEADER_SIZE + Len(w.rest),
             rest |-> From(w.rest, Len(w.rest)), first |-> FALSE, done |-> TRUE]
    BY <1>8, NextPieceFacts
  <2>3. w.rest \in Texts
    <3>1. \E x \in 0 .. Len(data) : w.rest = Slice(data, x, Len(data))
      BY <1>1, <1>8 DEF Reached
    <3> QED BY <3>1
  <2>4. ASSUME NEW next \in Nat PROVE Reached(Assemble(a, rtype, w.rest, next), R, data, v, n + 1)
    <3>1. /\ Assemble(a, rtype, w.rest, next).records = Append(R, data)
          /\ Assemble(a, rtype, w.rest, next).fragment = NoFragment
      BY <1>1, <1>4, <1>8, LastPiece
    <3>2. v.done
      BY <2>2
    <3> HIDE DEF v
    <3> QED BY <3>1, <3>2 DEF Reached
  <2>5. /\ v.bytes = Longer(w.bytes, w.offset, rtype, w.rest)
        /\ v.offset = start + HEADER_SIZE + Len(w.rest)
    <3> HIDE DEF rtype, v, start, room, a
    <3> QED BY <2>2
  <2> HIDE DEF rtype, v, start, room, a
  <2> QED BY <1>3, <1>5, <1>8, <2>1, <2>3, <2>4, <2>5
<1>9. CASE ~w.done /\ ~(Len(w.rest) <= room)
  <2> DEFINE rtype == IF w.first THEN First ELSE Middle
             piece == SubSeq(w.rest, 1, room)
  <2>1. rtype \in 1 .. 4
    BY <1>6
  <2>2. v = [bytes |-> Longer(w.bytes, w.offset, rtype, piece),
             offset |-> start + HEADER_SIZE + Len(piece),
             rest |-> From(w.rest, Len(piece)), first |-> FALSE, done |-> FALSE]
    BY <1>9, NextPieceFacts
  <2>3. ASSUME NEW next \in Nat
        PROVE  /\ room \in Nat /\ Len(piece) = room /\ start + HEADER_SIZE + room = BLOCK_SIZE
               /\ PartOf(data, piece)
               /\ UpTo(Assemble(a, rtype, piece, next), R, data, From(w.rest, room), n)
    BY <1>1, <1>4, <1>9, MorePieces
  <2>4. /\ room \in Nat /\ Len(piece) = room /\ start + HEADER_SIZE + room = BLOCK_SIZE
        /\ PartOf(data, piece)
    <3>1. 0 \in Nat
      OBVIOUS
    <3> HIDE DEF rtype, v, start, room, a, piece
    <3> QED BY <2>3, <3>1
  <2>5. piece \in Texts
    <3> HIDE DEF piece
    <3> QED BY <2>4 DEF PartOf
  <2>6. piece \in Seq(Bytes)
    <3>1. room \in Nat /\ room <= Len(w.rest)
      <4>1. Len(w.rest) \in Nat
        BY <1>3
      <4> HIDE DEF room
      <4> QED BY <1>9, <2>4, <4>1
    <3> HIDE DEF room
    <3> QED BY <1>3, <3>1
  <2>7. /\ v.bytes = Longer(w.bytes, w.offset, rtype, piece)
        /\ v.offset = start + HEADER_SIZE + Len(piece)
        /\ v.rest = From(w.rest, room) /\ v.first = FALSE /\ v.done = FALSE
    <3> HIDE DEF rtype, v, start, room, a, piece
    <3> QED BY <2>2, <2>4
  <2> HIDE DEF rtype, v, start, room, a, piece
  <2>8. ASSUME NEW next \in Nat PROVE Reached(Assemble(a, rtype, piece, next), R, data, v, n + 1)
    <3>1. UpTo(Assemble(a, rtype, piece, next), R, data, v.rest, n)
      BY <2>3, <2>7
    <3>2. PICK y \in 0 .. Len(data) :
                    /\ v.rest = Slice(data, y, Len(data))
                    /\ y < Len(data) /\ y >= n
                    /\ Assemble(a, rtype, piece, next).fragment = [open |-> TRUE, data |-> Slice(data, 0, y)]
      BY <3>1 DEF UpTo
    <3>5. Assemble(a, rtype, piece, next).records = R
      BY <3>1 DEF UpTo
    <3>3. v.offset = BLOCK_SIZE
      BY <2>4, <2>7
    <3>4. n + 1 # 0 /\ y >= (n + 1) - 1
      BY <3>2
    <3> QED BY <2>7, <3>2, <3>3, <3>4, <3>5 DEF Reached
  <2>9. Len(piece) <= room
    BY <2>4
  <2> QED BY <1>5, <2>1, <2>5, <2>6, <2>7, <2>8, <2>9
<1> QED BY <1>3, <1>7, <1>8, <1>9

\* A record is added: the pieces behind those that are there make it up.
LEMMA RecordAdded ==
  ASSUME NEW file \in Seq(Bytes), NEW offset, Filled(file, offset), NEW c, Whole(file, c),
         NEW data \in Seq(Bytes), \A x, y \in 0 .. Len(data) : Slice(data, x, y) \in Texts
  PROVE  LET r == AddRecord(data, offset)
             g == Joined(file, r.bytes)
         IN /\ r.bytes \in Seq(Bytes) /\ Filled(g, r.offset)
            /\ \E d : /\ Whole(g, d) /\ Prefix(c, d)
                      /\ d[Len(d)].records = Append(c[Len(c)].records, data)
                      /\ d[Len(d)].fragment = NoFragment
<1> DEFINE N == Len(data) + 1
           R == c[Len(c)].records
<1>0. offset \in 0 .. BLOCK_SIZE /\ N \in Nat
  BY DEF Filled
<1>1. PICK t \in [0 .. N -> WriterSet] :
        /\ AddRecord(data, offset) = t[N]
        /\ t[0] = FirstTurn(data, offset)
        /\ \A n \in 1 .. N : t[n] = NextPiece(t[n - 1])
  BY <1>0, WriteRuns
<1> DEFINE A == {n \in 0 .. N : Written(file, c, data, t[n], n)}
<1>2. Written(file, c, data, t[0], 0)
  <2> DEFINE w == FirstTurn(data, offset)
  <2>1. /\ w.bytes = <<>> /\ w.offset = offset /\ w.rest = data /\ w.first = TRUE /\ w.done = FALSE
    BY DEF FirstTurn
  <2>2. Joined(file, <<>>) = file
    BY DEF Joined
  <2>3. Prefix(c, c)
    BY DEF Whole, Chain, Prefix
  <2> HIDE DEF w
  <2>4. Reached(c[Len(c)], R, data, w, 0)
    <3>1. 0 \in 0 .. Len(data) /\ w.rest = Slice(data, 0, Len(data))
      BY <2>1, WholeSlice
    <3> QED BY <2>1, <3>1 DEF Reached
  <2> QED BY <1>1, <2>1, <2>2, <2>3, <2>4 DEF Written, w
<1> HIDE DEF N
<1>3. 0 .. N \subseteq A
  <2>1. 0 \in A
    BY <1>0, <1>2
  <2>2. ASSUME NEW n \in 1 .. N, n - 1 \in A PROVE n \in A
    <3>1. n - 1 \in Nat /\ n - 1 \in 0 .. N /\ n \in 0 .. N /\ (n - 1) + 1 = n
      BY <1>0
    <3>2. t[n - 1] \in WriterSet /\ Written(file, c, data, t[n - 1], n - 1)
      BY <2>2, <3>1
    <3>3. Written(file, c, data, NextPiece(t[n - 1]), (n - 1) + 1)
      BY <3>1, <3>2, WriteStep
    <3>4. t[n] = NextPiece(t[n - 1])
      BY <1>1
    <3>5. Written(file, c, data, t[n], n)
      BY <3>1, <3>3, <3>4
    <3> QED BY <3>1, <3>5
  <2> HIDE DEF A
  <2> QED BY <1>0, <2>1, <2>2, CountingUp
<1> DEFINE r == t[N]
<1>4. r \in WriterSet /\ Written(file, c, data, r, N)
  <2>1. N \in 0 .. N
    BY <1>0
  <2> QED BY <1>1, <1>3, <2>1
<1> HIDE DEF r
<1>5. PICK d : /\ Whole(Joined(file, r.bytes), d) /\ Prefix(c, d)
               /\ Reached(d[Len(d)], R, data, r, N)
  BY <1>4 DEF Written
<1>6. r.done
  <2> SUFFICES ASSUME ~r.done PROVE FALSE
    OBVIOUS
  <2>1. PICK x \in 0 .. Len(data) : IF N = 0 THEN r.first /\ x = 0
                                    ELSE /\ ~r.first /\ x < Len(data) /\ x >= N - 1
    BY <1>5 DEF Reached
  <2>2. N # 0 /\ N - 1 = Len(data)
    BY <1>0 DEF N
  <2>3. x < Len(data) /\ x >= Len(data)
    BY <2>1, <2>2
  <2> QED BY <2>3
<1>7. d[Len(d)].records = Append(R, data) /\ d[Len(d)].fragment = NoFragment
  BY <1>5, <1>6 DEF Reached
<1>8. AddRecord(data, offset) = r /\ r.bytes \in Seq(Bytes) /\ Filled(Joined(file, r.bytes), r.offset)
  BY <1>1, <1>4 DEF r, WriterSet, Written
<1> QED BY <1>5, <1>7, <1>8

\* The records of a file that is whole.
LEMMA ReadWhole ==
  ASSUME NEW file \in Seq(Bytes), NEW c, Whole(file, c)
  PROVE  ReadRecords(file) = c[Len(c)].records
<1>1. Chain(file, c) /\ c[Len(c)].pos = Len(file) /\ Len(file) \in 0 .. Len(file) /\ Len(file) \in Nat
  BY DEF Whole
<1>2. Len(c) \in 1 .. Len(c)
  BY <1>1 DEF Chain
<1>3. PICK j \in 1 .. Len(c) :
        /\ ReadRecords(Remains(file, Len(file), Len(file))) = c[j].records
        /\ \A i \in 1 .. Len(c) : c[i].pos <= Len(file) => i <= j
  BY <1>1, CutReads
<1>4. j = Len(c)
  <2>1. Len(c) <= j
    BY <1>1, <1>2, <1>3
  <2> QED BY <1>2, <2>1
<1>5. Remains(file, Len(file), Len(file)) = file
  <2> DEFINE g == Remains(file, Len(file), Len(file))
  <2>1. /\ g \in Seq(Bytes) /\ Len(g) = Len(file)
        /\ \A k \in 1 .. Len(file) : g[k] = file[k]
    <3>1. PICK m \in 0 .. Len(file) : m = Len(file)
      BY <1>1
    <3>2. m \in m .. Len(file)
      BY <3>1
    <3>3. /\ Remains(file, m, m) \in Seq(Bytes) /\ Len(Remains(file, m, m)) = m
          /\ \A k \in 1 .. m : Remains(file, m, m)[k] = file[k]
      BY <3>2, RemainsFacts
    <3> QED BY <3>1, <3>3
  <2> HIDE DEF g
  <2>2. g = file
    BY <2>1, SameSeq
  <2> QED BY <2>2 DEF g
<1> QED BY <1>3, <1>4, <1>5

\* An empty file is whole.
LEMMA EmptyWhole ==
  /\ <<>> \in Seq(Bytes) /\ Filled(<<>>, 0) /\ Whole(<<>>, <<StartState>>)
  /\ <<StartState>>[Len(<<StartState>>)] = StartState /\ StartState.records = <<>> /\ StartState.fragment = NoFragment
<1>1. Filled(<<>>, 0)
  <2>1. 0 \in 0 .. BLOCK_SIZE /\ BLOCK_SIZE * 0 + 0 = 0
    BY BlockAssumption DEF BlockAssumption
  <2> QED BY <2>1 DEF Filled
<1>2. StartState.pos = 0 /\ StartState.records = <<>> /\ StartState.fragment = NoFragment
  BY DEF StartState
<1> DEFINE s == StartState
<1>3. s \in StateSet
  BY StartType
<1> HIDE DEF s
<1>4. <<s>> \in Seq(StateSet) /\ Len(<<s>>) = 1 /\ <<s>>[1] = s
  BY <1>3
<1>5. Chain(<<>>, <<s>>)
  BY <1>4 DEF Chain, s
<1>6. Whole(<<>>, <<s>>)
  BY <1>2, <1>4, <1>5 DEF Whole, s
<1> QED BY <1>1, <1>2, <1>4, <1>6 DEF s

----------------------------------------------------------------------------
(* Varints and entries *)

\* The least number of a set.
LEMMA MinFacts ==
  ASSUME NEW S \in SUBSET Nat, S # {}
  PROVE  Min(S) \in S /\ \A x \in S : Min(S) <= x
<1>1. \E m \in S : \A x \in S : m <= x
  BY MinExists
<1> QED BY <1>1 DEF Min

\* The bits of an integer of w bytes fit so many groups.
LEMMA GroupsEnough ==
  ASSUME NEW w \in Nat \ {0}
  PROVE  MaxVarintLen(w) \in Nat \ {0} /\ Power(BYTE, w) <= Power(MORE_BIT, MaxVarintLen(w))
<1> DEFINE d == BITS - 1
           bits == BITS * w
           q == bits + BITS - 2
           k == q \div d
           r == q % d
<1>1. BITS \in Nat /\ BITS > 1 /\ d \in Nat \ {0} /\ bits \in Nat /\ bits >= BITS
  <2>1. BITS \in Nat /\ BITS > 1
    BY WidthsAssumption DEF WidthsAssumption
  <2>2. \A x, y \in Nat : x > 0 => y * x \in Nat /\ y * x >= y
    OBVIOUS
  <2> QED BY <2>1, <2>2
<1>2. k = MaxVarintLen(w)
  BY DEF MaxVarintLen
<1>3. q \in Nat /\ q >= BITS
  <2> HIDE DEF bits
  <2> QED BY <1>1
<1>4. k \in Nat /\ r \in 0 .. d - 1 /\ q = d * k + r
  <2> HIDE DEF q, d
  <2> QED BY <1>1, <1>3, DivFacts
<1>5. d * k >= bits /\ d * k \in Nat
  <2> DEFINE m == d * k
  <2>1. m \in Nat /\ r <= BITS - 2 /\ bits + BITS - 2 = m + r /\ r \in Nat
    BY <1>1, <1>4
  <2> HIDE DEF m, d, bits, r
  <2>2. m >= bits
    BY <1>1, <2>1
  <2> QED BY <2>1, <2>2 DEF m
<1>6. k # 0
  <2>1. d * 0 = 0
    BY <1>1
  <2> HIDE DEF d, bits, k
  <2> QED BY <1>1, <1>5, <2>1
<1> HIDE DEF k
<1>7. Power(MORE_BIT, k) = Power(2, d * k)
  BY <1>1, <1>4, PowerProduct DEF MORE_BIT
<1>8. Power(BYTE, w) = Power(2, bits)
  BY <1>1, PowerProduct DEF BYTE
<1>9. Power(2, bits) <= Power(2, d * k)
  <2> HIDE DEF bits, d
  <2>1. \A x \in Nat : x >= bits => Power(2, bits) <= Power(2, x)
    BY <1>1, PowerGrows
  <2> QED BY <1>5, <2>1
<1> QED BY <1>2, <1>4, <1>6, <1>7, <1>8, <1>9

\* The length of a varint.
LEMMA VarintLenFacts ==
  ASSUME NEW w \in {WORD, LONG}, NEW n \in Nat, n < Power(BYTE, w)
  PROVE  /\ VarintLen(n) \in 1 .. MaxVarintLen(w)
         /\ n < Power(MORE_BIT, VarintLen(n))
<1> DEFINE S == {k \in 1 .. MaxVarintLen(LONG) : n < Power(MORE_BIT, k)}
<1>1. /\ WORD \in Nat \ {0} /\ LONG \in Nat \ {0} /\ WORD <= LONG /\ BYTE \in Nat \ {0} /\ MORE_BIT \in Nat \ {0}
      /\ w \in Nat \ {0}
  BY Widths, WidthsAssumption DEF WidthsAssumption
<1>2. /\ MaxVarintLen(w) \in Nat \ {0} /\ Power(BYTE, w) <= Power(MORE_BIT, MaxVarintLen(w))
      /\ MaxVarintLen(LONG) \in Nat \ {0} /\ Power(BYTE, LONG) <= Power(MORE_BIT, MaxVarintLen(LONG))
  BY <1>1, GroupsEnough
<1>3. Power(BYTE, w) <= Power(BYTE, LONG) /\ Power(BYTE, w) \in Nat /\ Power(BYTE, LONG) \in Nat
  <2>1. w \in Nat /\ LONG \in Nat /\ w <= LONG /\ BYTE \in Nat \ {0}
    BY <1>1
  <2> QED BY <2>1, PowerGrows, PowerFacts
<1>4. \A k \in Nat : Power(MORE_BIT, k) \in Nat
  BY <1>1, PowerFacts
<1>5. n < Power(MORE_BIT, MaxVarintLen(w)) /\ n < Power(MORE_BIT, MaxVarintLen(LONG))
  <2>1. Power(MORE_BIT, MaxVarintLen(w)) \in Nat /\ Power(MORE_BIT, MaxVarintLen(LONG)) \in Nat
    BY <1>2, <1>4
  <2> QED BY <1>2, <1>3, <2>1
<1>6. MaxVarintLen(LONG) \in S /\ S \in SUBSET Nat
  BY <1>2, <1>5
<1>7. VarintLen(n) \in S /\ \A k \in S : VarintLen(n) <= k
  <2>1. VarintLen(n) = Min(S)
    BY DEF VarintLen
  <2>2. S # {}
    BY <1>6
  <2> HIDE DEF S
  <2> QED BY <1>6, <2>1, <2>2, MinFacts
<1>8. VarintLen(n) <= MaxVarintLen(w)
  <2>1. CASE MaxVarintLen(w) <= MaxVarintLen(LONG)
    <3>1. MaxVarintLen(w) \in S
      BY <1>2, <1>5, <2>1
    <3> QED BY <1>7, <3>1
  <2>2. CASE ~(MaxVarintLen(w) <= MaxVarintLen(LONG))
    <3>1. VarintLen(n) \in Nat /\ VarintLen(n) <= MaxVarintLen(LONG)
      BY <1>7
    <3> QED BY <1>2, <2>2, <3>1
  <2> QED BY <2>1, <2>2
<1>9. VarintLen(n) \in Nat \ {0} /\ n < Power(MORE_BIT, VarintLen(n))
  BY <1>7
<1> QED BY <1>2, <1>8, <1>9

\* An element of a sequence.
LEMMA Element ==
  ASSUME NEW A, NEW s \in Seq(A), NEW i \in 1 .. Len(s)
  PROVE  s[i] \in A
OBVIOUS

\* The bytes of a varint.
LEMMA VarintBytes ==
  ASSUME NEW w \in {WORD, LONG}, NEW n \in Nat, n < Power(BYTE, w)
  PROVE  LET v == VarintLen(n)
             s == EncodeVarint(n)
             groups == Digits(n, MORE_BIT, v)
         IN /\ s \in Seq(Bytes) /\ Len(s) = v /\ v \in 1 .. MaxVarintLen(w)
            /\ \A i \in 1 .. v : s[i] % MORE_BIT = groups[i] /\ (s[i] < MORE_BIT <=> i = v)
            /\ Groups(s) = n
<1> DEFINE v == VarintLen(n)
           s == EncodeVarint(n)
           groups == Digits(n, MORE_BIT, v)
<1>1. v \in 1 .. MaxVarintLen(w) /\ n < Power(MORE_BIT, v)
  BY VarintLenFacts
<1>2. MORE_BIT \in Nat \ {0} /\ MORE_BIT >= 2 /\ BYTE = 2 * MORE_BIT
  BY Widths
<1>3. v \in Nat \ {0}
  BY <1>1
<1> HIDE DEF v
<1>4. groups \in Seq(0 .. MORE_BIT - 1) /\ Len(groups) = v /\ Value(groups, MORE_BIT) = n % Power(MORE_BIT, v)
  BY <1>2, <1>3, DigitsFacts, DigitsValue
<1>5. DOMAIN groups = 1 .. v /\ groups = [i \in 1 .. v |-> groups[i]]
  BY DEF Digits
<1>6. s = [i \in 1 .. v |-> groups[i] + (IF i < v THEN MORE_BIT ELSE 0)]
  BY DEF EncodeVarint, v
<1> HIDE DEF groups, s
<1>7. ASSUME NEW i \in 1 .. v
      PROVE  /\ s[i] \in Bytes /\ s[i] % MORE_BIT = groups[i] /\ (s[i] < MORE_BIT <=> i = v)
  <2>1. groups[i] \in 0 .. MORE_BIT - 1
    BY <1>3, <1>4, Element
  <2>2. s[i] = groups[i] + (IF i < v THEN MORE_BIT ELSE 0)
    BY <1>6
  <2>3. CASE i < v
    <3>1. s[i] = MORE_BIT * 1 + groups[i] /\ s[i] = MORE_BIT + groups[i]
      BY <1>2, <2>1, <2>2, <2>3
    <3>2. (MORE_BIT * 1 + groups[i]) % MORE_BIT = groups[i]
      BY <1>2, <2>1, DivUnique
    <3>3. s[i] \in 0 .. 2 * MORE_BIT - 1
      BY <1>2, <2>1, <3>1
    <3> QED BY <1>2, <1>3, <2>1, <2>3, <3>1, <3>2, <3>3 DEF Bytes
  <2>4. CASE ~(i < v)
    <3>1. s[i] = MORE_BIT * 0 + groups[i] /\ s[i] = groups[i]
      BY <1>2, <2>1, <2>2, <2>4
    <3>2. (MORE_BIT * 0 + groups[i]) % MORE_BIT = groups[i]
      BY <1>2, <2>1, DivUnique
    <3>3. s[i] \in 0 .. 2 * MORE_BIT - 1
      BY <1>2, <2>1, <3>1
    <3> QED BY <1>2, <1>3, <2>1, <2>4, <3>1, <3>2, <3>3 DEF Bytes
  <2> QED BY <2>3, <2>4
<1>8. s \in Seq(Bytes) /\ Len(s) = v /\ DOMAIN s = 1 .. v
  <2>1. \A i \in 1 .. v : groups[i] + (IF i < v THEN MORE_BIT ELSE 0) \in Bytes
    BY <1>6, <1>7
  <2> QED BY <1>3, <1>6, <2>1
<1>9. Groups(s) = n
  <2>1. [i \in DOMAIN s |-> s[i] % MORE_BIT] = groups
    BY <1>5, <1>7, <1>8
  <2>2. n % Power(MORE_BIT, v) = n
    <3>1. Power(MORE_BIT, v) \in Nat
      BY <1>2, <1>3, PowerFacts
    <3> DEFINE P == Power(MORE_BIT, v)
    <3>2. P \in Nat \ {0} /\ n < P
      BY <1>1, <3>1 DEF v
    <3> HIDE DEF P
    <3>3. n % P = n
      <4>1. n \in 0 .. P - 1
        BY <3>2
      <4>2. (P * 0 + n) % P = n
        BY <3>2, <4>1, DivUnique
      <4>3. P * 0 + n = n
        BY <3>2
      <4> QED BY <4>2, <4>3
    <3> QED BY <3>3 DEF P
  <2> QED BY <1>4, <2>1, <2>2 DEF Groups
<1> QED BY <1>1, <1>7, <1>8, <1>9 DEF v, s, groups

\* An encoded integer is decoded, whatever follows.
LEMMA VarintDecoded ==
  ASSUME NEW w \in {WORD, LONG}, NEW n \in Nat, n < Power(BYTE, w), NEW rest \in Seq(Bytes)
  PROVE  DecodeVarint(Joined(EncodeVarint(n), rest), w) = [ok |-> TRUE, value |-> n, used |-> Len(EncodeVarint(n))]
<1> DEFINE v == VarintLen(n)
           s == EncodeVarint(n)
           buf == Joined(s, rest)
           limit == Min({Len(buf), MaxVarintLen(w)})
           S == {i \in 1 .. limit : buf[i] < MORE_BIT}
<1>1. /\ s \in Seq(Bytes) /\ Len(s) = v /\ v \in 1 .. MaxVarintLen(w)
      /\ \A i \in 1 .. v : s[i] < MORE_BIT <=> i = v
      /\ Groups(s) = n
  BY VarintBytes
<1>2. MaxVarintLen(w) \in Nat /\ v \in Nat \ {0}
  <2>1. w \in Nat \ {0}
    BY Widths
  <2>2. MaxVarintLen(w) \in Nat
    BY <2>1, GroupsEnough
  <2> QED BY <1>1, <2>2
<1> HIDE DEF v, s
<1>3. /\ buf \in Seq(Bytes) /\ Len(buf) = v + Len(rest) /\ Len(rest) \in Nat
      /\ \A i \in 1 .. v : buf[i] = s[i]
  BY <1>1 DEF Joined
<1> HIDE DEF buf
<1>4. limit \in Nat /\ limit >= v
  <2> DEFINE L == {Len(buf), MaxVarintLen(w)}
  <2>1. L \in SUBSET Nat /\ L # {} /\ \A x \in L : x >= v
    BY <1>1, <1>2, <1>3
  <2> HIDE DEF L
  <2>2. Min(L) \in L
    BY <2>1, MinFacts
  <2> QED BY <2>1, <2>2 DEF L
<1> HIDE DEF limit
<1>5. v \in S /\ \A i \in S : v <= i
  <2>1. v \in S
    BY <1>1, <1>2, <1>3, <1>4
  <2>2. ASSUME NEW i \in S PROVE v <= i
    <3>1. i \in 1 .. limit /\ buf[i] < MORE_BIT
      OBVIOUS
    <3>2. i < v => i \in 1 .. v /\ ~(s[i] < MORE_BIT)
      BY <1>1, <1>2, <3>1
    <3>3. i < v => buf[i] = s[i]
      BY <1>3, <3>2
    <3> QED BY <1>2, <3>1, <3>2, <3>3
  <2> QED BY <2>1, <2>2
<1>6. Min(S) = v
  <2>1. S \in SUBSET Nat /\ S # {}
    BY <1>4, <1>5
  <2> HIDE DEF S
  <2>2. Min(S) \in S /\ \A x \in S : Min(S) <= x
    BY <2>1, MinFacts
  <2>3. Min(S) \in Nat /\ v \in Nat /\ Min(S) <= v /\ v <= Min(S)
    BY <1>2, <1>5, <2>1, <2>2
  <2> QED BY <2>3
<1>7. S # {}
  BY <1>5
<1>8. DecodeVarint(buf, w) = VarintOf(buf, v, w)
  <2>1. DecodeVarint(buf, w) = VarintUpTo(buf, S, w)
    BY DEF DecodeVarint, limit
  <2> HIDE DEF S
  <2> QED BY <1>6, <1>7, <2>1 DEF VarintUpTo
<1>9. SubSeq(buf, 1, v) = s
  <2> DEFINE t == SubSeq(buf, 1, v)
  <2>1. t \in Seq(Bytes) /\ Len(t) = v /\ \A i \in 1 .. v : t[i] = buf[i]
    <3>1. v \in 0 .. Len(buf)
      BY <1>2, <1>3
    <3> QED BY <1>3, <3>1
  <2>2. \A i \in 1 .. Len(t) : t[i] = s[i]
    BY <1>3, <2>1
  <2> HIDE DEF t
  <2> QED BY <1>1, <2>1, <2>2, SameSeq DEF t
<1>10. n % Power(BYTE, w) = n
  <2> DEFINE P == Power(BYTE, w)
  <2>1. P \in Nat \ {0} /\ n < P
    <3>1. BYTE \in Nat \ {0} /\ w \in Nat
      BY Widths
    <3> QED BY <3>1, PowerFacts
  <2> HIDE DEF P
  <2>2. n \in 0 .. P - 1
    BY <2>1
  <2>3. (P * 0 + n) % P = n
    BY <2>1, <2>2, DivUnique
  <2>4. P * 0 + n = n
    BY <2>1
  <2> QED BY <2>3, <2>4 DEF P
<1>11. VarintOf(buf, v, w) = [ok |-> TRUE, value |-> n, used |-> v]
  BY <1>1, <1>9, <1>10 DEF VarintOf
<1> QED BY <1>1, <1>8, <1>11 DEF buf, s

\* Joined in either order.
LEMMA JoinedAssoc ==
  ASSUME NEW a \in Seq(Bytes), NEW b \in Seq(Bytes), NEW c \in Seq(Bytes)
  PROVE  Joined(Joined(a, b), c) = Joined(a, Joined(b, c))
BY ConcatAssoc DEF Joined

\* The elements of two sequences in one.
LEMMA JoinedFacts ==
  ASSUME NEW s \in Seq(Bytes), NEW t \in Seq(Bytes)
  PROVE  /\ Joined(s, t) \in Seq(Bytes) /\ Len(Joined(s, t)) = Len(s) + Len(t)
         /\ \A i \in 1 .. Len(s) : Joined(s, t)[i] = s[i]
         /\ \A i \in 1 .. Len(t) : Joined(s, t)[Len(s) + i] = t[i]
         /\ Joined(s, <<>>) = s
BY ConcatFacts DEF Joined

\* The parts of two sequences in one.
LEMMA JoinedParts ==
  ASSUME NEW s \in Seq(Bytes), NEW t \in Seq(Bytes)
  PROVE  From(Joined(s, t), Len(s)) = t
<1> DEFINE j == Joined(s, t)
           a == From(j, Len(s))
<1>0. Len(s) \in Nat /\ Len(t) \in Nat
  OBVIOUS
<1>1. /\ j \in Seq(Bytes) /\ Len(j) = Len(s) + Len(t) /\ Len(s) \in Nat /\ Len(t) \in Nat
      /\ \A i \in 1 .. Len(t) : j[Len(s) + i] = t[i]
  BY <1>0, JoinedFacts
<1> HIDE DEF j
<1>2. a \in Seq(Bytes) /\ Len(a) = Len(t) /\ \A i \in 1 .. Len(t) : a[i] = j[Len(s) + i]
  BY <1>1 DEF From
<1>3. \A i \in 1 .. Len(a) : a[i] = t[i]
  BY <1>1, <1>2
<1> HIDE DEF a
<1> QED BY <1>2, <1>3, SameSeq DEF a, j

\* Bytes behind their length are decoded, whatever follows.
LEMMA PrefixedDecoded ==
  ASSUME NEW s \in Seq(Bytes), Len(s) < Power(BYTE, WORD), NEW rest \in Seq(Bytes)
  PROVE  /\ Prefixed(s) \in Seq(Bytes)
         /\ DecodePrefixed(Joined(Prefixed(s), rest)) = [ok |-> TRUE, value |-> s, used |-> Len(Prefixed(s))]
<1> DEFINE n == Len(s)
           len == EncodeVarint(n)
           u == Len(len)
           tail == Joined(s, rest)
           buf == Joined(len, tail)
<1>1. n \in Nat /\ len \in Seq(Bytes) /\ u \in Nat
  <2>1. n \in Nat /\ n < Power(BYTE, WORD) /\ WORD \in {WORD, LONG}
    OBVIOUS
  <2> HIDE DEF n
  <2>2. len \in Seq(Bytes)
    BY <2>1, VarintBytes
  <2> HIDE DEF len
  <2> QED BY <2>1, <2>2
<1>2. Prefixed(s) = Joined(len, s)
  BY DEF Prefixed, Joined
<1> HIDE DEF len
<1>3. Prefixed(s) \in Seq(Bytes) /\ Len(Prefixed(s)) = u + n
  BY <1>1, <1>2, JoinedFacts
<1>4. tail \in Seq(Bytes) /\ Len(tail) = n + Len(rest) /\ \A i \in 1 .. n : tail[i] = s[i]
  BY JoinedFacts
<1> HIDE DEF tail
<1>5. /\ buf \in Seq(Bytes) /\ Len(buf) = u + Len(tail)
      /\ \A i \in 1 .. Len(tail) : buf[u + i] = tail[i]
  BY <1>1, <1>4, JoinedFacts
<1>6. Joined(Prefixed(s), rest) = buf
  BY <1>1, <1>2, JoinedAssoc DEF tail
<1>7. DecodeVarint(buf, WORD) = [ok |-> TRUE, value |-> n, used |-> u]
  <2>1. n \in Nat /\ n < Power(BYTE, WORD) /\ WORD \in {WORD, LONG}
    BY <1>1
  <2> HIDE DEF n
  <2>2. DecodeVarint(Joined(EncodeVarint(n), tail), WORD) = [ok |-> TRUE, value |-> n, used |-> Len(EncodeVarint(n))]
    BY <1>4, <2>1, VarintDecoded
  <2> QED BY <2>2 DEF len
<1> HIDE DEF buf
<1>8. Slice(buf, u, u + n) = s
  <2> DEFINE a == Slice(buf, u, u + n)
  <2>1. Len(rest) \in Nat /\ u + n <= Len(buf)
    BY <1>1, <1>4, <1>5
  <2>2. a \in Seq(Bytes) /\ Len(a) = n /\ \A i \in 1 .. n : a[i] = buf[u + i]
    <3>1. PICK f \in 0 .. Len(buf) : f = u
      <4> HIDE DEF n, u
      <4> QED BY <1>1, <1>4, <1>5, <2>1
    <3>4. PICK t \in f .. Len(buf) : t = u + n
      <4> HIDE DEF n, u
      <4> QED BY <1>1, <1>4, <1>5, <2>1, <3>1
    <3>2. t - f = n
      <4> HIDE DEF n, u
      <4> QED BY <1>1, <3>1, <3>4
    <3>3. /\ Slice(buf, f, t) \in Seq(Bytes) /\ Len(Slice(buf, f, t)) = t - f
          /\ \A i \in 1 .. t - f : Slice(buf, f, t)[i] = buf[f + i]
      BY <1>5, Sliced
    <3> HIDE DEF n, u
    <3> QED BY <3>1, <3>2, <3>3, <3>4
  <2>3. ASSUME NEW i \in 1 .. n PROVE a[i] = s[i]
    <3>1. i \in 1 .. Len(tail)
      BY <1>1, <1>4, <2>1
    <3>2. a[i] = buf[u + i]
      BY <2>2
    <3> HIDE DEF a
    <3> QED BY <1>4, <1>5, <3>1, <3>2
  <2> HIDE DEF a
  <2> QED BY <2>2, <2>3, SameSeq DEF a
<1>9. DecodePrefixed(buf) = [ok |-> TRUE, value |-> s, used |-> u + n]
  <2> DEFINE l == [ok |-> TRUE, value |-> n, used |-> u]
  <2>1. DecodePrefixed(buf) = PrefixedBehind(buf, l)
    BY <1>7 DEF DecodePrefixed
  <2>2. l.ok = TRUE /\ l.used = u /\ l.value = n
    OBVIOUS
  <2>3. ~(u + n > Len(buf))
    <3>1. Len(rest) \in Nat
      OBVIOUS
    <3> HIDE DEF n, u
    <3> QED BY <1>1, <1>4, <1>5, <3>1
  <2> HIDE DEF l, n, u
  <2>4. PrefixedBehind(buf, l) = [ok |-> TRUE, value |-> Slice(buf, u, u + n), used |-> u + n]
    BY <2>2, <2>3 DEF PrefixedBehind
  <2> QED BY <1>8, <2>1, <2>4
<1> QED BY <1>3, <1>6, <1>9

\* Two decoders, one behind the other.
LEMMA ReadTwo ==
  ASSUME NEW kind1, NEW kind2, NEW buf
  PROVE  Read(<<kind1, kind2>>, buf)
           = ReadNext(ReadNext([ok |-> TRUE, values |-> <<>>, rest |-> buf], kind1), kind2)
<1> DEFINE kinds == <<kind1, kind2>>
           start == [ok |-> TRUE, values |-> <<>>, rest |-> buf]
           Body(f) == [i \in 0 .. Len(kinds) |-> IF i = 0 THEN [ok |-> TRUE, values |-> <<>>, rest |-> buf]
                                                 ELSE ReadNext(f[i - 1], kinds[i])]
           at == CHOOSE f : f = Body(f)
           one == ReadNext(start, kind1)
           two == ReadNext(one, kind2)
           f0 == [i \in 0 .. 2 |-> IF i = 0 THEN start ELSE IF i = 1 THEN one ELSE two]
<1>1. Read(kinds, buf) = at[Len(kinds)]
  BY DEF Read
<1>2. Len(kinds) = 2 /\ kinds[1] = kind1 /\ kinds[2] = kind2
  OBVIOUS
<1>3. f0 = Body(f0)
  <2>1. f0[0] = start /\ f0[1] = one /\ f0[2] = two
    <3> HIDE DEF start, one, two
    <3> QED OBVIOUS
  <2>2. f0 = [i \in 0 .. 2 |-> f0[i]]
    <3> HIDE DEF start, one, two
    <3> QED OBVIOUS
  <2> HIDE DEF f0
  <2>3. Body(f0) = [i \in 0 .. 2 |-> IF i = 0 THEN start ELSE ReadNext(f0[i - 1], kinds[i])]
    <3> HIDE DEF kinds
    <3> QED BY <1>2
  <2>4. ASSUME NEW i \in 0 .. 2 PROVE f0[i] = IF i = 0 THEN start ELSE ReadNext(f0[i - 1], kinds[i])
    <3>1. CASE i = 0
      <4> HIDE DEF start
      <4> QED BY <2>1, <3>1
    <3>2. CASE i = 1
      <4>1. i - 1 = 0 /\ i # 0
        BY <3>2
      <4> HIDE DEF start, kinds
      <4> QED BY <1>2, <2>1, <3>2, <4>1
    <3>3. CASE i = 2
      <4>1. i - 1 = 1 /\ i # 0
        BY <3>3
      <4> HIDE DEF start, one, kinds
      <4> QED BY <1>2, <2>1, <3>3, <4>1
    <3> QED BY <3>1, <3>2, <3>3
  <2> HIDE DEF Body, start, kinds
  <2> QED BY <2>2, <2>3, <2>4
<1>4. at = Body(at)
  <2> HIDE DEF Body
  <2> QED BY <1>3
<1> HIDE DEF at
<1>5. PICK g : g = at /\ g = Body(at)
  <2> HIDE DEF Body
  <2> QED BY <1>4
<1>6. g[0] = start /\ g[1] = ReadNext(g[0], kind1) /\ g[2] = ReadNext(g[1], kind2)
  <2>1. g = [i \in 0 .. 2 |-> IF i = 0 THEN start ELSE ReadNext(at[i - 1], kinds[i])]
    <3> HIDE DEF kinds
    <3> QED BY <1>2, <1>5
  <2> HIDE DEF Body, start, kinds
  <2>2. g[0] = start /\ g[1] = ReadNext(at[0], kinds[1]) /\ g[2] = ReadNext(at[1], kinds[2])
    BY <2>1
  <2> QED BY <1>2, <1>5, <2>2
<1> HIDE DEF Body, kinds
<1> QED BY <1>1, <1>2, <1>5, <1>6 DEF kinds

\* The front of an encoded entry.
EntryHead(seq, vtype) == Joined(<<vtype>>, Fixed(seq, LONG))

\* A part that lies in the first of two sequences.
LEMMA JoinedSlice ==
  ASSUME NEW s \in Seq(Bytes), NEW t \in Seq(Bytes), NEW x \in 0 .. Len(s), NEW y \in x .. Len(s)
  PROVE  Slice(Joined(s, t), x, y) = Slice(s, x, y)
<1> DEFINE j == Joined(s, t)
           a == Slice(j, x, y)
           b == Slice(s, x, y)
<1>0. Len(s) \in Nat /\ Len(t) \in Nat
  OBVIOUS
<1>1. j \in Seq(Bytes) /\ Len(j) = Len(s) + Len(t) /\ \A i \in 1 .. Len(s) : j[i] = s[i]
  BY JoinedFacts
<1> HIDE DEF j
<1>2. x \in 0 .. Len(j) /\ y \in x .. Len(j)
  BY <1>0, <1>1
<1>3. a \in Seq(Bytes) /\ Len(a) = y - x /\ \A i \in 1 .. y - x : a[i] = j[x + i]
  BY <1>1, <1>2, Sliced
<1>4. b \in Seq(Bytes) /\ Len(b) = y - x /\ \A i \in 1 .. y - x : b[i] = s[x + i]
  BY Sliced
<1> HIDE DEF a, b
<1>5. \A i \in 1 .. y - x : x + i \in 1 .. Len(s)
  BY <1>0
<1>6. \A i \in 1 .. Len(a) : a[i] = b[i]
  BY <1>1, <1>3, <1>4, <1>5
<1> QED BY <1>3, <1>4, <1>6, SameSeq DEF a, b, j

\* The front of an entry has its type and its sequence number.
LEMMA HeadFacts ==
  ASSUME NEW seq \in Nat, seq < Power(BYTE, LONG), NEW vtype \in {Put, Delete}
  PROVE  LET head == EntryHead(seq, vtype)
         IN /\ head \in Seq(Bytes) /\ Len(head) = FOOTER_LEN /\ FOOTER_LEN \in Nat /\ FOOTER_LEN >= 1
            /\ head[1] = vtype /\ Unfixed(Slice(head, 1, FOOTER_LEN)) = seq
<1> DEFINE one == <<vtype>>
           f == Fixed(seq, LONG)
           head == EntryHead(seq, vtype)
<1>1. LONG \in Nat \ {0}
  BY Widths
<1>2. f \in Seq(Bytes) /\ Len(f) = LONG /\ Unfixed(f) = seq
  BY <1>1, FixedFacts DEF Bytes
<1>3. vtype \in Bytes
  BY Widths DEF Put, Delete, Bytes
<1>4. one \in Seq(Bytes) /\ Len(one) = 1 /\ one[1] = vtype
  BY <1>3
<1> HIDE DEF one, f
<1>5. /\ head \in Seq(Bytes) /\ Len(head) = 1 + LONG
      /\ head[1] = vtype /\ \A i \in 1 .. LONG : head[1 + i] = f[i]
  <2>1. /\ Joined(one, f) \in Seq(Bytes) /\ Len(Joined(one, f)) = Len(one) + Len(f)
        /\ \A i \in 1 .. Len(one) : Joined(one, f)[i] = one[i]
        /\ \A i \in 1 .. Len(f) : Joined(one, f)[Len(one) + i] = f[i]
    BY <1>2, <1>4, JoinedFacts
  <2>2. head = Joined(one, f)
    BY DEF EntryHead, one, f
  <2> HIDE DEF head
  <2> QED BY <1>1, <1>2, <1>4, <2>1, <2>2
<1> HIDE DEF head
<1>6. Slice(head, 1, FOOTER_LEN) = f
  <2> DEFINE a == Slice(head, 1, FOOTER_LEN)
  <2>1. 1 \in 0 .. Len(head) /\ FOOTER_LEN \in 1 .. Len(head) /\ FOOTER_LEN - 1 = LONG
    BY <1>1, <1>5 DEF FOOTER_LEN
  <2>2. a \in Seq(Bytes) /\ Len(a) = FOOTER_LEN - 1 /\ \A i \in 1 .. FOOTER_LEN - 1 : a[i] = head[1 + i]
    BY <1>5, <2>1, Sliced
  <2> HIDE DEF a
  <2>3. \A i \in 1 .. Len(a) : a[i] = f[i]
    BY <1>5, <2>1, <2>2
  <2> QED BY <1>2, <2>1, <2>2, <2>3, SameSeq DEF a
<1> QED BY <1>1, <1>2, <1>5, <1>6 DEF FOOTER_LEN, head

\* What two decoders of bytes read.
LEMMA TwoRead ==
  ASSUME NEW s \in Seq(Bytes), Len(s) < Power(BYTE, WORD), NEW t \in Seq(Bytes), Len(t) < Power(BYTE, WORD)
  PROVE  LET parts == Read(<<"bytes", "bytes">>, Joined(Prefixed(s), Prefixed(t)))
         IN parts.ok = TRUE /\ parts.values[1] = s /\ parts.values[2] = t
<1> DEFINE ps == Prefixed(s)
           pt == Prefixed(t)
           buf == Joined(ps, pt)
           start == [ok |-> TRUE, values |-> <<>>, rest |-> buf]
           one == [ok |-> TRUE, values |-> <<s>>, rest |-> pt]
           r1 == [ok |-> TRUE, value |-> s, used |-> Len(ps)]
           r2 == [ok |-> TRUE, value |-> t, used |-> Len(pt)]
<1>1. pt \in Seq(Bytes) /\ ps \in Seq(Bytes)
  <2>1. <<>> \in Seq(Bytes)
    OBVIOUS
  <2> QED BY <2>1, PrefixedDecoded
<1>2. DecodePrefixed(buf) = r1
  BY <1>1, PrefixedDecoded
<1>3. DecodePrefixed(pt) = r2
  <2>1. <<>> \in Seq(Bytes)
    OBVIOUS
  <2>2. Joined(pt, <<>>) = pt
    BY <1>1, <2>1, JoinedFacts
  <2>3. DecodePrefixed(Joined(Prefixed(t), <<>>)) = r2
    BY <2>1, PrefixedDecoded
  <2> QED BY <2>2, <2>3
<1>4. From(buf, Len(ps)) = pt
  BY <1>1, JoinedParts
<1> HIDE DEF ps, pt, buf
<1>5. ReadNext(start, "bytes") = one
  <2>1. start.ok = TRUE /\ start.rest = buf /\ start.values = <<>>
    OBVIOUS
  <2>2. r1.ok = TRUE /\ r1.value = s /\ r1.used = Len(ps)
    OBVIOUS
  <2>3. ReadPart("bytes", buf) = r1
    BY <1>2 DEF ReadPart
  <2>4. Append(<<>>, s) = <<s>>
    OBVIOUS
  <2> HIDE DEF start, r1
  <2>5. ReadNext(start, "bytes") = ReadBehind(start, r1)
    BY <2>1, <2>3 DEF ReadNext
  <2>6. ReadBehind(start, r1) = [ok |-> TRUE, values |-> Append(<<>>, s), rest |-> From(buf, Len(ps))]
    BY <2>1, <2>2 DEF ReadBehind
  <2> QED BY <1>4, <2>4, <2>5, <2>6
<1> DEFINE two == [ok |-> TRUE, values |-> Append(<<s>>, t), rest |-> From(pt, Len(pt))]
<1>6. ReadNext(one, "bytes") = two
  <2>1. one.ok = TRUE /\ one.rest = pt /\ one.values = <<s>>
    OBVIOUS
  <2>2. r2.ok = TRUE /\ r2.value = t /\ r2.used = Len(pt)
    OBVIOUS
  <2>3. ReadPart("bytes", pt) = r2
    BY <1>3 DEF ReadPart
  <2> HIDE DEF one, r2
  <2>5. ReadNext(one, "bytes") = ReadBehind(one, r2)
    BY <2>1, <2>3 DEF ReadNext
  <2>6. ReadBehind(one, r2) = [ok |-> TRUE, values |-> Append(<<s>>, t), rest |-> From(pt, Len(pt))]
    BY <2>1, <2>2 DEF ReadBehind
  <2> QED BY <2>5, <2>6
<1>7. Read(<<"bytes", "bytes">>, buf) = two
  <2>1. Read(<<"bytes", "bytes">>, buf) = ReadNext(ReadNext(start, "bytes"), "bytes")
    BY ReadTwo
  <2> HIDE DEF start, one, two
  <2> QED BY <1>5, <1>6, <2>1
<1>8. two.ok = TRUE /\ two.values[1] = s /\ two.values[2] = t
  <2>1. <<s>> \in Seq(Seq(Bytes)) /\ t \in Seq(Bytes)
    OBVIOUS
  <2>2. Append(<<s>>, t)[1] = s /\ Append(<<s>>, t)[2] = t
    BY <2>1
  <2> QED BY <2>2
<1> HIDE DEF two
<1> QED BY <1>7, <1>8 DEF buf, ps, pt

\* What is written of an entry is its entry when it is read.
LEMMA EntryDecoded ==
  ASSUME NEW user \in Seq(Bytes), Len(user) < Power(BYTE, WORD),
         NEW value \in Seq(Bytes), Len(value) < Power(BYTE, WORD),
         NEW seq \in Nat, seq < Power(BYTE, LONG), NEW vtype \in {Put, Delete}
  PROVE  LET e == Entry(user, seq, vtype, value)
         IN EncodeEntry(e) \in Seq(Bytes) /\ DecodeEntry(EncodeEntry(e)) = [ok |-> TRUE, entry |-> e]
<1> DEFINE e == Entry(user, seq, vtype, value)
           head == EntryHead(seq, vtype)
           pu == Prefixed(user)
           pv == Prefixed(value)
           tail == Joined(pu, pv)
           data == Joined(head, tail)
           parts == Read(<<"bytes", "bytes">>, tail)
<1>1. e.user = user /\ e.seq = seq /\ e.vtype = vtype /\ e.value = value
  BY DEF Entry
<1>2. EncodeEntry(e) = Joined(Joined(head, pu), pv)
  <2> HIDE DEF e
  <2> QED BY <1>1 DEF EncodeEntry, Joined, EntryHead
<1>3. /\ head \in Seq(Bytes) /\ Len(head) = FOOTER_LEN /\ FOOTER_LEN \in Nat /\ FOOTER_LEN >= 1
      /\ head[1] = vtype /\ Unfixed(Slice(head, 1, FOOTER_LEN)) = seq
  BY HeadFacts
<1>4. pu \in Seq(Bytes) /\ pv \in Seq(Bytes)
  <2>1. <<>> \in Seq(Bytes)
    OBVIOUS
  <2> QED BY <2>1, PrefixedDecoded
<1>5. parts.ok = TRUE /\ parts.values[1] = user /\ parts.values[2] = value
  BY TwoRead
<1> HIDE DEF head, pu, pv
<1>6. tail \in Seq(Bytes)
  BY <1>4, JoinedFacts
<1>7. EncodeEntry(e) = data
  BY <1>2, <1>3, <1>4, JoinedAssoc
<1> HIDE DEF tail, parts
<1>8. /\ data \in Seq(Bytes) /\ Len(data) = Len(head) + Len(tail)
      /\ \A i \in 1 .. Len(head) : data[i] = head[i]
  BY <1>3, <1>6, JoinedFacts
<1>9. From(data, FOOTER_LEN) = tail
  BY <1>3, <1>6, JoinedParts
<1>10. Slice(data, 1, FOOTER_LEN) = Slice(head, 1, FOOTER_LEN)
  <2>1. 1 \in 0 .. Len(head) /\ FOOTER_LEN \in 1 .. Len(head)
    BY <1>3
  <2> QED BY <1>3, <1>6, <2>1, JoinedSlice
<1> HIDE DEF data
<1>11. Len(data) \in Nat /\ ~(Len(data) < FOOTER_LEN) /\ Head(data) = vtype
  <2>1. Len(tail) \in Nat
    BY <1>6
  <2>2. Len(data) \in Nat /\ ~(Len(data) < FOOTER_LEN) /\ Len(data) >= 1
    BY <1>3, <1>8, <2>1
  <2>3. data[1] = vtype
    BY <1>3, <1>8
  <2>4. Head(data) = data[1]
    BY <1>8, <2>2
  <2> QED BY <2>2, <2>3, <2>4
<1>12. DecodeEntry(data) = EntryOf(data, Read(<<"bytes", "bytes">>, From(data, FOOTER_LEN)))
  BY <1>11 DEF DecodeEntry
<1>13. DecodeEntry(data) = EntryOf(data, parts)
  BY <1>9, <1>12 DEF parts
<1>14. EntryOf(data, parts) = [ok |-> TRUE, entry |-> e]
  <2>1. EntryOf(data, parts) = [ok |-> TRUE,
          entry |-> [user |-> parts.values[1], seq |-> Unfixed(Slice(data, 1, FOOTER_LEN)),
                     vtype |-> Head(data), value |-> parts.values[2]]]
    BY <1>5 DEF EntryOf
  <2> QED BY <1>3, <1>5, <1>10, <1>11, <2>1 DEF Entry
<1> HIDE DEF e
<1> QED BY <1>7, <1>8, <1>13, <1>14 DEF e

----------------------------------------------------------------------------
(* The entries of a log *)

\* The sequence number of a write fits its field, of LONG bytes.
LEMMA NumbersFit ==
  ASSUME NEW seq \in DOMAIN Values
  PROVE  seq \in Nat /\ seq < Power(BYTE, LONG)
<1>1. Values \in Seq(SUBSET Seq(0..(BYTE - 1))) /\ Len(Values) < Power(BYTE, LONG)
  BY WritesAssumption
<1>2. Len(Values) \in Nat /\ seq \in 1 .. Len(Values)
  BY <1>1
<1>3. Power(BYTE, LONG) \in Nat
  <2>1. BYTE \in Nat \ {0} /\ LONG \in Nat
    BY Widths
  <2> QED BY <2>1, PowerFacts
<1> QED BY <1>1, <1>2, <1>3

\* A value is a sequence of bytes, and its length fits its field.
LEMMA ValueFacts ==
  ASSUME NEW seq \in DOMAIN Values, NEW value \in Values[seq]
  PROVE  value \in Seq(Bytes) /\ Len(value) < Power(BYTE, WORD)
<1>1. /\ Values \in Seq(SUBSET Seq(Bytes))
      /\ \A i \in DOMAIN Values : \A v \in Values[i] : Len(v) < Power(BYTE, WORD)
  BY WritesAssumption DEF Bytes
<1>2. Values[seq] \in SUBSET Seq(Bytes)
  <2>1. seq \in 1 .. Len(Values)
    BY <1>1
  <2> QED BY <1>1, <2>1, Element
<1> QED BY <1>1, <1>2

\* The internal key of an entry.
KeyOf(e) == InternalKey(e.user, e.seq, e.vtype)

\* Every part of the data may be in a piece.
Sliceable(data) == \A x, y \in 0 .. Len(data) : Slice(data, x, y) \in Texts

\* An entry that is written reads back, and its pieces are texts of the log.
LEMMA WritableFacts ==
  ASSUME NEW e \in Writable
  PROVE  /\ EncodeEntry(e) \in Seq(Bytes) /\ Sliceable(EncodeEntry(e))
         /\ DecodeEntry(EncodeEntry(e)) = [ok |-> TRUE, entry |-> e]
         /\ e.seq \in DOMAIN Values /\ e.user \in Seq(Bytes) /\ e.vtype \in {Put, Delete} /\ e.value \in Seq(Bytes)
<1>1. PICK user, seq, vtype, value :
        /\ user \in Users /\ seq \in DOMAIN Values /\ vtype \in {Put, Delete}
        /\ value = <<>> \/ value \in Values[seq]
        /\ e = Entry(user, seq, vtype, value)
  BY DEF Writable, Puts, Deletes
<1>2. user \in Seq(Bytes) /\ Len(user) < Power(BYTE, WORD)
  BY <1>1, WritesAssumption DEF Bytes
<1>3. value \in Seq(Bytes) /\ Len(value) < Power(BYTE, WORD)
  <2>1. CASE value = <<>>
    <3>1. <<>> \in Seq(Bytes) /\ Len(<<>>) = 0
      OBVIOUS
    <3>2. Power(BYTE, WORD) \in Nat \ {0}
      <4>1. BYTE \in Nat \ {0} /\ WORD \in Nat
        BY Widths
      <4> QED BY <4>1, PowerFacts
    <3> QED BY <2>1, <3>1, <3>2
  <2>2. CASE value \in Values[seq]
    BY <1>1, <2>2, ValueFacts
  <2> QED BY <1>1, <2>1, <2>2
<1>4. seq \in Nat /\ seq < Power(BYTE, LONG)
  BY <1>1, NumbersFit
<1>5. e.seq = seq /\ e.user = user /\ e.vtype = vtype /\ e.value = value
  BY <1>1 DEF Entry
<1>6. e = Entry(user, seq, vtype, value)
  BY <1>1
<1>7. EncodeEntry(e) \in Seq(Bytes) /\ DecodeEntry(EncodeEntry(e)) = [ok |-> TRUE, entry |-> e]
  <2>1. /\ EncodeEntry(Entry(user, seq, vtype, value)) \in Seq(Bytes)
        /\ DecodeEntry(EncodeEntry(Entry(user, seq, vtype, value))) = [ok |-> TRUE, entry |-> Entry(user, seq, vtype, value)]
    BY <1>1, <1>2, <1>3, <1>4, EntryDecoded
  <2> QED BY <1>6, <2>1
<1>8. Sliceable(EncodeEntry(e))
  <2> DEFINE data == EncodeEntry(e)
             all == {EncodeEntry(f) : f \in Writable}
             parts(s) == {Slice(s, x, y) : x, y \in 0..Len(s)}
             families == {parts(s) : s \in all}
  <2>1. data \in all
    OBVIOUS
  <2> HIDE DEF data, all
  <2>2. Texts = UNION families
    BY DEF Texts, all
  <2>3. ASSUME NEW x \in 0 .. Len(data), NEW y \in 0 .. Len(data) PROVE Slice(data, x, y) \in Texts
    <3>1. Slice(data, x, y) \in parts(data)
      OBVIOUS
    <3> HIDE DEF parts
    <3>2. parts(data) \in families
      BY <2>1
    <3> HIDE DEF families
    <3> QED BY <2>2, <3>1, <3>2
  <2> QED BY <2>3 DEF Sliceable, data
<1> QED BY <1>1, <1>2, <1>3, <1>5, <1>7, <1>8

\* Records are what was written of entries.
Encode(records, entries) ==
  /\ records \in Seq(Seq(Bytes)) /\ Len(records) <= Len(entries)
  /\ \A i \in 1 .. Len(records) : records[i] = EncodeEntry(entries[i])

\* Such records decode to the entries.
LEMMA RecordsDecode ==
  ASSUME NEW entries \in Seq(Writable), NEW records, Encode(records, entries)
  PROVE  LET decoded == DecodeAll(records)
         IN Len(decoded) = Len(records) /\ DecodesTo(decoded, SubSeq(entries, 1, Len(records)))
<1> DEFINE decoded == DecodeAll(records)
           n == Len(records)
           first == SubSeq(entries, 1, n)
<1>1. records \in Seq(Seq(Bytes)) /\ n \in 0 .. Len(entries) /\ n \in Nat /\ DOMAIN records = 1 .. n
  BY DEF Encode
<1>2. \A i \in 1 .. n : records[i] = EncodeEntry(entries[i]) /\ i \in 1 .. Len(entries)
  BY <1>1 DEF Encode
<1>3. decoded = [i \in 1 .. n |-> DecodeEntry(records[i])]
  BY <1>1 DEF DecodeAll
<1> HIDE DEF decoded, n
<1>4. ASSUME NEW i \in 1 .. n PROVE decoded[i] = [ok |-> TRUE, entry |-> entries[i]]
  <2>1. i \in 1 .. Len(entries)
    BY <1>2
  <2>2. entries[i] \in Writable
    BY <2>1, Element
  <2>3. DecodeEntry(EncodeEntry(entries[i])) = [ok |-> TRUE, entry |-> entries[i]]
    BY <2>2, WritableFacts
  <2>4. decoded[i] = DecodeEntry(records[i])
    BY <1>3
  <2>5. records[i] = EncodeEntry(entries[i])
    BY <1>2
  <2> QED BY <2>3, <2>4, <2>5
<1>5. DOMAIN decoded = 1 .. n /\ Len(decoded) = n
  BY <1>1, <1>3
<1>6. AllDecode(decoded)
  <2>1. ASSUME NEW i \in 1 .. n PROVE decoded[i].ok = TRUE
    <3>1. decoded[i] = [ok |-> TRUE, entry |-> entries[i]]
      BY <1>4
    <3> QED BY <3>1
  <2> QED BY <1>5, <2>1 DEF AllDecode
<1>7. first \in Seq(Writable) /\ Len(first) = n /\ \A i \in 1 .. n : first[i] = entries[i]
  BY <1>1
<1> HIDE DEF first
<1>8. EntriesIn(decoded) = [i \in 1 .. n |-> first[i]]
  <2>1. EntriesIn(decoded) = [i \in 1 .. n |-> decoded[i].entry]
    BY <1>5 DEF EntriesIn
  <2>2. ASSUME NEW i \in 1 .. n PROVE decoded[i].entry = first[i]
    <3>1. decoded[i] = [ok |-> TRUE, entry |-> entries[i]]
      BY <1>4
    <3> QED BY <1>7, <3>1
  <2> QED BY <2>1, <2>2
<1>9. first = [i \in 1 .. n |-> first[i]]
  BY <1>7
<1> QED BY <1>5, <1>6, <1>8, <1>9 DEF DecodesTo, first, n, decoded

\* Every mark is the end of a step of the chain, behind which its record is read.
Marked(c, marks) ==
  \A i \in 1 .. Len(marks) : \E k \in 1 .. Len(c) : c[k].pos = marks[i] /\ i <= Len(c[k].records)

\* The chain through a file reads what was written of the entries.
Logged(file, c, entries, marks) ==
  /\ Whole(file, c) /\ Marked(c, marks)
  /\ Encode(c[Len(c)].records, entries) /\ Len(c[Len(c)].records) = Len(entries)

\* A file is the log of entries, and marks are where their records end.
LogOf(file, offset, entries, marks) ==
  /\ file \in Seq(Bytes) /\ Filled(file, offset)
  /\ entries \in Seq(Writable) /\ marks \in Seq(Nat) /\ Len(marks) = Len(entries)
  /\ \E c : Logged(file, c, entries, marks)

\* What a reader finds of the log: the first entries, with all that end by m.
Recovers(decoded, entries, marks, m) ==
  /\ Len(decoded) \in 0 .. Len(entries)
  /\ DecodesTo(decoded, SubSeq(entries, 1, Len(decoded)))
  /\ \A i \in 1 .. Len(marks) : marks[i] <= m => i <= Len(decoded)

\* The last state of a chain.
LEMMA LastOfChain ==
  ASSUME NEW file \in Seq(Bytes), NEW c, Chain(file, c)
  PROVE  Len(c) \in 1 .. Len(c) /\ c[Len(c)] \in StateSet /\ c[Len(c)].records \in Seq(Seq(Bytes))
<1>1. Len(c) \in Nat \ {0}
  BY DEF Chain
<1>2. Len(c) \in 1 .. Len(c)
  BY <1>1
<1>3. c[Len(c)] \in StateSet
  BY <1>2, ChainFacts
<1> QED BY <1>2, <1>3 DEF StateSet

\* An empty file is the log of nothing.
LEMMA LogEmpty == LogOf(<<>>, 0, <<>>, <<>>)
<1> DEFINE c == <<StartState>>
<1>1. /\ <<>> \in Seq(Bytes) /\ Filled(<<>>, 0) /\ Whole(<<>>, c)
      /\ c[Len(c)].records = <<>>
  BY EmptyWhole
<1>2. <<>> \in Seq(Writable) /\ <<>> \in Seq(Nat) /\ Len(<<>>) = 0 /\ <<>> \in Seq(Seq(Bytes))
  OBVIOUS
<1> HIDE DEF c
<1>3. Marked(c, <<>>) /\ Encode(c[Len(c)].records, <<>>) /\ Len(c[Len(c)].records) = Len(<<>>)
  BY <1>1, <1>2 DEF Marked, Encode
<1> QED BY <1>1, <1>2, <1>3 DEF LogOf, Logged

\* The record of an entry behind a log makes it the log of one more entry.
LEMMA LogExtended ==
  ASSUME NEW file, NEW offset, NEW entries, NEW marks, LogOf(file, offset, entries, marks),
         NEW e \in Writable
  PROVE  LET r == AddRecord(EncodeEntry(e), offset)
         IN /\ r.bytes \in Seq(Bytes)
            /\ LogOf(Joined(file, r.bytes), r.offset, Append(entries, e), Append(marks, Len(file) + Len(r.bytes)))
<1> DEFINE data == EncodeEntry(e)
           r == AddRecord(data, offset)
           g == Joined(file, r.bytes)
           es == Append(entries, e)
           ms == Append(marks, Len(file) + Len(r.bytes))
<1>1. /\ file \in Seq(Bytes) /\ Filled(file, offset)
      /\ entries \in Seq(Writable) /\ marks \in Seq(Nat) /\ Len(marks) = Len(entries)
  BY DEF LogOf
<1>2. PICK c : Logged(file, c, entries, marks)
  BY DEF LogOf
<1>3. Whole(file, c) /\ Marked(c, marks) /\ Encode(c[Len(c)].records, entries) /\ Len(c[Len(c)].records) = Len(entries)
  BY <1>2 DEF Logged
<1>4. data \in Seq(Bytes) /\ \A x, y \in 0 .. Len(data) : Slice(data, x, y) \in Texts
  BY WritableFacts DEF Sliceable
<1> HIDE DEF data
<1>5. /\ r.bytes \in Seq(Bytes) /\ Filled(g, r.offset)
      /\ \E d : /\ Whole(g, d) /\ Prefix(c, d)
                /\ d[Len(d)].records = Append(c[Len(c)].records, data)
                /\ d[Len(d)].fragment = NoFragment
  BY <1>1, <1>3, <1>4, RecordAdded
<1> HIDE DEF r
<1>6. PICK d : Whole(g, d) /\ Prefix(c, d) /\ d[Len(d)].records = Append(c[Len(c)].records, data)
  BY <1>5
<1>7. g \in Seq(Bytes) /\ Len(g) = Len(file) + Len(r.bytes)
  BY <1>1, <1>5, JoinedFacts
<1> HIDE DEF g
<1>8. /\ es \in Seq(Writable) /\ Len(es) = Len(entries) + 1 /\ es[Len(entries) + 1] = e
      /\ \A i \in 1 .. Len(entries) : es[i] = entries[i]
  BY <1>1
<1>9. /\ ms \in Seq(Nat) /\ Len(ms) = Len(marks) + 1 /\ ms[Len(marks) + 1] = Len(g)
      /\ \A i \in 1 .. Len(marks) : ms[i] = marks[i]
  <2>1. Len(g) \in Nat /\ ms = Append(marks, Len(g))
    BY <1>7
  <2> QED BY <1>1, <2>1
<1> HIDE DEF es, ms
<1> DEFINE old == c[Len(c)].records
           new == d[Len(d)].records
<1>10. /\ Len(d) \in 1 .. Len(d) /\ Len(c) \in Nat /\ Len(c) <= Len(d) /\ \A i \in 1 .. Len(c) : d[i] = c[i]
       /\ d[Len(d)].pos = Len(g) /\ old \in Seq(Seq(Bytes))
  <2>1. Chain(g, d) /\ Chain(file, c) /\ d[Len(d)].pos = Len(g)
    BY <1>3, <1>6 DEF Whole
  <2>2. Len(d) \in 1 .. Len(d)
    BY <1>7, <2>1, LastOfChain
  <2>3. Len(c) \in 1 .. Len(c) /\ old \in Seq(Seq(Bytes))
    BY <1>1, <2>1, LastOfChain
  <2>4. Len(c) \in Nat
    BY <2>3
  <2> QED BY <1>6, <2>1, <2>2, <2>3, <2>4 DEF Prefix
<1>11. /\ new \in Seq(Seq(Bytes)) /\ Len(new) = Len(old) + 1 /\ new[Len(old) + 1] = data
       /\ \A i \in 1 .. Len(old) : new[i] = old[i]
  <2>1. new = Append(old, data)
    BY <1>6
  <2> HIDE DEF new, old
  <2> QED BY <1>4, <1>10, <2>1
<1>12. Len(old) = Len(entries) /\ \A i \in 1 .. Len(old) : old[i] = EncodeEntry(entries[i])
  BY <1>3 DEF Encode
<1>13. Len(entries) \in Nat
  BY <1>1
<1>14. Marked(d, ms)
  <2> SUFFICES ASSUME NEW i \in 1 .. Len(ms)
               PROVE  \E k \in 1 .. Len(d) : d[k].pos = ms[i] /\ i <= Len(d[k].records)
    BY DEF Marked
  <2>1. CASE i \in 1 .. Len(marks)
    <3>1. PICK k \in 1 .. Len(c) : c[k].pos = marks[i] /\ i <= Len(c[k].records)
      BY <1>3, <2>1 DEF Marked
    <3>2. k \in 1 .. Len(d)
      BY <1>10
    <3>3. d[k] = c[k]
      BY <1>10
    <3> QED BY <1>9, <2>1, <3>1, <3>2, <3>3
  <2>2. CASE i = Len(marks) + 1
    <3>1. ms[i] = Len(g) /\ i <= Len(new)
      <4> HIDE DEF new, old
      <4> QED BY <1>1, <1>9, <1>11, <1>12, <1>13, <2>2
    <3> QED BY <1>10, <3>1
  <2>3. Len(marks) \in Nat
    BY <1>1
  <2> QED BY <1>9, <2>1, <2>2, <2>3
<1> HIDE DEF old
<1>15. Encode(new, es) /\ Len(new) = Len(es)
  <2> HIDE DEF new
  <2>1. Len(new) = Len(es)
    BY <1>8, <1>11, <1>12
  <2>2. ASSUME NEW i \in 1 .. Len(new) PROVE new[i] = EncodeEntry(es[i])
    <3>1. CASE i \in 1 .. Len(old)
      <4>1. new[i] = old[i] /\ old[i] = EncodeEntry(entries[i]) /\ es[i] = entries[i]
        BY <1>8, <1>11, <1>12, <3>1
      <4> QED BY <4>1
    <3>2. CASE i = Len(old) + 1
      <4>1. new[i] = data /\ es[i] = e
        BY <1>8, <1>11, <1>12, <3>2
      <4> QED BY <4>1 DEF data
    <3> QED BY <1>11, <1>12, <1>13, <3>1, <3>2
  <2>3. Len(new) <= Len(es)
    BY <1>8, <1>13, <2>1
  <2> QED BY <1>11, <2>1, <2>2, <2>3 DEF Encode
<1>16. Logged(g, d, es, ms)
  BY <1>6, <1>14, <1>15 DEF Logged
<1>17. LogOf(g, r.offset, es, ms)
  BY <1>1, <1>5, <1>7, <1>8, <1>9, <1>16 DEF LogOf
<1> QED BY <1>5, <1>17 DEF g, r, data, es, ms

\* What is read up to a step of the chain.
LEMMA ReadUpTo ==
  ASSUME NEW file \in Seq(Bytes), NEW entries \in Seq(Writable), NEW marks \in Seq(Nat),
         NEW c, Logged(file, c, entries, marks), NEW m \in Nat, NEW j \in 1 .. Len(c),
         \A i \in 1 .. Len(c) : c[i].pos <= m => i <= j
  PROVE  Recovers(DecodeAll(c[j].records), entries, marks, m)
<1> DEFINE last == c[Len(c)].records
           r == c[j].records
<1>1. Whole(file, c) /\ Marked(c, marks) /\ Encode(last, entries) /\ Chain(file, c)
  BY DEF Logged, Whole
<1>2. Len(c) \in Nat /\ Len(c) \in j .. Len(c)
  BY <1>1 DEF Chain
<1>3. Prefix(r, last)
  BY <1>1, <1>2, ChainGrows
<1>4. c[j] \in StateSet
  BY <1>1, ChainFacts
<1>5. r \in Seq(Seq(Bytes))
  BY <1>4 DEF StateSet
<1> HIDE DEF last, r
<1>6. Encode(r, entries)
  <2>1. /\ last \in Seq(Seq(Bytes)) /\ Len(last) <= Len(entries)
        /\ \A i \in 1 .. Len(last) : last[i] = EncodeEntry(entries[i])
    BY <1>1 DEF Encode
  <2>2. Len(r) <= Len(last) /\ \A i \in 1 .. Len(r) : r[i] = last[i]
    BY <1>3 DEF Prefix
  <2>3. Len(r) \in Nat /\ Len(last) \in Nat /\ Len(entries) \in Nat
    BY <1>5, <2>1
  <2>4. Len(r) <= Len(entries)
    BY <2>1, <2>2, <2>3
  <2>5. ASSUME NEW i \in 1 .. Len(r) PROVE r[i] = EncodeEntry(entries[i])
    <3>1. i \in 1 .. Len(last)
      BY <2>2, <2>3
    <3>2. r[i] = last[i]
      BY <2>2
    <3> QED BY <2>1, <3>1, <3>2
  <2> QED BY <1>5, <2>4, <2>5 DEF Encode
<1>7. Len(DecodeAll(r)) = Len(r) /\ DecodesTo(DecodeAll(r), SubSeq(entries, 1, Len(r)))
  BY <1>6, RecordsDecode
<1>8. ASSUME NEW i \in 1 .. Len(marks), marks[i] <= m PROVE i <= Len(r)
  <2>1. PICK k \in 1 .. Len(c) : c[k].pos = marks[i] /\ i <= Len(c[k].records)
    BY <1>1 DEF Marked
  <2>2. k <= j
    BY <1>8, <2>1
  <2>3. j \in k .. Len(c)
    BY <1>2, <2>2
  <2>4. Prefix(c[k].records, c[j].records)
    BY <1>1, <2>3, ChainGrows
  <2>5. c[k] \in StateSet
    BY <1>1, ChainFacts
  <2>6. Len(c[k].records) \in Nat
    BY <2>5 DEF StateSet
  <2>7. Len(r) \in Nat /\ Len(c[k].records) <= Len(r)
    BY <1>5, <2>4 DEF Prefix, r
  <2> QED BY <2>1, <2>6, <2>7
<1>9. Len(r) \in 0 .. Len(entries)
  BY <1>6 DEF Encode
<1>10. Recovers(DecodeAll(r), entries, marks, m)
  BY <1>7, <1>8, <1>9 DEF Recovers
<1> QED BY <1>10 DEF r

\* The log is read back whole.
LEMMA LogRead ==
  ASSUME NEW file, NEW offset, NEW entries, NEW marks, LogOf(file, offset, entries, marks)
  PROVE  DecodesTo(DecodeAll(ReadRecords(file)), entries)
<1>1. file \in Seq(Bytes) /\ entries \in Seq(Writable)
  BY DEF LogOf
<1>2. PICK c : Logged(file, c, entries, marks)
  BY DEF LogOf
<1> DEFINE r == c[Len(c)].records
<1>3. Whole(file, c) /\ Encode(r, entries) /\ Len(r) = Len(entries)
  BY <1>2 DEF Logged
<1>4. ReadRecords(file) = r
  BY <1>1, <1>3, ReadWhole
<1> HIDE DEF r
<1>5. DecodesTo(DecodeAll(r), SubSeq(entries, 1, Len(r)))
  BY <1>1, <1>3, RecordsDecode
<1>6. SubSeq(entries, 1, Len(entries)) = entries
  BY <1>1
<1> QED BY <1>3, <1>4, <1>5, <1>6

\* A log cut at any byte gives its first entries.
LEMMA LogCut ==
  ASSUME NEW file, NEW offset, NEW entries, NEW marks, LogOf(file, offset, entries, marks),
         NEW m \in 0 .. Len(file)
  PROVE  Recovers(DecodeAll(ReadRecords(Remains(file, m, m))), entries, marks, m)
<1>1. file \in Seq(Bytes) /\ entries \in Seq(Writable) /\ marks \in Seq(Nat)
  BY DEF LogOf
<1>2. PICK c : Logged(file, c, entries, marks)
  BY DEF LogOf
<1>3. Chain(file, c) /\ c[Len(c)].pos = Len(file)
  BY <1>2 DEF Logged, Whole
<1>4. PICK j \in 1 .. Len(c) :
        /\ ReadRecords(Remains(file, m, m)) = c[j].records
        /\ \A i \in 1 .. Len(c) : c[i].pos <= m => i <= j
  BY <1>1, <1>3, CutReads
<1>5. m \in Nat
  OBVIOUS
<1>6. Recovers(DecodeAll(c[j].records), entries, marks, m)
  BY <1>1, <1>2, <1>4, <1>5, ReadUpTo
<1> QED BY <1>4, <1>6

\* So does a log that has zeros behind the cut.
LEMMA LogLoss ==
  ASSUME ChecksumNoticesLoss,
         NEW file, NEW offset, NEW entries, NEW marks, LogOf(file, offset, entries, marks),
         NEW m \in 0 .. Len(file)
  PROVE  Recovers(DecodeAll(ReadRecords(Remains(file, m, Len(file)))), entries, marks, m)
<1>1. file \in Seq(Bytes) /\ entries \in Seq(Writable) /\ marks \in Seq(Nat)
  BY DEF LogOf
<1>2. PICK c : Logged(file, c, entries, marks)
  BY DEF LogOf
<1>3. Chain(file, c) /\ c[Len(c)].pos = Len(file)
  BY <1>2 DEF Logged, Whole
<1>4. PICK j \in 1 .. Len(c) :
        /\ ReadRecords(Remains(file, m, Len(file))) = c[j].records
        /\ \A i \in 1 .. Len(c) : c[i].pos <= m => i <= j
  BY <1>1, <1>3, LossReads
<1>5. m \in Nat
  OBVIOUS
<1>6. Recovers(DecodeAll(c[j].records), entries, marks, m)
  BY <1>1, <1>2, <1>4, <1>5, ReadUpTo
<1> QED BY <1>4, <1>6

----------------------------------------------------------------------------
(* The log of the machine *)

\* The end of a sequence that is made longer.
LEMMA TailAppend ==
  ASSUME NEW A, NEW s \in Seq(A), NEW e \in A, NEW k \in 0 .. Len(s)
  PROVE  SubSeq(Append(s, e), k + 1, Len(s) + 1) = Append(SubSeq(s, k + 1, Len(s)), e)
<1> DEFINE n == Len(s)
           longer == Append(s, e)
           tail == SubSeq(s, k + 1, n)
           a == SubSeq(longer, k + 1, n + 1)
           b == Append(tail, e)
<1>1. n \in Nat /\ k \in 0 .. n
  OBVIOUS
<1>2. /\ longer \in Seq(A) /\ Len(longer) = n + 1 /\ longer[n + 1] = e
      /\ \A i \in 1 .. n : longer[i] = s[i]
  OBVIOUS
<1>3. tail \in Seq(A) /\ Len(tail) = n - k /\ \A i \in 1 .. n - k : tail[i] = s[k + i]
  OBVIOUS
<1> HIDE DEF n, longer, tail
<1>4. a \in Seq(A) /\ Len(a) = n + 1 - k /\ \A i \in 1 .. n + 1 - k : a[i] = longer[k + i]
  BY <1>1, <1>2
<1>5. /\ b \in Seq(A) /\ Len(b) = n - k + 1 /\ b[n - k + 1] = e
      /\ \A i \in 1 .. n - k : b[i] = tail[i]
  BY <1>1, <1>3
<1> HIDE DEF a, b
<1>6. ASSUME NEW i \in 1 .. Len(a) PROVE a[i] = b[i]
  <2>1. CASE i \in 1 .. n - k
    <3>1. k + i \in 1 .. n /\ i \in 1 .. n + 1 - k
      BY <1>1, <2>1
    <3> QED BY <1>2, <1>3, <1>4, <1>5, <2>1, <3>1
  <2>2. CASE i = n - k + 1
    <3>1. k + i = n + 1 /\ i \in 1 .. n + 1 - k
      BY <1>1, <2>2
    <3> QED BY <1>2, <1>4, <1>5, <2>2, <3>1
  <2> QED BY <1>1, <1>4, <2>1, <2>2
<1>7. Len(a) = Len(b)
  BY <1>1, <1>4, <1>5
<1>8. a = b
  BY <1>4, <1>5, <1>6, <1>7, SameSeq
<1> QED BY <1>8 DEF a, b, longer, tail, n

\* The front of the end of a sequence.
LEMMA FrontOfTail ==
  ASSUME NEW A, NEW s \in Seq(A), NEW a \in 0 .. Len(s), NEW k \in 0 .. Len(s) - a
  PROVE  SubSeq(SubSeq(s, a + 1, Len(s)), 1, k) = SubSeq(s, a + 1, a + k)
OBVIOUS

\* The end of a sequence.
LEMMA TailFacts ==
  ASSUME NEW A, NEW s \in Seq(A), NEW a \in 0 .. Len(s)
  PROVE  LET t == SubSeq(s, a + 1, Len(s))
         IN /\ t \in Seq(A) /\ Len(t) = Len(s) - a
            /\ \A i \in 1 .. Len(s) - a : t[i] = s[a + i]
OBVIOUS

\* The operations whose records the log holds.
InLog == Writes(Saved + 1, lastSeq)

\* Operations are numbered from 1.
InOrder(s) == s \in Seq(Writable) /\ \A i \in 1 .. Len(s) : s[i].seq = i

\* The inductive invariant: the log is the log of the last operations.
LogInv ==
  /\ InOrder(history)
  /\ lastSeq = Len(history) /\ Len(history) <= Len(Values)
  /\ Len(ends) <= lastSeq
  /\ LogOf(wal, walOffset, InLog, ends)

\* The operations in the log are those behind the saved sequence number.
LEMMA SavedFacts ==
  ASSUME LogInv
  PROVE  /\ lastSeq \in Nat /\ Len(ends) \in Nat /\ Saved \in 0 .. Len(history) /\ Len(ends) = Len(history) - Saved
         /\ Len(Values) \in Nat /\ DOMAIN Values = 1 .. Len(Values)
         /\ history \in Seq(Writable) /\ InLog \in Seq(Writable) /\ Len(InLog) = Len(ends)
         /\ \A i \in 1 .. Len(ends) : InLog[i] = history[Saved + i]
<1>1. history \in Seq(Writable) /\ lastSeq = Len(history) /\ Len(ends) <= lastSeq /\ ends \in Seq(Nat)
  BY DEF LogInv, InOrder, LogOf
<1>2. lastSeq \in Nat /\ Len(ends) \in Nat /\ Saved \in 0 .. Len(history) /\ Len(ends) = Len(history) - Saved
  BY <1>1 DEF Saved
<1>3. InLog = SubSeq(history, Saved + 1, Len(history))
  BY <1>1 DEF InLog, Writes
<1>4. InLog \in Seq(Writable) /\ Len(InLog) = Len(ends) /\ \A i \in 1 .. Len(ends) : InLog[i] = history[Saved + i]
  BY <1>1, <1>2, <1>3, TailFacts
<1>5. Len(Values) \in Nat /\ DOMAIN Values = 1 .. Len(Values)
  BY WritesAssumption
<1> QED BY <1>1, <1>2, <1>4, <1>5

\* A new log holds nothing.
LEMMA FreshLogInv ==
  ASSUME FreshLog, InOrder(history'), lastSeq' = Len(history'), Len(history') <= Len(Values)
  PROVE  LogInv' /\ InLog' = <<>>
<1>1. wal' = <<>> /\ walOffset' = 0 /\ ends' = <<>>
  BY DEF FreshLog
<1>2. Len(history') \in Nat /\ history' \in Seq(Writable)
  BY DEF InOrder
<1>3. Len(ends') = 0
  BY <1>1
<1>4. InLog' = SubSeq(history', Len(history') + 1, Len(history'))
  BY <1>2, <1>3 DEF InLog, Writes, Saved
<1>5. InLog' = <<>>
  BY <1>2, <1>4
<1>6. LogOf(wal', walOffset', InLog', ends')
  BY <1>1, <1>5, LogEmpty
<1> QED BY <1>2, <1>3, <1>5, <1>6 DEF LogInv

\* A new database satisfies the invariant.
LEMMA LogInvInit == LogInit => LogInv
<1> SUFFICES ASSUME LogInit PROVE LogInv
  OBVIOUS
<1>1. wal = <<>> /\ walOffset = 0 /\ ends = <<>> /\ history = <<>> /\ lastSeq = 0
  BY DEF LogInit
<1>2. Len(history) = 0 /\ Len(ends) = 0 /\ InLog = <<>>
  BY <1>1 DEF InLog, Writes, Saved
<1>3. InOrder(history)
  BY <1>1 DEF InOrder
<1>4. Len(Values) \in Nat
  BY WritesAssumption
<1> QED BY <1>1, <1>2, <1>3, <1>4, LogEmpty DEF LogInv

\* One more operation.
LEMMA OneMore ==
  ASSUME LogInv, NEW e \in Writable, e.seq = lastSeq + 1, lastSeq + 1 \in DOMAIN Values, Numbered(e)
  PROVE  /\ InOrder(history') /\ lastSeq' = Len(history') /\ Len(history') <= Len(Values)
         /\ lastSeq' = lastSeq + 1 /\ history' = Append(history, e)
<1>1. lastSeq' = lastSeq + 1 /\ history' = Append(history, e)
  BY DEF Numbered
<1>2. history \in Seq(Writable) /\ lastSeq = Len(history) /\ Len(history) \in Nat
  BY SavedFacts DEF LogInv
<1>3. /\ history' \in Seq(Writable) /\ Len(history') = Len(history) + 1 /\ history'[Len(history) + 1] = e
      /\ \A i \in 1 .. Len(history) : history'[i] = history[i]
  BY <1>1, <1>2
<1>4. Len(history) + 1 \in 1 .. Len(Values)
  BY <1>2, SavedFacts
<1>5. Len(Values) \in Nat
  BY SavedFacts
<1>6. ASSUME NEW i \in 1 .. Len(history') PROVE history'[i].seq = i
  <2>1. CASE i \in 1 .. Len(history)
    <3>1. history[i].seq = i
      BY <2>1 DEF LogInv, InOrder
    <3> QED BY <1>3, <2>1, <3>1
  <2>2. CASE i = Len(history) + 1
    BY <1>2, <1>3, <2>2
  <2> QED BY <1>2, <1>3, <2>1, <2>2
<1> QED BY <1>1, <1>2, <1>3, <1>4, <1>5, <1>6 DEF InOrder

\* A write makes an entry with the next sequence number.
LEMMA NewEntryFacts ==
  ASSUME NEW e \in NewEntries
  PROVE  e \in Writable /\ e.seq = lastSeq + 1 /\ lastSeq + 1 \in DOMAIN Values
<1>1. e \in Writable /\ e.seq = lastSeq + 1
  BY DEF NewEntries
<1> QED BY <1>1, WritableFacts

\* A write into the log.
LEMMA WriteKeepsLog ==
  ASSUME LogInv, NEW e \in Writable, e.seq = lastSeq + 1, lastSeq + 1 \in DOMAIN Values, Numbered(e),
         NEW height, LogAndApply(e, height)
  PROVE  LogInv' /\ InLog' = Append(InLog, e)
<1> DEFINE r == AddRecord(EncodeEntry(e), walOffset)
<1>1. wal' = Joined(wal, r.bytes) /\ walOffset' = r.offset /\ ends' = Append(ends, Len(wal) + Len(r.bytes))
  BY DEF LogAndApply, Extend, Joined
<1>2. LogOf(wal, walOffset, InLog, ends)
  BY DEF LogInv
<1>3. /\ r.bytes \in Seq(Bytes)
      /\ LogOf(Joined(wal, r.bytes), r.offset, Append(InLog, e), Append(ends, Len(wal) + Len(r.bytes)))
  BY <1>2, LogExtended
<1> HIDE DEF r
<1>4. /\ InOrder(history') /\ lastSeq' = Len(history') /\ Len(history') <= Len(Values)
      /\ lastSeq' = lastSeq + 1 /\ history' = Append(history, e)
  BY OneMore
<1>5. /\ lastSeq \in Nat /\ Len(ends) \in Nat /\ Saved \in 0 .. Len(history) /\ Len(ends) = Len(history) - Saved
      /\ history \in Seq(Writable) /\ lastSeq = Len(history) /\ Len(ends) <= lastSeq
  BY SavedFacts DEF LogInv
<1>6. ends \in Seq(Nat) /\ wal \in Seq(Bytes)
  BY <1>2 DEF LogOf
<1>7. Len(ends') = Len(ends) + 1
  <2>1. Len(wal) + Len(r.bytes) \in Nat
    BY <1>3, <1>6
  <2> QED BY <1>1, <1>6, <2>1
<1>8. Saved' = Saved
  BY <1>4, <1>5, <1>7 DEF Saved
<1>9. InLog' = SubSeq(history', Saved + 1, Len(history) + 1)
  BY <1>4, <1>5, <1>8 DEF InLog, Writes
<1>10. InLog = SubSeq(history, Saved + 1, Len(history))
  BY <1>5 DEF InLog, Writes
<1>11. InLog' = Append(InLog, e)
  BY <1>4, <1>5, <1>9, <1>10, TailAppend
<1>12. Len(ends') <= lastSeq'
  BY <1>4, <1>5, <1>7
<1>13. LogOf(wal', walOffset', InLog', ends')
  BY <1>1, <1>3, <1>11
<1> QED BY <1>4, <1>11, <1>12, <1>13 DEF LogInv

\* What the replay after a crash takes over.
LEMMA Replayed ==
  ASSUME LogInv, NEW decoded, NEW m, Recovers(decoded, InLog, ends, m), Replay(decoded)
  PROVE  \E k \in 0 .. Len(ends) : lastSeq' = Saved + k /\ history' = SubSeq(history, 1, Saved + k)
<1> DEFINE k == Len(decoded)
           es == SubSeq(InLog, 1, k)
<1>1. /\ lastSeq \in Nat /\ Len(ends) \in Nat /\ Saved \in 0 .. Len(history) /\ Len(ends) = Len(history) - Saved
      /\ history \in Seq(Writable) /\ InLog \in Seq(Writable) /\ Len(InLog) = Len(ends)
      /\ \A i \in 1 .. Len(ends) : InLog[i] = history[Saved + i]
  BY SavedFacts
<1>2. k \in 0 .. Len(ends) /\ EntriesIn(decoded) = es
  BY <1>1 DEF Recovers, DecodesTo
<1>3. lastSeq' = SeqAfter(Saved, es) /\ history' = SubSeq(history, 1, lastSeq')
  BY <1>2 DEF Replay
<1> HIDE DEF k
<1>4. es \in Seq(Writable) /\ Len(es) = k /\ \A i \in 1 .. k : es[i] = InLog[i]
  BY <1>1, <1>2
<1> HIDE DEF es
<1>6. es = <<>> <=> k = 0
  BY <1>4
<1>5. SeqAfter(Saved, es) = Saved + k
  <2>1. CASE k = 0
    BY <1>1, <1>6, <2>1 DEF SeqAfter
  <2>2. CASE k # 0
    <3>1. es # <<>> /\ k \in 1 .. Len(ends) /\ Len(es) = k
      BY <1>2, <1>4, <1>6, <2>2
    <3>2. es[k] = InLog[k] /\ InLog[k] = history[Saved + k]
      BY <1>1, <1>2, <1>4, <3>1
    <3>3. Saved + k \in 1 .. Len(history)
      BY <1>1, <3>1
    <3>4. history[Saved + k].seq = Saved + k
      BY <3>3 DEF LogInv, InOrder
    <3>5. es[Len(es)].seq = Saved + k
      BY <3>1, <3>2, <3>4
    <3>6. SeqAfter(Saved, es) = Max({Saved, Saved + k})
      BY <3>1, <3>5 DEF SeqAfter
    <3>7. Max({Saved, Saved + k}) = Saved + k
      <4>1. PICK a \in Nat, b \in Nat : a = Saved /\ b = Saved + k /\ a < b
        BY <1>1, <3>1
      <4>2. Max({a, b}) = CHOOSE x \in {a, b} : \A y \in {a, b} : x >= y
        BY DEF Max
      <4>3. b \in {a, b} /\ \A y \in {a, b} : b >= y
        BY <4>1
      <4>4. \A x \in {a, b} : (\A y \in {a, b} : x >= y) => x = b
        BY <4>1
      <4>5. Max({a, b}) = b
        BY <4>2, <4>3, <4>4
      <4> QED BY <4>1, <4>5
    <3> QED BY <3>6, <3>7
  <2> QED BY <2>1, <2>2
<1> QED BY <1>2, <1>3, <1>5

\* Recovery from any cut of the log.
LEMMA ReopenKeepsLog ==
  ASSUME LogInv, LogReopen
  PROVE  LogInv' /\ InLog' = <<>>
<1>1. PICK m \in 0..Len(wal) : Replay(DecodeAll(ReadRecords(Remains(wal, m, m))))
  BY DEF LogReopen
<1>2. LogOf(wal, walOffset, InLog, ends)
  BY DEF LogInv
<1>3. Recovers(DecodeAll(ReadRecords(Remains(wal, m, m))), InLog, ends, m)
  BY <1>2, LogCut
<1>4. PICK k \in 0 .. Len(ends) : lastSeq' = Saved + k /\ history' = SubSeq(history, 1, Saved + k)
  BY <1>1, <1>3, Replayed
<1>5. /\ lastSeq \in Nat /\ Len(ends) \in Nat /\ Saved \in 0 .. Len(history) /\ Len(ends) = Len(history) - Saved
      /\ history \in Seq(Writable) /\ Len(Values) \in Nat
      /\ Len(history) <= Len(Values) /\ \A i \in 1 .. Len(history) : history[i].seq = i
  BY SavedFacts DEF LogInv, InOrder
<1>6. PICK n \in 0 .. Len(history) : n = Saved + k
  BY <1>5
<1>7. history' = SubSeq(history, 1, n) /\ lastSeq' = n
  BY <1>4, <1>6
<1>8. history' \in Seq(Writable) /\ Len(history') = n /\ \A i \in 1 .. n : history'[i] = history[i]
  BY <1>5, <1>7
<1>9. InOrder(history')
  BY <1>5, <1>8 DEF InOrder
<1>10. Len(history') <= Len(Values)
  BY <1>5, <1>8
<1> QED BY <1>7, <1>8, <1>9, <1>10, FreshLogInv DEF LogReopen

\* Every step keeps the invariant.
LEMMA LogInvStep == LogInv /\ [LogNext]_logVars => LogInv'
<1> SUFFICES ASSUME LogInv, [LogNext]_logVars PROVE LogInv'
  OBVIOUS
<1>1. ASSUME NEW e \in NewEntries, NEW height \in 1..MAX_HEIGHT, LogWrite(e, height)
      PROVE  LogInv'
  <2>1. Numbered(e) /\ (FreshLog \/ LogAndApply(e, height))
    BY <1>1 DEF LogWrite
  <2>2. e \in Writable /\ e.seq = lastSeq + 1 /\ lastSeq + 1 \in DOMAIN Values
    BY NewEntryFacts
  <2>3. CASE FreshLog
    <3>1. InOrder(history') /\ lastSeq' = Len(history') /\ Len(history') <= Len(Values)
      BY <2>1, <2>2, OneMore
    <3> QED BY <2>3, <3>1, FreshLogInv
  <2>4. CASE LogAndApply(e, height)
    BY <2>1, <2>2, <2>4, WriteKeepsLog
  <2> QED BY <2>1, <2>3, <2>4
<1>2. CASE LogReopen
  BY <1>2, ReopenKeepsLog
<1>3. CASE UNCHANGED logVars
  BY <1>3 DEF logVars, LogInv, InLog, Writes, Saved
<1> QED BY <1>1, <1>2, <1>3 DEF LogNext

\* The invariant has the types,
LEMMA LogInvTypes == LogInv => LogTypeOK
<1> SUFFICES ASSUME LogInv PROVE LogTypeOK
  OBVIOUS
<1>1. wal \in Seq(Bytes) /\ walOffset \in 0 .. BLOCK_SIZE
  BY DEF LogInv, LogOf, Filled
<1> QED BY <1>1, SavedFacts DEF LogTypeOK, LogInv, Bytes

\* tells what a reader of a cut log finds,
LEMMA RecoversPrefix ==
  ASSUME LogInv, NEW decoded, NEW m, Recovers(decoded, InLog, ends, m)
  PROVE  IsPrefix(decoded, m)
<1>1. /\ Len(ends) \in Nat /\ Saved \in 0 .. Len(history) /\ Len(ends) = Len(history) - Saved
      /\ history \in Seq(Writable) /\ Len(InLog) = Len(ends) /\ lastSeq = Len(history)
  BY SavedFacts DEF LogInv
<1>2. ends \in Seq(Nat)
  BY DEF LogInv, LogOf
<1>3. PICK k \in 0 .. Len(history) - Saved : k = Len(decoded)
  BY <1>1 DEF Recovers
<1>4. SubSeq(InLog, 1, k) = SubSeq(history, Saved + 1, Saved + k)
  BY <1>1, <1>3, FrontOfTail DEF InLog, Writes
<1>5. DecodesTo(decoded, SubSeq(InLog, 1, k))
  BY <1>3 DEF Recovers
<1>6. DecodesTo(decoded, Writes(Saved + 1, Saved + k))
  BY <1>4, <1>5 DEF Writes
<1>7. \A i \in DOMAIN ends : ends[i] <= m => i <= k
  BY <1>2, <1>3 DEF Recovers
<1> QED BY <1>1, <1>3, <1>6, <1>7 DEF IsPrefix

\* for every cut,
LEMMA LogInvCut == LogInv => CutLeavesPrefix
<1> SUFFICES ASSUME LogInv, NEW m \in 0..Len(wal)
             PROVE  IsPrefix(DecodeAll(ReadRecords(Remains(wal, m, m))), m)
  BY DEF CutLeavesPrefix
<1>1. LogOf(wal, walOffset, InLog, ends)
  BY DEF LogInv
<1> QED BY <1>1, LogCut, RecoversPrefix

\* and with zeros behind the cut.
LEMMA LogInvZeros == ChecksumNoticesLoss /\ LogInv => ZerosLeavePrefix
<1> SUFFICES ASSUME ChecksumNoticesLoss, LogInv, NEW m \in 0..Len(wal)
             PROVE  IsPrefix(DecodeAll(ReadRecords(Remains(wal, m, Len(wal)))), m)
  BY DEF ZerosLeavePrefix
<1>1. LogOf(wal, walOffset, InLog, ends)
  BY DEF LogInv
<1> QED BY <1>1, LogLoss, RecoversPrefix

\* Bytes are bytes, the last block of the log is never filled past its end, and writes are
\* numbered without holes (WalWriter::block_offset, VersionSet::last_sequence).
THEOREM LogStaysTyped == LogSpec => []LogTypeOK
<1> QED BY LogInvInit, LogInvStep, LogInvTypes, PTL DEF LogSpec

\* Wherever a crash cuts the log, recovery finds its first writes, and every one whose record
\* is there whole, however the borders of blocks cut the records (read_records, recover_open).
THEOREM CutLogOpens == LogSpec => []CutLeavesPrefix
<1> QED BY LogInvInit, LogInvStep, LogInvCut, PTL DEF LogSpec

\* The same where the file has kept its length and has zeros in place of its end, for every
\* checksum that tells zeros in place of the end of the data from the data (verify_checksum).
THEOREM ZeroedLogOpens == ChecksumNoticesLoss => (LogSpec => []ZerosLeavePrefix)
<1> SUFFICES ASSUME ChecksumNoticesLoss PROVE LogSpec => []ZerosLeavePrefix
  OBVIOUS
<1>1. LogInv => ZerosLeavePrefix
  BY LogInvZeros
<1> QED BY <1>1, LogInvInit, LogInvStep, PTL DEF LogSpec

----------------------------------------------------------------------------
(* The memtable beside it *)

\* The order of byte strings is strict,
LEMMA BytesBeforeItself ==
  ASSUME NEW a \in Seq(Nat)
  PROVE  ~BytesBefore(a, a)
BY DEF BytesBefore

\* transitive,
LEMMA BytesBeforeThrough ==
  ASSUME NEW a \in Seq(Nat), NEW b \in Seq(Nat), NEW c \in Seq(Nat), BytesBefore(a, b), BytesBefore(b, c)
  PROVE  BytesBefore(a, c)
<1>1. PICK i \in 1..Len(b) : i <= Len(a) + 1 /\ (\A j \in 1..(i - 1) : a[j] = b[j]) /\ (i > Len(a) \/ a[i] < b[i])
  BY DEF BytesBefore
<1>2. PICK k \in 1..Len(c) : k <= Len(b) + 1 /\ (\A j \in 1..(k - 1) : b[j] = c[j]) /\ (k > Len(b) \/ b[k] < c[k])
  BY DEF BytesBefore
<1>3. Len(a) \in Nat /\ Len(b) \in Nat /\ Len(c) \in Nat
  OBVIOUS
<1>7. /\ \A j \in 1..Len(a) : a[j] \in Nat
      /\ \A j \in 1..Len(b) : b[j] \in Nat
      /\ \A j \in 1..Len(c) : c[j] \in Nat
  BY Element
<1>4. CASE i < k
  <2>1. i \in 1..Len(c) /\ b[i] = c[i]
    BY <1>2, <1>3, <1>4
  <2>2. \A j \in 1..(i - 1) : a[j] = c[j]
    BY <1>1, <1>2, <1>3, <1>4
  <2> QED BY <1>1, <2>1, <2>2 DEF BytesBefore
<1>5. CASE i = k
  <2>1. i \in 1..Len(c) /\ b[i] < c[i]
    BY <1>2, <1>3, <1>5
  <2>2. \A j \in 1..(i - 1) : a[j] = c[j]
    BY <1>1, <1>2, <1>3, <1>5
  <2>3. i > Len(a) \/ a[i] < c[i]
    <3>1. CASE i > Len(a)
      BY <3>1
    <3>2. CASE ~(i > Len(a))
      <4>1. i \in 1..Len(a) /\ i \in 1..Len(b) /\ i \in 1..Len(c)
        BY <1>3, <2>1, <3>2
      <4>2. a[i] \in Nat /\ b[i] \in Nat /\ c[i] \in Nat
        BY <1>7, <4>1
      <4>3. a[i] < b[i]
        BY <1>1, <3>2
      <4>4. b[i] < c[i]
        BY <2>1
      <4>5. PICK x \in Nat, y \in Nat, z \in Nat : x = a[i] /\ y = b[i] /\ z = c[i]
        BY <4>2
      <4>6. x < y /\ y < z
        BY <4>3, <4>4, <4>5
      <4>7. x < z
        BY <4>6
      <4> QED BY <4>5, <4>7
    <3> QED BY <3>1, <3>2
  <2> QED BY <1>1, <2>1, <2>2, <2>3 DEF BytesBefore
<1>6. CASE i > k
  <2>0. k \in 1..Len(a) /\ k \in 1..Len(b) /\ k \in 1..(i - 1) /\ ~(k > Len(b))
    <3>1. i <= Len(a) + 1 /\ i <= Len(b) /\ k >= 1 /\ i \in Nat /\ k \in Nat
      BY <1>1
    <3> QED BY <1>3, <1>6, <3>1
  <2>1. k \in 1..Len(a) /\ k \in 1..Len(b) /\ a[k] = b[k] /\ b[k] < c[k]
    BY <1>1, <1>2, <2>0
  <2>2. \A j \in 1..(k - 1) : a[j] = c[j]
    BY <1>1, <1>2, <1>3, <1>6
  <2>3. k <= Len(a) + 1 /\ a[k] < c[k]
    BY <1>3, <2>1
  <2> QED BY <2>2, <2>3 DEF BytesBefore
<1> QED BY <1>4, <1>5, <1>6

\* and total: the first difference decides.
LEMMA BytesBeforeTotal ==
  ASSUME NEW a \in Seq(Nat), NEW b \in Seq(Nat)
  PROVE  a = b \/ BytesBefore(a, b) \/ BytesBefore(b, a)
<1> DEFINE D == {i \in 1..(Len(a) + 1) : i <= Len(b) + 1 /\ (i > Len(a) \/ i > Len(b) \/ a[i] # b[i])}
<1>1. Len(a) \in Nat /\ Len(b) \in Nat
  OBVIOUS
<1>2. D \in SUBSET Nat /\ D # {}
  <2>1. D \in SUBSET Nat
    BY <1>1
  <2>2. Len(a) + 1 \in D \/ Len(b) + 1 \in D
    BY <1>1
  <2> HIDE DEF D
  <2> QED BY <2>1, <2>2
<1>3. PICK m \in D : \A i \in D : m <= i
  <2> HIDE DEF D
  <2> QED BY <1>2, MinExists
<1>4. m \in 1..(Len(a) + 1) /\ m <= Len(b) + 1 /\ (m > Len(a) \/ m > Len(b) \/ a[m] # b[m])
  OBVIOUS
<1>5. ASSUME NEW j \in 1..(m - 1) PROVE a[j] = b[j]
  <2>1. ~(m <= j)
    BY <1>4
  <2>2. j \notin D
    <3> HIDE DEF D
    <3> QED BY <1>3, <2>1
  <2>3. j \in 1..(Len(a) + 1) /\ j <= Len(b) + 1
    BY <1>1, <1>4
  <2> QED BY <2>2, <2>3
<1> HIDE DEF D
<1>6. CASE m \in 1..Len(a) /\ m \in 1..Len(b)
  <2>1. a[m] \in Nat /\ b[m] \in Nat /\ a[m] # b[m]
    BY <1>1, <1>4, <1>6
  <2>2. CASE a[m] < b[m]
    <3>1. m <= Len(a) + 1
      BY <1>4
    <3> QED BY <1>5, <1>6, <2>2, <3>1 DEF BytesBefore
  <2>3. CASE b[m] < a[m]
    <3>1. m <= Len(b) + 1 /\ \A j \in 1..(m - 1) : b[j] = a[j]
      BY <1>4, <1>5
    <3> QED BY <1>6, <2>3, <3>1 DEF BytesBefore
  <2> QED BY <2>1, <2>2, <2>3
<1>7. CASE m > Len(a) /\ m \in 1..Len(b)
  BY <1>4, <1>5, <1>7 DEF BytesBefore
<1>8. CASE m > Len(b) /\ m \in 1..Len(a)
  <2>1. m <= Len(b) + 1 /\ \A j \in 1..(m - 1) : b[j] = a[j]
    BY <1>4, <1>5
  <2> QED BY <1>8, <2>1 DEF BytesBefore
<1>9. CASE m > Len(a) /\ m > Len(b)
  <2>1. Len(a) = Len(b) /\ m - 1 = Len(a)
    BY <1>1, <1>4, <1>9
  <2> QED BY <1>5, <2>1, SameSeq
<1> QED BY <1>1, <1>4, <1>6, <1>7, <1>8, <1>9

\* Internal keys as the skip list of the memtable has them.
KeySet == [user : Seq(Nat), seq : Nat, vtype : Nat]

\* The proofs of the skip list, for internal keys.
SL == INSTANCE SkipListProofs
        WITH NoKey <- InternalKey(<<>>, 0, Put), Before <- KeyBefore, Keys <- KeySet, Values <- Seq(Bytes),
             memtable <- list

\* Internal keys are ordered as the skip list needs it.
LEMMA KeysOrdered == SL!Ordered
<1>1. ASSUME NEW a \in KeySet PROVE ~KeyBefore(a, a)
  <2>1. ~BytesBefore(a.user, a.user)
    BY BytesBeforeItself DEF KeySet
  <2> QED BY <2>1 DEF KeyBefore, KeySet
<1>2. ASSUME NEW a \in KeySet, NEW b \in KeySet, NEW c \in KeySet, KeyBefore(a, b), KeyBefore(b, c)
      PROVE  KeyBefore(a, c)
  <2>1. BytesBefore(a.user, b.user) /\ BytesBefore(b.user, c.user) => BytesBefore(a.user, c.user)
    BY BytesBeforeThrough DEF KeySet
  <2> QED BY <1>2, <2>1 DEF KeyBefore, KeySet
<1>3. ASSUME NEW a \in KeySet, NEW b \in KeySet PROVE a = b \/ KeyBefore(a, b) \/ KeyBefore(b, a)
  <2>1. a.user = b.user \/ BytesBefore(a.user, b.user) \/ BytesBefore(b.user, a.user)
    BY BytesBeforeTotal DEF KeySet
  <2>2. a.seq \in Nat /\ b.seq \in Nat /\ a.vtype \in Nat /\ b.vtype \in Nat
    BY DEF KeySet
  <2>3. a.user = b.user /\ a.seq = b.seq /\ a.vtype = b.vtype => a = b
    BY DEF KeySet
  <2> QED BY <2>1, <2>2, <2>3 DEF KeyBefore
<1>4. MAX_HEIGHT \in Nat \ {0}
  BY WritesAssumption
<1> QED BY <1>1, <1>2, <1>3, <1>4 DEF SL!Ordered

\* The two instances of the skip list are one.
LEMMA SameInsert ==
  ASSUME NEW l, NEW key, NEW value, NEW height
  PROVE  SL!Insert(l, key, value, height) = Memory!Insert(l, key, value, height)
BY DEF SL!Insert, Memory!Insert, SL!FindPrev, Memory!FindPrev, SL!Walk, Memory!Walk, SL!Stride, Memory!Stride,
       SL!HEAD, Memory!HEAD, SL!NIL, Memory!NIL, SL!Node, Memory!Node

\* So are their empty lists,
LEMMA SameEmpty == SL!EmptyList = Memory!EmptyList
BY DEF SL!EmptyList, Memory!EmptyList, SL!Node, Memory!Node, SL!NIL, Memory!NIL

\* what they call well formed,
LEMMA SameWellFormed ==
  ASSUME NEW l
  PROVE  SL!WellFormed(l) <=> Memory!WellFormed(l)
BY DEF SL!WellFormed, Memory!WellFormed, SL!OnLevel, Memory!OnLevel, SL!Ahead, Memory!Ahead, SL!IsFirst, Memory!IsFirst,
       SL!HEAD, Memory!HEAD, SL!NIL, Memory!NIL

\* and their searches.
LEMMA SameFind ==
  ASSUME NEW l, NEW key
  PROVE  SL!Find(l, key) = Memory!Find(l, key)
BY DEF SL!Find, Memory!Find, SL!LowerBound, Memory!LowerBound,
       SL!FindPrev, Memory!FindPrev, SL!Walk, Memory!Walk, SL!Stride, Memory!Stride,
       SL!HEAD, Memory!HEAD, SL!NIL, Memory!NIL

\* A list holds entries in the order they came.
Holds(l, s) ==
  /\ SL!Sound(l) /\ Len(l.nodes) = Len(s) + 1
  /\ \A i \in 1 .. Len(s) : l.nodes[i + 1].key = KeyOf(s[i]) /\ l.nodes[i + 1].value = s[i].value

\* The empty list holds nothing.
LEMMA HoldsNothing == Holds(Memory!EmptyList, <<>>)
<1>1. SL!Sound(Memory!EmptyList)
  BY KeysOrdered, SameEmpty, SL!EmptySound
<1>2. Len(Memory!EmptyList.nodes) = 1
  BY DEF Memory!EmptyList
<1> QED BY <1>1, <1>2 DEF Holds

\* The key of an entry that is written.
LEMMA KeyType ==
  ASSUME NEW e \in Writable
  PROVE  KeyOf(e) \in KeySet /\ e.value \in Seq(Bytes) /\ KeyOf(e).seq = e.seq
<1>1. /\ e.seq \in DOMAIN Values /\ e.user \in Seq(Bytes) /\ e.vtype \in {Put, Delete} /\ e.value \in Seq(Bytes)
  BY WritableFacts
<1>2. e.seq \in Nat
  BY <1>1, NumbersFit
<1>3. e.user \in Seq(Nat)
  BY <1>1, ByteFacts, WiderSeq
<1>4. e.vtype \in Nat
  BY <1>1 DEF Put, Delete
<1> QED BY <1>1, <1>2, <1>3, <1>4 DEF KeyOf, InternalKey, KeySet

\* MemTable::apply makes the list hold one entry more.
LEMMA HoldsMore ==
  ASSUME NEW l, NEW s \in Seq(Writable), Holds(l, s), NEW e \in Writable, NEW height \in 1..MAX_HEIGHT
  PROVE  Holds(Applied(l, e, height), Append(s, e))
<1> DEFINE key == KeyOf(e)
           value == e.value
           k == Applied(l, e, height)
           longer == Append(s, e)
<1>1. key \in KeySet /\ value \in Seq(Bytes)
  BY KeyType
<1>2. k = SL!Insert(l, key, value, height)
  BY SameInsert DEF Applied, KeyOf
<1>3. SL!Sound(l) /\ Len(l.nodes) = Len(s) + 1
  BY DEF Holds
<1> HIDE DEF key, value
<1>4. SL!Sound(SL!Insert(l, key, value, height))
  BY <1>1, <1>3, KeysOrdered, SL!InsertKeepsOrder
<1>5. SL!IsInserted(l, key, value, height, SL!FindPrev(l, key), SL!Insert(l, key, value, height))
  BY <1>1, <1>3, KeysOrdered, SL!Inserted
<1> HIDE DEF k
<1>6. /\ Len(k.nodes) = Len(l.nodes) + 1
      /\ \A n \in 1..Len(l.nodes) : k.nodes[n].key = l.nodes[n].key /\ k.nodes[n].value = l.nodes[n].value
      /\ k.nodes[Len(l.nodes) + 1].key = key /\ k.nodes[Len(l.nodes) + 1].value = value
  BY <1>2, <1>5 DEF SL!IsInserted
<1>7. /\ longer \in Seq(Writable) /\ Len(longer) = Len(s) + 1 /\ longer[Len(s) + 1] = e
      /\ \A i \in 1 .. Len(s) : longer[i] = s[i]
  OBVIOUS
<1>8. Len(s) \in Nat
  OBVIOUS
<1> HIDE DEF longer
<1>9. ASSUME NEW i \in 1 .. Len(longer)
      PROVE  k.nodes[i + 1].key = KeyOf(longer[i]) /\ k.nodes[i + 1].value = longer[i].value
  <2>1. CASE i \in 1 .. Len(s)
    <3>1. i + 1 \in 1 .. Len(l.nodes)
      BY <1>3, <1>8, <2>1
    <3>2. k.nodes[i + 1].key = l.nodes[i + 1].key /\ k.nodes[i + 1].value = l.nodes[i + 1].value
      BY <1>6, <3>1
    <3>3. l.nodes[i + 1].key = KeyOf(s[i]) /\ l.nodes[i + 1].value = s[i].value
      BY <2>1 DEF Holds
    <3>4. longer[i] = s[i]
      BY <1>7, <2>1
    <3> QED BY <3>2, <3>3, <3>4
  <2>2. CASE i = Len(s) + 1
    <3>1. k.nodes[i + 1].key = key /\ k.nodes[i + 1].value = value
      BY <1>3, <1>6, <2>2
    <3>2. longer[i] = e
      BY <1>7, <2>2
    <3> QED BY <3>1, <3>2 DEF key, value
  <2> QED BY <1>7, <1>8, <2>1, <2>2
<1>10. SL!Sound(k)
  BY <1>2, <1>4
<1>11. Len(k.nodes) = Len(longer) + 1
  BY <1>3, <1>6, <1>7
<1>12. Holds(k, longer)
  BY <1>9, <1>10, <1>11 DEF Holds
<1> QED BY <1>12 DEF k, longer

\* The memtable holds what the log holds.
MemInv == LogInv /\ Holds(list, InLog)

\* An empty memtable goes with an empty log.
LEMMA MemInvInit == LogInit => MemInv
<1> SUFFICES ASSUME LogInit PROVE MemInv
  OBVIOUS
<1>1. LogInv
  BY LogInvInit
<1>2. list = Memory!EmptyList /\ ends = <<>> /\ history = <<>> /\ lastSeq = 0
  BY DEF LogInit
<1>3. InLog = <<>>
  BY <1>2 DEF InLog, Writes, Saved
<1> QED BY <1>1, <1>2, <1>3, HoldsNothing DEF MemInv

\* Every step keeps the two together.
LEMMA MemInvStep == MemInv /\ [LogNext]_logVars => MemInv'
<1> SUFFICES ASSUME MemInv, [LogNext]_logVars PROVE MemInv'
  OBVIOUS
<1>1. LogInv /\ Holds(list, InLog)
  BY DEF MemInv
<1>2. InLog \in Seq(Writable)
  BY <1>1, SavedFacts
<1>3. ASSUME FreshLog, InLog' = <<>> PROVE Holds(list', InLog')
  <2>1. list' = Memory!EmptyList
    BY <1>3 DEF FreshLog
  <2> QED BY <1>3, <2>1, HoldsNothing
<1>4. ASSUME NEW e \in NewEntries, NEW height \in 1..MAX_HEIGHT, LogWrite(e, height)
      PROVE  Holds(list', InLog')
  <2>1. Numbered(e) /\ (FreshLog \/ LogAndApply(e, height))
    BY <1>4 DEF LogWrite
  <2>2. e \in Writable /\ e.seq = lastSeq + 1 /\ lastSeq + 1 \in DOMAIN Values
    BY NewEntryFacts
  <2>3. CASE FreshLog
    <3>1. InOrder(history') /\ lastSeq' = Len(history') /\ Len(history') <= Len(Values)
      BY <1>1, <2>1, <2>2, OneMore
    <3>2. InLog' = <<>>
      BY <2>3, <3>1, FreshLogInv
    <3> QED BY <1>3, <2>3, <3>2
  <2>4. CASE LogAndApply(e, height)
    <3>1. InLog' = Append(InLog, e)
      BY <1>1, <2>1, <2>2, <2>4, WriteKeepsLog
    <3>2. list' = Applied(list, e, height)
      BY <2>4 DEF LogAndApply, Extend
    <3>3. Holds(Applied(list, e, height), Append(InLog, e))
      BY <1>1, <1>2, <2>2, HoldsMore
    <3> QED BY <3>1, <3>2, <3>3
  <2> QED BY <2>1, <2>3, <2>4
<1>5. ASSUME LogReopen PROVE Holds(list', InLog')
  <2>1. InLog' = <<>> /\ FreshLog
    BY <1>1, <1>5, ReopenKeepsLog DEF LogReopen
  <2> QED BY <1>3, <2>1
<1>6. ASSUME UNCHANGED logVars PROVE Holds(list', InLog')
  <2>1. list' = list /\ InLog' = InLog
    BY <1>6 DEF logVars, InLog, Writes, Saved
  <2> QED BY <1>1, <2>1
<1>7. Holds(list', InLog')
  BY <1>4, <1>5, <1>6 DEF LogNext
<1>8. LogInv'
  BY <1>1, LogInvStep
<1> QED BY <1>7, <1>8 DEF MemInv

\* As no two entries have the same sequence number, the search for a key finds its node.
LEMMA MemInvFinds == MemInv => SkipListWellFormed
<1> SUFFICES ASSUME MemInv PROVE SkipListWellFormed
  OBVIOUS
<1>1. LogInv /\ SL!Sound(list) /\ Len(list.nodes) = Len(InLog) + 1
  BY DEF MemInv, Holds
<1>2. /\ InLog \in Seq(Writable) /\ Len(InLog) = Len(ends) /\ Len(ends) \in Nat
      /\ Saved \in 0 .. Len(history) /\ Len(ends) = Len(history) - Saved
      /\ \A i \in 1 .. Len(ends) : InLog[i] = history[Saved + i]
  BY <1>1, SavedFacts
<1>3. Memory!WellFormed(list)
  BY <1>1, SameWellFormed DEF SL!Sound
<1>4. ASSUME NEW n \in 2..Len(list.nodes)
      PROVE  list.nodes[n].key \in KeySet /\ list.nodes[n].key.seq = Saved + n - 1
  <2>1. PICK i \in 1 .. Len(ends) : n = i + 1
    BY <1>1, <1>2
  <2>2. list.nodes[n].key = KeyOf(InLog[i])
    BY <1>2, <2>1 DEF MemInv, Holds
  <2>3. InLog[i] \in Writable /\ InLog[i] = history[Saved + i]
    BY <1>2, Element
  <2>4. Saved + i \in 1 .. Len(history) /\ Saved + i = Saved + n - 1
    BY <1>2, <2>1
  <2>5. history[Saved + i].seq = Saved + i
    BY <1>1, <2>4 DEF LogInv, InOrder
  <2>6. KeyOf(InLog[i]) \in KeySet /\ KeyOf(InLog[i]).seq = InLog[i].seq
    BY <2>3, KeyType
  <2> QED BY <2>2, <2>3, <2>4, <2>5, <2>6
<1>5. ASSUME NEW n \in 2..Len(list.nodes)
      PROVE  Memory!Find(list, list.nodes[n].key) = n
  <2> DEFINE key == list.nodes[n].key
             has == {p \in 2..Len(list.nodes) : list.nodes[p].key = key}
             found == SL!Find(list, key)
  <2>1. key \in KeySet
    BY <1>4
  <2>2. IF has = {} THEN found = SL!NIL ELSE found \in has /\ \A p \in has : p <= found
    <3> HIDE DEF key
    <3> QED BY <1>1, <2>1, KeysOrdered, SL!FindsLatest
  <2>3. n \in has
    OBVIOUS
  <2> HIDE DEF found
  <2>4. found \in 2..Len(list.nodes) /\ list.nodes[found].key = key
    BY <2>2, <2>3
  <2>5. list.nodes[found].key.seq = Saved + found - 1 /\ list.nodes[n].key.seq = Saved + n - 1
    BY <1>4, <2>4
  <2>6. found = n
    BY <1>2, <2>4, <2>5
  <2> QED BY <2>6, SameFind DEF found
<1> QED BY <1>3, <1>5 DEF SkipListWellFormed

\* So the log tells what the memtable holds.
LEMMA MemInvLog == MemInv => MemtableIsLog
<1> SUFFICES ASSUME MemInv PROVE MemtableIsLog
  OBVIOUS
<1>1. LogInv /\ Len(list.nodes) = Len(InLog) + 1
  BY DEF MemInv, Holds
<1>2. /\ Len(InLog) = Len(ends) /\ Len(ends) \in Nat /\ lastSeq = Len(history)
      /\ Saved \in 0 .. Len(history) /\ Len(ends) = Len(history) - Saved
      /\ \A i \in 1 .. Len(ends) : InLog[i] = history[Saved + i]
  BY <1>1, SavedFacts DEF LogInv
<1>3. DecodesTo(DecodeAll(ReadRecords(wal)), Writes(Saved + 1, lastSeq))
  BY <1>1, LogRead DEF LogInv, InLog
<1> DEFINE OfNode(n) == [key |-> n.key, value |-> n.value]
           OfEntry(e) == [key |-> InternalKey(e.user, e.seq, e.vtype), value |-> e.value]
           A == {OfNode(n) : n \in {list.nodes[i] : i \in 2..Len(list.nodes)}}
           B == {OfEntry(e) : e \in {history[i] : i \in (Saved + 1)..lastSeq}}
<1>4. ASSUME NEW i \in 1 .. Len(ends)
      PROVE  OfNode(list.nodes[i + 1]) = OfEntry(history[Saved + i])
  <2>1. list.nodes[i + 1].key = KeyOf(InLog[i]) /\ list.nodes[i + 1].value = InLog[i].value
    BY <1>2 DEF MemInv, Holds
  <2> QED BY <1>2, <2>1 DEF KeyOf
<1> HIDE DEF OfNode, OfEntry
<1>5. ASSUME NEW x \in A PROVE x \in B
  <2>1. PICK n \in 2..Len(list.nodes) : x = OfNode(list.nodes[n])
    OBVIOUS
  <2>2. PICK i \in 1 .. Len(ends) : n = i + 1
    BY <1>1, <1>2
  <2>3. Saved + i \in (Saved + 1)..lastSeq
    BY <1>2
  <2> QED BY <1>4, <2>1, <2>2, <2>3
<1>6. ASSUME NEW x \in B PROVE x \in A
  <2>1. PICK j \in (Saved + 1)..lastSeq : x = OfEntry(history[j])
    OBVIOUS
  <2>2. PICK i \in 1 .. Len(ends) : j = Saved + i
    BY <1>2
  <2>3. i + 1 \in 2..Len(list.nodes)
    BY <1>1, <1>2
  <2> QED BY <1>4, <2>1, <2>2, <2>3
<1>7. A = B
  BY <1>5, <1>6
<1> QED BY <1>3, <1>7 DEF MemtableIsLog, OfNode, OfEntry

\* The memtable stays well formed, whatever heights are drawn, and the search for the key of
\* an entry ends at its node (SkipList::insert, get).
THEOREM SkipListStaysWellFormed == LogSpec => []SkipListWellFormed
<1> QED BY MemInvInit, MemInvStep, MemInvFinds, PTL DEF LogSpec

\* The records of the log, read back and decoded, are the writes since it began, in order, and
\* they are what the memtable holds (Db::write, encode_entry, decode_entry, recover_open).
THEOREM MemtableStaysLog == LogSpec => []MemtableIsLog
<1> QED BY MemInvInit, MemInvStep, MemInvLog, PTL DEF LogSpec
===============================================================================
