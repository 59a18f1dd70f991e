----------------------------- MODULE DCUtf8_proofs -----------------------------
(****************************************************************************)
(* Proofs about the encoder and decoder of UTF-8, for every sequence of      *)
(* bytes: the decoder undoes the encoder, gives nothing else, and gives      *)
(* nothing more once it has thrown.                                          *)
(****************************************************************************)
EXTENDS DCUtf8, TLAPS

------------------------------------------------------------------------------
(* The encoder *)

\* Which code points have k bytes after the first.
Has(c, k) == c \in CodePoint /\ c < Limits[k + 1] /\ (k > 0 => c >= Limits[k])

\* Every code point has one number of bytes.
LEMMA LengthExists ==
  ASSUME NEW c \in CodePoint
  PROVE  \E k \in 0..3 : Has(c, k)
<1>1. c \in Int /\ c >= 0 /\ c < 1114112
  BY SMT DEF CodePoint, Limits
<1>2. c < 128 => Has(c, 0)
  BY <1>1, SMT DEF Has, Limits
<1>3. c >= 128 /\ c < 2048 => Has(c, 1)
  BY <1>1, SMT DEF Has, Limits
<1>4. c >= 2048 /\ c < 65536 => Has(c, 2)
  BY <1>1, SMT DEF Has, Limits
<1>5. c >= 65536 => Has(c, 3)
  BY <1>1, SMT DEF Has, Limits
<1>. QED
  BY <1>1, <1>2, <1>3, <1>4, <1>5, SMT

LEMMA LengthUnique ==
  ASSUME NEW c, NEW k \in 0..3, NEW l \in 0..3, Has(c, k), Has(c, l)
  PROVE  k = l
<1>1. c \in Int
  BY SMT DEF Has, CodePoint
<1>. QED
  BY <1>1, SMT DEF Has, Limits

\* What encode makes of a code point with k bytes after the first.
Bytes(c, k) ==
    [i \in 1..k + 1 |-> IF i = 1 THEN Marks[k + 1] + (c \div Shifts[k + 1])
                                 ELSE 128 + ((c \div Shifts[k + 2 - i]) % 64)]
LEMMA EncodeAt ==
  ASSUME NEW c, NEW k \in 0..3, Has(c, k)
  PROVE  Encode(c) = Bytes(c, k)
<1> DEFINE K == CHOOSE l \in 0..3 : c < Limits[l + 1] /\ (l > 0 => c >= Limits[l])
           E(l) == [i \in 1..l + 1 |-> IF i = 1 THEN Marks[l + 1] + (c \div Shifts[l + 2 - 1])
                                       ELSE 128 + ((c \div Shifts[l + 2 - i]) % 64)]
<1>1. c \in CodePoint
  BY Zenon DEF Has
<1>2. K \in 0..3 /\ Has(c, K)
  BY <1>1, Zenon DEF Has
<1>3. K = k
  BY <1>2, LengthUnique, Zenon
<1>4. Encode(c) = E(K)
  BY <1>1, Zenon DEF Encode
<1> HIDE DEF K
<1>5. Encode(c) = E(k)
  BY <1>3, <1>4, Zenon
<1>6. k + 2 - 1 = k + 1
  BY SMT
<1>. QED
  BY <1>5, <1>6, Zenon DEF Bytes

------------------------------------------------------------------------------
(* The value of bytes *)

IsSum(sum, bytes, k) ==
    sum = [i \in 0..k + 1 |-> IF i = 0 THEN 0 ELSE sum[i - 1] + Bits(bytes, k, i)]

\* The bits of the first and of another byte.
LEMMA BitsFacts ==
  ASSUME NEW bytes \in Seq(Byte), NEW k \in 0..3, k < Len(bytes), NEW i \in 1..k + 1
  PROVE  /\ bytes[i] \in Int /\ 0 <= bytes[i] /\ bytes[i] <= 255
         /\ Bits(bytes, k, i) \in Int
<1>1. Len(bytes) \in Nat /\ 1 \in 1..Len(bytes) /\ i \in 1..Len(bytes)
  BY SMT
<1>2. bytes[i] \in Byte /\ bytes[1] \in Byte
  BY <1>1, SMT
<1>3. /\ bytes[i] \in Int /\ 0 <= bytes[i] /\ bytes[i] <= 255
      /\ bytes[1] \in Int
  <2>1. \A b \in Byte : b \in Int /\ 0 <= b /\ b <= 255
    BY SMT DEF Byte
  <2>. QED
    BY <1>2, <2>1, Zenon
<1>4. bytes[i] % 64 \in Int
  BY <1>3, SMT
<1>5. \A n \in 1..4 : Marks[n] \in Int /\ Shifts[n] \in Int
  BY SMT DEF Marks, Shifts
<1>6. k + 1 \in 1..4 /\ k + 2 - i \in 1..4
  BY SMT
<1>7. \A x, y \in Int : x - y \in Int /\ x * y \in Int
  BY SMT
<1>8. (IF i = 1 THEN bytes[1] - Marks[k + 1] ELSE bytes[i] % 64) \in Int
  BY <1>3, <1>4, <1>5, <1>6, <1>7, Zenon
<1>9. Bits(bytes, k, i) \in Int
  BY <1>5, <1>6, <1>7, <1>8, Zenon DEF Bits
<1>. QED
  BY <1>3, <1>9

\* There are such sums.
LEMMA SumsExist ==
  ASSUME NEW bytes, NEW k \in 0..3
  PROVE  \E sum : IsSum(sum, bytes, k)
<1> DEFINE b(i) == Bits(bytes, k, i)
           s1 == 0 + b(1)
           s2 == s1 + b(2)
           s3 == s2 + b(3)
           s4 == s3 + b(4)
           sum == [i \in 0..k + 1 |-> IF i = 0 THEN 0 ELSE IF i = 1 THEN s1 ELSE IF i = 2 THEN s2
                                      ELSE IF i = 3 THEN s3 ELSE s4]
<1>1. ASSUME NEW i \in 0..k + 1
      PROVE  sum[i] = IF i = 0 THEN 0 ELSE sum[i - 1] + b(i)
  <2>1. i \in {0, 1, 2, 3, 4}
    BY SMT
  <2> HIDE DEF b
  <2>2. CASE i = 0
    BY <2>2, SMT
  <2>3. CASE i = 1
    <3>1. i - 1 = 0 /\ 0 \in 0..k + 1
      BY <2>3, SMT
    <3>. QED
      BY <2>3, <3>1, Zenon
  <2>4. CASE i = 2
    <3>1. i - 1 = 1 /\ 1 \in 0..k + 1 /\ 2 # 0 /\ 2 # 1 /\ 1 # 0
      BY <2>4, SMT
    <3>. QED
      BY <2>4, <3>1, Zenon
  <2>5. CASE i = 3
    <3>1. i - 1 = 2 /\ 2 \in 0..k + 1 /\ 3 # 0 /\ 3 # 1 /\ 3 # 2 /\ 2 # 0 /\ 2 # 1
      BY <2>5, SMT
    <3>. QED
      BY <2>5, <3>1, Zenon
  <2>6. CASE i = 4
    <3>1. i - 1 = 3 /\ 3 \in 0..k + 1 /\ 4 # 0 /\ 4 # 1 /\ 4 # 2 /\ 4 # 3 /\ 3 # 0 /\ 3 # 1 /\ 3 # 2
      BY <2>6, SMT
    <3>. QED
      BY <2>6, <3>1, Zenon
  <2>. QED
    BY <2>1, <2>2, <2>3, <2>4, <2>5, <2>6
<1>2. sum = [i \in 0..k + 1 |-> sum[i]]
  BY Zenon
<1> HIDE DEF sum
<1>3. sum = [i \in 0..k + 1 |-> IF i = 0 THEN 0 ELSE sum[i - 1] + b(i)]
  BY <1>1, <1>2, Zenon
<1>. QED
  BY <1>3, Zenon DEF IsSum

\* The value is the sum of the bits.
LEMMA ValueIs ==
  ASSUME NEW bytes \in Seq(Byte), NEW k \in 0..3, k < Len(bytes)
  PROVE  /\ k = 0 => Value(bytes, k) = Bits(bytes, k, 1)
         /\ k = 1 => Value(bytes, k) = Bits(bytes, k, 1) + Bits(bytes, k, 2)
         /\ k = 2 => Value(bytes, k) = Bits(bytes, k, 1) + Bits(bytes, k, 2) + Bits(bytes, k, 3)
         /\ k = 3 => Value(bytes, k) = Bits(bytes, k, 1) + Bits(bytes, k, 2) + Bits(bytes, k, 3)
                                       + Bits(bytes, k, 4)
         /\ Value(bytes, k) \in Int
<1> DEFINE sum == CHOOSE sum : IsSum(sum, bytes, k)
<1>1. Value(bytes, k) = sum[k + 1]
  BY Zenon DEF Value, IsSum
<1>2. IsSum(sum, bytes, k)
  BY SumsExist, Zenon
<1> HIDE DEF sum
<1>3. \A i \in 0..k + 1 : sum[i] = IF i = 0 THEN 0 ELSE sum[i - 1] + Bits(bytes, k, i)
  BY <1>2, Zenon DEF IsSum
<1>4. \A i \in 1..k + 1 : Bits(bytes, k, i) \in Int
  BY BitsFacts
<1>5. sum[0] = 0 /\ sum[1] = Bits(bytes, k, 1)
  BY <1>3, <1>4, SMT
<1>6. k >= 1 => sum[2] = Bits(bytes, k, 1) + Bits(bytes, k, 2)
  BY <1>3, <1>5, SMT
<1>7. k >= 2 => sum[3] = Bits(bytes, k, 1) + Bits(bytes, k, 2) + Bits(bytes, k, 3)
  BY <1>3, <1>6, SMT
<1>8. k = 3 => sum[4] = Bits(bytes, k, 1) + Bits(bytes, k, 2) + Bits(bytes, k, 3) + Bits(bytes, k, 4)
  BY <1>3, <1>7, SMT
<1>. QED
  BY <1>1, <1>4, <1>5, <1>6, <1>7, <1>8, SMT

\* Bytes that begin alike have the same value.
LEMMA ValueOfPrefix ==
  ASSUME NEW bytes \in Seq(Byte), NEW more \in Seq(Byte), NEW k \in 0..3,
         k < Len(bytes), k < Len(more), \A i \in 1..k + 1 : bytes[i] = more[i]
  PROVE  Value(bytes, k) = Value(more, k)
<1>1. \A i \in 1..k + 1 : Bits(bytes, k, i) = Bits(more, k, i)
  <2>1. 1 \in 1..k + 1
    BY SMT
  <2>. QED
    BY <2>1, Zenon DEF Bits
<1>. QED
  BY <1>1, ValueIs, SMT

------------------------------------------------------------------------------
(* From bytes to a character and back *)

\* The shifts by six bits.
LEMMA ShiftsAre == Shifts[1] = 1 /\ Shifts[2] = 64 /\ Shifts[3] = 4096 /\ Shifts[4] = 262144
BY SMT DEF Shifts

\* Six bits, those a number ends with, what is above them, and putting them back.
Six       == 0..63
Low(v)    == v % 64
High(v)   == v \div 64
Put(u, r) == u * 64 + r

\* Six bits put behind a number.
LEMMA SixBits ==
  ASSUME NEW u \in Nat, NEW r \in Six
  PROVE  Put(u, r) \in Nat /\ High(Put(u, r)) = u /\ Low(Put(u, r)) = r
<1>1. \A v : v = u * 64 + r => v \in Nat /\ v \div 64 = u /\ v % 64 = r
  BY SMT DEF Six
<1>. QED
  BY <1>1, SMT DEF High, Low, Put

\* Shifting is leaving out six bits several times.
LEMMA ShiftedTwice ==
  ASSUME NEW v \in Nat
  PROVE  /\ v \div Shifts[1] = v /\ v \div Shifts[2] = High(v)
         /\ v \div Shifts[3] = High(High(v)) /\ v \div Shifts[4] = High(High(High(v)))
<1>1. v \div 1 = v
  BY SMT
<1>2. (v \div 64) \div 64 = v \div 4096
  BY SMT
<1>3. (v \div 4096) \div 64 = v \div 262144
  BY SMT
<1>. QED
  BY <1>1, <1>2, <1>3, ShiftsAre, SMT DEF High

\* A number put together of bits, six by six.
Joins1(v, x)          == x \in Nat /\ v = x * Shifts[1]
Joins2(v, x, y)       == x \in Nat /\ y \in Six /\ v = x * Shifts[2] + y * Shifts[1]
Joins3(v, x, y, z)    == /\ x \in Nat /\ y \in Six /\ z \in Six
                         /\ v = x * Shifts[3] + y * Shifts[2] + z * Shifts[1]
Joins4(v, x, y, z, w) == /\ x \in Nat /\ y \in Six /\ z \in Six /\ w \in Six
                         /\ v = x * Shifts[4] + y * Shifts[3] + z * Shifts[2] + w * Shifts[1]

\* It comes apart again: of one byte,
LEMMA Splits1 ==
  ASSUME NEW x, NEW v, Joins1(v, x)
  PROVE  v \in Nat /\ v \div Shifts[1] = x
BY ShiftsAre, SMT DEF Joins1

\* of two,
LEMMA Splits2 ==
  ASSUME NEW x, NEW y, NEW v, Joins2(v, x, y)
  PROVE  v \in Nat /\ v \div Shifts[2] = x /\ Low(v \div Shifts[1]) = y
<1>1. x \in Nat /\ y \in Six
  BY Zenon DEF Joins2
<1>2. v = Put(x, y)
  BY ShiftsAre, SMT DEF Joins2, Put, Six
<1>3. v \in Nat /\ High(v) = x /\ Low(v) = y
  BY <1>1, <1>2, SixBits, Zenon
<1>. QED
  BY <1>3, ShiftedTwice, SMT

\* of three
LEMMA Splits3 ==
  ASSUME NEW x, NEW y, NEW z, NEW v, Joins3(v, x, y, z)
  PROVE  /\ v \in Nat /\ v \div Shifts[3] = x
         /\ Low(v \div Shifts[2]) = y /\ Low(v \div Shifts[1]) = z
<1>1. x \in Nat /\ y \in Six /\ z \in Six
  BY Zenon DEF Joins3
<1>2. v = Put(Put(x, y), z)
  BY ShiftsAre, SMT DEF Joins3, Put, Six
<1>3. Put(x, y) \in Nat /\ High(Put(x, y)) = x /\ Low(Put(x, y)) = y
  BY <1>1, SixBits, Zenon
<1>4. v \in Nat /\ High(v) = Put(x, y) /\ Low(v) = z
  BY <1>1, <1>2, <1>3, SixBits, Zenon
<1>. QED
  BY <1>3, <1>4, ShiftedTwice, Zenon

\* and of four.
LEMMA Splits4 ==
  ASSUME NEW x, NEW y, NEW z, NEW w, NEW v, Joins4(v, x, y, z, w)
  PROVE  /\ v \in Nat /\ v \div Shifts[4] = x
         /\ Low(v \div Shifts[3]) = y /\ Low(v \div Shifts[2]) = z
         /\ Low(v \div Shifts[1]) = w
<1>1. x \in Nat /\ y \in Six /\ z \in Six /\ w \in Six
  BY Zenon DEF Joins4
<1>2. v = Put(Put(Put(x, y), z), w)
  BY ShiftsAre, SMT DEF Joins4, Put, Six
<1>3. Put(x, y) \in Nat /\ High(Put(x, y)) = x /\ Low(Put(x, y)) = y
  BY <1>1, SixBits, Zenon
<1>4. /\ Put(Put(x, y), z) \in Nat /\ High(Put(Put(x, y), z)) = Put(x, y)
      /\ Low(Put(Put(x, y), z)) = z
  BY <1>1, <1>3, SixBits, Zenon
<1>5. v \in Nat /\ High(v) = Put(Put(x, y), z) /\ Low(v) = w
  BY <1>1, <1>2, <1>4, SixBits, Zenon
<1>. QED
  BY <1>3, <1>4, <1>5, ShiftedTwice, SMT

\* The first byte of a character, without its mark.
LEMMA FirstBytes ==
  ASSUME NEW b \in Byte, NEW k \in 0..3, k = Following(b)
  PROVE  b - Marks[k + 1] \in Nat /\ Marks[k + 1] + (b - Marks[k + 1]) = b
<1>1. b \in Int /\ 0 <= b /\ b <= 255
  BY SMT DEF Byte
<1>2. k = 0 => b \in 0..127
  BY <1>1, SMT DEF Following
<1>3. k = 1 => b \in 192..223
  BY <1>1, SMT DEF Following
<1>4. k = 2 => b \in 224..239
  BY <1>1, SMT DEF Following
<1>5. k = 3 => b \in 240..247
  BY <1>1, SMT DEF Following
<1>. QED
  <2>1. CASE k = 0
    BY <1>2, <2>1, SMT DEF Marks
  <2>2. CASE k = 1
    BY <1>3, <2>2, SMT DEF Marks
  <2>3. CASE k = 2
    BY <1>4, <2>3, SMT DEF Marks
  <2>4. CASE k = 3
    BY <1>5, <2>4, SMT DEF Marks
  <2>. QED
    BY <2>1, <2>2, <2>3, <2>4, SMT

\* A byte that may follow carries six bits.
LEMMA LaterBytes ==
  ASSUME NEW b \in 128..191
  PROVE  Low(b) \in Six /\ 128 + Low(b) = b
<1>1. b \in Int /\ 128 <= b /\ b <= 191
  BY SMT
<1>. QED
  BY <1>1, SMT DEF Low, Six

\* Bytes that look like a character with k bytes after the first.
IsShape(bytes, k) ==
    /\ k = Following(bytes[1]) /\ Len(bytes) = k + 1
    /\ \A i \in 2..k + 1 : bytes[i] \in 128..191

\* What the first of such bytes and the others carry.
LEMMA CarriedBits ==
  ASSUME NEW bytes \in Seq(Byte), NEW k \in 0..3, IsShape(bytes, k)
  PROVE  /\ bytes[1] - Marks[k + 1] \in Nat
         /\ Marks[k + 1] + (bytes[1] - Marks[k + 1]) = bytes[1]
         /\ \A i \in 2..k + 1 : Low(bytes[i]) \in Six /\ 128 + Low(bytes[i]) = bytes[i]
         /\ Bits(bytes, k, 1) = (bytes[1] - Marks[k + 1]) * Shifts[k + 1]
         /\ \A i \in 2..k + 1 : Bits(bytes, k, i) = Low(bytes[i]) * Shifts[k + 2 - i]
<1>1. Len(bytes) = k + 1 /\ k = Following(bytes[1])
  BY Zenon DEF IsShape
<1>2. bytes[1] \in Byte
  BY <1>1, SMT
<1>3. /\ bytes[1] - Marks[k + 1] \in Nat
      /\ Marks[k + 1] + (bytes[1] - Marks[k + 1]) = bytes[1]
  BY <1>1, <1>2, FirstBytes, Zenon
<1>4. ASSUME NEW i \in 2..k + 1
      PROVE  Low(bytes[i]) \in Six /\ 128 + Low(bytes[i]) = bytes[i]
  <2>1. bytes[i] \in 128..191
    BY Zenon DEF IsShape
  <2>. QED
    BY <2>1, LaterBytes, Zenon
<1>5. k + 2 - 1 = k + 1 /\ \A i \in 2..k + 1 : i # 1
  BY SMT
<1>6. Bits(bytes, k, 1) = (bytes[1] - Marks[k + 1]) * Shifts[k + 1]
  BY <1>5, Zenon DEF Bits
<1>7. \A i \in 2..k + 1 : Bits(bytes, k, i) = Low(bytes[i]) * Shifts[k + 2 - i]
  BY <1>5, Zenon DEF Bits, Low
<1>. QED
  BY <1>3, <1>4, <1>6, <1>7, Zenon

\* Bytes that are a character, and what dividing by the shifts gives back of them.
LEMMA BitsBack ==
  ASSUME NEW bytes \in Seq(Byte), NEW k \in 0..3, IsShape(bytes, k)
  PROVE  /\ Value(bytes, k) \in Nat
         /\ Value(bytes, k) \div Shifts[k + 1] = bytes[1] - Marks[k + 1]
         /\ \A i \in 2..k + 1 : Low(Value(bytes, k) \div Shifts[k + 2 - i]) = Low(bytes[i])
<1> DEFINE v == Value(bytes, k)
           m == bytes[1] - Marks[k + 1]
           x(i) == Low(bytes[i])
           B(i) == Bits(bytes, k, i)
<1>1. /\ m \in Nat
      /\ \A i \in 2..k + 1 : x(i) \in Six
      /\ B(1) = m * Shifts[k + 1]
      /\ \A i \in 2..k + 1 : B(i) = x(i) * Shifts[k + 2 - i]
  BY CarriedBits, Zenon
<1>2. k < Len(bytes)
  BY SMT DEF IsShape
<1>3. /\ k = 0 => v = B(1)
      /\ k = 1 => v = B(1) + B(2)
      /\ k = 2 => v = B(1) + B(2) + B(3)
      /\ k = 3 => v = B(1) + B(2) + B(3) + B(4)
  BY <1>2, ValueIs, Zenon
<1>4. v \in Nat /\ v \div Shifts[k + 1] = m /\ \A i \in 2..k + 1 : Low(v \div Shifts[k + 2 - i]) = x(i)
  <2> HIDE DEF v, m, x, B
  <2>2. CASE k = 0
    <3>1. k + 1 = 1 /\ \A i \in 2..k + 1 : FALSE
      BY <2>2, SMT
    <3>2. Joins1(v, m)
      BY <1>1, <1>3, <2>2, <3>1, Zenon DEF Joins1
    <3>3. v \in Nat /\ v \div Shifts[1] = m
      BY <3>2, Splits1, Zenon
    <3>. QED
      BY <3>1, <3>3, Zenon
  <2>3. CASE k = 1
    <3>1. k + 1 = 2 /\ k + 2 - 2 = 1 /\ 2 \in 2..k + 1 /\ \A i \in 2..k + 1 : i = 2
      BY <2>3, SMT
    <3>2. B(1) = m * Shifts[2] /\ B(2) = x(2) * Shifts[1] /\ x(2) \in Six
      BY <1>1, <3>1, Zenon
    <3>3. Joins2(v, m, x(2))
      BY <1>1, <1>3, <2>3, <3>2, Zenon DEF Joins2
    <3>4. v \in Nat /\ v \div Shifts[2] = m /\ Low(v \div Shifts[1]) = x(2)
      BY <3>3, Splits2, Zenon
    <3>. QED
      BY <3>1, <3>4, Zenon
  <2>4. CASE k = 2
    <3>1. /\ k + 1 = 3 /\ k + 2 - 2 = 2 /\ k + 2 - 3 = 1 /\ 2 \in 2..k + 1 /\ 3 \in 2..k + 1
          /\ \A i \in 2..k + 1 : i = 2 \/ i = 3
      BY <2>4, SMT
    <3>2. /\ B(1) = m * Shifts[3] /\ B(2) = x(2) * Shifts[2] /\ B(3) = x(3) * Shifts[1]
          /\ x(2) \in Six /\ x(3) \in Six
      BY <1>1, <3>1, Zenon
    <3>3. Joins3(v, m, x(2), x(3))
      BY <1>1, <1>3, <2>4, <3>2, Zenon DEF Joins3
    <3>4. /\ v \in Nat /\ v \div Shifts[3] = m
          /\ Low(v \div Shifts[2]) = x(2) /\ Low(v \div Shifts[1]) = x(3)
      BY <3>3, Splits3, SMT
    <3>. QED
      BY <3>1, <3>4, Zenon
  <2>5. CASE k = 3
    <3>1. /\ k + 1 = 4 /\ k + 2 - 2 = 3 /\ k + 2 - 3 = 2 /\ k + 2 - 4 = 1
          /\ 2 \in 2..k + 1 /\ 3 \in 2..k + 1 /\ 4 \in 2..k + 1
          /\ \A i \in 2..k + 1 : i = 2 \/ i = 3 \/ i = 4
      BY <2>5, SMT
    <3>2. /\ B(1) = m * Shifts[4] /\ B(2) = x(2) * Shifts[3] /\ B(3) = x(3) * Shifts[2]
          /\ B(4) = x(4) * Shifts[1] /\ x(2) \in Six /\ x(3) \in Six /\ x(4) \in Six
      BY <1>1, <3>1, Zenon
    <3>3. Joins4(v, m, x(2), x(3), x(4))
      BY <1>1, <1>3, <2>5, <3>2, Zenon DEF Joins4
    <3>4. /\ v \in Nat /\ v \div Shifts[4] = m
          /\ Low(v \div Shifts[3]) = x(2) /\ Low(v \div Shifts[2]) = x(3)
          /\ Low(v \div Shifts[1]) = x(4)
      BY <3>3, Splits4, SMT
    <3>. QED
      BY <3>1, <3>4, Zenon
  <2>6. k \in {0, 1, 2, 3}
    BY SMT
  <2>. QED
    BY <2>2, <2>3, <2>4, <2>5, <2>6, Zenon
<1>. QED
  BY <1>4, Zenon

\* Bytes that are a character encode it.
LEMMA BytesEncode ==
  ASSUME NEW bytes \in Seq(Byte), NEW k \in 0..3, IsShape(bytes, k), InRange(Value(bytes, k), k)
  PROVE  Has(Value(bytes, k), k) /\ Encode(Value(bytes, k)) = bytes
<1> DEFINE v == Value(bytes, k)
           E(i) == IF i = 1 THEN Marks[k + 1] + (v \div Shifts[k + 1])
                   ELSE 128 + Low(v \div Shifts[k + 2 - i])
<1>1. v \in Nat
  BY BitsBack
<1>2. Has(v, k)
  <2>1. \A n \in 1..4 : Limits[n] \in Int /\ Limits[n] <= Limits[4]
    BY SMT DEF Limits
  <2>2. v < Limits[k + 1] /\ (k > 0 => v >= Limits[k])
    BY Zenon DEF InRange
  <2>3. k + 1 \in 1..4 /\ 4 \in 1..4
    BY SMT
  <2>4. Limits[k + 1] \in Int /\ Limits[4] \in Int /\ Limits[k + 1] <= Limits[4]
    BY <2>1, <2>3, Zenon
  <2>5. \A a, l, m \in Int : a >= 0 /\ a < l /\ l <= m => a \in 0..m - 1
    BY SMT
  <2>6. v \in Int /\ v >= 0
    BY <1>1, SMT
  <2>7. v \in CodePoint
    BY <2>2, <2>4, <2>5, <2>6, Zenon DEF CodePoint
  <2>. QED
    BY <2>2, <2>7, Zenon DEF Has
<1>3. Encode(v) = [i \in 1..k + 1 |-> E(i)]
  <2>1. Encode(v) = Bytes(v, k)
    BY <1>2, EncodeAt, Zenon
  <2>. QED
    BY <2>1, Zenon DEF Bytes, Low
<1>4. ASSUME NEW i \in 1..k + 1
      PROVE  E(i) = bytes[i]
  <2>1. /\ v \div Shifts[k + 1] = bytes[1] - Marks[k + 1]
        /\ \A j \in 2..k + 1 : Low(v \div Shifts[k + 2 - j]) = Low(bytes[j])
    BY BitsBack, Zenon
  <2>2. /\ Marks[k + 1] + (bytes[1] - Marks[k + 1]) = bytes[1]
        /\ \A j \in 2..k + 1 : 128 + Low(bytes[j]) = bytes[j]
    BY CarriedBits, Zenon
  <2>3. CASE i = 1
    BY <2>1, <2>2, <2>3, Zenon
  <2>4. CASE i # 1
    <3>1. i \in 2..k + 1
      BY <2>4, SMT
    <3>. QED
      BY <2>1, <2>2, <2>4, <3>1, Zenon
  <2>. QED
    BY <2>3, <2>4, Zenon
<1>5. bytes = [i \in 1..k + 1 |-> bytes[i]]
  <2>1. bytes = [i \in 1..Len(bytes) |-> bytes[i]]
    BY SMT
  <2>. QED
    BY <2>1, Zenon DEF IsShape
<1>6. [i \in 1..k + 1 |-> E(i)] = [i \in 1..k + 1 |-> bytes[i]]
  BY <1>4, Zenon
<1>. QED
  BY <1>2, <1>3, <1>5, <1>6, Zenon

------------------------------------------------------------------------------
(* The decoder *)

\* What the decoder keeps: bytes that are no character yet, and the characters
\* it gave, all of them code points.
DecoderOK ==
    /\ buffer \in Seq(Byte) /\ stuck \in BOOLEAN /\ fed \in Seq(CodePoint)
    /\ buffer # << >> => Outcome(buffer) # "present"

\* What bytes that are a character are.
LEMMA PresentIs ==
  ASSUME NEW bytes, NEW k, k = Following(bytes[1])
  PROVE  Outcome(bytes) = "present" <=>
           /\ ~(k >= Len(bytes)) /\ k >= 0
           /\ \A i \in 2..k + 1 : bytes[i] \in 128..191
           /\ InRange(Value(bytes, k), k)
<1> DEFINE Rest == /\ k >= 0
                   /\ \A i \in 2..k + 1 : bytes[i] \in 128..191
                   /\ InRange(Value(bytes, k), k)
<1>1. Outcome(bytes) = IF k >= Len(bytes) THEN "waits" ELSE IF Rest THEN "present" ELSE "throws"
  BY Zenon DEF Outcome
<1>. HIDE DEF Rest
<1>2. Outcome(bytes) = "present" <=> ~(k >= Len(bytes)) /\ Rest
  BY <1>1
<1>. QED
  BY <1>2, Zenon DEF Rest

\* A first byte is followed by three at the most.
LEMMA FollowingIn ==
  ASSUME NEW b \in Byte
  PROVE  Following(b) \in -1..3
BY SMT DEF Following, Byte

\* One byte more is a character only when it is the last one: had fewer bytes been
\* enough, they would have been a character before it.
LEMMA Complete ==
  ASSUME NEW b \in Byte, DecoderOK, Outcome(Append(buffer, b)) = "present"
  PROVE  /\ Append(buffer, b) \in Seq(Byte)
         /\ Following(Append(buffer, b)[1]) \in 0..3
         /\ IsShape(Append(buffer, b), Following(Append(buffer, b)[1]))
         /\ InRange(Decoded(Append(buffer, b)), Following(Append(buffer, b)[1]))
<1> DEFINE bytes == Append(buffer, b)
           k == Following(bytes[1])
<1>1. buffer \in Seq(Byte)
  BY Zenon DEF DecoderOK
<1>2. bytes \in Seq(Byte) /\ Len(bytes) = Len(buffer) + 1 /\ Len(buffer) \in Nat
  BY <1>1, SMT
<1>3. bytes[1] \in Byte
  BY <1>2, SMT
<1>4. \A i \in 1..Len(buffer) : bytes[i] = buffer[i]
  BY <1>1, SMT
<1> HIDE DEF bytes
<1>5. k \in -1..3
  BY <1>3, FollowingIn, Zenon
<1>6. /\ ~(k >= Len(bytes)) /\ k >= 0
      /\ \A i \in 2..k + 1 : bytes[i] \in 128..191
      /\ InRange(Value(bytes, k), k)
  <2>1. Outcome(bytes) = "present"
    BY Zenon DEF bytes
  <2>. QED
    BY <2>1, PresentIs, Zenon
<1> DEFINE Later(s, n) == \A i \in 2..n + 1 : s[i] \in 128..191
<1>7. Later(bytes, k)
  BY <1>6, Zenon
<1> HIDE DEF k, Later
<1>8. k \in 0..3
  BY <1>5, <1>6, SMT
<1>9. ASSUME Len(bytes) # k + 1
      PROVE  FALSE
  <2>1. k < Len(buffer) /\ 1 \in 1..Len(buffer)
    BY <1>2, <1>6, <1>8, <1>9, SMT
  <2>2. buffer # << >>
    BY <1>1, <2>1, SMT
  <2>3. \A i \in 1..k + 1 : i \in 1..Len(buffer)
    BY <1>2, <1>8, <2>1, SMT
  <2>4. \A i \in 1..k + 1 : bytes[i] = buffer[i]
    BY <1>4, <2>3, Zenon
  <2>5. k = Following(buffer[1])
    BY <1>4, <2>1, Zenon DEF k
  <2>6. k < Len(bytes)
    BY <1>2, <1>8, <2>1, SMT
  <2>7. Value(bytes, k) = Value(buffer, k)
    BY <1>1, <1>2, <1>8, <2>1, <2>4, <2>6, ValueOfPrefix, Zenon
  <2>8. \A i \in 2..k + 1 : i \in 1..k + 1
    BY SMT
  <2>9. Later(buffer, k)
    BY <1>7, <2>4, <2>8, Zenon DEF Later
  <2>10. ~(k >= Len(buffer)) /\ k >= 0
    BY <1>2, <1>8, <2>1, SMT
  <2>11. InRange(Value(buffer, k), k)
    BY <1>6, <2>7, Zenon
  <2>12. Outcome(buffer) = "present"
    BY <2>5, <2>9, <2>10, <2>11, PresentIs, Zenon DEF Later
  <2>. QED
    BY <2>2, <2>12, Zenon DEF DecoderOK
<1>10. IsShape(bytes, k)
  BY <1>7, <1>9, Zenon DEF IsShape, Later, k
<1>11. InRange(Decoded(bytes), k)
  BY <1>6, Zenon DEF Decoded, k
<1>. QED
  BY <1>2, <1>8, <1>10, <1>11, Zenon DEF bytes, k

\* What it gives is a code point, encoded by the bytes it was made of.
LEMMA Given ==
  ASSUME NEW b \in Byte, DecoderOK, Outcome(Append(buffer, b)) = "present"
  PROVE  /\ Decoded(Append(buffer, b)) \in CodePoint
         /\ Encode(Decoded(Append(buffer, b))) = Append(buffer, b)
<1> DEFINE bytes == Append(buffer, b)
           k == Following(bytes[1])
<1>1. /\ bytes \in Seq(Byte) /\ k \in 0..3
      /\ IsShape(bytes, k) /\ InRange(Decoded(bytes), k)
  BY Complete, Zenon
<1>2. Decoded(bytes) = Value(bytes, k)
  BY Zenon DEF Decoded
<1> HIDE DEF bytes, k
<1>3. Has(Decoded(bytes), k) /\ Encode(Decoded(bytes)) = bytes
  BY <1>1, <1>2, BytesEncode, Zenon
<1>. QED
  BY <1>3, Zenon DEF Has, bytes

\* The decoder keeps no bytes that are a character, whatever it is fed and also
\* behind an exception, and gives code points only.
THEOREM Decoding == DecoderSpec => []DecoderOK
<1>1. DecoderInit => DecoderOK
  <2>1. << >> \in Seq(Byte) /\ << >> \in Seq(CodePoint)
    BY SMT
  <2>. QED
    BY <2>1, Zenon DEF DecoderInit, DecoderOK
<1>2. DecoderOK /\ [DecoderNext]_decoder => DecoderOK'
  <2> SUFFICES ASSUME DecoderOK, [DecoderNext]_decoder
               PROVE  DecoderOK'
    OBVIOUS
  <2>1. ASSUME NEW b \in Byte, TakeByte(b)
        PROVE  DecoderOK'
    <3>1. buffer \in Seq(Byte) /\ stuck \in BOOLEAN /\ fed \in Seq(CodePoint)
      BY Zenon DEF DecoderOK
    <3>2. stuck' \in BOOLEAN
      BY <2>1, Zenon DEF TakeByte
    <3>3. CASE Outcome(Append(buffer, b)) = "present"
      <4>1. buffer' = << >> /\ fed' = Append(fed, Decoded(Append(buffer, b)))
        BY <2>1, <3>3, Zenon DEF TakeByte
      <4>2. Decoded(Append(buffer, b)) \in CodePoint
        BY <3>3, Given, Zenon
      <4>3. fed' \in Seq(CodePoint)
        BY <3>1, <4>1, <4>2, SMT
      <4>4. buffer' \in Seq(Byte)
        BY <4>1, SMT
      <4>. QED
        BY <3>2, <4>1, <4>3, <4>4, Zenon DEF DecoderOK
    <3>4. CASE Outcome(Append(buffer, b)) # "present"
      <4>1. buffer' = Append(buffer, b) /\ fed' = fed
        BY <2>1, <3>4, Zenon DEF TakeByte
      <4>2. buffer' \in Seq(Byte)
        BY <3>1, <4>1, SMT
      <4>3. Outcome(buffer') # "present"
        BY <3>4, <4>1, Zenon
      <4>. QED
        BY <3>1, <3>2, <4>1, <4>2, <4>3, Zenon DEF DecoderOK
    <3>. QED
      BY <3>3, <3>4, Zenon
  <2>2. ASSUME UNCHANGED << buffer, stuck >>, fed' \in Seq(CodePoint)
        PROVE  DecoderOK'
    <3>1. buffer' = buffer /\ stuck' = stuck
      BY <2>2, Zenon
    <3>2. /\ buffer' \in Seq(Byte) /\ stuck' \in BOOLEAN
          /\ buffer' # << >> => Outcome(buffer') # "present"
      BY <3>1, Zenon DEF DecoderOK
    <3>. QED
      BY <2>2, <3>2, Zenon DEF DecoderOK
  <2>3. << >> \in Seq(CodePoint) /\ fed \in Seq(CodePoint)
    BY SMT DEF DecoderOK
  <2>4. CASE fed' = << >> /\ UNCHANGED << buffer, stuck >>
    BY <2>2, <2>3, <2>4, Zenon
  <2>5. CASE UNCHANGED decoder
    <3>1. UNCHANGED << buffer, stuck >> /\ fed' = fed
      BY <2>5, Zenon DEF decoder
    <3>. QED
      BY <2>2, <2>3, <3>1, Zenon
  <2>. QED
    BY <2>1, <2>4, <2>5, Zenon DEF DecoderNext
<1>. QED
  BY <1>1, <1>2, PTL DEF DecoderSpec

\* Whatever bytes the decoder is fed, each character it gives is encoded by the
\* very bytes it was decoded from: none is overlong, a stray byte or out of range.
THEOREM RoundTrip == DecoderSpec => CharactersRoundTrip
<1>1. DecoderOK /\ [DecoderNext]_decoder
        => [fed' # fed /\ fed' # << >> =>
              \E b \in Byte : Encode(Last(fed')) = Append(buffer, b)]_decoder
  <2> SUFFICES ASSUME DecoderOK, DecoderNext, fed' # fed, fed' # << >>
               PROVE  \E b \in Byte : Encode(Last(fed')) = Append(buffer, b)
    BY Zenon DEF decoder
  <2>1. PICK b \in Byte : TakeByte(b)
    BY Zenon DEF DecoderNext
  <2>2. Outcome(Append(buffer, b)) = "present" /\ fed' = Append(fed, Decoded(Append(buffer, b)))
    BY <2>1, Zenon DEF TakeByte
  <2>3. /\ Decoded(Append(buffer, b)) \in CodePoint
        /\ Encode(Decoded(Append(buffer, b))) = Append(buffer, b)
    BY <2>2, Given, Zenon
  <2>4. fed \in Seq(CodePoint)
    BY Zenon DEF DecoderOK
  <2>5. Last(fed') = Decoded(Append(buffer, b))
    <3> DEFINE c == Decoded(Append(buffer, b))
    <3> HIDE DEF c
    <3>1. fed' = Append(fed, c) /\ c \in CodePoint
      BY <2>2, <2>3, Zenon DEF c
    <3>2. Last(Append(fed, c)) = c
      BY <2>4, <3>1, SMT DEF Last
    <3>. QED
      BY <3>1, <3>2, Zenon DEF c
  <2>. QED
    BY <2>3, <2>5, Zenon
<1>. QED
  BY <1>1, Decoding, PTL DEF DecoderSpec, CharactersRoundTrip

------------------------------------------------------------------------------
(* Behind an exception *)

\* What bytes the decoder throws for are.
LEMMA ThrowsIs ==
  ASSUME NEW bytes, NEW k, k = Following(bytes[1])
  PROVE  Outcome(bytes) = "throws" <=>
           /\ ~(k >= Len(bytes))
           /\ ~ /\ k >= 0
                /\ \A i \in 2..k + 1 : bytes[i] \in 128..191
                /\ InRange(Value(bytes, k), k)
<1> DEFINE Rest == /\ k >= 0
                   /\ \A i \in 2..k + 1 : bytes[i] \in 128..191
                   /\ InRange(Value(bytes, k), k)
<1>1. Outcome(bytes) = IF k >= Len(bytes) THEN "waits" ELSE IF Rest THEN "present" ELSE "throws"
  BY Zenon DEF Outcome
<1>. HIDE DEF Rest
<1>2. Outcome(bytes) = "throws" <=> ~(k >= Len(bytes)) /\ ~Rest
  BY <1>1
<1>. QED
  BY <1>2, Zenon DEF Rest

\* Bytes it throws for are thrown for whatever follows them.
LEMMA ThrowsOn ==
  ASSUME NEW bytes \in Seq(Byte), bytes # << >>, NEW b \in Byte, Outcome(bytes) = "throws"
  PROVE  Outcome(Append(bytes, b)) = "throws"
<1> DEFINE more == Append(bytes, b)
           k == Following(bytes[1])
           Later(s, n) == \A i \in 2..n + 1 : s[i] \in 128..191
<1>1. /\ more \in Seq(Byte) /\ Len(more) = Len(bytes) + 1 /\ Len(bytes) \in Nat \ {0}
      /\ \A i \in 1..Len(bytes) : more[i] = bytes[i]
  BY SMT
<1>2. 1 \in 1..Len(bytes) /\ bytes[1] \in Byte
  BY SMT
<1> HIDE DEF more
<1>3. k = Following(more[1])
  BY <1>1, <1>2, Zenon
<1>4. k \in -1..3
  BY <1>2, FollowingIn, Zenon
<1>5. ~(k >= Len(bytes)) /\ ~(k >= 0 /\ Later(bytes, k) /\ InRange(Value(bytes, k), k))
  BY ThrowsIs, Zenon
<1> HIDE DEF k, Later
<1>6. ~(k >= Len(more))
  BY <1>1, <1>4, <1>5, SMT
<1>7. ASSUME k >= 0, Later(more, k), InRange(Value(more, k), k)
      PROVE  FALSE
  <2>1. k \in 0..3 /\ k < Len(bytes) /\ k < Len(more) /\ \A i \in 1..k + 1 : i \in 1..Len(bytes)
    BY <1>1, <1>4, <1>5, <1>7, SMT
  <2>2. \A i \in 1..k + 1 : bytes[i] = more[i]
    BY <1>1, <2>1, Zenon
  <2>3. Value(bytes, k) = Value(more, k)
    BY <1>1, <2>1, <2>2, ValueOfPrefix, Zenon
  <2>4. \A i \in 2..k + 1 : i \in 1..k + 1
    BY SMT
  <2>5. Later(bytes, k)
    BY <1>7, <2>2, <2>4, Zenon DEF Later
  <2>. QED
    BY <1>5, <1>7, <2>3, <2>5, Zenon
<1>8. Outcome(more) = "throws"
  BY <1>3, <1>6, <1>7, ThrowsIs, Zenon DEF Later
<1>. QED
  BY <1>8, Zenon DEF more

\* A decoder that has thrown keeps the bytes it threw for.
StuckOK == stuck => buffer # << >> /\ Outcome(buffer) = "throws"

\* A decoder that has thrown never gives a character again: whatever bytes it is
\* fed, none is added, since the bad ones are not cleared.
THEOREM StuckForGood == DecoderSpec => [][stuck => stuck' /\ fed' \in {fed, << >>}]_decoder
<1>1. DecoderInit => StuckOK
  BY Zenon DEF DecoderInit, StuckOK
<1>2. DecoderOK /\ StuckOK /\ [DecoderNext]_decoder
        => StuckOK' /\ [stuck => stuck' /\ fed' \in {fed, << >>}]_decoder
  <2> SUFFICES ASSUME DecoderOK, StuckOK, [DecoderNext]_decoder
               PROVE  StuckOK' /\ (stuck => stuck' /\ fed' \in {fed, << >>})
    BY Zenon
  <2>1. ASSUME NEW b \in Byte, TakeByte(b)
        PROVE  StuckOK' /\ (stuck => stuck' /\ fed' \in {fed, << >>})
    <3> DEFINE bytes == Append(buffer, b)
    <3>1. buffer \in Seq(Byte)
      BY Zenon DEF DecoderOK
    <3>2. bytes # << >>
      <4>1. Len(bytes) = Len(buffer) + 1 /\ Len(buffer) \in Nat
        BY <3>1, SMT
      <4>2. Len(bytes) # 0
        BY <4>1, SMT
      <4>3. Len(<< >>) = 0
        BY SMT
      <4>. QED
        BY <4>2, <4>3, Zenon
    <3>3. stuck => Outcome(bytes) = "throws"
      BY <3>1, ThrowsOn, Zenon DEF StuckOK
    <3>4. /\ stuck' = (stuck \/ Outcome(bytes) = "throws")
          /\ Outcome(bytes) # "present" => buffer' = bytes /\ fed' = fed
      BY <2>1, Zenon DEF TakeByte
    <3> HIDE DEF bytes
    <3>5. "throws" # "present"
      BY SMT
    <3>6. StuckOK'
      <4>1. stuck' => Outcome(bytes) = "throws"
        BY <3>3, <3>4, Zenon
      <4>2. stuck' => buffer' = bytes
        BY <3>4, <3>5, <4>1, Zenon
      <4>3. stuck' => buffer' # << >> /\ Outcome(buffer') = "throws"
        BY <3>2, <4>1, <4>2, Zenon
      <4>. QED
        BY <4>3, Zenon DEF StuckOK
    <3>7. stuck => stuck' /\ fed' = fed
      BY <3>3, <3>4, <3>5, Zenon
    <3>. QED
      BY <3>6, <3>7, Zenon
  <2>2. ASSUME UNCHANGED << buffer, stuck >>, fed' \in {fed, << >>}
        PROVE  StuckOK' /\ (stuck => stuck' /\ fed' \in {fed, << >>})
    <3>1. buffer' = buffer /\ stuck' = stuck
      BY <2>2, Zenon
    <3>2. stuck' => buffer' # << >> /\ Outcome(buffer') = "throws"
      BY <3>1, Zenon DEF StuckOK
    <3>3. StuckOK'
      BY <3>2, Zenon DEF StuckOK
    <3>4. stuck => stuck'
      BY <3>1, Zenon
    <3>. QED
      BY <2>2, <3>3, <3>4, Zenon
  <2>3. CASE UNCHANGED decoder
    <3>1. UNCHANGED << buffer, stuck >> /\ fed' = fed
      BY <2>3, Zenon DEF decoder
    <3>. QED
      BY <2>2, <3>1, Zenon
  <2>. QED
    BY <2>1, <2>2, <2>3, Zenon DEF DecoderNext
<1>. QED
  BY <1>1, <1>2, Decoding, PTL DEF DecoderSpec

------------------------------------------------------------------------------
(* What the encoder gives is decoded *)

\* A number is the bits it comes apart into, put together.
LEMMA Joined ==
  ASSUME NEW c \in Nat
  PROVE  /\ (c \div Shifts[1]) * Shifts[1] = c
         /\ (c \div Shifts[2]) * Shifts[2] + Low(c \div Shifts[1]) * Shifts[1] = c
         /\ (c \div Shifts[3]) * Shifts[3] + Low(c \div Shifts[2]) * Shifts[2]
              + Low(c \div Shifts[1]) * Shifts[1] = c
         /\ (c \div Shifts[4]) * Shifts[4] + Low(c \div Shifts[3]) * Shifts[3]
              + Low(c \div Shifts[2]) * Shifts[2] + Low(c \div Shifts[1]) * Shifts[1] = c
<1> DEFINE p == High(c)
           q == High(p)
           r == High(q)
<1>1. \A v \in Nat : High(v) \in Nat /\ Low(v) \in Nat /\ v = High(v) * 64 + Low(v)
  BY SMT DEF High, Low
<1>2. p \in Nat /\ Low(c) \in Nat /\ c = p * 64 + Low(c)
  BY <1>1, Zenon
<1> HIDE DEF p
<1>3. q \in Nat /\ Low(p) \in Nat /\ p = q * 64 + Low(p)
  BY <1>1, <1>2
<1> HIDE DEF q
<1>4. r \in Nat /\ Low(q) \in Nat /\ q = r * 64 + Low(q)
  BY <1>1, <1>3
<1> HIDE DEF r
<1>5. c \div Shifts[1] = c /\ c \div Shifts[2] = p /\ c \div Shifts[3] = q /\ c \div Shifts[4] = r
  BY ShiftedTwice, Zenon DEF p, q, r
<1>6. c * 1 = c /\ p * 64 + Low(c) * 1 = c
  BY <1>2, SMT
<1>7. q * 4096 + Low(p) * 64 + Low(c) * 1 = c
  BY <1>2, <1>3, SMT
<1>8. r * 262144 + Low(q) * 4096 + Low(p) * 64 + Low(c) * 1 = c
  <2>1. \A a, b \in Nat : a = b * 64 + Low(q) => a * 4096 = b * 262144 + Low(q) * 4096
    BY <1>4, SMT
  <2>2. q * 4096 = r * 262144 + Low(q) * 4096
    BY <1>3, <1>4, <2>1
  <2>3. r * 262144 \in Nat /\ Low(q) * 4096 \in Nat
    BY <1>4, SMT
  <2>. QED
    BY <1>2, <1>3, <1>7, <2>2, <2>3, SMT
<1>. QED
  BY <1>5, <1>6, <1>7, <1>8, ShiftsAre, SMT

\* The first byte of an encoded code point says how many follow.
LEMMA FirstEncoded ==
  ASSUME NEW c \in Nat, NEW k \in 0..3, Has(c, k)
  PROVE  LET f == Marks[k + 1] + (c \div Shifts[k + 1])
         IN  f \in Byte /\ Following(f) = k /\ f - Marks[k + 1] = c \div Shifts[k + 1]
<1> DEFINE f == Marks[k + 1] + (c \div Shifts[k + 1])
<1>1. ASSUME k = 0 PROVE f \in Byte /\ Following(f) = k /\ f - Marks[k + 1] = c \div Shifts[k + 1]
  <2>1. c < 128 /\ Marks[k + 1] = 0 /\ Shifts[k + 1] = 1
    BY <1>1, SMT DEF Has, Limits, Marks, Shifts
  <2>2. c \div 1 = c
    BY SMT
  <2>. QED
    BY <1>1, <2>1, <2>2, SMT DEF Byte, Following
<1>2. ASSUME k = 1 PROVE f \in Byte /\ Following(f) = k /\ f - Marks[k + 1] = c \div Shifts[k + 1]
  <2>1. c < 2048 /\ Marks[k + 1] = 192 /\ Shifts[k + 1] = 64
    BY <1>2, SMT DEF Has, Limits, Marks, Shifts
  <2>2. c \div 64 \in 0..31
    BY <2>1, SMT
  <2>. QED
    BY <1>2, <2>1, <2>2, SMT DEF Byte, Following
<1>3. ASSUME k = 2 PROVE f \in Byte /\ Following(f) = k /\ f - Marks[k + 1] = c \div Shifts[k + 1]
  <2>1. c < 65536 /\ Marks[k + 1] = 224 /\ Shifts[k + 1] = 4096
    BY <1>3, SMT DEF Has, Limits, Marks, Shifts
  <2>2. c \div 4096 \in 0..15
    BY <2>1, SMT
  <2>. QED
    BY <1>3, <2>1, <2>2, SMT DEF Byte, Following
<1>4. ASSUME k = 3 PROVE f \in Byte /\ Following(f) = k /\ f - Marks[k + 1] = c \div Shifts[k + 1]
  <2>1. c < 1114112 /\ Marks[k + 1] = 240 /\ Shifts[k + 1] = 262144
    BY <1>4, SMT DEF Has, Limits, Marks, Shifts
  <2>2. c \div 262144 \in 0..4
    BY <2>1, SMT
  <2>. QED
    BY <1>4, <2>1, <2>2, SMT DEF Byte, Following
<1>5. k \in {0, 1, 2, 3}
  BY SMT
<1>. QED
  BY <1>1, <1>2, <1>3, <1>4, <1>5, Zenon

\* The other bytes of an encoded code point carry its bits.
LEMMA LaterEncoded ==
  ASSUME NEW u \in Nat
  PROVE  128 + Low(u) \in 128..191 /\ 128 + Low(u) \in Byte /\ Low(128 + Low(u)) = Low(u)
<1>1. Low(u) \in Six
  BY SMT DEF Low, Six
<1>2. \A y \in Six : 128 + y \in 128..191 /\ 128 + y \in Byte /\ Low(128 + y) = y
  BY SMT DEF Low, Six, Byte
<1>. QED
  BY <1>1, <1>2, SMT

\* The bytes of an encoded code point have its shape and its value.
LEMMA Encoded ==
  ASSUME NEW c, NEW k \in 0..3, Has(c, k)
  PROVE  /\ Encode(c) \in Seq(Byte)
         /\ IsShape(Encode(c), k)
         /\ Value(Encode(c), k) = c
<1> DEFINE bytes == Encode(c)
           u(i) == c \div Shifts[k + 2 - i]
<1>1. c \in Nat
  BY SMT DEF Has, CodePoint, Limits
<1>2. bytes = Bytes(c, k)
  BY EncodeAt, Zenon
<1>3. ASSUME NEW i \in 1..k + 1
      PROVE  u(i) \in Nat
  <2>1. k + 2 - i \in 1..4
    BY SMT
  <2>2. \A n \in 1..4 : Shifts[n] \in Nat /\ Shifts[n] > 0
    BY SMT DEF Shifts
  <2>3. \A s \in Nat : s > 0 => c \div s \in Nat
    BY <1>1, SMT
  <2>. QED
    BY <2>1, <2>2, <2>3, Zenon
<1>4. k + 2 - 1 = k + 1 /\ 1 \in 1..k + 1 /\ \A i \in 2..k + 1 : i \in 1..k + 1 /\ i # 1
  BY SMT
<1> HIDE DEF bytes
<1>5. bytes[1] = Marks[k + 1] + (c \div Shifts[k + 1])
  BY <1>2, <1>4, Zenon DEF Bytes
<1>6. \A i \in 2..k + 1 : bytes[i] = 128 + Low(u(i))
  BY <1>2, <1>4, Zenon DEF Bytes, Low
<1>7. bytes[1] \in Byte /\ Following(bytes[1]) = k /\ bytes[1] - Marks[k + 1] = u(1)
  BY <1>1, <1>4, <1>5, FirstEncoded, Zenon
<1>8. ASSUME NEW i \in 2..k + 1
      PROVE  bytes[i] \in 128..191 /\ bytes[i] \in Byte /\ Low(bytes[i]) = Low(u(i))
  <2>1. u(i) \in Nat /\ bytes[i] = 128 + Low(u(i))
    BY <1>3, <1>4, <1>6, Zenon
  <2> HIDE DEF u
  <2>2. /\ 128 + Low(u(i)) \in 128..191 /\ 128 + Low(u(i)) \in Byte
        /\ Low(128 + Low(u(i))) = Low(u(i))
    BY <2>1, LaterEncoded, Zenon
  <2>. QED
    BY <2>1, <2>2, Zenon
<1>9. bytes \in Seq(Byte) /\ Len(bytes) = k + 1
  <2>1. \A i \in 1..k + 1 : i = 1 \/ i \in 2..k + 1
    BY SMT
  <2>2. \A i \in 1..k + 1 : bytes[i] \in Byte
    BY <1>7, <1>8, <2>1, Zenon
  <2>3. bytes = [i \in 1..k + 1 |-> bytes[i]]
    BY <1>2, Zenon DEF Bytes
  <2>4. k + 1 \in Nat
    BY SMT
  <2>. QED
    BY <2>2, <2>3, <2>4, SMT
<1>10. IsShape(bytes, k)
  BY <1>7, <1>8, <1>9, Zenon DEF IsShape
<1>11. Value(bytes, k) = c
  <2> DEFINE B(i) == Bits(bytes, k, i)
             v == Value(bytes, k)
  <2>1. /\ B(1) = u(1) * Shifts[k + 1]
        /\ \A i \in 2..k + 1 : B(i) = Low(u(i)) * Shifts[k + 2 - i]
    <3>1. /\ B(1) = (bytes[1] - Marks[k + 1]) * Shifts[k + 1]
          /\ \A i \in 2..k + 1 : B(i) = Low(bytes[i]) * Shifts[k + 2 - i]
      BY <1>9, <1>10, CarriedBits, Zenon
    <3> HIDE DEF B, u
    <3>2. \A i \in 2..k + 1 : Low(bytes[i]) = Low(u(i))
      BY <1>8, Zenon
    <3>3. bytes[1] - Marks[k + 1] = u(1)
      BY <1>7, Zenon
    <3>. QED
      BY <3>1, <3>2, <3>3, Zenon
  <2>2. k < Len(bytes)
    BY <1>9, SMT
  <2>3. /\ k = 0 => v = B(1)
        /\ k = 1 => v = B(1) + B(2)
        /\ k = 2 => v = B(1) + B(2) + B(3)
        /\ k = 3 => v = B(1) + B(2) + B(3) + B(4)
    BY <1>9, <2>2, ValueIs, Zenon
  <2> HIDE DEF B, v
  <2>4. CASE k = 0
    <3>1. k + 1 = 1 /\ k + 2 - 1 = 1
      BY <2>4, SMT
    <3>2. B(1) = (c \div Shifts[1]) * Shifts[1]
      BY <2>1, <3>1, Zenon
    <3>. QED
      BY <1>1, <2>3, <2>4, <3>2, Joined, Zenon DEF v
  <2>5. CASE k = 1
    <3>1. k + 1 = 2 /\ k + 2 - 1 = 2 /\ k + 2 - 2 = 1 /\ 2 \in 2..k + 1
      BY <2>5, SMT
    <3>2. B(1) = (c \div Shifts[2]) * Shifts[2] /\ B(2) = Low(c \div Shifts[1]) * Shifts[1]
      BY <2>1, <3>1, Zenon
    <3>. QED
      BY <1>1, <2>3, <2>5, <3>2, Joined, Zenon DEF v
  <2>6. CASE k = 2
    <3>1. /\ k + 1 = 3 /\ k + 2 - 1 = 3 /\ k + 2 - 2 = 2 /\ k + 2 - 3 = 1
          /\ 2 \in 2..k + 1 /\ 3 \in 2..k + 1
      BY <2>6, SMT
    <3>2. /\ B(1) = (c \div Shifts[3]) * Shifts[3] /\ B(2) = Low(c \div Shifts[2]) * Shifts[2]
          /\ B(3) = Low(c \div Shifts[1]) * Shifts[1]
      BY <2>1, <3>1, Zenon
    <3>. QED
      BY <1>1, <2>3, <2>6, <3>2, Joined, Zenon DEF v
  <2>7. CASE k = 3
    <3>1. /\ k + 1 = 4 /\ k + 2 - 1 = 4 /\ k + 2 - 2 = 3 /\ k + 2 - 3 = 2 /\ k + 2 - 4 = 1
          /\ 2 \in 2..k + 1 /\ 3 \in 2..k + 1 /\ 4 \in 2..k + 1
      BY <2>7, SMT
    <3>2. /\ B(1) = (c \div Shifts[4]) * Shifts[4] /\ B(2) = Low(c \div Shifts[3]) * Shifts[3]
          /\ B(3) = Low(c \div Shifts[2]) * Shifts[2] /\ B(4) = Low(c \div Shifts[1]) * Shifts[1]
      BY <2>1, <3>1, Zenon
    <3>. QED
      BY <1>1, <2>3, <2>7, <3>2, Joined, Zenon DEF v
  <2>8. k \in {0, 1, 2, 3}
    BY SMT
  <2>. QED
    BY <2>4, <2>5, <2>6, <2>7, <2>8, Zenon DEF v
<1>. QED
  BY <1>9, <1>10, <1>11, Zenon DEF bytes

\* What the encoder gives for a code point is decoded to it: the decoder waits
\* until the last of its bytes and then gives the code point.
THEOREM EncodedIsDecoded ==
  ASSUME NEW c \in CodePoint
  PROVE  /\ Outcome(Encode(c)) = "present" /\ Decoded(Encode(c)) = c
         /\ \A n \in 1..Len(Encode(c)) - 1 : Outcome(SubSeq(Encode(c), 1, n)) = "waits"
<1>1. PICK k \in 0..3 : Has(c, k)
  BY LengthExists, Zenon
<1> DEFINE bytes == Encode(c)
<1>2. bytes \in Seq(Byte) /\ IsShape(bytes, k) /\ Value(bytes, k) = c
  BY <1>1, Encoded, Zenon
<1> HIDE DEF bytes
<1>3. k = Following(bytes[1]) /\ Len(bytes) = k + 1
  BY <1>2, Zenon DEF IsShape
<1>4. Outcome(bytes) = "present"
  <2>1. ~(k >= Len(bytes)) /\ k >= 0
    BY <1>3, SMT
  <2>2. InRange(Value(bytes, k), k)
    BY <1>1, <1>2, Zenon DEF Has, InRange
  <2>. QED
    BY <1>2, <1>3, <2>1, <2>2, PresentIs, Zenon DEF IsShape
<1>5. Decoded(bytes) = c
  BY <1>2, <1>3, Zenon DEF Decoded
<1>6. ASSUME NEW n \in 1..Len(bytes) - 1
      PROVE  Outcome(SubSeq(bytes, 1, n)) = "waits"
  <2>1. SubSeq(bytes, 1, n)[1] = bytes[1] /\ Len(SubSeq(bytes, 1, n)) = n
    BY <1>2, SMT
  <2>2. k >= n
    BY <1>3, SMT
  <2>. QED
    BY <1>3, <2>1, <2>2, Zenon DEF Outcome
<1>. QED
  BY <1>4, <1>5, <1>6, Zenon DEF bytes

==============================================================================
