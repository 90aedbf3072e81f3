--------------------------- MODULE AlgorithmProofs ---------------------------
(***************************************************************************)
(* What the sequential helpers compute, for messages and trees of any      *)
(* size.  In this order: the hasher (the digits of the length and the      *)
(* blocks as functions of the number of bytes handed over), the            *)
(* constructor of the Merkle tree (the levels as rows of nodes of one      *)
(* width), induction, and the Base64 coders (a text is the groups of six   *)
(* bits of the message, whole or cut short).  What uses the coders, and    *)
(* the messages of the greeter service, are in FileAndMessageProofs.       *)
(***************************************************************************)
EXTENDS Algorithms, FiniteSetTheorems, WellFoundedInduction, SequenceTheorems, TLAPS

-----------------------------------------------------------------------------
\* division with a remainder, and what adds up under it
LEMMA Division ==
  ASSUME NEW n \in Nat, NEW d \in Nat \ {0}
  PROVE  /\ n \div d \in Nat /\ n % d \in 0..(d - 1)
         /\ n = d * (n \div d) + (n % d)
<1>1. n \div d \in Nat
  BY Z3
<1>2. n % d \in 0..(d - 1)
  BY Z3
<1>3. n = d * (n \div d) + (n % d)
  BY Z3
<1> QED BY <1>1, <1>2, <1>3

\* a product and a remainder are taken apart again
LEMMA Quotient ==
  ASSUME NEW q \in Nat, NEW d \in Nat \ {0}, NEW r \in 0..(d - 1)
  PROVE  (d * q + r) \div d = q /\ (d * q + r) % d = r
BY SMT

\* the same of a number that is known to be such a sum
LEMMA QuotientOf ==
  ASSUME NEW n \in Nat, NEW q \in Nat, NEW d \in Nat \ {0}, NEW r \in 0..(d - 1),
         n = d * q + r
  PROVE  n \div d = q /\ n % d = r
BY Quotient

\* what is added to a number is added to its remainder, with a carry
LEMMA Carry ==
  ASSUME NEW x \in Nat, NEW c \in Nat, NEW d \in Nat \ {0}
  PROVE  /\ (x + c) % d = ((x % d) + c) % d
         /\ (x + c) \div d = x \div d + ((x % d) + c) \div d
<1> DEFINE q == x \div d
           r == x % d
           q2 == (r + c) \div d
           r2 == (r + c) % d
<1>1. q \in Nat /\ r \in 0..(d - 1) /\ x = d * q + r
  BY Division
<1>2. q2 \in Nat /\ r2 \in 0..(d - 1) /\ r + c = d * q2 + r2
  <2>1. r + c \in Nat
    BY <1>1
  <2> QED BY <2>1, Division
<1> HIDE DEF q, r, q2, r2
<1>3. d * (q + q2) = d * q + d * q2
  BY <1>1, <1>2
<1>4. x + c = d * (q + q2) + r2 /\ q + q2 \in Nat /\ x + c \in Nat
  BY <1>1, <1>2, <1>3
<1>5. (x + c) \div d = q + q2 /\ (x + c) % d = r2
  <2> DEFINE z == q + q2
             y == x + c
  <2>1. z \in Nat /\ y \in Nat /\ y = d * z + r2
    BY <1>4
  <2> HIDE DEF z, y
  <2>2. y \div d = z /\ y % d = r2
    BY <1>2, <2>1, QuotientOf
  <2> QED BY <2>2 DEF z, y
<1> QED BY <1>5 DEF q, r, q2, r2

\* two divisions in a row
LEMMA Twice ==
  ASSUME NEW n \in Nat, NEW b \in Nat \ {0}
  PROVE  /\ (n \div b) \div b = n \div (b * b)
         /\ (n \div b) % b = (n % (b * b)) \div b
         /\ n % b = (n % (b * b)) % b
<1> DEFINE q == n \div b
           r == n % b
           q2 == q \div b
           r2 == q % b
<1>1. q \in Nat /\ r \in 0..(b - 1) /\ n = b * q + r
  BY Division
<1>2. q2 \in Nat /\ r2 \in 0..(b - 1) /\ q = b * q2 + r2
  BY <1>1, Division
<1> HIDE DEF q, r, q2, r2
<1>3. b * q = b * (b * q2) + b * r2
  BY <1>1, <1>2
<1>4. b * (b * q2) = (b * b) * q2
  BY <1>2
<1>5. b * r2 + r \in 0..(b * b - 1)
  <2>1. b * r2 \in Nat
    BY <1>2
  <2>2. b * r2 =< b * (b - 1)
    BY <1>2
  <2>3. b * (b - 1) = b * b - b
    OBVIOUS
  <2> QED BY <1>1, <2>1, <2>2, <2>3
<1>6. b * b \in Nat \ {0}
  OBVIOUS
<1>7. n = (b * b) * q2 + (b * r2 + r)
  BY <1>1, <1>2, <1>3, <1>4
<1>8. n \div (b * b) = q2 /\ n % (b * b) = b * r2 + r
  BY <1>2, <1>5, <1>6, <1>7, QuotientOf
<1>9. (b * r2 + r) \div b = r2 /\ (b * r2 + r) % b = r
  BY <1>1, <1>2, Quotient
<1> QED BY <1>8, <1>9 DEF q, r, q2, r2

-----------------------------------------------------------------------------
\* A digit of the length is two bytes and a multiple of 8, so that its top
\* three bits are a division.
LEMMA Bases ==
  /\ ByteBase \in Nat \ {0} /\ DigitBase \in Nat \ {0}
  /\ DigitBase \div 8 \in Nat \ {0} /\ DigitBase = 8 * (DigitBase \div 8)
<1>1. PICK k \in Nat : ByteBase = 4 * k /\ k > 0
  <2>1. ByteBase = 4 * (ByteBase \div 4) + (ByteBase % 4) /\ ByteBase \div 4 \in Nat
    BY Sha256Assumption, Division
  <2> QED BY <2>1, Sha256Assumption
<1>2. DigitBase = 16 * (k * k)
  BY <1>1 DEF DigitBase
<1>3. k * k \in Nat \ {0}
  BY <1>1
<1> QED BY <1>1, <1>2, <1>3

\* what the recursive function Shifted is, step by step
LEMMA Shifts ==
  ASSUME NEW v \in Nat
  PROVE  /\ Shifted(v)[0] = v
         /\ \A k \in 1..7 : Shifted(v)[k] = Shifted(v)[k - 1] \div ByteBase
<1> DEFINE step(f) == [k \in 0..7 |-> IF k = 0 THEN v ELSE f[k - 1] \div ByteBase]
           d(x) == x \div ByteBase
           g == [k \in 0..7 |->
                   IF k = 0 THEN v ELSE IF k = 1 THEN d(v) ELSE
                   IF k = 2 THEN d(d(v)) ELSE IF k = 3 THEN d(d(d(v))) ELSE
                   IF k = 4 THEN d(d(d(d(v)))) ELSE IF k = 5 THEN d(d(d(d(d(v))))) ELSE
                   IF k = 6 THEN d(d(d(d(d(d(v)))))) ELSE d(d(d(d(d(d(d(v)))))))]
<1>1. g = step(g)
  <2> HIDE DEF d
  <2>1. \A k \in 0..7 : g[k] = IF k = 0 THEN v ELSE d(g[k - 1])
    <3> TAKE k \in 0..7
    <3>1. k \in {0, 1, 2, 3, 4, 5, 6, 7}
      OBVIOUS
    <3> QED BY <3>1
  <2>2. g = [k \in 0..7 |-> IF k = 0 THEN v ELSE d(g[k - 1])]
    BY <2>1, Zenon
  <2> QED BY <2>2 DEF d
<1> HIDE DEF g
<1>2. Shifted(v) = CHOOSE f : f = step(f)
  BY DEF Shifted
<1>3. Shifted(v) = step(Shifted(v))
  <2> HIDE DEF step
  <2> QED BY <1>1, <1>2
<1>4. \A k \in 0..7 : Shifted(v)[k] =
        IF k = 0 THEN v ELSE Shifted(v)[k - 1] \div ByteBase
  <2> DEFINE f == Shifted(v)
  <2>1. f = step(f)
    BY <1>3
  <2> HIDE DEF f
  <2>2. \A k \in 0..7 : step(f)[k] = IF k = 0 THEN v ELSE f[k - 1] \div ByteBase
    OBVIOUS
  <2>3. \A k \in 0..7 : f[k] = IF k = 0 THEN v ELSE f[k - 1] \div ByteBase
    BY <2>1, <2>2, Zenon
  <2> QED BY <2>3 DEF f
<1> QED BY <1>4

\* A number as the four digits that data_length_digits_ keeps: its lowest digit,
\* and the number above it.
High(n) == n \div DigitBase
Low(n) == n % DigitBase
Digits(n) == <<Low(n), Low(High(n)), Low(High(High(n))), Low(High(High(High(n))))>>

\* a number is made of its digits
LEMMA Split ==
  ASSUME NEW n \in Nat
  PROVE  High(n) \in Nat /\ Low(n) \in 0..(DigitBase - 1) /\ n = DigitBase * High(n) + Low(n)
BY Division, Bases DEF High, Low

\* an addition carries into the high digits what the low one cannot hold
LEMMA Carried ==
  ASSUME NEW x \in Nat, NEW c \in Nat
  PROVE  Low(x + c) = Low(Low(x) + c) /\ High(x + c) = High(x) + High(Low(x) + c)
BY Carry, Bases DEF High, Low

\* add_to_data_length carries as an addition does
LEMMA LengthAdded ==
  ASSUME NEW n \in Nat, NEW m \in Nat
  PROVE  AddToDataLength(Digits(n), m) = Digits(n + m)
<1> DEFINE v1 == Low(n) + m
           v2 == Low(High(n)) + High(v1)
           v3 == Low(High(High(n))) + High(v2)
           v4 == Low(High(High(High(n)))) + High(v3)
<1>1. AddToDataLength(Digits(n), m) = <<Low(v1), Low(v2), Low(v3), Low(v4)>>
  BY DEF AddToDataLength, Digits, High, Low
<1>2. v1 \in Nat /\ v2 \in Nat /\ v3 \in Nat /\ v4 \in Nat
  <2>1. Low(n) \in Nat /\ High(n) \in Nat
    BY Split
  <2>2. v1 \in Nat
    BY <2>1
  <2>3. Low(High(n)) \in Nat /\ High(High(n)) \in Nat /\ High(v1) \in Nat
    BY <2>1, <2>2, Split
  <2>4. v2 \in Nat
    BY <2>3
  <2> HIDE DEF v1, v2
  <2>5. Low(High(High(n))) \in Nat /\ High(High(High(n))) \in Nat /\ High(v2) \in Nat
    BY <2>3, <2>4, Split
  <2>6. v3 \in Nat
    BY <2>5
  <2> HIDE DEF v3
  <2>7. Low(High(High(High(n)))) \in Nat /\ High(v3) \in Nat
    BY <2>5, <2>6, Split
  <2>8. v4 \in Nat
    BY <2>7
  <2> QED BY <2>2, <2>4, <2>6, <2>8
<1>3. Low(n + m) = Low(v1) /\ High(n + m) = High(n) + High(v1)
  BY Carried
<1>4. High(n) \in Nat /\ High(High(n)) \in Nat /\ High(High(High(n))) \in Nat
  BY Split
<1>5. High(v1) \in Nat /\ High(v2) \in Nat /\ High(v3) \in Nat
  <2> HIDE DEF v1, v2, v3
  <2> QED BY <1>2, Split
<1>6. /\ Low(High(n) + High(v1)) = Low(v2)
      /\ High(High(n) + High(v1)) = High(High(n)) + High(v2)
  BY <1>4, <1>5, Carried
<1>7. /\ Low(High(High(n)) + High(v2)) = Low(v3)
      /\ High(High(High(n)) + High(v2)) = High(High(High(n))) + High(v3)
  <2> HIDE DEF v2
  <2> QED BY <1>4, <1>5, Carried DEF v3
<1>8. Low(High(High(High(n))) + High(v3)) = Low(v4)
  <2> HIDE DEF v3
  <2> QED BY <1>4, <1>5, Carried DEF v4
<1> HIDE DEF v1, v2, v3, v4
<1> QED BY <1>1, <1>3, <1>6, <1>7, <1>8, Zenon DEF Digits

\* the three bits that write_data_bit_length shifts out of a digit
Top(d) == d \div (DigitBase \div 8)

\* eight times a number with three more bits below it, a digit at a time
LEMMA EightTimes ==
  ASSUME NEW n \in Nat, NEW c \in 0..7
  PROVE  /\ High(8 * n + c) = 8 * High(n) + Top(Low(n))
         /\ Low(8 * n + c) = Low(8 * Low(n) + c)
         /\ Top(Low(n)) \in 0..7
<1> DEFINE e == DigitBase \div 8
           q == Low(n) \div e
           r == Low(n) % e
<1>1. e \in Nat \ {0} /\ DigitBase = 8 * e /\ DigitBase \in Nat \ {0}
  BY Bases
<1>2. High(n) \in Nat /\ Low(n) \in 0..(DigitBase - 1) /\ n = DigitBase * High(n) + Low(n)
  BY Split
<1> HIDE DEF e
<1>3. q \in Nat /\ r \in 0..(e - 1) /\ Low(n) = e * q + r
  <2> DEFINE low == Low(n)
  <2>1. low \in Nat
    BY <1>1, <1>2
  <2> HIDE DEF low
  <2>2. low \div e \in Nat /\ low % e \in 0..(e - 1) /\ low = e * (low \div e) + (low % e)
    BY <1>1, <2>1, Division
  <2> QED BY <2>2 DEF low
<1> HIDE DEF q, r
<1>4. q \in 0..7
  <2>1. e * q < e * 8
    BY <1>1, <1>2, <1>3
  <2> QED BY <1>1, <1>3, <2>1
<1>5. 8 * r + c \in 0..(DigitBase - 1)
  BY <1>1, <1>3
<1>6. 8 * (e * q) = DigitBase * q
  BY <1>1, <1>3
<1>7. 8 * (DigitBase * High(n)) = DigitBase * (8 * High(n))
  BY <1>1, <1>2
<1>8. DigitBase * (8 * High(n) + q) = DigitBase * (8 * High(n)) + DigitBase * q
  BY <1>1, <1>2, <1>3
<1>9. 8 * n + c = DigitBase * (8 * High(n) + q) + (8 * r + c)
  <2> DEFINE a == DigitBase * High(n)
             b == DigitBase * (8 * High(n))
             z == DigitBase * (8 * High(n) + q)
             f == e * q
             g == DigitBase * q
  <2>1. a \in Nat /\ b \in Nat /\ z \in Nat /\ f \in Nat /\ g \in Nat
    BY <1>1, <1>2, <1>3
  <2>2. 8 * f = g /\ 8 * a = b /\ z = b + g
    BY <1>6, <1>7, <1>8
  <2>3. n = a + Low(n) /\ Low(n) = f + r
    BY <1>2, <1>3, Zenon
  <2> HIDE DEF a, b, z, f, g
  <2>4. r \in Nat /\ c \in Nat
    BY <1>1, <1>3
  <2>5. 8 * n + c = z + (8 * r + c)
    BY <2>1, <2>2, <2>3, <2>4
  <2> QED BY <2>5 DEF z
<1>10. 8 * Low(n) + c = DigitBase * q + (8 * r + c)
  BY <1>1, <1>2, <1>3, <1>6
<1>11. High(8 * n + c) = 8 * High(n) + q /\ Low(8 * n + c) = 8 * r + c
  <2> DEFINE z == 8 * High(n) + q
             y == 8 * n + c
             w == 8 * r + c
  <2>1. z \in Nat /\ y \in Nat /\ w \in 0..(DigitBase - 1) /\ y = DigitBase * z + w
    BY <1>2, <1>3, <1>5, <1>9
  <2> HIDE DEF z, y, w
  <2>2. y \div DigitBase = z /\ y % DigitBase = w
    BY <1>1, <2>1, QuotientOf
  <2> QED BY <2>2 DEF z, y, w, High, Low
<1>12. Low(8 * Low(n) + c) = 8 * r + c
  <2> DEFINE y == 8 * Low(n) + c
             w == 8 * r + c
  <2>1. y \in Nat /\ w \in 0..(DigitBase - 1) /\ y = DigitBase * q + w
    BY <1>2, <1>5, <1>10
  <2> HIDE DEF y, w
  <2>2. y % DigitBase = w
    BY <1>1, <1>3, <2>1, QuotientOf
  <2> QED BY <2>2 DEF y, w, Low
<1>13. Top(Low(n)) = q
  BY DEF Top, q, e
<1> QED BY <1>4, <1>11, <1>12, <1>13

\* two bytes of a number are one digit of it
LEMMA TwoBytes ==
  ASSUME NEW v \in Nat, NEW f, NEW k \in {0, 2, 4, 6}, f = Shifted(v), f[k] \in Nat
  PROVE  /\ f[k] % ByteBase = Low(f[k]) % ByteBase
         /\ f[k + 1] % ByteBase = Low(f[k]) \div ByteBase
         /\ k < 6 => f[k + 2] = High(f[k])
<1>1. f[k + 1] = f[k] \div ByteBase
  BY Shifts
<1>2. k < 6 => f[k + 2] = f[k + 1] \div ByteBase
  BY Shifts
<1> DEFINE x == f[k]
<1>3. x \in Nat
  OBVIOUS
<1> HIDE DEF x
<1>4. /\ (x \div ByteBase) \div ByteBase = High(x)
      /\ (x \div ByteBase) % ByteBase = Low(x) \div ByteBase
      /\ x % ByteBase = Low(x) % ByteBase
  BY <1>3, Twice, Bases DEF High, Low, DigitBase
<1> QED BY <1>1, <1>2, <1>4 DEF x

\* write_data_bit_length writes eight times the length, the highest byte first
LEMMA LengthWritten ==
  ASSUME NEW n \in Nat
  PROVE  DataBitLength(Digits(n)) = BigEndian(8 * n)
<1> DEFINE n2 == High(n)
           n3 == High(n2)
           n4 == High(n3)
           d1 == Low(n)
           d2 == Low(n2)
           d3 == Low(n3)
           d4 == Low(n4)
           f == Shifted(8 * n)
<1>1. n2 \in Nat /\ n3 \in Nat /\ n4 \in Nat
  BY Split
<1>2. Digits(n) = <<d1, d2, d3, d4>>
  BY DEF Digits
<1> HIDE DEF n2, n3, n4
<1>3. /\ High(8 * n + 0) = 8 * n2 + Top(d1) /\ Low(8 * n + 0) = Low(8 * d1 + 0)
      /\ Top(d1) \in 0..7
  BY EightTimes DEF n2
<1>4. /\ High(8 * n2 + Top(d1)) = 8 * n3 + Top(d2)
      /\ Low(8 * n2 + Top(d1)) = Low(8 * d2 + Top(d1)) /\ Top(d2) \in 0..7
  BY <1>1, <1>3, EightTimes DEF n3
<1>5. /\ High(8 * n3 + Top(d2)) = 8 * n4 + Top(d3)
      /\ Low(8 * n3 + Top(d2)) = Low(8 * d3 + Top(d2)) /\ Top(d3) \in 0..7
  BY <1>1, <1>4, EightTimes DEF n4
<1>6. Low(8 * n4 + Top(d3)) = Low(8 * d4 + Top(d3))
  BY <1>1, <1>5, EightTimes
<1>7. d1 \in Nat /\ d2 \in Nat /\ d3 \in Nat /\ d4 \in Nat
  BY <1>1, Split, Bases
<1> HIDE DEF d1, d2, d3, d4, f
<1> DEFINE s1 == Low(8 * d1 + 0)
           s2 == Low(8 * d2 + Top(d1))
           s3 == Low(8 * d3 + Top(d2))
           s4 == Low(8 * d4 + Top(d3))
<1>8. f[0] \in Nat /\ Low(f[0]) = s1 /\ High(f[0]) = 8 * n2 + Top(d1)
  <2>1. f[0] = 8 * n /\ 8 * n = 8 * n + 0 /\ 8 * n \in Nat
    BY Shifts DEF f
  <2> QED BY <2>1, <1>3
<1>9. f[2] \in Nat /\ Low(f[2]) = s2 /\ High(f[2]) = 8 * n3 + Top(d2)
  <2>1. f[0 + 2] = High(f[0])
    BY <1>8, TwoBytes DEF f
  <2>2. f[2] = 8 * n2 + Top(d1)
    BY <1>8, <2>1
  <2>3. f[2] \in Nat
    BY <1>1, <1>3, <2>2
  <2> QED BY <2>2, <2>3, <1>4
<1>10. f[4] \in Nat /\ Low(f[4]) = s3 /\ High(f[4]) = 8 * n4 + Top(d3)
  <2>1. f[2 + 2] = High(f[2])
    BY <1>9, TwoBytes DEF f
  <2>2. f[4] = 8 * n3 + Top(d2)
    BY <1>9, <2>1
  <2>3. f[4] \in Nat
    BY <1>1, <1>4, <2>2
  <2> QED BY <2>2, <2>3, <1>5
<1>11. f[6] \in Nat /\ Low(f[6]) = s4
  <2>1. f[4 + 2] = High(f[4])
    BY <1>10, TwoBytes DEF f
  <2>2. f[6] = 8 * n4 + Top(d3)
    BY <1>10, <2>1
  <2>3. f[6] \in Nat
    BY <1>1, <1>5, <2>2
  <2> QED BY <2>2, <2>3, <1>6
<1> HIDE DEF s1, s2, s3, s4
<1>12. /\ f[0] % ByteBase = s1 % ByteBase /\ f[1] % ByteBase = s1 \div ByteBase
       /\ f[2] % ByteBase = s2 % ByteBase /\ f[3] % ByteBase = s2 \div ByteBase
       /\ f[4] % ByteBase = s3 % ByteBase /\ f[5] % ByteBase = s3 \div ByteBase
       /\ f[6] % ByteBase = s4 % ByteBase /\ f[7] % ByteBase = s4 \div ByteBase
  <2>1. f[0] % ByteBase = s1 % ByteBase /\ f[0 + 1] % ByteBase = s1 \div ByteBase
    BY <1>8, TwoBytes DEF f
  <2>2. f[2] % ByteBase = s2 % ByteBase /\ f[2 + 1] % ByteBase = s2 \div ByteBase
    BY <1>9, TwoBytes DEF f
  <2>3. f[4] % ByteBase = s3 % ByteBase /\ f[4 + 1] % ByteBase = s3 \div ByteBase
    BY <1>10, TwoBytes DEF f
  <2>4. f[6] % ByteBase = s4 % ByteBase /\ f[6 + 1] % ByteBase = s4 \div ByteBase
    BY <1>11, TwoBytes DEF f
  <2> QED BY <2>1, <2>2, <2>3, <2>4
<1> DEFINE d == <<d1, d2, d3, d4>>
           carry(i) == IF i = 1 THEN 0 ELSE d[i - 1] \div (DigitBase \div 8)
           shifted(i) == (d[i] * 8 + carry(i)) % DigitBase
<1>13. shifted(1) = s1 /\ shifted(2) = s2 /\ shifted(3) = s3 /\ shifted(4) = s4
  <2>1. d1 * 8 = 8 * d1 /\ d2 * 8 = 8 * d2 /\ d3 * 8 = 8 * d3 /\ d4 * 8 = 8 * d4
    BY <1>7
  <2>2. /\ carry(1) = 0 /\ carry(2) = Top(d1) /\ carry(3) = Top(d2) /\ carry(4) = Top(d3)
        /\ d[1] = d1 /\ d[2] = d2 /\ d[3] = d3 /\ d[4] = d4
    BY DEF Top
  <2> HIDE DEF d, carry
  <2> QED BY <2>1, <2>2 DEF s1, s2, s3, s4, Low
<1>14. DataBitLength(d) =
         [k \in 1..8 |-> IF k % 2 = 1 THEN shifted(4 - ((k - 1) \div 2)) \div ByteBase
                                      ELSE shifted(4 - ((k - 1) \div 2)) % ByteBase]
  BY DEF DataBitLength
<1> HIDE DEF shifted
<1>15. \A k \in 1..8 : (IF k % 2 = 1 THEN shifted(4 - ((k - 1) \div 2)) \div ByteBase
                                     ELSE shifted(4 - ((k - 1) \div 2)) % ByteBase)
                       = f[8 - k] % ByteBase
  <2> TAKE k \in 1..8
  <2>1. k \in {1, 2, 3, 4, 5, 6, 7, 8}
    OBVIOUS
  <2>2. CASE k \in {1, 2}
    BY <2>2, <1>12, <1>13
  <2>3. CASE k \in {3, 4}
    BY <2>3, <1>12, <1>13
  <2>4. CASE k \in {5, 6}
    BY <2>4, <1>12, <1>13
  <2>5. CASE k \in {7, 8}
    BY <2>5, <1>12, <1>13
  <2> QED BY <2>1, <2>2, <2>3, <2>4, <2>5
<1>16. BigEndian(8 * n) = [k \in 1..8 |-> f[8 - k] % ByteBase]
  BY DEF BigEndian, f
<1> HIDE DEF d
<1>17. DataBitLength(d) = BigEndian(8 * n)
  BY <1>14, <1>15, <1>16
<1> QED BY <1>2, <1>17 DEF d

-----------------------------------------------------------------------------
\* b bytes of the message after the first a, and m whole blocks of it after
\* the first q
Slice(a, b) == [i \in 1..b |-> Data(a + i)]
Run(q, m) == [k \in 1..m |-> Slice(BlockSize * (q + k - 1), BlockSize)]

\* the bytes b from position a on
LEMMA SliceSeq ==
  ASSUME NEW a \in Nat, NEW b \in Nat
  PROVE  /\ Slice(a, b) \in Seq(Int) /\ Len(Slice(a, b)) = b
         /\ \A i \in 1..b : Slice(a, b)[i] = Data(a + i)
<1>1. \A i \in 1..b : Data(a + i) \in Int
  BY DEF Data
<1> HIDE DEF Data
<1>2. Slice(a, b) \in [1..b -> Int]
  BY <1>1 DEF Slice
<1>3. Slice(a, b) \in Seq(Int) /\ DOMAIN Slice(a, b) = 1..b
  BY <1>2
<1>4. Len(Slice(a, b)) = b
  BY <1>3, LenProperties
<1> QED BY <1>3, <1>4 DEF Slice

\* adjacent slices make one slice
LEMMA SliceConcat ==
  ASSUME NEW a \in Nat, NEW b \in Nat, NEW c \in Nat
  PROVE  Slice(a, b) \o Slice(a + b, c) = Slice(a, b + c)
<1> DEFINE s == Slice(a, b)
           t == Slice(a + b, c)
           u == Slice(a, b + c)
<1>1. /\ s \in Seq(Int) /\ Len(s) = b /\ \A i \in 1..b : s[i] = Data(a + i)
      /\ t \in Seq(Int) /\ Len(t) = c /\ \A i \in 1..c : t[i] = Data(a + b + i)
      /\ u \in Seq(Int) /\ Len(u) = b + c /\ \A i \in 1..(b + c) : u[i] = Data(a + i)
  <2>1. a + b \in Nat /\ b + c \in Nat
    OBVIOUS
  <2> QED BY <2>1, SliceSeq
<1> HIDE DEF s, t, u
<1>2. s \o t \in Seq(Int) /\ Len(s \o t) = b + c
  BY <1>1, ConcatProperties
<1>3. \A i \in 1..(b + c) : (s \o t)[i] = u[i]
  <2> TAKE i \in 1..(b + c)
  <2>1. (s \o t)[i] = IF i <= Len(s) THEN s[i] ELSE t[i - Len(s)]
    BY <1>1, ConcatProperties
  <2>2. CASE i =< b
    BY <1>1, <2>1, <2>2
  <2>3. CASE i > b
    <3>1. i - b \in 1..c /\ a + b + (i - b) = a + i
      BY <2>3
    <3>2. t[i - b] = Data(a + b + (i - b))
      BY <1>1, <3>1
    <3>3. t[i - b] = Data(a + i)
      BY <3>1, <3>2
    <3>4. (s \o t)[i] = t[i - b]
      BY <1>1, <2>1, <2>3
    <3> QED BY <1>1, <3>3, <3>4
  <2>4. i =< b \/ i > b
    OBVIOUS
  <2> QED BY <2>2, <2>3, <2>4, Zenon
<1>4. s \o t = u
  BY <1>1, <1>2, <1>3, SeqEqual
<1> QED BY <1>4 DEF s, t, u

\* a part of a slice is a slice
LEMMA SliceCut ==
  ASSUME NEW a \in Nat, NEW b \in Nat, NEW x \in 0..b, NEW y \in x..b
  PROVE  SubSeq(Slice(a, b), x + 1, y) = Slice(a + x, y - x)
<1> DEFINE s == Slice(a, b)
           t == SubSeq(s, x + 1, y)
           u == Slice(a + x, y - x)
<1>1. /\ s \in Seq(Int) /\ Len(s) = b /\ \A i \in 1..b : s[i] = Data(a + i)
      /\ u \in Seq(Int) /\ Len(u) = y - x /\ \A i \in 1..(y - x) : u[i] = Data(a + x + i)
  <2>1. a + x \in Nat /\ y - x \in Nat
    OBVIOUS
  <2> QED BY <2>1, SliceSeq
<1> HIDE DEF s, u
<1>2. /\ t \in Seq(Int) /\ Len(t) = y - x
      /\ \A i \in 1..(y - x) : t[i] = s[x + i]
  <2>1. \A i \in (x + 1)..y : s[i] \in Int
    BY <1>1
  <2>2. /\ t \in Seq(Int) /\ Len(t) = (IF x + 1 =< y THEN y - (x + 1) + 1 ELSE 0)
        /\ \A i \in 1..(y - (x + 1) + 1) : t[i] = s[x + 1 + i - 1]
    BY <2>1, SubSeqProperties
  <2> HIDE DEF t
  <2>3. y - (x + 1) + 1 = y - x /\ (x + 1 > y => y - x = 0)
    OBVIOUS
  <2>4. \A i \in 1..(y - x) : x + 1 + i - 1 = x + i
    OBVIOUS
  <2> QED BY <2>2, <2>3, <2>4
<1>3. \A i \in 1..(y - x) : t[i] = u[i]
  <2> TAKE i \in 1..(y - x)
  <2>1. x + i \in 1..b /\ a + (x + i) = a + x + i
    OBVIOUS
  <2> QED BY <1>1, <1>2, <2>1
<1> HIDE DEF t
<1>4. t = u
  BY <1>1, <1>2, <1>3, SeqEqual
<1> QED BY <1>4 DEF s, t, u

\* m blocks from block q on
LEMMA RunSeq ==
  ASSUME NEW q \in Nat, NEW m \in Nat
  PROVE  /\ Run(q, m) \in Seq(Seq(Int)) /\ Len(Run(q, m)) = m
         /\ \A k \in 1..m : Run(q, m)[k] = Slice(BlockSize * (q + k - 1), BlockSize)
<1>1. \A k \in 1..m : Slice(BlockSize * (q + k - 1), BlockSize) \in Seq(Int)
  <2> TAKE k \in 1..m
  <2>1. q + k - 1 \in Nat
    OBVIOUS
  <2>2. BlockSize * (q + k - 1) \in Nat /\ BlockSize \in Nat
    BY <2>1, Sha256Assumption
  <2> QED BY <2>2, SliceSeq
<1>2. Run(q, m) \in [1..m -> Seq(Int)]
  BY <1>1 DEF Run
<1>3. Run(q, m) \in Seq(Seq(Int)) /\ DOMAIN Run(q, m) = 1..m
  BY <1>2
<1>4. Len(Run(q, m)) = m
  BY <1>3, LenProperties
<1> QED BY <1>3, <1>4 DEF Run

\* adjacent runs of blocks make one run
LEMMA RunsJoin ==
  ASSUME NEW q \in Nat, NEW m \in Nat
  PROVE  Run(0, q) \o Run(q, m) = Run(0, q + m)
<1> DEFINE s == Run(0, q)
           t == Run(q, m)
           u == Run(0, q + m)
           blk(k) == Slice(BlockSize * (k - 1), BlockSize)
<1>1. /\ s \in Seq(Seq(Int)) /\ Len(s) = q /\ \A k \in 1..q : s[k] = blk(k)
      /\ u \in Seq(Seq(Int)) /\ Len(u) = q + m /\ \A k \in 1..(q + m) : u[k] = blk(k)
  <2>1. 0 \in Nat /\ q + m \in Nat /\ \A k \in Nat : 0 + k - 1 = k - 1
    OBVIOUS
  <2>2. /\ s \in Seq(Seq(Int)) /\ Len(s) = q
        /\ \A k \in 1..q : s[k] = Slice(BlockSize * (0 + k - 1), BlockSize)
    BY <2>1, RunSeq
  <2>3. /\ u \in Seq(Seq(Int)) /\ Len(u) = q + m
        /\ \A k \in 1..(q + m) : u[k] = Slice(BlockSize * (0 + k - 1), BlockSize)
    BY <2>1, RunSeq
  <2> HIDE DEF s, u
  <2> QED BY <2>1, <2>2, <2>3
<1>2. t \in Seq(Seq(Int)) /\ Len(t) = m /\ \A k \in 1..m : t[k] = blk(q + k)
  BY RunSeq
<1> HIDE DEF s, t, u, blk
<1>3. s \o t \in Seq(Seq(Int)) /\ Len(s \o t) = q + m
  BY <1>1, <1>2, ConcatProperties
<1> DEFINE v == s \o t
<1>4. \A k \in 1..(q + m) : v[k] = IF k =< q THEN s[k] ELSE t[k - q]
  BY <1>1, <1>2, ConcatProperties
<1> HIDE DEF v
<1>5. \A k \in 1..(q + m) : v[k] = u[k]
  <2> TAKE k \in 1..(q + m)
  <2>1. CASE k =< q
    BY <1>1, <1>4, <2>1
  <2>2. CASE ~ (k =< q)
    <3>1. k - q \in 1..m /\ q + (k - q) = k
      BY <2>2
    <3>2. t[k - q] = blk(k)
      BY <1>2, <3>1
    <3> QED BY <1>1, <1>4, <2>2, <3>2
  <2> QED BY <2>1, <2>2
<1>6. v = u
  BY <1>1, <1>3, <1>5, SeqEqual DEF v
<1> QED BY <1>6 DEF s, t, u, v

\* the whole blocks of what begins where a block begins
LEMMA BlocksOf ==
  ASSUME NEW q \in Nat, NEW b \in Nat
  PROVE  WholeBlocks(Slice(BlockSize * q, b)) = Run(q, b \div BlockSize)
<1> DEFINE m == b \div BlockSize
           a == BlockSize * q
<1>1. BlockSize \in Nat \ {0} /\ a \in Nat
  BY Sha256Assumption
<1>2. m \in Nat /\ b % BlockSize \in Nat /\ b = BlockSize * m + (b % BlockSize)
  BY <1>1, Division
<1> HIDE DEF m
<1>3. BlockSize * m \in Nat /\ BlockSize * m =< b
  BY <1>1, <1>2
<1>4. ASSUME NEW k \in 1..m
      PROVE  SubSeq(Slice(a, b), BlockSize * (k - 1) + 1, BlockSize * k)
               = Slice(BlockSize * (q + k - 1), BlockSize)
  <2> DEFINE x == BlockSize * (k - 1)
             y == BlockSize * k
  <2>1. x \in Nat /\ y \in Nat /\ y = x + BlockSize
    BY <1>1, <1>2
  <2>2. y =< b
    <3>1. BlockSize * k =< BlockSize * m
      BY <1>1, <1>2
    <3> QED BY <1>2, <1>3, <2>1, <3>1
  <2>3. a + x = BlockSize * (q + k - 1)
    BY <1>1
  <2> HIDE DEF x, y, a
  <2>4. x \in 0..b /\ y \in x..b /\ y - x = BlockSize
    BY <1>1, <2>1, <2>2
  <2>5. SubSeq(Slice(a, b), x + 1, y) = Slice(a + x, y - x)
    BY <1>1, <2>4, SliceCut
  <2>6. SubSeq(Slice(a, b), x + 1, y) = Slice(BlockSize * (q + k - 1), BlockSize)
    BY <2>3, <2>4, <2>5
  <2> QED BY <2>6 DEF x, y
<1>5. Len(Slice(a, b)) = b
  BY <1>1, SliceSeq
<1>6. WholeBlocks(Slice(a, b)) =
        [k \in 1..m |-> SubSeq(Slice(a, b), BlockSize * (k - 1) + 1, BlockSize * k)]
  BY <1>5 DEF WholeBlocks, m
<1> HIDE DEF a
<1>7. WholeBlocks(Slice(a, b)) = [k \in 1..m |-> Slice(BlockSize * (q + k - 1), BlockSize)]
  BY <1>4, <1>6
<1> QED BY <1>7 DEF a, m, Run

\* what n bytes leave in the buffer
LeftOver(n) == Slice(BlockSize * (n \div BlockSize), n % BlockSize)

\* what a piece of m bytes makes of the rest of n
LEMMA Fed ==
  ASSUME NEW n \in Nat, NEW m \in Nat
  PROVE  LET all == LeftOver(n) \o [i \in 1..m |-> Data(n + i)]
             full == WholeBlocks(all)
         IN /\ Run(0, n \div BlockSize) \o full = Run(0, (n + m) \div BlockSize)
            /\ SubSeq(all, BlockSize * Len(full) + 1, Len(all)) = LeftOver(n + m)
<1> DEFINE q == n \div BlockSize
           r == n % BlockSize
           a == BlockSize * q
           w == (r + m) \div BlockSize
           r2 == (r + m) % BlockSize
           all == LeftOver(n) \o [i \in 1..m |-> Data(n + i)]
           full == WholeBlocks(all)
<1>1. BlockSize \in Nat \ {0}
  BY Sha256Assumption
<1>2. q \in Nat /\ r \in 0..(BlockSize - 1) /\ n = a + r
  BY <1>1, Division
<1>3. (n + m) % BlockSize = r2 /\ (n + m) \div BlockSize = q + w
  BY <1>1, Carry
<1>4. LeftOver(n) = Slice(a, r)
  BY DEF LeftOver
<1>5. [i \in 1..m |-> Data(n + i)] = Slice(n, m)
  BY DEF Slice
<1> HIDE DEF q, r
<1>6. a \in Nat /\ r + m \in Nat
  BY <1>1, <1>2
<1>7. w \in Nat /\ r2 \in 0..(BlockSize - 1) /\ r + m = BlockSize * w + r2
  BY <1>1, <1>6, Division
<1> HIDE DEF a, w, r2
<1>8. all = Slice(a, r + m)
  <2>1. r \in Nat
    BY <1>1, <1>2
  <2>2. Slice(a, r) \o Slice(a + r, m) = Slice(a, r + m)
    BY <1>6, <2>1, SliceConcat
  <2> QED BY <1>2, <1>4, <1>5, <2>2
<1> HIDE DEF all
<1>9. full = Run(q, w)
  <2>1. WholeBlocks(Slice(BlockSize * q, r + m)) = Run(q, (r + m) \div BlockSize)
    BY <1>2, <1>6, BlocksOf
  <2> QED BY <1>8, <2>1 DEF a, w
<1> HIDE DEF full
<1>10. Len(full) = w /\ Len(all) = r + m
  BY <1>2, <1>6, <1>7, <1>8, <1>9, RunSeq, SliceSeq
<1>11. Run(0, q) \o full = Run(0, q + w)
  BY <1>2, <1>7, <1>9, RunsJoin
<1>12. SubSeq(all, BlockSize * w + 1, r + m) = Slice(a + BlockSize * w, r2)
  <2> DEFINE x == BlockSize * w
             y == r + m
  <2>1. x \in 0..y /\ y \in x..y /\ y - x = r2
    BY <1>1, <1>6, <1>7
  <2> HIDE DEF x, y
  <2>2. y \in Nat
    BY <1>6 DEF y
  <2>3. SubSeq(Slice(a, y), x + 1, y) = Slice(a + x, y - x)
    BY <1>6, <2>1, <2>2, SliceCut
  <2> QED BY <1>8, <2>1, <2>3 DEF x, y
<1>13. a + BlockSize * w = BlockSize * (q + w)
  BY <1>1, <1>2, <1>7 DEF a
<1>14. LeftOver(n + m) = Slice(BlockSize * (q + w), r2)
  BY <1>3 DEF LeftOver
<1>15. /\ Run(0, q) \o full = Run(0, (n + m) \div BlockSize)
       /\ SubSeq(all, BlockSize * Len(full) + 1, Len(all)) = LeftOver(n + m)
  BY <1>3, <1>10, <1>11, <1>12, <1>13, <1>14
<1> QED BY <1>15 DEF all, full, q

\* a sequence is the function of its elements
LEMMA Elements ==
  ASSUME NEW S, NEW s \in Seq(S), NEW n \in Nat, Len(s) = n
  PROVE  s = [i \in 1..n |-> s[i]]
BY LenProperties

\* the zeros of the padding
LEMMA ZerosSeq ==
  ASSUME NEW n \in Nat
  PROVE  Zeros(n) \in Seq(Int) /\ Len(Zeros(n)) = n /\ \A i \in 1..n : Zeros(n)[i] = 0
<1>1. Zeros(n) \in [1..n -> Int]
  BY DEF Zeros
<1>2. Zeros(n) \in Seq(Int) /\ DOMAIN Zeros(n) = 1..n
  BY <1>1
<1>3. Len(Zeros(n)) = n
  BY <1>2, LenProperties
<1> QED BY <1>2, <1>3 DEF Zeros

\* the length of a message is a sequence of eight numbers
LEMMA BigEndianSeq ==
  ASSUME NEW v \in Nat
  PROVE  BigEndian(v) \in Seq(Int) /\ Len(BigEndian(v)) = 8
<1>1. \A k \in 0..7 : Shifted(v)[k] \in Nat
  <2> DEFINE f == Shifted(v)
  <2>1. f[0] \in Nat /\ \A k \in 1..7 : f[k] = f[k - 1] \div ByteBase
    BY Shifts
  <2>2. \A x \in Nat : x \div ByteBase \in Nat
    BY Bases, Division
  <2> HIDE DEF f
  <2>3. f[1] \in Nat
    BY <2>1, <2>2
  <2>4. f[2] \in Nat
    BY <2>1, <2>2, <2>3
  <2>5. f[3] \in Nat
    BY <2>1, <2>2, <2>4
  <2>6. f[4] \in Nat
    BY <2>1, <2>2, <2>5
  <2>7. f[5] \in Nat
    BY <2>1, <2>2, <2>6
  <2>8. f[6] \in Nat
    BY <2>1, <2>2, <2>7
  <2>9. f[7] \in Nat
    BY <2>1, <2>2, <2>8
  <2>10. \A k \in 0..7 : f[k] \in Nat
    BY <2>1, <2>3, <2>4, <2>5, <2>6, <2>7, <2>8, <2>9
  <2> QED BY <2>10 DEF f
<1>2. \A k \in 1..8 : Shifted(v)[8 - k] % ByteBase \in Int
  <2>1. \A x \in Nat : x % ByteBase \in Int
    BY Bases, Division
  <2>2. \A k \in 1..8 : 8 - k \in 0..7
    OBVIOUS
  <2> QED BY <1>1, <2>1, <2>2
<1>3. BigEndian(v) \in [1..8 -> Int]
  BY <1>2 DEF BigEndian
<1> DEFINE s == BigEndian(v)
           n == 8
<1>4. s \in [1..n -> Int] /\ n \in Nat
  BY <1>3
<1> HIDE DEF s, n
<1>5. s \in Seq(Int) /\ DOMAIN s = 1..n
  BY <1>4
<1>6. s \in Seq(Int) /\ Len(s) = n
  BY <1>4, <1>5, LenProperties
<1> QED BY <1>6 DEF s, n

\* a block of the padding: the rest of the message, 0x80 if it is to come, zeros
\* and, in the last block, the length
LEMMA Filled ==
  ASSUME NEW z \in Nat, NEW r \in 0..(BlockSize - 1), NEW n \in 0..BlockSize, r < n
  PROVE  LET temp == Append(Slice(z, r), 128)
             s == SubSeq(temp \o Zeros(BlockSize), 1, n)
         IN /\ temp \in Seq(Int) /\ Len(temp) = r + 1
            /\ s \in Seq(Int) /\ Len(s) = n
            /\ \A i \in 1..n : /\ i =< r => s[i] = Data(z + i)
                               /\ i = r + 1 => s[i] = 128
                               /\ i > r + 1 => s[i] = 0
            /\ temp \o Zeros(BlockSize - Len(temp)) =
                 SubSeq(temp \o Zeros(BlockSize), 1, BlockSize)
<1> DEFINE rest == Slice(z, r)
           temp == Append(rest, 128)
           zeros == Zeros(BlockSize)
           long == temp \o zeros
           s == SubSeq(long, 1, n)
           few == Zeros(BlockSize - (r + 1))
           block == temp \o few
           all == SubSeq(long, 1, BlockSize)
<1>1. BlockSize \in Nat /\ r \in Nat /\ n \in Nat /\ n =< BlockSize
  BY Sha256Assumption
<1>2. rest \in Seq(Int) /\ Len(rest) = r /\ \A i \in 1..r : rest[i] = Data(z + i)
  BY <1>1, SliceSeq
<1> HIDE DEF rest
<1>3. /\ temp \in Seq(Int) /\ Len(temp) = r + 1
      /\ \A i \in 1..(r + 1) : temp[i] = IF i =< r THEN rest[i] ELSE 128
  <2>1. /\ temp \in Seq(Int) /\ Len(temp) = Len(rest) + 1
        /\ \A i \in 1..Len(rest) : temp[i] = rest[i]
        /\ temp[Len(rest) + 1] = 128
    BY <1>2, AppendProperties
  <2> HIDE DEF temp
  <2> QED BY <1>1, <1>2, <2>1
<1>4. zeros \in Seq(Int) /\ Len(zeros) = BlockSize /\ \A i \in 1..BlockSize : zeros[i] = 0
  BY <1>1, ZerosSeq
<1>5. /\ few \in Seq(Int) /\ Len(few) = BlockSize - (r + 1)
      /\ \A i \in 1..(BlockSize - (r + 1)) : few[i] = 0
  <2>1. BlockSize - (r + 1) \in Nat
    BY <1>1
  <2> QED BY <2>1, ZerosSeq
<1> HIDE DEF temp, zeros, few
<1>6. /\ long \in Seq(Int) /\ Len(long) = r + 1 + BlockSize
      /\ \A i \in 1..(r + 1 + BlockSize) :
           long[i] = IF i =< r + 1 THEN temp[i] ELSE zeros[i - (r + 1)]
  <2>1. temp \in Seq(Int) /\ zeros \in Seq(Int)
    BY <1>3, <1>4
  <2>2. /\ long \in Seq(Int) /\ Len(long) = Len(temp) + Len(zeros)
        /\ \A i \in 1..(Len(temp) + Len(zeros)) :
             long[i] = IF i =< Len(temp) THEN temp[i] ELSE zeros[i - Len(temp)]
    BY <2>1, ConcatProperties, Zenon
  <2> HIDE DEF long
  <2> QED BY <1>1, <1>3, <1>4, <2>2
<1>7. /\ block \in Seq(Int) /\ Len(block) = BlockSize
      /\ \A i \in 1..BlockSize :
           block[i] = IF i =< r + 1 THEN temp[i] ELSE few[i - (r + 1)]
  <2>1. r + 1 + (BlockSize - (r + 1)) = BlockSize
    BY <1>1
  <2> QED BY <1>1, <1>3, <1>5, <2>1, ConcatProperties
<1> HIDE DEF long, block
<1>8. \A i \in 1..BlockSize :
        long[i] = IF i =< r THEN Data(z + i) ELSE IF i = r + 1 THEN 128 ELSE 0
  <2> TAKE i \in 1..BlockSize
  <2>1. long[i] = IF i =< r + 1 THEN temp[i] ELSE zeros[i - (r + 1)]
    BY <1>1, <1>6
  <2>2. CASE i =< r + 1
    BY <1>1, <1>2, <1>3, <2>1, <2>2
  <2>3. CASE i > r + 1
    <3>1. i - (r + 1) \in 1..BlockSize
      BY <1>1, <2>3
    <3> QED BY <1>1, <1>4, <2>1, <2>3, <3>1
  <2> QED BY <1>1, <2>2, <2>3
<1>9. ASSUME NEW k \in 0..BlockSize
      PROVE  LET t == SubSeq(long, 1, k)
             IN t \in Seq(Int) /\ Len(t) = k /\ \A i \in 1..k : t[i] = long[i]
  <2> DEFINE t == SubSeq(long, 1, k)
  <2>1. k - 1 + 1 = k /\ (1 > k => k = 0) /\ 1 \in Int /\ k \in Int
    BY <1>1
  <2>2. \A i \in 1..k : long[i] \in Int
    BY <1>1, <1>6, LenProperties
  <2>3. /\ t \in Seq(Int) /\ Len(t) = (IF 1 =< k THEN k - 1 + 1 ELSE 0)
        /\ \A i \in 1..(k - 1 + 1) : t[i] = long[1 + i - 1]
    BY <2>1, <2>2, SubSeqProperties
  <2> HIDE DEF t
  <2>4. \A i \in 1..k : 1 + i - 1 = i
    OBVIOUS
  <2>5. t \in Seq(Int) /\ Len(t) = k /\ \A i \in 1..k : t[i] = long[i]
    BY <2>1, <2>3, <2>4
  <2> QED BY <2>5 DEF t
<1>10. s \in Seq(Int) /\ Len(s) = n /\ \A i \in 1..n : s[i] = long[i]
  BY <1>9
<1>11. all \in Seq(Int) /\ Len(all) = BlockSize /\ \A i \in 1..BlockSize : all[i] = long[i]
  <2>1. BlockSize \in 0..BlockSize
    BY <1>1
  <2> QED BY <1>9, <2>1
<1> HIDE DEF s, all
<1>12. \A i \in 1..BlockSize : block[i] = all[i]
  <2> TAKE i \in 1..BlockSize
  <2>1. CASE i =< r + 1
    <3>1. long[i] = temp[i]
      <4>1. i \in 1..(r + 1 + BlockSize)
        BY <1>1
      <4> QED BY <1>6, <2>1, <4>1
    <3> QED BY <1>7, <1>11, <2>1, <3>1
  <2>2. CASE i > r + 1
    <3>1. i - (r + 1) \in 1..(BlockSize - (r + 1))
      BY <1>1, <2>2
    <3>2. long[i] = 0
      BY <1>1, <1>8, <2>2
    <3>3. block[i] = few[i - (r + 1)]
      BY <1>1, <1>7, <2>2
    <3>4. few[i - (r + 1)] = 0
      BY <1>5, <3>1
    <3> QED BY <1>11, <3>2, <3>3, <3>4
  <2> QED BY <1>1, <2>1, <2>2
<1>13. block = all
  BY <1>7, <1>11, <1>12, SeqEqual
<1>14. \A i \in 1..n : /\ i =< r => s[i] = Data(z + i)
                       /\ i = r + 1 => s[i] = 128
                       /\ i > r + 1 => s[i] = 0
  <2> TAKE i \in 1..n
  <2>1. i \in 1..BlockSize
    BY <1>1
  <2> QED BY <1>1, <1>8, <1>10, <2>1
<1> QED BY <1>3, <1>10, <1>13, <1>14 DEF rest, temp, zeros, long, s, few, block, all

\* a block that ends with the length
LEMMA Closed ==
  ASSUME NEW s \in Seq(Int), Len(s) = BlockSize - 8,
         NEW length \in Seq(Int), Len(length) = 8
  PROVE  LET t == s \o length
         IN /\ t \in Seq(Int) /\ Len(t) = BlockSize
            /\ \A i \in 1..BlockSize :
                 t[i] = IF i =< BlockSize - 8 THEN s[i] ELSE length[i - (BlockSize - 8)]
<1> DEFINE t == s \o length
<1>1. /\ t \in Seq(Int) /\ Len(t) = Len(s) + Len(length)
      /\ \A i \in 1..(Len(s) + Len(length)) :
           t[i] = IF i =< Len(s) THEN s[i] ELSE length[i - Len(s)]
  BY ConcatProperties, Zenon
<1> HIDE DEF t
<1>2. BlockSize \in Nat /\ BlockSize - 8 + 8 = BlockSize
  BY Sha256Assumption
<1>3. /\ t \in Seq(Int) /\ Len(t) = BlockSize
      /\ \A i \in 1..BlockSize :
           t[i] = IF i =< BlockSize - 8 THEN s[i] ELSE length[i - (BlockSize - 8)]
  BY <1>1, <1>2
<1> QED BY <1>3 DEF t

\* how many blocks a padded message has
LEMMA BlockCount ==
  ASSUME NEW q \in Nat, NEW r \in 0..(BlockSize - 1)
  PROVE  (BlockSize * q + r + 9 + (BlockSize - 1)) \div BlockSize
           = IF r > BlockSize - 9 THEN q + 2 ELSE q + 1
<1>1. BlockSize \in Nat \ {0} /\ BlockSize > 8
  BY Sha256Assumption
<1> DEFINE a == BlockSize * q
           n == a + r + 9 + (BlockSize - 1)
<1>2. a \in Nat /\ BlockSize * (q + 1) = a + BlockSize
      /\ BlockSize * (q + 2) = a + 2 * BlockSize
  BY <1>1
<1> HIDE DEF a
<1>3. n \in Nat
  BY <1>1, <1>2
<1>4. CASE r > BlockSize - 9
  <2> DEFINE z == q + 2
             w == r + 9 - (BlockSize + 1)
  <2>1. z \in Nat /\ w \in 0..(BlockSize - 1) /\ n = (a + 2 * BlockSize) + w
    BY <1>1, <1>2, <1>4
  <2>2. n = BlockSize * z + w
    BY <1>2, <2>1
  <2> HIDE DEF z, w, n
  <2>3. n \div BlockSize = z
    BY <1>1, <1>3, <2>1, <2>2, QuotientOf
  <2> QED BY <1>4, <2>3 DEF z, n, a
<1>5. CASE ~ (r > BlockSize - 9)
  <2> DEFINE z == q + 1
             w == r + 8
  <2>1. z \in Nat /\ w \in 0..(BlockSize - 1) /\ n = (a + BlockSize) + w
    BY <1>1, <1>2, <1>5
  <2>2. n = BlockSize * z + w
    BY <1>2, <2>1
  <2> HIDE DEF z, w, n
  <2>3. n \div BlockSize = z
    BY <1>1, <1>3, <2>1, <2>2, QuotientOf
  <2> QED BY <1>5, <2>3 DEF z, n, a
<1> QED BY <1>4, <1>5

\* what the code does with the rest of a message makes the message of the standard
LEMMA PaddedAsStandard ==
  ASSUME NEW n \in Nat
  PROVE  Run(0, n \div BlockSize) \o Padding(LeftOver(n), BigEndian(8 * n)) = Standard(n)
<1> DEFINE q == n \div BlockSize
           r == n % BlockSize
           z == BlockSize * q
           length == BigEndian(8 * n)
           count == IF r > BlockSize - 9 THEN q + 2 ELSE q + 1
           total == BlockSize * count
           byte(p) == CASE p <= n -> Data(p)
                        [] p = n + 1 -> 128
                        [] p > total - 8 -> length[p - (total - 8)]
                        [] OTHER -> 0
           run == Run(0, q)
           pad == Padding(LeftOver(n), length)
           all == run \o pad
           temp == Append(Slice(z, r), 128)
           long == temp \o Zeros(BlockSize)
<1>1. BlockSize \in Nat \ {0} /\ BlockSize > 8
  BY Sha256Assumption
<1>2. q \in Nat /\ r \in 0..(BlockSize - 1) /\ n = z + r
  BY <1>1, Division
<1>3. length \in Seq(Int) /\ Len(length) = 8
  BY BigEndianSeq
<1>4. LeftOver(n) = Slice(z, r)
  BY DEF LeftOver
<1>5. Standard(n) = [k \in 1..count |-> [i \in 1..BlockSize |-> byte(BlockSize * (k - 1) + i)]]
  <2>1. n + 9 + (BlockSize - 1) = z + r + 9 + (BlockSize - 1)
    BY <1>2, Zenon
  <2> HIDE DEF q, r
  <2>2. (n + 9 + (BlockSize - 1)) \div BlockSize = count
    BY <1>2, <2>1, BlockCount
  <2> QED BY <2>2 DEF Standard
<1> HIDE DEF q, r, length
<1>6. z \in Nat /\ count \in Nat /\ r \in Nat
  BY <1>1, <1>2
<1>7. /\ run \in Seq(Seq(Int)) /\ Len(run) = q
      /\ \A k \in 1..q : run[k] = Slice(BlockSize * (k - 1), BlockSize)
  <2>1. \A k \in Nat : 0 + k - 1 = k - 1
    OBVIOUS
  <2>2. /\ run \in Seq(Seq(Int)) /\ Len(run) = q
        /\ \A k \in 1..q : run[k] = Slice(BlockSize * (0 + k - 1), BlockSize)
    BY <1>2, RunSeq
  <2> HIDE DEF run
  <2> QED BY <1>2, <2>1, <2>2
<1> HIDE DEF run
<1>8. ASSUME NEW k \in 1..q
      PROVE  run[k] = [i \in 1..BlockSize |-> byte(BlockSize * (k - 1) + i)]
  <2> DEFINE x == BlockSize * (k - 1)
  <2>1. x \in Nat /\ x + BlockSize = BlockSize * k
    BY <1>1
  <2>2. BlockSize * k =< z
    BY <1>1, <1>2
  <2>3. run[k] = [i \in 1..BlockSize |-> Data(x + i)]
    BY <1>7 DEF Slice
  <2> HIDE DEF x, z, byte
  <2>4. \A i \in 1..BlockSize : x + i =< n /\ x + i \in Nat
    BY <1>1, <1>2, <1>6, <2>1, <2>2
  <2>5. \A i \in 1..BlockSize : byte(x + i) = Data(x + i)
    <3> TAKE i \in 1..BlockSize
    <3> DEFINE p == x + i
    <3>1. p =< n /\ ~ (p = n + 1) /\ p \in Nat /\ total \in Nat
      BY <1>1, <1>6, <2>4
    <3>2. ~ (p > total - 8)
      <4>1. z + BlockSize =< total
        BY <1>1, <1>2 DEF z
      <4> HIDE DEF total
      <4>2. p =< z
        BY <1>1, <1>6, <2>1, <2>2
      <4> HIDE DEF p
      <4> QED BY <1>1, <1>6, <3>1, <4>1, <4>2
    <3> HIDE DEF p, total
    <3>3. byte(p) = Data(p)
      BY <3>1, <3>2 DEF byte
    <3> QED BY <3>3 DEF p
  <2>6. run[k] = [i \in 1..BlockSize |-> byte(x + i)]
    BY <2>3, <2>5
  <2> QED BY <2>6 DEF x
<1>9. ASSUME NEW s \in Seq(Int), Len(s) = BlockSize, NEW y \in Nat,
             \A i \in 1..BlockSize : s[i] = byte(y + i)
      PROVE  s = [i \in 1..BlockSize |-> byte(y + i)]
  <2> HIDE DEF byte
  <2>1. s = [i \in 1..BlockSize |-> s[i]]
    BY <1>1, <1>9, Elements
  <2> QED BY <1>9, <2>1
<1>10. BlockSize * (q + 1 - 1) = z /\ BlockSize * (q + 2 - 1) = z + BlockSize
  BY <1>1, <1>2
<1>11. /\ pad \in Seq(Seq(Int)) /\ q + Len(pad) = count
       /\ \A j \in 1..Len(pad) :
            pad[j] = [i \in 1..BlockSize |-> byte(BlockSize * (q + j - 1) + i)]
  <2>1. CASE r > BlockSize - 9
    <3> DEFINE first == SubSeq(long, 1, BlockSize)
               zeros == Zeros(BlockSize - 8)
               second == zeros \o length
    <3>1. total = z + 2 * BlockSize
      BY <1>1, <1>2, <2>1
    <3>2. /\ temp \in Seq(Int) /\ Len(temp) = r + 1
          /\ first \in Seq(Int) /\ Len(first) = BlockSize
          /\ \A i \in 1..BlockSize : /\ i =< r => first[i] = Data(z + i)
                                     /\ i = r + 1 => first[i] = 128
                                     /\ i > r + 1 => first[i] = 0
          /\ temp \o Zeros(BlockSize - Len(temp)) = first
      <4>1. BlockSize \in 0..BlockSize /\ r < BlockSize
        BY <1>1, <1>2
      <4> HIDE DEF z
      <4> QED BY <1>2, <1>6, <4>1, Filled, ZenonT(40)
    <3>3. zeros \in Seq(Int) /\ Len(zeros) = BlockSize - 8 /\ \A i \in 1..(BlockSize - 8) : zeros[i] = 0
      <4>1. BlockSize - 8 \in Nat
        BY <1>1
      <4> QED BY <4>1, ZerosSeq
    <3> HIDE DEF zeros
    <3>4. /\ second \in Seq(Int) /\ Len(second) = BlockSize
          /\ \A i \in 1..BlockSize :
               second[i] = IF i =< BlockSize - 8 THEN zeros[i] ELSE length[i - (BlockSize - 8)]
      BY <1>3, <3>3, Closed
    <3>5. pad = <<first, second>>
      <4>1. Len(Slice(z, r)) = r
        <5> HIDE DEF z
        <5> QED BY <1>6, SliceSeq
      <4> HIDE DEF z
      <4>2. LeftOver(n) = Slice(z, r)
        BY <1>4 DEF z
      <4> QED BY <2>1, <3>2, <4>1, <4>2 DEF Padding, zeros
    <3> HIDE DEF temp, long, first, second, pad, z, total
    <3>13. \A i \in 1..BlockSize :
             second[i] = IF i =< BlockSize - 8 THEN 0 ELSE length[i - (BlockSize - 8)]
      <4> TAKE i \in 1..BlockSize
      <4>1. second[i] = IF i =< BlockSize - 8 THEN zeros[i] ELSE length[i - (BlockSize - 8)]
        BY <3>4
      <4>2. i =< BlockSize - 8 => zeros[i] = 0
        BY <1>1, <3>3
      <4> QED BY <4>1, <4>2, Zenon
    <3>6. \A i \in 1..BlockSize : first[i] = byte(z + i)
      <4> TAKE i \in 1..BlockSize
      <4>1. first[i] = IF i =< r THEN Data(z + i) ELSE IF i = r + 1 THEN 128 ELSE 0
        BY <1>1, <1>6, <3>2
      <4>2. ~ (z + i > total - 8)
        BY <1>1, <1>6, <3>1
      <4>3. (z + i =< n <=> i =< r) /\ (z + i = n + 1 <=> i = r + 1)
        BY <1>2, <1>6
      <4> QED BY <4>1, <4>2, <4>3
    <3>7. \A i \in 1..BlockSize : second[i] = byte(z + BlockSize + i)
      <4> TAKE i \in 1..BlockSize
      <4> DEFINE p == z + BlockSize + i
      <4>1. second[i] = IF i =< BlockSize - 8 THEN 0 ELSE length[i - (BlockSize - 8)]
        BY <3>13
      <4>2. p > total - 8 <=> ~ (i =< BlockSize - 8)
        BY <1>1, <1>6, <3>1
      <4>3. p - (total - 8) = i - (BlockSize - 8)
        BY <1>1, <1>6, <3>1
      <4>4. ~ (p =< n) /\ ~ (p = n + 1)
        BY <1>1, <1>2, <1>6
      <4> HIDE DEF p
      <4>5. byte(p) = IF i =< BlockSize - 8 THEN 0 ELSE length[p - (total - 8)]
        BY <4>2, <4>4
      <4>6. byte(p) = second[i]
        BY <4>1, <4>3, <4>5, Zenon
      <4> QED BY <4>6 DEF p
    <3> HIDE DEF byte
    <3>8. first = [i \in 1..BlockSize |-> byte(z + i)]
      <4>1. first \in Seq(Int) /\ Len(first) = BlockSize /\ z \in Nat
        BY <1>6, <3>2
      <4> QED BY <1>9, <3>6, <4>1
    <3>9. second = [i \in 1..BlockSize |-> byte(z + BlockSize + i)]
      <4>1. z + BlockSize \in Nat
        BY <1>1, <1>6
      <4> QED BY <4>1, <1>9, <3>4, <3>7
    <3>10. pad \in Seq(Seq(Int)) /\ Len(pad) = 2 /\ pad[1] = first /\ pad[2] = second
      BY <3>2, <3>4, <3>5
    <3>11. q + 2 = count
      BY <2>1
    <3>12. \A j \in 1..2 : pad[j] = [i \in 1..BlockSize |-> byte(BlockSize * (q + j - 1) + i)]
      <4>1. pad[1] = [i \in 1..BlockSize |-> byte(BlockSize * (q + 1 - 1) + i)]
        BY <1>10, <3>8, <3>10, Zenon
      <4>2. pad[2] = [i \in 1..BlockSize |-> byte(BlockSize * (q + 2 - 1) + i)]
        BY <1>10, <3>9, <3>10, Zenon
      <4>3. \A j \in 1..2 : j = 1 \/ j = 2
        OBVIOUS
      <4> QED BY <4>1, <4>2, <4>3, Zenon
    <3> QED BY <3>10, <3>11, <3>12
  <2>2. CASE ~ (r > BlockSize - 9)
    <3> DEFINE front == SubSeq(long, 1, BlockSize - 8)
               only == front \o length
    <3>1. total = z + BlockSize
      BY <1>1, <1>2, <2>2
    <3>2. /\ front \in Seq(Int) /\ Len(front) = BlockSize - 8
          /\ \A i \in 1..(BlockSize - 8) : /\ i =< r => front[i] = Data(z + i)
                                           /\ i = r + 1 => front[i] = 128
                                           /\ i > r + 1 => front[i] = 0
      <4> DEFINE m == BlockSize - 8
                 t == SubSeq(long, 1, m)
      <4>1. m \in 0..BlockSize /\ r < m
        BY <1>1, <1>2, <2>2
      <4> HIDE DEF z, m
      <4>2. /\ t \in Seq(Int) /\ Len(t) = m
            /\ \A i \in 1..m : /\ i =< r => t[i] = Data(z + i)
                               /\ i = r + 1 => t[i] = 128
                               /\ i > r + 1 => t[i] = 0
        <5>1. z \in Nat /\ r \in 0..(BlockSize - 1)
          BY <1>2, <1>6
        <5>2. t \in Seq(Int)
          BY <4>1, <5>1, Filled, ZenonT(40)
        <5>3. Len(t) = m
          BY <4>1, <5>1, Filled
        <5>4. ASSUME NEW i \in 1..m
              PROVE  /\ i =< r => t[i] = Data(z + i)
                     /\ i = r + 1 => t[i] = 128
                     /\ i > r + 1 => t[i] = 0
          BY <4>1, <5>1, Filled, ZenonT(60)
        <5> QED BY <5>2, <5>3, <5>4
      <4> QED BY <4>2 DEF m
    <3>3. pad = <<only>>
      <4>1. Len(Slice(z, r)) = r
        <5> HIDE DEF z
        <5> QED BY <1>6, SliceSeq
      <4> HIDE DEF z
      <4>2. LeftOver(n) = Slice(z, r)
        BY <1>4 DEF z
      <4> QED BY <2>2, <4>1, <4>2 DEF Padding
    <3> HIDE DEF temp, long, front, pad, z, total
    <3>4. /\ only \in Seq(Int) /\ Len(only) = BlockSize
          /\ \A i \in 1..BlockSize :
               only[i] = IF i =< BlockSize - 8 THEN front[i] ELSE length[i - (BlockSize - 8)]
      BY <1>3, <3>2, Closed, ZenonT(40)
    <3> HIDE DEF only
    <3>5. \A i \in 1..BlockSize : only[i] = byte(z + i)
      <4> TAKE i \in 1..BlockSize
      <4> DEFINE p == z + i
      <4>1. p > total - 8 <=> ~ (i =< BlockSize - 8)
        BY <1>1, <1>6, <3>1
      <4>2. p - (total - 8) = i - (BlockSize - 8)
        BY <1>1, <1>6, <3>1
      <4>3. (p =< n <=> i =< r) /\ (p = n + 1 <=> i = r + 1)
        BY <1>2, <1>6
      <4>4. CASE i =< BlockSize - 8
        <5>1. only[i] = IF i =< r THEN Data(z + i) ELSE IF i = r + 1 THEN 128 ELSE 0
          <6>1. i \in 1..(BlockSize - 8) /\ only[i] = front[i]
            BY <1>1, <3>4, <4>4
          <6>2. /\ i =< r => front[i] = Data(z + i)
                /\ i = r + 1 => front[i] = 128
                /\ i > r + 1 => front[i] = 0
            BY <3>2, <6>1
          <6>3. i =< r \/ i = r + 1 \/ i > r + 1
            BY <1>6
          <6>4. i > r => ~ (i =< r) /\ (i > r + 1 => ~ (i = r + 1))
            BY <1>6
          <6> QED BY <1>6, <6>1, <6>2, <6>3, <6>4
        <5> QED BY <4>1, <4>3, <4>4, <5>1
      <4>5. CASE ~ (i =< BlockSize - 8)
        <5>1. only[i] = length[i - (BlockSize - 8)]
          BY <3>4, <4>5
        <5>2. ~ (i =< r) /\ ~ (i = r + 1)
          BY <1>1, <1>6, <2>2, <4>5
        <5> HIDE DEF p
        <5>3. byte(p) = length[p - (total - 8)]
          BY <4>1, <4>3, <4>5, <5>2
        <5>4. byte(p) = only[i]
          BY <4>2, <5>1, <5>3, Zenon
        <5> QED BY <5>4 DEF p
      <4> QED BY <4>4, <4>5
    <3> HIDE DEF byte
    <3>6. only = [i \in 1..BlockSize |-> byte(z + i)]
      BY <1>6, <1>9, <3>4, <3>5
    <3>7. pad \in Seq(Seq(Int)) /\ Len(pad) = 1 /\ pad[1] = only
      BY <3>3, <3>4
    <3>8. q + 1 = count
      BY <2>2
    <3>9. \A j \in 1..1 : pad[j] = [i \in 1..BlockSize |-> byte(BlockSize * (q + j - 1) + i)]
      BY <1>10, <3>6, <3>7
    <3> QED BY <3>7, <3>8, <3>9
  <2> QED BY <2>1, <2>2
<1> HIDE DEF pad, byte, count
<1>12. all \in Seq(Seq(Int)) /\ Len(all) = q + Len(pad)
       /\ \A k \in 1..(q + Len(pad)) : all[k] = IF k =< q THEN run[k] ELSE pad[k - q]
  <2>1. run \in Seq(Seq(Int)) /\ pad \in Seq(Seq(Int))
    BY <1>7, <1>11
  <2>2. all \in Seq(Seq(Int)) /\ Len(all) = Len(run) + Len(pad)
        /\ \A k \in 1..(Len(run) + Len(pad)) :
             all[k] = IF k =< Len(run) THEN run[k] ELSE pad[k - Len(run)]
    BY <2>1, ConcatProperties, Zenon
  <2> HIDE DEF all
  <2> QED BY <1>7, <2>2
<1> HIDE DEF all
<1>13. \A k \in 1..count : all[k] = [i \in 1..BlockSize |-> byte(BlockSize * (k - 1) + i)]
  <2> TAKE k \in 1..count
  <2>1. all[k] = IF k =< q THEN run[k] ELSE pad[k - q]
    BY <1>11, <1>12
  <2>2. CASE k =< q
    <3>1. k \in 1..q
      BY <1>2, <1>6, <2>2
    <3> QED BY <1>8, <2>1, <2>2, <3>1, Zenon
  <2>3. CASE ~ (k =< q)
    <3>1. k - q \in 1..Len(pad) /\ q + (k - q) - 1 = k - 1
      <4>1. Len(pad) \in Nat
        BY <1>11, LenProperties
      <4>2. q + Len(pad) = count
        BY <1>11
      <4> QED BY <1>2, <1>6, <2>3, <4>1, <4>2
    <3>2. pad[k - q] = [i \in 1..BlockSize |-> byte(BlockSize * (q + (k - q) - 1) + i)]
      BY <1>11, <3>1
    <3> QED BY <2>1, <2>3, <3>1, <3>2
  <2> QED BY <2>2, <2>3
<1>14. all = [k \in 1..count |-> all[k]]
  BY <1>6, <1>11, <1>12, Elements
<1>15. all = Standard(n)
  BY <1>5, <1>13, <1>14
<1> QED BY <1>15 DEF all, run, pad, q, length

\* What the hasher keeps, in terms of the bytes it was given: the digits count
\* them, the buffer is the rest, the blocks compressed are the whole ones.
HashInv ==
  /\ given \in Nat /\ finished \in BOOLEAN
  /\ data_length_digits_ = Digits(given)
  /\ buffer_ = LeftOver(given)
  /\ h_ = IF finished THEN Standard(given) ELSE Run(0, given \div BlockSize)

\* init() establishes the invariant of the hasher
LEMMA HashInitial == HashInit => HashInv
<1> SUFFICES ASSUME HashInit PROVE HashInv
  OBVIOUS
<1>1. BlockSize \in Nat \ {0}
  BY Sha256Assumption
<1>2. 0 \div BlockSize = 0 /\ 0 % BlockSize = 0 /\ High(0) = 0 /\ Low(0) = 0
  BY <1>1, Bases DEF High, Low
<1>3. Digits(0) = <<0, 0, 0, 0>>
  BY <1>2 DEF Digits
<1>4. LeftOver(0) = <<>> /\ Run(0, 0) = <<>>
  BY <1>2 DEF LeftOver, Slice, Run
<1> QED BY <1>2, <1>3, <1>4 DEF HashInit, HashInv

\* process() and finish() keep it
LEMMA HashStep == HashInv /\ [HashNext]_shaVars => HashInv'
<1> SUFFICES ASSUME HashInv, [HashNext]_shaVars PROVE HashInv'
  OBVIOUS
<1>1. ASSUME NEW n \in Pieces, Process(n) PROVE HashInv'
  <2> DEFINE all == LeftOver(given) \o [i \in 1..n |-> Data(given + i)]
             full == WholeBlocks(all)
  <2>1. n \in Nat /\ given \in Nat
    BY Sha256Assumption DEF HashInv
  <2>2. /\ Run(0, given \div BlockSize) \o full = Run(0, (given + n) \div BlockSize)
        /\ SubSeq(all, BlockSize * Len(full) + 1, Len(all)) = LeftOver(given + n)
    BY <2>1, Fed
  <2>3. AddToDataLength(Digits(given), n) = Digits(given + n)
    BY <2>1, LengthAdded
  <2>4. /\ ~finished /\ ~finished' /\ finished' \in BOOLEAN /\ given' = given + n
        /\ data_length_digits_' = AddToDataLength(Digits(given), n)
        /\ h_' = Run(0, given \div BlockSize) \o full
        /\ buffer_' = SubSeq(all, BlockSize * Len(full) + 1, Len(all))
    BY <1>1 DEF HashInv, Process
  <2> HIDE DEF all, full
  <2>5. given' \in Nat
    BY <2>1, <2>4
  <2>6. data_length_digits_' = Digits(given') /\ buffer_' = LeftOver(given')
        /\ h_' = Run(0, given' \div BlockSize)
    BY <2>2, <2>3, <2>4
  <2> QED BY <2>4, <2>5, <2>6 DEF HashInv, Digits, LeftOver, High, Low
<1>2. CASE Finish
  <2>1. given \in Nat /\ DataBitLength(Digits(given)) = BigEndian(8 * given)
    BY LengthWritten DEF HashInv
  <2>2. h_' = Run(0, given \div BlockSize) \o Padding(LeftOver(given), BigEndian(8 * given))
    BY <1>2, <2>1 DEF HashInv, Finish
  <2>3. h_' = Standard(given)
    BY <2>1, <2>2, PaddedAsStandard
  <2> QED BY <1>2, <2>1, <2>3 DEF HashInv, Finish
<1>3. CASE UNCHANGED shaVars
  BY <1>3 DEF HashInv, shaVars
<1> QED BY <1>1, <1>2, <1>3 DEF HashNext

\* the blocks hashed are those of the standard
LEMMA HashInvImplies == HashInv => DigestIsStandard
<1> SUFFICES ASSUME HashInv PROVE DigestIsStandard
  OBVIOUS
<1>1. given \in Nat /\ BlockSize \in Nat \ {0}
  BY Sha256Assumption DEF HashInv
<1>2. CASE finished
  BY <1>2 DEF HashInv, DigestIsStandard
<1>3. CASE ~finished
  <2>1. [i \in 1..given |-> Data(i)] = Slice(BlockSize * 0, given)
    <3>1. BlockSize * 0 = 0 /\ \A i \in 1..given : 0 + i = i
      BY <1>1
    <3> QED BY <3>1 DEF Slice
  <2>2. WholeBlocks([i \in 1..given |-> Data(i)]) = Run(0, given \div BlockSize)
    BY <1>1, <2>1, BlocksOf
  <2>3. Len(buffer_) < BlockSize
    <3>1. /\ given \div BlockSize \in Nat /\ given % BlockSize \in 0..(BlockSize - 1)
      BY <1>1, Division
    <3>2. BlockSize * (given \div BlockSize) \in Nat
      BY <1>1, <3>1
    <3>3. Len(LeftOver(given)) = given % BlockSize
      BY <1>1, <3>1, <3>2, SliceSeq DEF LeftOver
    <3> QED BY <1>1, <3>1, <3>3 DEF HashInv
  <2> QED BY <1>3, <2>2, <2>3 DEF HashInv, DigestIsStandard
<1> QED BY <1>2, <1>3

\* Whatever message is handed over to hash256_one_by_one, of any length and in
\* pieces of any lengths, what is compressed is its whole blocks and, at the
\* end, the message padded as the standard has it: process, add_to_data_length,
\* finish and write_data_bit_length, for every size of a block and of a byte.
THEOREM Digest == HashSpec => []DigestIsStandard
<1>1. HashInit => HashInv
  BY HashInitial
<1>2. HashInv /\ [HashNext]_shaVars => HashInv'
  BY HashStep
<1>3. HashInv => DigestIsStandard
  BY HashInvImplies
<1> QED BY <1>1, <1>2, <1>3, PTL DEF HashSpec

-----------------------------------------------------------------------------
\* nodes, and the last leaf below the j-th node of a level of width w
Nodes == [below : Seq(Int), room : Nat]
End(j, w) == IF j * w < leaves THEN j * w ELSE leaves

\* The j-th node of a level of width w has the j-th w leaves below it, or the
\* rest of them.
Row(s, w) ==
  /\ s \in Seq(Nodes)
  /\ \A j \in 1..Len(s) : /\ s[j].below = LeavesFrom((j - 1) * w + 1, End(j, w))
                           /\ s[j].room \in 1..w
                           /\ (j - 1) * w < leaves

\* The nodes of the level below have width w, those of the level being made
\* twice that, two of the one being one of the other; no level is wider than it
\* has to be for the leaves there are.
Built(w) ==
  /\ leaves \in Nat /\ w \in Nat \ {0}
  /\ tree \in {"levels", "pairs", "built", "deleted", "crashed"}
  /\ Row(blocks, w) /\ leaves =< Len(blocks) * w
  /\ leaves > 0 => w < 2 * leaves
  /\ tree = "pairs" => /\ Row(nodes, 2 * w) /\ l = 2 * Len(nodes)
                       /\ l =< Len(blocks) + 1 /\ Len(blocks) # 1
  /\ tree # "pairs" => nodes = <<>>
  /\ tree \notin {"levels", "pairs"} => Len(blocks) = 1

TreeInv == \E w \in Nat : Built(w)

\* consecutive numbers, and two runs of them in a row
LEMMA LeavesFromSeq ==
  ASSUME NEW a \in Nat, NEW b \in Nat, a =< b
  PROVE  /\ LeavesFrom(a, b) \in Seq(Int) /\ Len(LeavesFrom(a, b)) = b - a + 1
         /\ \A i \in 1..(b - a + 1) : LeavesFrom(a, b)[i] = a + i - 1
         /\ LeavesFrom(a, b)[1] = a /\ LeavesFrom(a, b)[Len(LeavesFrom(a, b))] = b
<1> DEFINE n == b - a + 1
           s == LeavesFrom(a, b)
<1>1. n \in Nat \ {0}
  OBVIOUS
<1>2. s \in [1..n -> Int] /\ \A i \in 1..n : s[i] = a + i - 1
  BY DEF LeavesFrom
<1> HIDE DEF s
<1>3. a + n - 1 = b /\ a + 1 - 1 = a
  OBVIOUS
<1> HIDE DEF n
<1>4. s \in Seq(Int) /\ DOMAIN s = 1..n
  BY <1>1, <1>2
<1>5. Len(s) = n
  BY <1>1, <1>4, LenProperties
<1>6. s[1] = a /\ s[n] = b
  BY <1>1, <1>2, <1>3
<1> QED BY <1>2, <1>4, <1>5, <1>6 DEF n, s

\* adjacent ranges of leaves make one range
LEMMA LeavesFromJoin ==
  ASSUME NEW a \in Nat, NEW b \in Nat, NEW c \in Nat, a =< b, b < c
  PROVE  LeavesFrom(a, b) \o LeavesFrom(b + 1, c) = LeavesFrom(a, c)
<1> DEFINE s == LeavesFrom(a, b)
           t == LeavesFrom(b + 1, c)
           u == LeavesFrom(a, c)
           v == s \o t
<1>1. /\ s \in Seq(Int) /\ Len(s) = b - a + 1
      /\ \A i \in 1..(b - a + 1) : s[i] = a + i - 1
  BY LeavesFromSeq
<1>2. /\ t \in Seq(Int) /\ Len(t) = c - b
      /\ \A i \in 1..(c - b) : t[i] = b + i
  <2>1. b + 1 \in Nat /\ b + 1 =< c /\ c - (b + 1) + 1 = c - b
    OBVIOUS
  <2>2. /\ t \in Seq(Int) /\ Len(t) = c - (b + 1) + 1
        /\ \A i \in 1..(c - (b + 1) + 1) : t[i] = b + 1 + i - 1
    BY <2>1, LeavesFromSeq
  <2> HIDE DEF t
  <2> QED BY <2>1, <2>2
<1>3. /\ u \in Seq(Int) /\ Len(u) = c - a + 1
      /\ \A i \in 1..(c - a + 1) : u[i] = a + i - 1
  <2>1. a =< c
    OBVIOUS
  <2> QED BY <2>1, LeavesFromSeq
<1> HIDE DEF s, t, u
<1>4. /\ v \in Seq(Int) /\ Len(v) = Len(s) + Len(t)
      /\ \A i \in 1..(Len(s) + Len(t)) : v[i] = IF i =< Len(s) THEN s[i] ELSE t[i - Len(s)]
  <2>1. s \in Seq(Int) /\ t \in Seq(Int)
    BY <1>1, <1>2
  <2> QED BY <2>1, ConcatProperties, Zenon
<1> HIDE DEF v
<1>5. Len(v) = c - a + 1
  BY <1>1, <1>2, <1>4
<1>6. \A i \in 1..(c - a + 1) : v[i] = u[i]
  <2> TAKE i \in 1..(c - a + 1)
  <2>1. v[i] = IF i =< b - a + 1 THEN s[i] ELSE t[i - (b - a + 1)]
    BY <1>1, <1>2, <1>4
  <2>2. CASE i =< b - a + 1
    BY <1>1, <1>3, <2>1, <2>2
  <2>3. CASE ~ (i =< b - a + 1)
    <3>1. i - (b - a + 1) \in 1..(c - b) /\ b + (i - (b - a + 1)) = a + i - 1
      BY <2>3
    <3>2. t[i - (b - a + 1)] = a + i - 1
      BY <1>2, <3>1
    <3> QED BY <1>3, <2>1, <2>3, <3>2
  <2> QED BY <2>2, <2>3
<1>7. v = u
  BY <1>3, <1>4, <1>5, <1>6, SeqEqual
<1> QED BY <1>7 DEF s, t, u, v

\* an empty tree has the invariant of the constructor
LEMMA TreeInitial == TreeInit => TreeInv
<1> SUFFICES ASSUME TreeInit PROVE TreeInv
  OBVIOUS
<1>1. leaves \in Nat /\ blocks = [i \in 1..leaves |-> Leaf(i)]
  BY MerkleTreeAssumption DEF TreeInit
<1>2. \A i \in Nat : <<i>> \in Seq(Int) /\ <<i>> = LeavesFrom(i, i)
  <2> TAKE i \in Nat
  <2>1. <<i>> \in Seq(Int) /\ Len(<<i>>) = 1 /\ <<i>>[1] = i
    OBVIOUS
  <2>2. /\ LeavesFrom(i, i) \in Seq(Int) /\ Len(LeavesFrom(i, i)) = 1 /\ LeavesFrom(i, i)[1] = i
    <3>1. i - i + 1 = 1 /\ i =< i
      OBVIOUS
    <3>2. /\ LeavesFrom(i, i) \in Seq(Int) /\ Len(LeavesFrom(i, i)) = i - i + 1
          /\ LeavesFrom(i, i)[1] = i
      BY <3>1, LeavesFromSeq
    <3> QED BY <3>1, <3>2, Zenon
  <2> DEFINE s == <<i>>
             t == LeavesFrom(i, i)
  <2>3. s \in Seq(Int) /\ t \in Seq(Int) /\ Len(s) = Len(t) /\ Len(s) = 1 /\ s[1] = t[1]
    BY <2>1, <2>2
  <2> HIDE DEF s, t
  <2>4. \A j \in 1..Len(s) : s[j] = t[j]
    BY <2>3
  <2>5. s = t
    BY <2>3, <2>4, SeqEqual
  <2> QED BY <2>1, <2>5 DEF s, t
<1>3. \A i \in Nat : Leaf(i) \in Nodes /\ Leaf(i).below = LeavesFrom(i, i) /\ Leaf(i).room = 1
  BY <1>2 DEF Leaf, Nodes
<1>4. blocks \in [1..leaves -> Nodes]
  BY <1>1, <1>3
<1>5. blocks \in Seq(Nodes) /\ DOMAIN blocks = 1..leaves
  BY <1>1, <1>4
<1>6. Len(blocks) = leaves
  BY <1>1, <1>5, LenProperties
<1>7. Row(blocks, 1)
  <2>1. ASSUME NEW j \in 1..leaves
        PROVE  /\ blocks[j].below = LeavesFrom((j - 1) * 1 + 1, End(j, 1))
               /\ blocks[j].room \in 1..1 /\ (j - 1) * 1 < leaves
    <3>1. (j - 1) * 1 + 1 = j /\ End(j, 1) = j /\ j \in Nat
      BY <1>1 DEF End
    <3>2. blocks[j] = Leaf(j)
      BY <1>1
    <3> QED BY <1>1, <1>3, <3>1, <3>2
  <2> QED BY <1>5, <1>6, <2>1 DEF Row
<1>8. Built(1)
  BY <1>1, <1>6, <1>7 DEF Built, TreeInit
<1> QED BY <1>8 DEF TreeInv

\* a row grows by the node that comes next
LEMMA Appended ==
  ASSUME NEW s, NEW w \in Nat, Row(s, w), NEW x \in Nodes,
         x.below = LeavesFrom(Len(s) * w + 1, End(Len(s) + 1, w)),
         x.room \in 1..w, Len(s) * w < leaves
  PROVE  Row(Append(s, x), w) /\ Len(Append(s, x)) = Len(s) + 1
<1> DEFINE t == Append(s, x)
           n == Len(s)
<1>1. s \in Seq(Nodes) /\ n \in Nat
  BY LenProperties DEF Row
<1>2. /\ t \in Seq(Nodes) /\ Len(t) = n + 1
      /\ \A j \in 1..n : t[j] = s[j]
      /\ t[n + 1] = x
  BY <1>1, AppendProperties
<1> HIDE DEF t
<1>3. ASSUME NEW j \in 1..(n + 1)
      PROVE  /\ t[j].below = LeavesFrom((j - 1) * w + 1, End(j, w))
             /\ t[j].room \in 1..w /\ (j - 1) * w < leaves
  <2>1. CASE j \in 1..n
    <3>1. t[j] = s[j]
      BY <1>2, <2>1
    <3> QED BY <2>1, <3>1 DEF Row
  <2>2. CASE j = n + 1
    <3>1. j - 1 = n /\ t[j] = x
      BY <1>1, <1>2, <2>2
    <3> QED BY <2>2, <3>1
  <2> QED BY <1>1, <2>1, <2>2
<1>4. Row(t, w)
  BY <1>1, <1>2, <1>3 DEF Row
<1> QED BY <1>2, <1>4 DEF t

\* two adjacent nodes of a level make one of the next
LEMMA Joined ==
  ASSUME NEW w \in Nat \ {0}, leaves \in Nat, Row(blocks, w), NEW m \in Nat,
         2 * m + 2 =< Len(blocks)
  PROVE  LET x == Parent(blocks[2 * m + 1], blocks[2 * m + 2])
         IN /\ x \in Nodes /\ x.below = LeavesFrom(m * (2 * w) + 1, End(m + 1, 2 * w))
            /\ x.room \in 1..(2 * w) /\ m * (2 * w) < leaves
<1> DEFINE c == Len(blocks)
           a == blocks[2 * m + 1]
           b == blocks[2 * m + 2]
           x == Parent(a, b)
           p == (2 * m) * w
           q == (2 * m + 1) * w
           e == End(2 * m + 2, w)
<1>1. blocks \in Seq(Nodes) /\ c \in Nat
  BY LenProperties DEF Row
<1>2. a \in Nodes /\ b \in Nodes
  <2>1. 2 * m + 1 \in 1..c /\ 2 * m + 2 \in 1..c
    BY <1>1
  <2> QED BY <1>1, <2>1, LenProperties
<1>3. p \in Nat /\ q = p + w /\ q \in Nat /\ (2 * m + 2) * w = q + w
      /\ m * (2 * w) = p /\ (m + 1) * (2 * w) = q + w
  OBVIOUS
<1>4. /\ a.below = LeavesFrom(p + 1, End(2 * m + 1, w)) /\ a.room \in 1..w /\ p < leaves
      /\ b.below = LeavesFrom(q + 1, e) /\ b.room \in 1..w /\ q < leaves
  <2>1. \A j \in 1..c : /\ blocks[j].below = LeavesFrom((j - 1) * w + 1, End(j, w))
                       /\ blocks[j].room \in 1..w /\ (j - 1) * w < leaves
    BY DEF Row
  <2>2. 2 * m + 1 \in 1..c /\ 2 * m + 1 - 1 = 2 * m
    BY <1>1
  <2>3. 2 * m + 2 \in 1..c /\ 2 * m + 2 - 1 = 2 * m + 1
    BY <1>1
  <2>4. /\ a.below = LeavesFrom((2 * m + 1 - 1) * w + 1, End(2 * m + 1, w)) /\ a.room \in 1..w
        /\ (2 * m + 1 - 1) * w < leaves
    BY <2>1, <2>2
  <2>5. /\ b.below = LeavesFrom((2 * m + 2 - 1) * w + 1, End(2 * m + 2, w)) /\ b.room \in 1..w
        /\ (2 * m + 2 - 1) * w < leaves
    BY <2>1, <2>3
  <2> HIDE DEF a, b
  <2> QED BY <2>2, <2>3, <2>4, <2>5
<1>5. End(2 * m + 1, w) = q
  BY <1>3, <1>4 DEF End
<1>6. e = (IF q + w < leaves THEN q + w ELSE leaves) /\ End(m + 1, 2 * w) = e
  BY <1>3 DEF End
<1>7. e \in Nat /\ q < e /\ p + 1 =< q
  BY <1>3, <1>4, <1>6
<1> HIDE DEF a, b, p, q, e
<1>8. a.below \o b.below = LeavesFrom(p + 1, e)
  <2>1. LeavesFrom(p + 1, q) \o LeavesFrom(q + 1, e) = LeavesFrom(p + 1, e)
    <3> DEFINE a1 == p + 1
    <3>1. a1 \in Nat /\ q \in Nat /\ e \in Nat /\ a1 =< q /\ q < e
      BY <1>3, <1>7
    <3> HIDE DEF a1
    <3>2. LeavesFrom(a1, q) \o LeavesFrom(q + 1, e) = LeavesFrom(a1, e)
      BY <3>1, LeavesFromJoin
    <3> QED BY <3>2 DEF a1
  <2> QED BY <1>4, <1>5, <2>1
<1>9. x.below = LeavesFrom(p + 1, e) /\ x.room = 2 * (IF a.room > b.room THEN a.room ELSE b.room)
  BY <1>8 DEF Parent
<1>10. x.room \in 1..(2 * w)
  BY <1>4, <1>9
<1>11. x \in Nodes
  <2>1. LeavesFrom(p + 1, e) \in Seq(Int)
    <3>1. p + 1 \in Nat /\ p + 1 =< e
      BY <1>3, <1>7
    <3> QED BY <1>7, <3>1, LeavesFromSeq
  <2>2. a.below \o b.below \in Seq(Int)
    BY <1>8, <2>1
  <2> DEFINE y == 2 * (IF a.room > b.room THEN a.room ELSE b.room)
  <2>3. y \in Nat
    BY <1>4
  <2> HIDE DEF y
  <2>4. [below |-> a.below \o b.below, room |-> y] \in Nodes
    BY <2>2, <2>3 DEF Nodes
  <2> QED BY <2>4 DEF Parent, y
<1>12. m * (2 * w) < leaves /\ x.below = LeavesFrom(m * (2 * w) + 1, End(m + 1, 2 * w))
  BY <1>3, <1>4, <1>6, <1>9
<1> QED BY <1>10, <1>11, <1>12 DEF a, b

\* the last of an odd number goes up as it is
LEMMA Lifted ==
  ASSUME NEW w \in Nat \ {0}, leaves \in Nat, Row(blocks, w), NEW m \in Nat,
         Len(blocks) = 2 * m + 1, leaves =< Len(blocks) * w
  PROVE  LET x == blocks[2 * m + 1]
         IN /\ x \in Nodes /\ x.below = LeavesFrom(m * (2 * w) + 1, End(m + 1, 2 * w))
            /\ x.room \in 1..(2 * w) /\ m * (2 * w) < leaves
<1> DEFINE x == blocks[2 * m + 1]
           p == (2 * m) * w
<1>1. p \in Nat /\ (2 * m + 1) * w = p + w /\ m * (2 * w) = p /\ (m + 1) * (2 * w) = p + 2 * w
  OBVIOUS
<1>2. 2 * m + 1 \in 1..Len(blocks) /\ 2 * m + 1 - 1 = 2 * m
  OBVIOUS
<1>3. /\ x.below = LeavesFrom((2 * m + 1 - 1) * w + 1, End(2 * m + 1, w)) /\ x.room \in 1..w
      /\ (2 * m + 1 - 1) * w < leaves /\ x \in Nodes
  BY <1>2, LenProperties DEF Row
<1>4. x.below = LeavesFrom(p + 1, End(2 * m + 1, w)) /\ p < leaves
  BY <1>2, <1>3
<1>5. End(2 * m + 1, w) = leaves /\ End(m + 1, 2 * w) = leaves
  BY <1>1 DEF End
<1> HIDE DEF x, p
<1>6. x.room \in 1..(2 * w)
  BY <1>3
<1>7. x.below = LeavesFrom(m * (2 * w) + 1, End(m + 1, 2 * w)) /\ m * (2 * w) < leaves
  BY <1>1, <1>4, <1>5
<1> QED BY <1>3, <1>6, <1>7 DEF x

\* every pass over a level keeps it
LEMMA TreeStep == TreeInv /\ [TreeNext]_treeVars => TreeInv'
<1> SUFFICES ASSUME NEW w \in Nat, Built(w), [TreeNext]_treeVars
             PROVE  \E v \in Nat : Built(v)'
  BY DEF TreeInv
<1> DEFINE c == Len(blocks)
           m == Len(nodes)
<1>1. leaves \in Nat /\ w \in Nat \ {0} /\ blocks \in Seq(Nodes) /\ c \in Nat
  BY LenProperties DEF Built, Row
<1>2. CASE BeginLevel
  <2>1. /\ nodes = <<>> /\ l' = 0 /\ tree' = "pairs" /\ leaves' = leaves /\ blocks' = blocks
        /\ nodes' = nodes /\ c # 1
    BY <1>2 DEF BeginLevel, Built
  <2>2. <<>> \in Seq(Nodes) /\ Len(<<>>) = 0
    OBVIOUS
  <2>3. Row(nodes, 2 * w)' /\ Len(nodes') = 0
    BY <2>1, <2>2 DEF Row
  <2>4. Row(blocks, w)'
    BY <2>1 DEF Built, Row, End
  <2>5. Built(w)'
    BY <1>1, <2>1, <2>3, <2>4 DEF Built
  <2> QED BY <1>1, <2>5
<1>3. CASE Combine
  <2> DEFINE x == IF l # c - 1 THEN Parent(blocks[l + 1], blocks[l + 2]) ELSE blocks[l + 1]
  <2>1. /\ tree = "pairs" /\ l < c /\ nodes' = Append(nodes, x) /\ l' = l + 2
        /\ leaves' = leaves /\ blocks' = blocks /\ tree' = tree
    BY <1>3 DEF Combine
  <2>2. Row(blocks, w) /\ leaves =< c * w /\ Row(nodes, 2 * w) /\ l = 2 * m /\ c # 1
    BY <2>1 DEF Built
  <2>3. m \in Nat /\ 2 * w \in Nat
    BY <1>1, <2>2, LenProperties DEF Row
  <2>4. /\ x \in Nodes /\ x.below = LeavesFrom(m * (2 * w) + 1, End(m + 1, 2 * w))
        /\ x.room \in 1..(2 * w) /\ m * (2 * w) < leaves
    <3>1. CASE l # c - 1
      <4>1. 2 * m + 2 =< c /\ x = Parent(blocks[2 * m + 1], blocks[2 * m + 2])
        BY <1>1, <2>1, <2>2, <2>3, <3>1
      <4> HIDE DEF x
      <4> QED BY <1>1, <2>2, <2>3, <4>1, Joined
    <3>2. CASE l = c - 1
      <4>1. c = 2 * m + 1 /\ x = blocks[2 * m + 1]
        BY <1>1, <2>1, <2>2, <2>3, <3>2
      <4> HIDE DEF x
      <4> QED BY <1>1, <2>2, <2>3, <4>1, Lifted
    <3> QED BY <3>1, <3>2
  <2> HIDE DEF x
  <2>5. Row(Append(nodes, x), 2 * w) /\ Len(Append(nodes, x)) = m + 1
    BY <2>2, <2>3, <2>4, Appended
  <2>6. Row(nodes, 2 * w)' /\ Len(nodes') = m + 1
    BY <2>1, <2>5 DEF Row, End
  <2>7. Row(blocks, w)'
    BY <2>1, <2>2 DEF Row, End
  <2>8. l' = 2 * Len(nodes') /\ l' =< Len(blocks') + 1
    BY <1>1, <2>1, <2>2, <2>3, <2>6
  <2>9. leaves' =< Len(blocks') * w /\ Len(blocks') # 1 /\ tree' = "pairs"
        /\ (leaves' > 0 => w < 2 * leaves')
    BY <2>1, <2>2 DEF Built
  <2>10. Built(w)'
    BY <1>1, <2>1, <2>6, <2>7, <2>8, <2>9 DEF Built
  <2> QED BY <1>1, <2>10
<1>4. CASE EndLevel
  <2> DEFINE v == 2 * w
  <2>1. /\ tree = "pairs" /\ l >= c /\ blocks' = nodes /\ nodes' = <<>> /\ tree' = "levels"
        /\ leaves' = leaves
    BY <1>4 DEF EndLevel
  <2>2. /\ Row(blocks, w) /\ leaves =< c * w /\ Row(nodes, v) /\ l = 2 * m /\ c # 1
    BY <2>1 DEF Built
  <2>3. m \in Nat /\ v \in Nat \ {0}
    BY <1>1, <2>2, LenProperties DEF Row
  <2>4. leaves =< m * v
    <3>1. m * v = (2 * m) * w /\ 2 * m >= c
      BY <1>1, <2>1, <2>2, <2>3
    <3>2. (2 * m) * w >= c * w
      <4> DEFINE d == 2 * m - c
      <4>1. d \in Nat /\ 2 * m = c + d
        BY <1>1, <2>3, <3>1
      <4> HIDE DEF d
      <4>2. (c + d) * w = c * w + d * w /\ d * w \in Nat /\ c * w \in Nat
        BY <1>1, <4>1
      <4>3. (c + d) * w >= c * w
        BY <4>2
      <4> QED BY <4>1, <4>3
    <3> DEFINE a == m * v
               b == c * w
    <3>3. a \in Nat /\ b \in Nat /\ leaves =< b /\ b =< a
      BY <1>1, <2>2, <2>3, <3>1, <3>2
    <3> HIDE DEF a, b
    <3>4. leaves =< a
      BY <1>1, <3>3
    <3> QED BY <3>4 DEF a
  <2>5. leaves > 0 => v < 2 * leaves
    <3> HAVE leaves > 0
    <3>1. c # 0
      BY <1>1, <2>2
    <3>2. 2 \in 1..c
      <4>1. c \in Nat /\ c # 0 /\ c # 1
        BY <1>1, <2>2, <3>1
      <4> HIDE DEF c
      <4> QED BY <4>1
    <3>3. (2 - 1) * w < leaves
      BY <2>2, <3>2 DEF Row
    <3> QED BY <1>1, <3>3
  <2> HIDE DEF v
  <2>6. Row(blocks, v)'
    BY <2>1, <2>2 DEF Row, End
  <2>7. leaves' =< Len(blocks') * v /\ (leaves' > 0 => v < 2 * leaves')
    BY <2>1, <2>4, <2>5
  <2>8. Built(v)'
    BY <1>1, <2>1, <2>3, <2>6, <2>7 DEF Built
  <2> QED BY <2>3, <2>8
<1>5. ASSUME UNCHANGED <<leaves, blocks, nodes>>, tree # "pairs", tree' # "pairs",
             tree' \in {"levels", "pairs", "built", "deleted", "crashed"},
             tree' \notin {"levels", "pairs"} => Len(blocks) = 1
      PROVE  \E v \in Nat : Built(v)'
  <2>1. Row(blocks, w)'
    BY <1>5 DEF Built, Row, End
  <2>2. Built(w)'
    BY <1>1, <1>5, <2>1 DEF Built
  <2> QED BY <1>1, <2>2
<1>6. CASE SetRoot
  BY <1>5, <1>6 DEF SetRoot
<1>7. CASE Destroy
  BY <1>5, <1>7 DEF Destroy, Built
<1>8. CASE UNCHANGED treeVars
  <2>1. Row(blocks, w)' /\ (tree = "pairs" => Row(nodes, 2 * w)')
    BY <1>8 DEF treeVars, Built, Row, End
  <2>2. Built(w)'
    BY <1>1, <1>8, <2>1 DEF Built, treeVars
  <2> QED BY <1>1, <2>2
<1> QED BY <1>2, <1>3, <1>4, <1>6, <1>7, <1>8 DEF TreeNext

\* From(x) and To(x) of a node that has leaves a to b below it
LEMMA Ends ==
  ASSUME NEW x, NEW a \in Nat, NEW b \in Nat, a =< b, x.below = LeavesFrom(a, b)
  PROVE  From(x) = a /\ To(x) = b
<1>1. LeavesFrom(a, b)[1] = a /\ LeavesFrom(a, b)[Len(LeavesFrom(a, b))] = b
  BY LeavesFromSeq
<1> QED BY <1>1, Zenon DEF From, To

\* where the leaves of a node of a level begin and end
LEMMA Places ==
  ASSUME NEW s, NEW w \in Nat \ {0}, leaves \in Nat, Row(s, w), NEW j \in 1..Len(s)
  PROVE  /\ From(s[j]) = (j - 1) * w + 1 /\ To(s[j]) = End(j, w)
         /\ s[j].below = LeavesFrom(From(s[j]), To(s[j]))
         /\ j < Len(s) => To(s[j]) = j * w
<1> DEFINE p == (j - 1) * w
<1>1. j \in Nat /\ p \in Nat /\ j * w = p + w /\ Len(s) \in Nat
  BY LenProperties DEF Row
<1>2. s[j].below = LeavesFrom(p + 1, End(j, w)) /\ p < leaves
  BY DEF Row
<1>3. j < Len(s) => j * w < leaves
  <2> HAVE j < Len(s)
  <2>1. j + 1 \in 1..Len(s) /\ j + 1 - 1 = j
    BY <1>1
  <2>2. (j + 1 - 1) * w < leaves
    BY <2>1 DEF Row
  <2> QED BY <2>1, <2>2
<1> HIDE DEF p
<1>4. End(j, w) \in Nat /\ p + 1 =< End(j, w)
  BY <1>1, <1>2 DEF End
<1>5. From(s[j]) = p + 1 /\ To(s[j]) = End(j, w)
  <2>1. p + 1 \in Nat
    BY <1>1
  <2> QED BY <1>2, <1>4, <2>1, Ends
<1>6. j < Len(s) => End(j, w) = j * w
  BY <1>3 DEF End
<1> QED BY <1>2, <1>5, <1>6 DEF p

\* the root is over all the leaves, in their order
LEMMA TreeInvImplies == TreeInv => LeavesKept
<1> SUFFICES ASSUME NEW w \in Nat, Built(w) PROVE LeavesKept
  BY DEF TreeInv
<1> DEFINE c == Len(blocks)
           m == Len(nodes)
<1>1. leaves \in Nat /\ w \in Nat \ {0} /\ blocks \in Seq(Nodes) /\ c \in Nat
      /\ Row(blocks, w) /\ leaves =< c * w
  BY LenProperties DEF Built, Row
<1>2. leaves > 0 => c > 0
  BY <1>1
<1>3. \A j \in 1..c : j = c => To(blocks[j]) = leaves
  <2> TAKE j \in 1..c
  <2> HAVE j = c
  <2>1. To(blocks[j]) = End(j, w)
    BY <1>1, Places
  <2>2. c * w \in Nat /\ ~ (c * w < leaves)
    BY <1>1
  <2>3. End(c, w) = leaves
    BY <2>2 DEF End
  <2> QED BY <2>1, <2>3
<1>4. CASE tree # "pairs"
  <2>1. Level = blocks
    <3>1. nodes = <<>> /\ Level = nodes \o SubSeq(blocks, 1 + 0, Len(blocks))
      BY <1>4 DEF Built, Level
    <3>2. SubSeq(blocks, 1, c) = blocks
      BY <1>1, SubSeqFull
    <3>3. 1 + 0 = 1
      OBVIOUS
    <3> QED BY <1>1, <3>1, <3>2, <3>3, ConcatEmptySeq
  <2>2. ASSUME NEW k \in 1..c
        PROVE  /\ blocks[k].below = LeavesFrom(From(blocks[k]), To(blocks[k]))
               /\ From(blocks[k]) = IF k = 1 THEN 1 ELSE To(blocks[k - 1]) + 1
               /\ k = c => To(blocks[k]) = leaves
    <3>1. From(blocks[k]) = (k - 1) * w + 1
          /\ blocks[k].below = LeavesFrom(From(blocks[k]), To(blocks[k]))
      BY <1>1, Places
    <3>2. k = 1 => From(blocks[k]) = 1
      BY <1>1, <3>1
    <3>3. k # 1 => From(blocks[k]) = To(blocks[k - 1]) + 1
      <4> HAVE k # 1
      <4>1. k - 1 \in 1..c /\ k - 1 < c
        BY <1>1
      <4>2. To(blocks[k - 1]) = (k - 1) * w
        BY <1>1, <4>1, Places
      <4> QED BY <3>1, <4>2
    <3> QED BY <1>3, <3>1, <3>2, <3>3
  <2>3. tree = "built" => blocks[1].room < 2 * leaves
    <3> HAVE tree = "built"
    <3>1. 1 \in 1..c
      <4>1. c = 1
        BY DEF Built
      <4> QED BY <4>1
    <3>2. blocks[1].room \in 1..w /\ (1 - 1) * w < leaves
      BY <1>1, <3>1 DEF Row
    <3>3. leaves > 0 /\ w < 2 * leaves
      BY <1>1, <3>2 DEF Built
    <3> QED BY <1>1, <3>2, <3>3
  <2>4. leaves > 0 => blocks # <<>>
    BY <1>1, <1>2
  <2> QED BY <2>1, <2>2, <2>3, <2>4 DEF LeavesKept
<1>5. CASE tree = "pairs"
  <2> DEFINE rest == SubSeq(blocks, l + 1, c)
             v == 2 * w
  <2>1. Row(nodes, v) /\ l = 2 * m /\ l =< c + 1
    BY <1>5 DEF Built
  <2>2. nodes \in Seq(Nodes) /\ m \in Nat /\ l \in Nat /\ v \in Nat \ {0} /\ m * v = l * w
    BY <1>1, <2>1, LenProperties DEF Row
  <2>3. 1 + l = l + 1 /\ Level = nodes \o rest
    <3>1. 1 + l = l + 1
      BY <2>2
    <3> QED BY <1>5, <3>1 DEF Level
  <2> DEFINE n == IF l < c THEN c - l ELSE 0
  <2>4. /\ rest \in Seq(Nodes) /\ Len(rest) = n
        /\ \A i \in 1..n : rest[i] = blocks[l + i]
    <3>1. \A i \in (l + 1)..c : blocks[i] \in Nodes
      BY <1>1, <2>2, LenProperties
    <3>2. /\ rest \in Seq(Nodes) /\ Len(rest) = (IF l + 1 =< c THEN c - (l + 1) + 1 ELSE 0)
          /\ \A i \in 1..(c - (l + 1) + 1) : rest[i] = blocks[l + 1 + i - 1]
      <4>1. l + 1 \in Int /\ c \in Int
        BY <1>1, <2>2
      <4> QED BY <3>1, <4>1, SubSeqProperties
    <3> HIDE DEF rest
    <3>3. \A i \in 1..n : l + 1 + i - 1 = l + i /\ i \in 1..(c - (l + 1) + 1)
      BY <1>1, <2>2
    <3>4. n = (IF l + 1 =< c THEN c - (l + 1) + 1 ELSE 0)
      BY <1>1, <2>2
    <3> QED BY <3>2, <3>3, <3>4
  <2>5. n \in Nat /\ (n = 0 <=> l >= c) /\ (n > 0 => l + n = c)
    BY <1>1, <2>2
  <2> HIDE DEF rest, n, v
  <2>6. /\ Level \in Seq(Nodes) /\ Len(Level) = m + n
        /\ \A k \in 1..(m + n) : Level[k] = IF k =< m THEN nodes[k] ELSE rest[k - m]
    <3> DEFINE both == nodes \o rest
    <3>1. /\ both \in Seq(Nodes) /\ Len(both) = m + Len(rest)
          /\ \A k \in 1..(m + Len(rest)) : both[k] = IF k =< m THEN nodes[k] ELSE rest[k - m]
      BY <2>2, <2>4, ConcatProperties, Zenon
    <3> HIDE DEF both
    <3>2. Level = both
      BY <2>3 DEF both
    <3>3. m + Len(rest) = m + n
      BY <2>4
    <3> DEFINE k0 == m + Len(rest)
               k1 == m + n
    <3>4. /\ both \in Seq(Nodes) /\ Len(both) = k0 /\ k0 = k1
          /\ \A k \in 1..k0 : both[k] = IF k =< m THEN nodes[k] ELSE rest[k - m]
      BY <3>1, <3>3
    <3> HIDE DEF k0, k1
    <3>5. /\ both \in Seq(Nodes) /\ Len(both) = k1
          /\ \A k \in 1..k1 : both[k] = IF k =< m THEN nodes[k] ELSE rest[k - m]
      BY <3>4
    <3> QED BY <3>2, <3>5 DEF k1
  <2>7. \A k \in 1..m : Level[k] = nodes[k]
    BY <2>2, <2>5, <2>6
  <2>8. \A i \in 1..n : Level[m + i] = blocks[l + i] /\ l + i \in 1..c
    <3> TAKE i \in 1..n
    <3>1. m + i \in 1..(m + n) /\ ~ (m + i =< m) /\ m + i - m = i /\ l + i \in 1..c
      BY <1>1, <2>2, <2>5
    <3>2. Level[m + i] = rest[m + i - m]
      BY <2>6, <3>1
    <3> QED BY <2>4, <3>1, <3>2
  <2>9. \A k \in 1..m : From(Level[k]) = IF k = 1 THEN 1 ELSE To(Level[k - 1]) + 1
    <3> TAKE k \in 1..m
    <3>1. From(nodes[k]) = (k - 1) * v + 1
      BY <1>1, <2>1, <2>2, Places
    <3>2. k = 1 => From(Level[k]) = 1
      BY <2>2, <2>7, <3>1
    <3>3. k # 1 => From(Level[k]) = To(Level[k - 1]) + 1
      <4> HAVE k # 1
      <4>1. k - 1 \in 1..m /\ k - 1 < m
        BY <2>2
      <4>2. To(nodes[k - 1]) = (k - 1) * v
        BY <1>1, <2>1, <2>2, <4>1, Places
      <4> QED BY <2>7, <3>1, <4>1, <4>2
    <3> QED BY <3>2, <3>3
  <2>10. m > 0 => To(Level[m]) = IF m * v < leaves THEN m * v ELSE leaves
    <3> HAVE m > 0
    <3>1. m \in 1..m
      BY <2>2
    <3>2. To(nodes[m]) = End(m, v)
      BY <1>1, <2>1, <2>2, <3>1, Places
    <3> QED BY <2>7, <3>1, <3>2 DEF End
  <2>11. \A i \in 1..n : /\ From(Level[m + i]) = (l + i - 1) * w + 1
                         /\ i < n => To(Level[m + i]) = (l + i) * w
                         /\ i = n => To(Level[m + i]) = leaves
    <3> TAKE i \in 1..n
    <3>1. l + i \in 1..c /\ Level[m + i] = blocks[l + i]
      BY <2>8
    <3>2. (i < n => l + i < c) /\ (i = n => l + i = c)
      BY <1>1, <2>2, <2>5
    <3> DEFINE j == l + i
    <3>3. From(blocks[j]) = (j - 1) * w + 1 /\ (j < c => To(blocks[j]) = j * w)
      BY <1>1, <3>1, Places
    <3>4. j = c => To(blocks[j]) = leaves
      BY <1>3, <3>1
    <3>5. Level[m + i] = blocks[j]
      BY <3>1
    <3>6. From(Level[m + i]) = (l + i - 1) * w + 1
      <4>1. j - 1 = l + i - 1
        BY <2>2
      <4> QED BY <3>3, <3>5, <4>1, Zenon
    <3>7. i < n => To(Level[m + i]) = (l + i) * w
      BY <3>2, <3>3, <3>5, Zenon
    <3>8. i = n => To(Level[m + i]) = leaves
      BY <3>2, <3>4, <3>5, Zenon
    <3> QED BY <3>6, <3>7, <3>8
  <2>12. n > 0 /\ m > 0 => To(Level[m]) = l * w
    <3> HAVE n > 0 /\ m > 0
    <3>1. 1 \in 1..n
      BY <2>5
    <3>2. l + 1 \in 1..c /\ l + 1 - 1 = l
      BY <2>2, <2>8, <3>1
    <3>3. (l + 1 - 1) * w < leaves
      <4>1. \A j \in 1..c : (j - 1) * w < leaves
        BY <1>1 DEF Row
      <4> DEFINE j == l + 1
      <4>2. j \in 1..c
        BY <3>2
      <4> HIDE DEF j
      <4>3. (j - 1) * w < leaves
        BY <4>1, <4>2
      <4>4. j - 1 = l + 1 - 1
        BY <2>2 DEF j
      <4> QED BY <4>3, <4>4
    <3> QED BY <2>2, <2>10, <3>2, <3>3
  <2>13. n = 0 /\ m > 0 => To(Level[m]) = leaves
    <3> HAVE n = 0 /\ m > 0
    <3>1. l * w >= c * w
      <4> DEFINE d == l - c
      <4>1. d \in Nat /\ l = c + d
        BY <1>1, <2>2, <2>5
      <4> HIDE DEF d
      <4>2. (c + d) * w = c * w + d * w /\ d * w \in Nat /\ c * w \in Nat
        BY <1>1, <4>1
      <4>3. (c + d) * w >= c * w
        BY <4>2
      <4> QED BY <4>1, <4>3
    <3>2. c * w \in Nat /\ l * w \in Nat
      BY <1>1, <2>2
    <3>3. ~ (l * w < leaves)
      BY <1>1, <3>1, <3>2
    <3> QED BY <2>2, <2>10, <3>3
  <2>14. \A k \in 1..(m + n) : k \in 1..m \/ \E i \in 1..n : k = m + i
    <3> TAKE k \in 1..(m + n)
    <3> SUFFICES ASSUME k \notin 1..m PROVE \E i \in 1..n : k = m + i
      OBVIOUS
    <3>1. k - m \in 1..n /\ k = m + (k - m)
      BY <2>2, <2>5
    <3> QED BY <3>1
  <2>15. ASSUME NEW k \in 1..(m + n)
         PROVE  /\ Level[k].below = LeavesFrom(From(Level[k]), To(Level[k]))
                /\ From(Level[k]) = IF k = 1 THEN 1 ELSE To(Level[k - 1]) + 1
                /\ k = m + n => To(Level[k]) = leaves
    <3>1. CASE k \in 1..m
      <4>1. Level[k].below = LeavesFrom(From(Level[k]), To(Level[k]))
        BY <1>1, <2>1, <2>2, <2>7, <3>1, Places
      <4>2. k = m + n => k = m /\ n = 0 /\ m > 0
        BY <2>2, <2>5, <3>1
      <4> QED BY <2>9, <2>13, <3>1, <4>1, <4>2
    <3>2. ASSUME NEW i \in 1..n, k = m + i
          PROVE  /\ Level[k].below = LeavesFrom(From(Level[k]), To(Level[k]))
                 /\ From(Level[k]) = IF k = 1 THEN 1 ELSE To(Level[k - 1]) + 1
                 /\ k = m + n => To(Level[k]) = leaves
      <4>1. Level[k].below = LeavesFrom(From(Level[k]), To(Level[k]))
        <5> DEFINE j == l + i
        <5>1. j \in 1..c /\ Level[k] = blocks[j]
          BY <2>8, <3>2
        <5> HIDE DEF j
        <5>2. blocks[j].below = LeavesFrom(From(blocks[j]), To(blocks[j]))
          BY <1>1, <5>1, Places
        <5> QED BY <5>1, <5>2, Zenon
      <4>2. k = m + n => i = n
        BY <2>2, <2>5, <3>2
      <4>3. From(Level[k]) = (l + i - 1) * w + 1
        BY <2>11, <3>2
      <4>4. CASE i > 1
        <5>1. i - 1 \in 1..n /\ i - 1 < n /\ k # 1 /\ k - 1 = m + (i - 1) /\ l + (i - 1) = l + i - 1
          BY <2>2, <2>5, <3>2, <4>4
        <5>2. To(Level[m + (i - 1)]) = (l + (i - 1)) * w
          BY <2>11, <5>1
        <5> QED BY <2>11, <3>2, <4>1, <4>2, <4>3, <5>1, <5>2
      <4>5. CASE i = 1 /\ m > 0
        <5>1. k # 1 /\ k - 1 = m /\ l + i - 1 = l /\ n > 0
          BY <2>2, <2>5, <3>2, <4>5
        <5> QED BY <2>11, <2>12, <3>2, <4>1, <4>2, <4>3, <4>5, <5>1
      <4>6. CASE i = 1 /\ m = 0
        <5>1. k = 1 /\ l + i - 1 = 0 /\ 0 * w = 0
          BY <1>1, <2>1, <2>2, <3>2, <4>6
        <5> QED BY <2>11, <3>2, <4>1, <4>2, <4>3, <5>1
      <4> QED BY <2>2, <4>4, <4>5, <4>6
    <3> QED BY <2>14, <3>1, <3>2
  <2>16. leaves > 0 => Level # <<>>
    <3> HAVE leaves > 0
    <3>1. m + n > 0
      BY <1>1, <1>2, <2>1, <2>2, <2>5
    <3> QED BY <2>2, <2>6, <2>5, <3>1
  <2> QED BY <1>5, <2>6, <2>15, <2>16 DEF LeavesKept
<1> QED BY <1>4, <1>5

\* A Merkle tree of any number of blocks has each of them below it, once and in
\* the order they were given, at every moment of its construction, and is no
\* higher than it has to be.
THEOREM Tree == TreeSpec => []LeavesKept
<1>1. TreeInit => TreeInv
  BY TreeInitial
<1>2. TreeInv /\ [TreeNext]_treeVars => TreeInv'
  BY TreeStep
<1>3. TreeInv => LeavesKept
  BY TreeInvImplies
<1> QED BY <1>1, <1>2, <1>3, PTL DEF TreeSpec

\* Induction: the sets of the numbers below those outside S would have a
\* smallest one.
LEMMA Induction ==
  ASSUME NEW S, 0 \in S, \A n \in Nat : n \in S => n + 1 \in S
  PROVE  \A n \in Nat : n \in S
<1> DEFINE R == StrictSubsetOrdering(Nat)
           F == FiniteSubsetsOf(Nat)
           Below(n) == 0..(n - 1)
           T == {Below(n) : n \in Nat \ S}
<1>1. IsWellFoundedOn(R, F)
  BY FS_StrictSubsetOrderingWellFounded
<1>2. \A n \in Nat : Below(n) \in F
  BY FS_Interval DEF FiniteSubsetsOf
<1>3. \A n \in Nat \ {0} : <<Below(n - 1), Below(n)>> \in R
  <2> TAKE n \in Nat \ {0}
  <2>1. Below(n - 1) \subseteq Nat /\ Below(n) \subseteq Nat
    OBVIOUS
  <2>2. n - 1 \in Below(n) /\ n - 1 \notin Below(n - 1) /\ Below(n - 1) \subseteq Below(n)
    OBVIOUS
  <2>3. Below(n - 1) # Below(n)
    BY <2>2
  <2> HIDE DEF Below
  <2> QED BY <2>1, <2>2, <2>3 DEF StrictSubsetOrdering
<1> HIDE DEF R, F, Below
<1> SUFFICES ASSUME T # {} PROVE FALSE
  OBVIOUS
<1>4. PICK x \in T : \A y \in T : <<y, x>> \notin R
  <2>1. T \subseteq F
    BY <1>2
  <2> HIDE DEF T
  <2> QED BY <1>1, <2>1, WFMin
<1>5. PICK n \in Nat \ S : x = Below(n)
  BY <1>4
<1>6. n # 0 /\ n - 1 \in Nat /\ n - 1 + 1 = n
  BY <1>5
<1>7. n - 1 \notin S
  BY <1>5, <1>6
<1> QED BY <1>3, <1>4, <1>5, <1>6, <1>7

\* up to a bound
LEMMA InductionUpTo ==
  ASSUME NEW n \in Nat, NEW S, 0 \in S, \A k \in 1..n : k - 1 \in S => k \in S
  PROVE  \A k \in 0..n : k \in S
<1> DEFINE U == {k \in Nat : k <= n => k \in S}
<1>1. 0 \in U
  OBVIOUS
<1>2. \A k \in Nat : k \in U => k + 1 \in U
  <2> TAKE k \in Nat
  <2> SUFFICES ASSUME k \in U, k + 1 <= n PROVE k + 1 \in S
    OBVIOUS
  <2>1. k \in S /\ k + 1 \in 1..n /\ (k + 1) - 1 = k
    OBVIOUS
  <2> QED BY <2>1
<1> HIDE DEF U
<1>3. \A k \in Nat : k \in U
  BY <1>1, <1>2, Induction
<1> QED BY <1>3 DEF U

\* A function on 0..n whose values are made of those before them exists.
StaysIn(step, n, S) == \A i \in 0..n : \A f \in [0..(i - 1) -> S] : step[i][f] \in S
Follows(f, step, n) == \A i \in 0..n : f[i] = step[i][[j \in 0..(i - 1) |-> f[j]]]

\* a function defined step by step exists
LEMMA Recursion ==
  ASSUME NEW n \in Nat, NEW S, NEW step, StaysIn(step, n, S)
  PROVE  \E f \in [0..n -> S] : Follows(f, step, n)
<1>0. \A i \in 0..n : \A f \in [0..(i - 1) -> S] : step[i][f] \in S
  BY Zenon DEF StaysIn
<1> DEFINE Made(f, k) == \A i \in 0..k : f[i] = step[i][[j \in 0..(i - 1) |-> f[j]]]
           U == {k \in 0..n : \E f \in [0..k -> S] : Made(f, k)}
<1>1. 0 \in U
  <2> DEFINE e == [j \in 0..(0 - 1) |-> {}]
             f == [j \in 0..0 |-> step[0][e]]
  <2>1. e \in [0..(0 - 1) -> S]
    OBVIOUS
  <2>2. f \in [0..0 -> S]
    <3>1. \A h \in [0..(0 - 1) -> S] : step[0][h] \in S
      <4>1. 0 \in 0..n
        OBVIOUS
      <4> QED BY <1>0, <4>1
    <3>2. step[0][e] \in S
      <4> HIDE DEF e
      <4> QED BY <2>1, <3>1
    <3> HIDE DEF e
    <3> QED BY <3>2
  <2>3. \A g : [j \in 0..(0 - 1) |-> g[j]] = e
    OBVIOUS
  <2>4. Made(f, 0)
    <3>1. f[0] = step[0][e]
      OBVIOUS
    <3> HIDE DEF f, e
    <3> QED BY <3>1, <2>3
  <2> HIDE DEF f, Made
  <2> QED BY <2>2, <2>4
<1>2. \A k \in 1..n : k - 1 \in U => k \in U
  <2> TAKE k \in 1..n
  <2> HAVE k - 1 \in U
  <2> SUFFICES \E f \in [0..k -> S] : Made(f, k)
    <3> HIDE DEF Made
    <3> QED OBVIOUS
  <2> PICK g \in [0..(k - 1) -> S] : Made(g, k - 1)
    <3> HIDE DEF Made
    <3> QED OBVIOUS
  <2> DEFINE f == [j \in 0..k |-> IF j = k THEN step[k][g] ELSE g[j]]
  <2>1. step[k][g] \in S
    BY <1>0
  <2>2. f \in [0..k -> S]
    BY <2>1
  <2>3. \A i \in 0..(k - 1) : [j \in 0..(i - 1) |-> f[j]] = [j \in 0..(i - 1) |-> g[j]]
    OBVIOUS
  <2>4. [j \in 0..(k - 1) |-> f[j]] = g
    OBVIOUS
  <2>5. f[k] = step[k][g] /\ \A i \in 0..(k - 1) : f[i] = g[i]
    OBVIOUS
  <2> HIDE DEF f
  <2>6. ASSUME NEW i \in 0..k
        PROVE  f[i] = step[i][[j \in 0..(i - 1) |-> f[j]]]
    <3>1. CASE i = k
      BY <2>4, <2>5, <3>1
    <3>2. CASE i # k
      <4>1. i \in 0..(k - 1)
        BY <3>2
      <4>2. g[i] = step[i][[j \in 0..(i - 1) |-> g[j]]]
        BY <4>1
      <4> QED BY <4>1, <4>2, <2>3, <2>5
    <3> QED BY <3>1, <3>2
  <2> QED BY <2>2, <2>6
<1>3. \A k \in 0..n : k \in U
  <2> HIDE DEF U
  <2> QED BY <1>1, <1>2, InductionUpTo
<1> HIDE DEF Made
<1>4. n \in U
  <2> HIDE DEF U
  <2> QED BY <1>3
<1> QED BY <1>4 DEF Made, Follows

\* Two functions that begin alike and go on alike are alike.
LEMMA Alike ==
  ASSUME NEW n \in Nat, NEW f, NEW g, f[0] = g[0],
         \A k \in 1..n : f[k - 1] = g[k - 1] => f[k] = g[k]
  PROVE  f[n] = g[n]
<1> DEFINE S == {k \in 0..n : f[k] = g[k]}
<1>1. 0 \in S /\ \A k \in 1..n : k - 1 \in S => k \in S
  OBVIOUS
<1> HIDE DEF S
<1>2. n \in S
  BY <1>1, InductionUpTo
<1> QED BY <1>2 DEF S

\* shifting to the right divides by a power of two
LEMMA Shifting ==
  ASSUME NEW n
  PROVE  /\ ShiftRight(n, 0) = n \div 1 /\ ShiftRight(n, 1) = n \div 2
         /\ ShiftRight(n, 2) = n \div 4 /\ ShiftRight(n, 3) = n \div 8
         /\ ShiftRight(n, 4) = n \div 16 /\ ShiftRight(n, 5) = n \div 32
         /\ ShiftRight(n, 6) = n \div 64 /\ ShiftRight(n, 7) = n \div 128
BY DEF ShiftRight

\* the bits of a byte, the highest first
BitsOf(x) == [t \in 1..8 |-> ShiftRight(x, 8 - t) % 2]

\* what the shifts and masks of the encoders take out of a byte
LEMMA ByteBits ==
  ASSUME NEW x \in 0..255
  PROVE  LET y == BitsOf(x) IN
         /\ \A t \in 1..8 : y[t] \in 0..1
         /\ x \div 4 = 32 * y[1] + 16 * y[2] + 8 * y[3] + 4 * y[4] + 2 * y[5] + y[6]
         /\ x % 4 = 2 * y[7] + y[8]
         /\ x \div 16 = 8 * y[1] + 4 * y[2] + 2 * y[3] + y[4]
         /\ x % 16 = 8 * y[5] + 4 * y[6] + 2 * y[7] + y[8]
         /\ x \div 64 = 2 * y[1] + y[2]
         /\ x % 64 = 32 * y[3] + 16 * y[4] + 8 * y[5] + 4 * y[6] + 2 * y[7] + y[8]
<1> DEFINE y == BitsOf(x)
<1>1. /\ y[8] = x % 2 /\ y[7] = (x \div 2) % 2 /\ y[6] = (x \div 4) % 2
      /\ y[5] = (x \div 8) % 2 /\ y[4] = (x \div 16) % 2 /\ y[3] = (x \div 32) % 2
      /\ y[2] = (x \div 64) % 2 /\ y[1] = (x \div 128) % 2
  <2>1. x \div 1 = x
    OBVIOUS
  <2>2. \A t \in 1..8 : y[t] = ShiftRight(x, 8 - t) % 2
    BY DEF BitsOf
  <2> HIDE DEF y
  <2>3. /\ y[8] = ShiftRight(x, 8 - 8) % 2 /\ y[7] = ShiftRight(x, 8 - 7) % 2
        /\ y[6] = ShiftRight(x, 8 - 6) % 2 /\ y[5] = ShiftRight(x, 8 - 5) % 2
        /\ y[4] = ShiftRight(x, 8 - 4) % 2 /\ y[3] = ShiftRight(x, 8 - 3) % 2
        /\ y[2] = ShiftRight(x, 8 - 2) % 2 /\ y[1] = ShiftRight(x, 8 - 1) % 2
    BY <2>2
  <2> QED BY <2>1, <2>3, Shifting
<1> HIDE DEF y
<1>2. /\ x % 2 \in 0..1 /\ (x \div 2) % 2 \in 0..1 /\ (x \div 4) % 2 \in 0..1
      /\ (x \div 8) % 2 \in 0..1 /\ (x \div 16) % 2 \in 0..1 /\ (x \div 32) % 2 \in 0..1
      /\ (x \div 64) % 2 \in 0..1 /\ (x \div 128) % 2 \in 0..1
  OBVIOUS
<1>3. \A t \in 1..8 : y[t] \in 0..1
  <2> TAKE t \in 1..8
  <2>1. t \in {1, 2, 3, 4, 5, 6, 7, 8}
    OBVIOUS
  <2> QED BY <1>1, <1>2, <2>1
<1> DEFINE h1 == x \div 2
           h2 == x \div 4
           h3 == x \div 8
           h4 == x \div 16
           h5 == x \div 32
           h6 == x \div 64
           h7 == x \div 128
<1>4. /\ h1 \in Nat /\ h2 \in Nat /\ h3 \in Nat /\ h4 \in Nat /\ h5 \in Nat /\ h6 \in Nat
      /\ h7 \in 0..1
  OBVIOUS
<1>5. /\ x = 2 * h1 + (x % 2) /\ h1 = 2 * h2 + (h1 % 2) /\ h2 = 2 * h3 + (h2 % 2)
      /\ h3 = 2 * h4 + (h3 % 2) /\ h4 = 2 * h5 + (h4 % 2) /\ h5 = 2 * h6 + (h5 % 2)
      /\ h6 = 2 * h7 + (h6 % 2) /\ h7 = h7 % 2
  OBVIOUS
<1>6. x % 4 = x - 4 * h2 /\ x % 16 = x - 16 * h4 /\ x % 64 = x - 64 * h6
  OBVIOUS
<1>7. /\ h7 = y[1] /\ h6 = 2 * h7 + y[2] /\ h5 = 2 * h6 + y[3] /\ h4 = 2 * h5 + y[4]
      /\ h3 = 2 * h4 + y[5] /\ h2 = 2 * h3 + y[6] /\ h1 = 2 * h2 + y[7] /\ x = 2 * h1 + y[8]
  BY <1>1, <1>5
<1>8. /\ y[1] \in Int /\ y[2] \in Int /\ y[3] \in Int /\ y[4] \in Int
      /\ y[5] \in Int /\ y[6] \in Int /\ y[7] \in Int /\ y[8] \in Int
  BY <1>3
<1> HIDE DEF h1, h2, h3, h4, h5, h6, h7
<1>9. /\ h2 = 32 * y[1] + 16 * y[2] + 8 * y[3] + 4 * y[4] + 2 * y[5] + y[6]
      /\ x - 4 * h2 = 2 * y[7] + y[8]
      /\ h4 = 8 * y[1] + 4 * y[2] + 2 * y[3] + y[4]
      /\ x - 16 * h4 = 8 * y[5] + 4 * y[6] + 2 * y[7] + y[8]
      /\ h6 = 2 * y[1] + y[2]
      /\ x - 64 * h6 = 32 * y[3] + 16 * y[4] + 8 * y[5] + 4 * y[6] + 2 * y[7] + y[8]
  <2> DEFINE b1 == y[1]
             b2 == y[2]
             b3 == y[3]
             b4 == y[4]
             b5 == y[5]
             b6 == y[6]
             b7 == y[7]
             b8 == y[8]
  <2>1. /\ h7 = b1 /\ h6 = 2 * h7 + b2 /\ h5 = 2 * h6 + b3 /\ h4 = 2 * h5 + b4
        /\ h3 = 2 * h4 + b5 /\ h2 = 2 * h3 + b6 /\ h1 = 2 * h2 + b7 /\ x = 2 * h1 + b8
    BY <1>7
  <2>2. /\ b1 \in Int /\ b2 \in Int /\ b3 \in Int /\ b4 \in Int
        /\ b5 \in Int /\ b6 \in Int /\ b7 \in Int /\ b8 \in Int
    BY <1>8
  <2> HIDE DEF b1, b2, b3, b4, b5, b6, b7, b8
  <2>3. /\ h2 = 32 * b1 + 16 * b2 + 8 * b3 + 4 * b4 + 2 * b5 + b6
        /\ x - 4 * h2 = 2 * b7 + b8
        /\ h4 = 8 * b1 + 4 * b2 + 2 * b3 + b4
        /\ x - 16 * h4 = 8 * b5 + 4 * b6 + 2 * b7 + b8
        /\ h6 = 2 * b1 + b2
        /\ x - 64 * h6 = 32 * b3 + 16 * b4 + 8 * b5 + 4 * b6 + 2 * b7 + b8
    BY <1>4, <2>1, <2>2
  <2> QED BY <2>3 DEF b1, b2, b3, b4, b5, b6, b7, b8
<1>10. /\ x \div 4 = 32 * y[1] + 16 * y[2] + 8 * y[3] + 4 * y[4] + 2 * y[5] + y[6]
       /\ x % 4 = 2 * y[7] + y[8]
       /\ x \div 16 = 8 * y[1] + 4 * y[2] + 2 * y[3] + y[4]
       /\ x % 16 = 8 * y[5] + 4 * y[6] + 2 * y[7] + y[8]
       /\ x \div 64 = 2 * y[1] + y[2]
       /\ x % 64 = 32 * y[3] + 16 * y[4] + 8 * y[5] + 4 * y[6] + 2 * y[7] + y[8]
  BY <1>6, <1>9 DEF h2, h4, h6
<1> QED BY <1>3, <1>10, Zenon DEF y

\* the k-th byte of a message, or a zero behind its end
At(m, k) == IF k \in 1..Len(m) THEN m[k] ELSE 0

\* behind the end of a message there are zeros
LEMMA ByteAt ==
  ASSUME NEW m \in Seq(0..255), NEW k \in Int
  PROVE  At(m, k) \in 0..255
<1>1. \A j \in 1..Len(m) : m[j] \in 0..255
  BY ElementOfSeq
<1> QED BY <1>1 DEF At

\* a zero has no bit set
LEMMA ZeroBits == \A t \in 1..8 : BitsOf(0)[t] = 0
<1> TAKE t \in 1..8
<1>1. /\ 0 \div 1 = 0 /\ 0 \div 2 = 0 /\ 0 \div 4 = 0 /\ 0 \div 8 = 0 /\ 0 \div 16 = 0
      /\ 0 \div 32 = 0 /\ 0 \div 64 = 0 /\ 0 \div 128 = 0 /\ 0 % 2 = 0
  OBVIOUS
<1>2. 8 - t \in {0, 1, 2, 3, 4, 5, 6, 7}
  OBVIOUS
<1>3. ShiftRight(0, 8 - t) = 0
  <2> DEFINE k == 8 - t
  <2>1. k \in {0, 1, 2, 3, 4, 5, 6, 7}
    BY <1>2
  <2> HIDE DEF k
  <2>2. ShiftRight(0, k) = 0
    BY <1>1, <2>1, Shifting
  <2> QED BY <2>2 DEF k
<1>4. ShiftRight(0, 8 - t) % 2 = 0
  BY <1>1, <1>3
<1> QED BY <1>4, Zenon DEF BitsOf

\* the bits of a message, with zeros behind them
LEMMA BitAt ==
  ASSUME NEW m \in Seq(0..255), NEW q \in Nat, NEW t \in 1..8
  PROVE  /\ Len(Bits(m, 8)) = 8 * Len(m)
         /\ (IF 8 * q + t <= 8 * Len(m) THEN Bits(m, 8)[8 * q + t] ELSE 0)
              = BitsOf(At(m, q + 1))[t]
<1>1. Len(m) \in Nat
  OBVIOUS
<1> DEFINE n == 8 * Len(m)
           k == 8 * q + t
<1>2. n \in Nat /\ k \in Nat /\ k > 0
  BY <1>1
<1>3. Bits(m, 8) = [j \in 1..n |-> ShiftRight(m[(j - 1) \div 8 + 1], (8 - 1) - ((j - 1) % 8)) % 2]
  BY DEF Bits
<1>4. Len(Bits(m, 8)) = n
  <2> HIDE DEF n
  <2> QED BY <1>2, <1>3
<1>5. CASE k <= n
  <2>1. (k - 1) \div 8 + 1 = q + 1 /\ (8 - 1) - ((k - 1) % 8) = 8 - t
    OBVIOUS
  <2>2. q + 1 \in 1..Len(m) /\ k \in 1..n
    BY <1>1, <1>2, <1>5
  <2> HIDE DEF n, k
  <2>3. Bits(m, 8)[k] = ShiftRight(m[(k - 1) \div 8 + 1], (8 - 1) - ((k - 1) % 8)) % 2
    BY <1>3, <2>2
  <2>4. Bits(m, 8)[k] = ShiftRight(m[q + 1], 8 - t) % 2
    BY <2>1, <2>3, Zenon
  <2>5. BitsOf(m[q + 1])[t] = ShiftRight(m[q + 1], 8 - t) % 2
    BY Zenon DEF BitsOf
  <2>6. At(m, q + 1) = m[q + 1]
    BY <2>2 DEF At
  <2>7. Bits(m, 8)[k] = BitsOf(At(m, q + 1))[t]
    BY <2>4, <2>5, <2>6, Zenon
  <2> QED BY <1>4, <1>5, <2>7, Zenon DEF k, n
<1>6. CASE ~ (k <= n)
  <2>1. At(m, q + 1) = 0
    BY <1>1, <1>2, <1>6 DEF At
  <2> HIDE DEF k, n
  <2>2. BitsOf(At(m, q + 1))[t] = 0
    BY <2>1, ZeroBits
  <2> QED BY <1>4, <1>6, <2>2, Zenon DEF k, n
<1> QED BY <1>5, <1>6

\* the k-th group of six bits of a message, and how many there are
Sextet(m, k) ==
  LET i == 3 * ((k - 1) \div 4)
      r == (k - 1) % 4
  IN IF r = 0 THEN At(m, i + 1) \div 4
     ELSE IF r = 1 THEN (At(m, i + 1) % 4) * 16 + At(m, i + 2) \div 16
     ELSE IF r = 2 THEN (At(m, i + 2) % 16) * 4 + At(m, i + 3) \div 64
     ELSE At(m, i + 3) % 64
Sextets(n) == (8 * n + 5) \div 6

BitsAre(bit, m) ==
  \A q \in Nat : \A t \in 1..8 : bit[8 * q + t] = BitsOf(At(m, q + 1))[t]

\* six bits in a row are the sextet the encoders compute
LEMMA SextetFromBits ==
  ASSUME NEW m \in Seq(0..255), NEW p \in Nat, NEW bit, BitsAre(bit, m)
  PROVE  LET six(k) == 32 * bit[k + 1] + 16 * bit[k + 2] + 8 * bit[k + 3]
                         + 4 * bit[k + 4] + 2 * bit[k + 5] + bit[k + 6]
         IN /\ six(24 * p) = At(m, 3 * p + 1) \div 4
            /\ six(24 * p + 6) = (At(m, 3 * p + 1) % 4) * 16 + At(m, 3 * p + 2) \div 16
            /\ six(24 * p + 12) = (At(m, 3 * p + 2) % 16) * 4 + At(m, 3 * p + 3) \div 64
            /\ six(24 * p + 18) = At(m, 3 * p + 3) % 64
<1> DEFINE a == At(m, 3 * p + 1)
           b == At(m, 3 * p + 2)
           c == At(m, 3 * p + 3)
           x == BitsOf(a)
           y == BitsOf(b)
           z == BitsOf(c)
<1>1. a \in 0..255 /\ b \in 0..255 /\ c \in 0..255
  BY ByteAt
<1>2. ASSUME NEW q \in Nat, NEW w, w = BitsOf(At(m, q + 1))
      PROVE  /\ bit[8 * q + 1] = w[1] /\ bit[8 * q + 2] = w[2] /\ bit[8 * q + 3] = w[3]
             /\ bit[8 * q + 4] = w[4] /\ bit[8 * q + 5] = w[5] /\ bit[8 * q + 6] = w[6]
             /\ bit[8 * q + 7] = w[7] /\ bit[8 * q + 8] = w[8]
  <2>1. \A t \in 1..8 : bit[8 * q + t] = w[t]
    BY <1>2 DEF BitsAre
  <2> QED BY <2>1
<1>3. 8 * (3 * p) = 24 * p /\ 8 * (3 * p + 1) = 24 * p + 8 /\ 8 * (3 * p + 2) = 24 * p + 16
  OBVIOUS
<1>4. /\ bit[24 * p + 1] = x[1] /\ bit[24 * p + 2] = x[2] /\ bit[24 * p + 3] = x[3]
      /\ bit[24 * p + 4] = x[4] /\ bit[24 * p + 5] = x[5] /\ bit[24 * p + 6] = x[6]
      /\ bit[24 * p + 7] = x[7] /\ bit[24 * p + 8] = x[8]
  <2>1. 3 * p \in Nat /\ x = BitsOf(At(m, 3 * p + 1))
    OBVIOUS
  <2> HIDE DEF x
  <2> DEFINE q == 3 * p
  <2>2. q \in Nat /\ x = BitsOf(At(m, q + 1)) /\ 8 * q = 24 * p
    BY <1>3, <2>1
  <2> HIDE DEF q
  <2>3. /\ bit[8 * q + 1] = x[1] /\ bit[8 * q + 2] = x[2] /\ bit[8 * q + 3] = x[3]
        /\ bit[8 * q + 4] = x[4] /\ bit[8 * q + 5] = x[5] /\ bit[8 * q + 6] = x[6]
        /\ bit[8 * q + 7] = x[7] /\ bit[8 * q + 8] = x[8]
    BY <1>2, <2>2, Zenon
  <2> QED BY <2>2, <2>3
<1>5. /\ bit[24 * p + 9] = y[1] /\ bit[24 * p + 10] = y[2] /\ bit[24 * p + 11] = y[3]
      /\ bit[24 * p + 12] = y[4] /\ bit[24 * p + 13] = y[5] /\ bit[24 * p + 14] = y[6]
      /\ bit[24 * p + 15] = y[7] /\ bit[24 * p + 16] = y[8]
  <2> DEFINE q == 3 * p + 1
  <2>1. q \in Nat /\ q + 1 = 3 * p + 2 /\ 8 * q = 24 * p + 8
    BY <1>3
  <2>2. y = BitsOf(At(m, q + 1))
    BY <2>1
  <2> HIDE DEF q, y
  <2>3. /\ bit[8 * q + 1] = y[1] /\ bit[8 * q + 2] = y[2] /\ bit[8 * q + 3] = y[3]
        /\ bit[8 * q + 4] = y[4] /\ bit[8 * q + 5] = y[5] /\ bit[8 * q + 6] = y[6]
        /\ bit[8 * q + 7] = y[7] /\ bit[8 * q + 8] = y[8]
    BY <1>2, <2>1, <2>2, Zenon
  <2>4. /\ 8 * q + 1 = 24 * p + 9 /\ 8 * q + 2 = 24 * p + 10 /\ 8 * q + 3 = 24 * p + 11
        /\ 8 * q + 4 = 24 * p + 12 /\ 8 * q + 5 = 24 * p + 13 /\ 8 * q + 6 = 24 * p + 14
        /\ 8 * q + 7 = 24 * p + 15 /\ 8 * q + 8 = 24 * p + 16
    BY <2>1
  <2> QED BY <2>3, <2>4
<1>6. /\ bit[24 * p + 17] = z[1] /\ bit[24 * p + 18] = z[2] /\ bit[24 * p + 19] = z[3]
      /\ bit[24 * p + 20] = z[4] /\ bit[24 * p + 21] = z[5] /\ bit[24 * p + 22] = z[6]
      /\ bit[24 * p + 23] = z[7] /\ bit[24 * p + 24] = z[8]
  <2> DEFINE q == 3 * p + 2
  <2>1. q \in Nat /\ q + 1 = 3 * p + 3 /\ 8 * q = 24 * p + 16
    BY <1>3
  <2>2. z = BitsOf(At(m, q + 1))
    BY <2>1
  <2> HIDE DEF q, z
  <2>3. /\ bit[8 * q + 1] = z[1] /\ bit[8 * q + 2] = z[2] /\ bit[8 * q + 3] = z[3]
        /\ bit[8 * q + 4] = z[4] /\ bit[8 * q + 5] = z[5] /\ bit[8 * q + 6] = z[6]
        /\ bit[8 * q + 7] = z[7] /\ bit[8 * q + 8] = z[8]
    BY <1>2, <2>1, <2>2, ZenonT(40)
  <2>4. /\ 8 * q + 1 = 24 * p + 17 /\ 8 * q + 2 = 24 * p + 18 /\ 8 * q + 3 = 24 * p + 19
        /\ 8 * q + 4 = 24 * p + 20 /\ 8 * q + 5 = 24 * p + 21 /\ 8 * q + 6 = 24 * p + 22
        /\ 8 * q + 7 = 24 * p + 23 /\ 8 * q + 8 = 24 * p + 24
    BY <2>1
  <2> QED BY <2>3, <2>4
<1>7. /\ \A t \in 1..8 : x[t] \in 0..1 /\ y[t] \in 0..1 /\ z[t] \in 0..1
      /\ a \div 4 = 32 * x[1] + 16 * x[2] + 8 * x[3] + 4 * x[4] + 2 * x[5] + x[6]
      /\ a % 4 = 2 * x[7] + x[8]
      /\ b \div 16 = 8 * y[1] + 4 * y[2] + 2 * y[3] + y[4]
      /\ b % 16 = 8 * y[5] + 4 * y[6] + 2 * y[7] + y[8]
      /\ c \div 64 = 2 * z[1] + z[2]
      /\ c % 64 = 32 * z[3] + 16 * z[4] + 8 * z[5] + 4 * z[6] + 2 * z[7] + z[8]
  <2> HIDE DEF a, b, c
  <2> QED BY <1>1, ByteBits, Zenon
<1> HIDE DEF a, b, c, x, y, z
<1> DEFINE six(k) == 32 * bit[k + 1] + 16 * bit[k + 2] + 8 * bit[k + 3]
                       + 4 * bit[k + 4] + 2 * bit[k + 5] + bit[k + 6]
<1>8. six(24 * p) = a \div 4
  BY <1>4, <1>7
<1>9. six(24 * p + 6) = (a % 4) * 16 + b \div 16
  <2>1. /\ 24 * p + 6 + 1 = 24 * p + 7 /\ 24 * p + 6 + 2 = 24 * p + 8
        /\ 24 * p + 6 + 3 = 24 * p + 9 /\ 24 * p + 6 + 4 = 24 * p + 10
        /\ 24 * p + 6 + 5 = 24 * p + 11 /\ 24 * p + 6 + 6 = 24 * p + 12
    OBVIOUS
  <2>2. /\ x[7] \in Int /\ x[8] \in Int
        /\ y[1] \in Int /\ y[2] \in Int /\ y[3] \in Int /\ y[4] \in Int
    BY <1>7, SMTT(20)
  <2>3. six(24 * p + 6) = 32 * x[7] + 16 * x[8] + 8 * y[1] + 4 * y[2] + 2 * y[3] + y[4]
    <3>1. /\ bit[24 * p + 6 + 1] = x[7] /\ bit[24 * p + 6 + 2] = x[8] /\ bit[24 * p + 6 + 3] = y[1]
          /\ bit[24 * p + 6 + 4] = y[2] /\ bit[24 * p + 6 + 5] = y[3] /\ bit[24 * p + 6 + 6] = y[4]
      BY <1>4, <1>5, <2>1
    <3> QED BY <2>2, <3>1
  <2>4. (2 * x[7] + x[8]) * 16 + (8 * y[1] + 4 * y[2] + 2 * y[3] + y[4])
          = 32 * x[7] + 16 * x[8] + 8 * y[1] + 4 * y[2] + 2 * y[3] + y[4]
    <3> DEFINE t1 == x[7]
               t2 == x[8]
               t3 == y[1]
               t4 == y[2]
               t5 == y[3]
               t6 == y[4]
    <3>1. /\ t1 \in Int /\ t2 \in Int /\ t3 \in Int
          /\ t4 \in Int /\ t5 \in Int /\ t6 \in Int
      BY <2>2
    <3> HIDE DEF t1, t2, t3, t4, t5, t6
    <3>2. (2 * t1 + t2) * 16 + (8 * t3 + 4 * t4 + 2 * t5 + t6)
            = 32 * t1 + 16 * t2 + 8 * t3 + 4 * t4 + 2 * t5 + t6
      BY <3>1
    <3> QED BY <3>2 DEF t1, t2, t3, t4, t5, t6
  <2> QED BY <1>7, <2>3, <2>4
<1>10. six(24 * p + 12) = (b % 16) * 4 + c \div 64
  <2>1. /\ 24 * p + 12 + 1 = 24 * p + 13 /\ 24 * p + 12 + 2 = 24 * p + 14
        /\ 24 * p + 12 + 3 = 24 * p + 15 /\ 24 * p + 12 + 4 = 24 * p + 16
        /\ 24 * p + 12 + 5 = 24 * p + 17 /\ 24 * p + 12 + 6 = 24 * p + 18
    OBVIOUS
  <2>2. /\ y[5] \in Int /\ y[6] \in Int /\ y[7] \in Int /\ y[8] \in Int
        /\ z[1] \in Int /\ z[2] \in Int
    BY <1>7, SMTT(20)
  <2>3. six(24 * p + 12) = 32 * y[5] + 16 * y[6] + 8 * y[7] + 4 * y[8] + 2 * z[1] + z[2]
    <3>1. /\ bit[24 * p + 12 + 1] = y[5] /\ bit[24 * p + 12 + 2] = y[6] /\ bit[24 * p + 12 + 3] = y[7]
          /\ bit[24 * p + 12 + 4] = y[8] /\ bit[24 * p + 12 + 5] = z[1] /\ bit[24 * p + 12 + 6] = z[2]
      BY <1>5, <1>6, <2>1
    <3> QED BY <2>2, <3>1
  <2>4. (8 * y[5] + 4 * y[6] + 2 * y[7] + y[8]) * 4 + (2 * z[1] + z[2])
          = 32 * y[5] + 16 * y[6] + 8 * y[7] + 4 * y[8] + 2 * z[1] + z[2]
    <3> DEFINE t1 == y[5]
               t2 == y[6]
               t3 == y[7]
               t4 == y[8]
               t5 == z[1]
               t6 == z[2]
    <3>1. /\ t1 \in Int /\ t2 \in Int /\ t3 \in Int
          /\ t4 \in Int /\ t5 \in Int /\ t6 \in Int
      BY <2>2
    <3> HIDE DEF t1, t2, t3, t4, t5, t6
    <3>2. (8 * t1 + 4 * t2 + 2 * t3 + t4) * 4 + (2 * t5 + t6)
            = 32 * t1 + 16 * t2 + 8 * t3 + 4 * t4 + 2 * t5 + t6
      BY <3>1
    <3> QED BY <3>2 DEF t1, t2, t3, t4, t5, t6
  <2> QED BY <1>7, <2>3, <2>4
<1>11. six(24 * p + 18) = c % 64
  <2>1. /\ 24 * p + 18 + 1 = 24 * p + 19 /\ 24 * p + 18 + 2 = 24 * p + 20
        /\ 24 * p + 18 + 3 = 24 * p + 21 /\ 24 * p + 18 + 4 = 24 * p + 22
        /\ 24 * p + 18 + 5 = 24 * p + 23 /\ 24 * p + 18 + 6 = 24 * p + 24
    OBVIOUS
  <2>2. six(24 * p + 18) = 32 * z[3] + 16 * z[4] + 8 * z[5] + 4 * z[6] + 2 * z[7] + z[8]
    BY <1>6, <1>7, <2>1, ZenonT(40)
  <2> QED BY <1>7, <2>2
<1> HIDE DEF six
<1>12. /\ six(24 * p) = At(m, 3 * p + 1) \div 4
       /\ six(24 * p + 6) = (At(m, 3 * p + 1) % 4) * 16 + At(m, 3 * p + 2) \div 16
       /\ six(24 * p + 12) = (At(m, 3 * p + 2) % 16) * 4 + At(m, 3 * p + 3) \div 64
       /\ six(24 * p + 18) = At(m, 3 * p + 3) % 64
  BY <1>8, <1>9, <1>10, <1>11 DEF a, b, c
<1> QED BY <1>12, Zenon DEF six

\* a place among the sextets: its group and its place in the group
LEMMA Quarter ==
  ASSUME NEW k \in Nat \ {0}
  PROVE  /\ (k - 1) \div 4 \in Nat /\ (k - 1) % 4 \in {0, 1, 2, 3}
         /\ k = 4 * ((k - 1) \div 4) + ((k - 1) % 4) + 1
OBVIOUS

\* the bits of a message in groups of six are its sextets
LEMMA SextetsOfBits ==
  ASSUME NEW m \in Seq(0..255)
  PROVE  Numbers(Bits(m, 8), 6) = [k \in 1..Sextets(Len(m)) |-> Sextet(m, k)]
<1> DEFINE b == Bits(m, 8)
           n == 8 * Len(m)
           bit == [k \in Nat |-> IF k <= n THEN b[k] ELSE 0]
           six(k) == 32 * bit[k + 1] + 16 * bit[k + 2] + 8 * bit[k + 3]
                       + 4 * bit[k + 4] + 2 * bit[k + 5] + bit[k + 6]
<1>1. Len(m) \in Nat
  OBVIOUS
<1>2. Len(b) = n /\ n \in Nat
  <2>1. 0 \in Nat /\ 1 \in 1..8
    OBVIOUS
  <2>2. Len(b) = n
    BY <2>1, BitAt, Zenon
  <2>3. n \in Nat
    BY <1>1
  <2> QED BY <2>2, <2>3
<1>3. BitsAre(bit, m)
  <2> SUFFICES ASSUME NEW q \in Nat, NEW t \in 1..8
               PROVE  bit[8 * q + t] = BitsOf(At(m, q + 1))[t]
    BY Zenon DEF BitsAre
  <2>1. (IF 8 * q + t <= n THEN b[8 * q + t] ELSE 0) = BitsOf(At(m, q + 1))[t]
    BY BitAt
  <2>2. 8 * q + t \in Nat
    OBVIOUS
  <2> HIDE DEF n, b
  <2> QED BY <2>1, <2>2
<1>4. Numbers(b, 6) = [k \in 1..((n + 6 - 1) \div 6) |-> six(6 * (k - 1))]
  <2> DEFINE at(k) == IF k <= n THEN b[k] ELSE 0
             sum(k) == 32 * at(k + 1) + 16 * at(k + 2) + 8 * at(k + 3)
                         + 4 * at(k + 4) + 2 * at(k + 5) + at(k + 6)
  <2>1. Numbers(b, 6) = [k \in 1..((n + 6 - 1) \div 6) |-> sum(6 * (k - 1))]
    <3> HIDE DEF n, b
    <3> QED BY <1>2 DEF Numbers
  <2>2. \A k \in 1..((n + 6 - 1) \div 6) : sum(6 * (k - 1)) = six(6 * (k - 1))
    <3> TAKE k \in 1..((n + 6 - 1) \div 6)
    <3> DEFINE z == 6 * (k - 1)
    <3>1. z \in Nat /\ z + 1 \in Nat /\ z + 2 \in Nat /\ z + 3 \in Nat /\ z + 4 \in Nat
          /\ z + 5 \in Nat /\ z + 6 \in Nat
      BY <1>2
    <3>2. \A j \in Nat : at(j) = bit[j]
      OBVIOUS
    <3> HIDE DEF z, at, bit
    <3>3. sum(z) = six(z)
      BY <3>1, <3>2, Zenon
    <3> QED BY <3>3 DEF z
  <2> HIDE DEF sum, six, n, b
  <2> QED BY <2>1, <2>2
<1>5. (n + 6 - 1) \div 6 = Sextets(Len(m))
  BY <1>1 DEF Sextets
<1> HIDE DEF n, b, bit
<1>6. ASSUME NEW k \in Nat \ {0}
      PROVE  six(6 * (k - 1)) = Sextet(m, k)
  <2> DEFINE p == (k - 1) \div 4
             r == (k - 1) % 4
  <2>1. p \in Nat /\ r \in {0, 1, 2, 3} /\ k = 4 * p + r + 1
    BY Quarter
  <2>2. /\ six(24 * p) = At(m, 3 * p + 1) \div 4
        /\ six(24 * p + 6) = (At(m, 3 * p + 1) % 4) * 16 + At(m, 3 * p + 2) \div 16
        /\ six(24 * p + 12) = (At(m, 3 * p + 2) % 16) * 4 + At(m, 3 * p + 3) \div 64
        /\ six(24 * p + 18) = At(m, 3 * p + 3) % 64
    <3> HIDE DEF p
    <3> QED BY <1>3, <2>1, SextetFromBits, ZenonT(40)
  <2>3. Sextet(m, k) =
          IF r = 0 THEN At(m, 3 * p + 1) \div 4
          ELSE IF r = 1 THEN (At(m, 3 * p + 1) % 4) * 16 + At(m, 3 * p + 2) \div 16
          ELSE IF r = 2 THEN (At(m, 3 * p + 2) % 16) * 4 + At(m, 3 * p + 3) \div 64
          ELSE At(m, 3 * p + 3) % 64
    BY Zenon DEF Sextet
  <2> HIDE DEF p, r, six
  <2>4. 6 * (k - 1) = 24 * p + 6 * r
    BY <2>1
  <2>5. CASE r = 0
    <3>1. 6 * (k - 1) = 24 * p
      BY <2>1, <2>4, <2>5
    <3> QED BY <2>2, <2>3, <2>5, <3>1
  <2>6. CASE r = 1
    <3>1. 6 * (k - 1) = 24 * p + 6
      BY <2>1, <2>4, <2>6
    <3> QED BY <2>2, <2>3, <2>6, <3>1
  <2>7. CASE r = 2
    <3>1. 6 * (k - 1) = 24 * p + 12
      BY <2>1, <2>4, <2>7
    <3> QED BY <2>2, <2>3, <2>7, <3>1
  <2>8. CASE r = 3
    <3>1. 6 * (k - 1) = 24 * p + 18
      BY <2>1, <2>4, <2>8
    <3> QED BY <2>2, <2>3, <2>8, <3>1
  <2> QED BY <2>1, <2>5, <2>6, <2>7, <2>8
<1> DEFINE c == Sextets(Len(m))
<1>7. \A k \in 1..c : k \in Nat \ {0}
  OBVIOUS
<1> HIDE DEF six, c
<1>8. Numbers(b, 6) = [k \in 1..c |-> six(6 * (k - 1))]
  BY <1>4, <1>5 DEF c
<1>9. Numbers(b, 6) = [k \in 1..c |-> Sextet(m, k)]
  BY <1>6, <1>7, <1>8
<1> QED BY <1>9 DEF b, c

\* a function on 1..n is a sequence
LEMMA FunctionSeq ==
  ASSUME NEW S, NEW n \in Nat, NEW f \in [1..n -> S]
  PROVE  f \in Seq(S) /\ Len(f) = n /\ DOMAIN f = 1..n
<1>1. f \in Seq(S)
  BY SeqDef
<1>2. DOMAIN f = 1..n
  OBVIOUS
<1>3. DOMAIN f = 1..Len(f) /\ Len(f) \in Nat
  BY <1>1, LenProperties
<1>4. Len(f) = n
  BY <1>2, <1>3
<1> QED BY <1>1, <1>2, <1>4

\* a sequence that agrees with two, one behind the other
LEMMA JoinedIs ==
  ASSUME NEW S, NEW s \in Seq(S), NEW t \in Seq(S), NEW n \in Nat, NEW f \in [1..n -> S],
         n = Len(s) + Len(t),
         \A i \in 1..n : f[i] = IF i <= Len(s) THEN s[i] ELSE t[i - Len(s)]
  PROVE  s \o t = f
<1>1. f \in Seq(S) /\ Len(f) = n
  BY FunctionSeq
<1>2. /\ s \o t \in Seq(S) /\ Len(s \o t) = n
      /\ \A i \in 1..n : (s \o t)[i] = IF i <= Len(s) THEN s[i] ELSE t[i - Len(s)]
  BY ConcatProperties
<1> QED BY <1>1, <1>2, SeqEqual

\* the first n elements
LEMMA FrontIs ==
  ASSUME NEW S, NEW s \in Seq(S), NEW n \in 0..Len(s)
  PROVE  /\ SubSeq(s, 1, n) \in Seq(S) /\ Len(SubSeq(s, 1, n)) = n
         /\ \A i \in 1..n : SubSeq(s, 1, n)[i] = s[i]
<1>1. \A i \in 1..n : s[i] \in S
  <2> TAKE i \in 1..n
  <2>1. i \in 1..Len(s)
    BY LenProperties
  <2> QED BY <2>1, ElementOfSeq
<1>2. n \in Int /\ 1 \in Int
  BY LenProperties
<1>3. /\ SubSeq(s, 1, n) \in Seq(S)
      /\ Len(SubSeq(s, 1, n)) = IF 1 <= n THEN n - 1 + 1 ELSE 0
      /\ \A i \in 1..(n - 1 + 1) : SubSeq(s, 1, n)[i] = s[1 + i - 1]
  BY <1>1, <1>2, SubSeqProperties
<1>4. n - 1 + 1 = n /\ n \in Nat /\ \A i \in 1..n : 1 + i - 1 = i
  BY <1>2
<1> QED BY <1>3, <1>4

\* a sequence that agrees with the first n elements
LEMMA SameFront ==
  ASSUME NEW S, NEW s \in Seq(S), NEW n \in 0..Len(s), NEW f \in [1..n -> S],
         \A i \in 1..n : f[i] = s[i]
  PROVE  SubSeq(s, 1, n) = f
<1>1. n \in Nat
  BY LenProperties
<1>2. f \in Seq(S) /\ Len(f) = n
  BY <1>1, FunctionSeq
<1>3. /\ SubSeq(s, 1, n) \in Seq(S) /\ Len(SubSeq(s, 1, n)) = n
      /\ \A i \in 1..n : SubSeq(s, 1, n)[i] = s[i]
  BY FrontIs
<1> QED BY <1>2, <1>3, SeqEqual

\* The alphabet: its characters are no zero, no space and no padding.
LEMMA Alphabet ==
  ASSUME NEW v \in 0..63
  PROVE  /\ Char(v) \in 1..255 /\ Char(v) # 32 /\ Char(v) # Pad
         /\ Index(Char(v)) = v /\ InAlphabet(Char(v)) /\ Char(v) \notin Foreign
<1>1. CASE v < 26
  <2>1. Char(v) = 65 + v
    BY <1>1 DEF Char
  <2>2. Char(v) \in 65..90
    BY <2>1, <1>1
  <2>3. Index(Char(v)) = v
    BY <2>1, <2>2 DEF Index
  <2> QED BY <2>2, <2>3 DEF InAlphabet, Foreign, Pad
<1>2. CASE v \in 26..51
  <2>1. Char(v) = 71 + v
    BY <1>2 DEF Char
  <2>2. Char(v) \in 97..122 /\ Char(v) \notin 65..90
    BY <2>1, <1>2
  <2>3. Index(Char(v)) = v
    BY <2>1, <2>2 DEF Index
  <2> QED BY <2>2, <2>3 DEF InAlphabet, Foreign, Pad
<1>3. CASE v \in 52..61
  <2>1. Char(v) = v - 4
    BY <1>3 DEF Char
  <2>2. Char(v) \in 48..57 /\ Char(v) \notin 65..90 /\ Char(v) \notin 97..122
    BY <2>1, <1>3
  <2>3. Index(Char(v)) = v
    BY <2>1, <2>2 DEF Index
  <2> QED BY <2>2, <2>3 DEF InAlphabet, Foreign, Pad
<1>4. CASE v = 62
  <2>1. Char(v) = 43
    BY <1>4 DEF Char
  <2>2. Index(Char(v)) = 62
    BY <2>1 DEF Index
  <2> QED BY <1>4, <2>1, <2>2 DEF InAlphabet, Foreign, Pad
<1>5. CASE v = 63
  <2>1. Char(v) = 47
    BY <1>5 DEF Char
  <2>2. Index(Char(v)) = 63
    BY <2>1 DEF Index
  <2> QED BY <1>5, <2>1, <2>2 DEF InAlphabet, Foreign, Pad
<1> QED BY <1>1, <1>2, <1>3, <1>4, <1>5

\* '=' is not in the alphabet
LEMMA PadIs == Pad = 61 /\ Index(Pad) = -1 /\ ~InAlphabet(Pad) /\ Pad \in Foreign
<1>1. Index(61) = -1
  BY DEF Index
<1> QED BY <1>1 DEF Pad, InAlphabet, Foreign

\* a sextet has six bits
LEMMA SextetIs ==
  ASSUME NEW m \in Seq(0..255), NEW k \in Nat \ {0}
  PROVE  Sextet(m, k) \in 0..63
<1> DEFINE p == (k - 1) \div 4
           r == (k - 1) % 4
           a == At(m, 3 * p + 1)
           b == At(m, 3 * p + 2)
           c == At(m, 3 * p + 3)
<1>1. p \in Nat /\ r \in {0, 1, 2, 3}
  BY Quarter
<1> HIDE DEF p, r
<1>2. a \in 0..255 /\ b \in 0..255 /\ c \in 0..255
  <2>1. 3 * p + 1 \in Int /\ 3 * p + 2 \in Int /\ 3 * p + 3 \in Int
    BY <1>1
  <2> QED BY <2>1, ByteAt
<1>3. Sextet(m, k) = IF r = 0 THEN a \div 4
                     ELSE IF r = 1 THEN (a % 4) * 16 + b \div 16
                     ELSE IF r = 2 THEN (b % 16) * 4 + c \div 64 ELSE c % 64
  BY Zenon DEF Sextet, p, r
<1> HIDE DEF a, b, c
<1>4. /\ a \div 4 \in 0..63 /\ (a % 4) * 16 + b \div 16 \in 0..63
      /\ (b % 16) * 4 + c \div 64 \in 0..63 /\ c % 64 \in 0..63
  BY <1>2
<1> QED BY <1>3, <1>4

-----------------------------------------------------------------------------
\* The text of a message: its sextets, and pads up to a multiple of four.
TextLength(n) == 4 * ((n + 2) \div 3)
Text(m) == [k \in 1..TextLength(Len(m)) |->
              IF k <= Sextets(Len(m)) THEN Char(Sextet(m, k)) ELSE Pad]

\* how many sextets and characters n bytes make
LEMMA Lengths ==
  ASSUME NEW n \in Nat
  PROVE  /\ Sextets(n) \in Nat /\ TextLength(n) \in Nat
         /\ Sextets(n) <= TextLength(n)
         /\ TextLength(n) = Sextets(n) + ((-Sextets(n)) % 4)
         /\ n % 3 = 0 => Sextets(n) = 4 * (n \div 3) /\ TextLength(n) = 4 * (n \div 3)
         /\ n % 3 = 1 => Sextets(n) = 4 * (n \div 3) + 2 /\ TextLength(n) = 4 * (n \div 3) + 4
         /\ n % 3 = 2 => Sextets(n) = 4 * (n \div 3) + 3 /\ TextLength(n) = 4 * (n \div 3) + 4
         /\ n % 3 \in {0, 1, 2} /\ n \div 3 \in Nat /\ n = 3 * (n \div 3) + (n % 3)
<1> DEFINE q == n \div 3
           r == n % 3
<1>1. q \in Nat /\ r \in {0, 1, 2} /\ n = 3 * q + r
  OBVIOUS
<1> HIDE DEF q, r
<1>2. r = 0 => Sextets(n) = 4 * q /\ TextLength(n) = 4 * q
  BY <1>1 DEF Sextets, TextLength
<1>3. r = 1 => Sextets(n) = 4 * q + 2 /\ TextLength(n) = 4 * q + 4
  BY <1>1 DEF Sextets, TextLength
<1>4. r = 2 => Sextets(n) = 4 * q + 3 /\ TextLength(n) = 4 * q + 4
  BY <1>1 DEF Sextets, TextLength
<1>5. /\ Sextets(n) \in Nat /\ TextLength(n) \in Nat /\ Sextets(n) <= TextLength(n)
      /\ TextLength(n) = Sextets(n) + ((-Sextets(n)) % 4)
  <2>1. /\ (-(4 * q)) % 4 = 0 /\ (-(4 * q + 2)) % 4 = 2 /\ (-(4 * q + 3)) % 4 = 1
    BY <1>1
  <2> QED BY <1>1, <1>2, <1>3, <1>4, <2>1
<1> QED BY <1>1, <1>2, <1>3, <1>4, <1>5 DEF q, r

\* the text of a message, character by character
LEMMA TextIs ==
  ASSUME NEW m \in Seq(0..255)
  PROVE  /\ Len(m) \in Nat
         /\ Text(m) \in Seq(1..255) /\ Len(Text(m)) = TextLength(Len(m))
         /\ \A k \in 1..TextLength(Len(m)) :
              Text(m)[k] = IF k <= Sextets(Len(m)) THEN Char(Sextet(m, k)) ELSE Pad
<1>1. Len(m) \in Nat
  BY LenProperties
<1>2. TextLength(Len(m)) \in Nat
  BY <1>1, Lengths
<1>3. \A k \in 1..TextLength(Len(m)) : Char(Sextet(m, k)) \in 1..255
  <2> TAKE k \in 1..TextLength(Len(m))
  <2>1. k \in Nat \ {0}
    BY <1>2
  <2>2. Sextet(m, k) \in 0..63
    BY <2>1, SextetIs
  <2> QED BY <2>2, Alphabet
<1>4. Pad \in 1..255
  BY DEF Pad
<1>5. Text(m) \in [1..TextLength(Len(m)) -> 1..255]
  BY <1>3, <1>4 DEF Text
<1>6. Text(m) \in Seq(1..255) /\ Len(Text(m)) = TextLength(Len(m))
  BY <1>2, <1>5, FunctionSeq, ZenonT(40)
<1> QED BY <1>1, <1>6 DEF Text

\* n times '='
LEMMA PadsAre ==
  ASSUME NEW n \in Nat
  PROVE  Pads(n) \in Seq(1..255) /\ Len(Pads(n)) = n /\ \A i \in 1..n : Pads(n)[i] = Pad
<1>1. Pads(n) \in [1..n -> 1..255] /\ \A i \in 1..n : Pads(n)[i] = Pad
  BY DEF Pads, Pad
<1> QED BY <1>1, FunctionSeq

\* the sextets and the missing '=' make the text
LEMMA Padded ==
  ASSUME NEW m \in Seq(0..255), NEW j \in Nat,
         j = TextLength(Len(m)) - Sextets(Len(m))
  PROVE  [k \in 1..Sextets(Len(m)) |-> Char(Sextet(m, k))] \o Pads(j) = Text(m)
<1> DEFINE n == Sextets(Len(m))
           t == TextLength(Len(m))
           s == [k \in 1..n |-> Char(Sextet(m, k))]
<1>1. n \in Nat /\ t \in Nat /\ n <= t /\ t = n + j
  <2>1. n \in Nat /\ t \in Nat /\ n <= t
    BY Lengths, LenProperties
  <2> QED BY <2>1
<1>2. \A k \in 1..n : Char(Sextet(m, k)) \in 1..255
  <2> TAKE k \in 1..n
  <2>1. k \in Nat \ {0}
    BY <1>1
  <2>2. Sextet(m, k) \in 0..63
    BY <2>1, SextetIs
  <2> QED BY <2>2, Alphabet
<1>3. s \in Seq(1..255) /\ Len(s) = n
  <2>1. s \in [1..n -> 1..255]
    BY <1>2
  <2> HIDE DEF s, n
  <2> QED BY <1>1, <2>1, FunctionSeq
<1>4. Pads(j) \in Seq(1..255) /\ Len(Pads(j)) = j /\ \A i \in 1..j : Pads(j)[i] = Pad
  BY PadsAre
<1>5. Text(m) \in [1..t -> 1..255]
  BY <1>1, TextIs, LenProperties, ZenonT(40)
<1>6. \A k \in 1..t : Text(m)[k] = IF k <= Len(s) THEN s[k] ELSE Pads(j)[k - Len(s)]
  <2> TAKE k \in 1..t
  <2>1. Text(m)[k] = IF k <= n THEN Char(Sextet(m, k)) ELSE Pad
    BY TextIs
  <2>2. k <= n => s[k] = Char(Sextet(m, k))
    BY <1>1
  <2>3. ~ (k <= n) => k - n \in 1..j
    BY <1>1
  <2> HIDE DEF s, n, t
  <2> QED BY <1>3, <1>4, <2>1, <2>2, <2>3
<1> HIDE DEF s, n, t
<1>7. t = Len(s) + Len(Pads(j))
  BY <1>1, <1>3, <1>4
<1>8. s \o Pads(j) = Text(m)
  BY <1>1, <1>3, <1>4, <1>5, <1>6, <1>7, JoinedIs
<1> QED BY <1>8 DEF s, n

\* filling up to a multiple of four makes the text
LEMMA ToFourIs ==
  ASSUME NEW m \in Seq(0..255)
  PROVE  ToFour([k \in 1..Sextets(Len(m)) |-> Char(Sextet(m, k))]) = Text(m)
<1> DEFINE n == Sextets(Len(m))
           s == [k \in 1..n |-> Char(Sextet(m, k))]
           j == (-n) % 4
<1>1. n \in Nat /\ TextLength(Len(m)) \in Nat /\ n <= TextLength(Len(m))
      /\ TextLength(Len(m)) = n + ((-n) % 4)
  BY Lengths, LenProperties
<1>2. Len(s) = n
  <2> HIDE DEF n
  <2> QED BY <1>1
<1>3. j \in Nat /\ j = TextLength(Len(m)) - n
  <2> HIDE DEF n
  <2> QED BY <1>1
<1>4. ToFour(s) = s \o Pads(j)
  <2> HIDE DEF s, n
  <2> QED BY <1>2, Zenon DEF ToFour
<1> QED BY <1>3, <1>4, Padded

\* the characters of the sextets
LEMMA CharsOf ==
  ASSUME NEW m \in Seq(0..255)
  PROVE  Chars([k \in 1..Sextets(Len(m)) |-> Sextet(m, k)])
           = [k \in 1..Sextets(Len(m)) |-> Char(Sextet(m, k))]
BY DEF Chars

\* OpenSSL's encoder writes the text of the message.
LEMMA BioEncodes ==
  ASSUME NEW m \in Seq(0..255)
  PROVE  BioEncode(m) = Text(m)
BY SextetsOfBits, CharsOf, ToFourIs DEF BioEncode

\* a set of numbers that is not empty has a smallest one
LEMMA Smallest ==
  ASSUME NEW T, T \subseteq Nat, T # {}
  PROVE  \E i \in T : \A j \in T : i <= j
<1> DEFINE U == {n \in Nat : \A j \in 0..n : j \notin T}
<1>1. ASSUME ~ \E i \in T : \A j \in T : i <= j
      PROVE  FALSE
  <2>1. 0 \in U
    <3>1. 0 \notin T
      BY <1>1
    <3> QED BY <3>1
  <2>2. \A n \in Nat : n \in U => n + 1 \in U
    <3> TAKE n \in Nat
    <3> HAVE n \in U
    <3>1. \A j \in T : n + 1 <= j
      OBVIOUS
    <3>2. n + 1 \notin T
      BY <1>1, <3>1
    <3>3. \A j \in 0..(n + 1) : j \in 0..n \/ j = n + 1
      OBVIOUS
    <3> QED BY <3>2, <3>3
  <2> HIDE DEF U
  <2>3. \A n \in Nat : n \in U
    BY <2>1, <2>2, Induction
  <2>4. PICK n \in T : TRUE
    OBVIOUS
  <2>5. n \in U /\ n \in 0..n
    BY <2>3, <2>4
  <2> QED BY <2>4, <2>5 DEF U
<1> QED BY <1>1

\* reading up to a character gives what is before its first place
LEMMA UntilIs ==
  ASSUME NEW S, NEW t \in Seq(S), NEW stop, NEW n \in 0..Len(t),
         \A i \in 1..n : t[i] \notin stop,
         n = Len(t) \/ t[n + 1] \in stop
  PROVE  Until(t, stop) = SubSeq(t, 1, n)
<1> DEFINE those == {i \in DOMAIN t : t[i] \in stop}
           c == CHOOSE i \in those : \A j \in those : i <= j
<1>1. Len(t) \in Nat
  BY LenProperties
<1>2. Until(t, stop) = IF those = {} THEN t ELSE SubSeq(t, 1, c - 1)
  BY Zenon DEF Until
<1>0. \A i : i \in those <=> i \in 1..Len(t) /\ t[i] \in stop
  <2>1. DOMAIN t = 1..Len(t)
    BY LenProperties
  <2> QED BY <2>1
<1> HIDE DEF those
<1>3. CASE n = Len(t)
  <2>1. those = {}
    BY <1>0, <1>3
  <2> QED BY <1>2, <1>3, <2>1, SubSeqFull
<1>4. CASE n # Len(t)
  <2>1. n + 1 \in those /\ n \in Nat
    <3>1. n + 1 \in 1..Len(t) /\ n \in Nat /\ t[n + 1] \in stop
      BY <1>1, <1>4
    <3> QED BY <1>0, <3>1
  <2>2. \A j \in those : n + 1 <= j
    <3> TAKE j \in those
    <3>1. j \in 1..Len(t) /\ t[j] \in stop
      BY <1>0
    <3>2. j \notin 1..n
      BY <3>1
    <3> QED BY <1>1, <2>1, <3>1, <3>2
  <2>3. those \subseteq Nat
    BY <1>0, <1>1
  <2>4. c \in those /\ \A j \in those : c <= j
    BY <2>1, <2>2
  <2> HIDE DEF c
  <2>5. c - 1 = n
    <3>1. c \in Nat /\ c <= n + 1 /\ n + 1 <= c
      BY <2>1, <2>2, <2>3, <2>4
    <3> QED BY <2>1, <3>1
  <2> QED BY <1>2, <2>1, <2>5
<1> QED BY <1>3, <1>4

\* there is such a place, or the end
LEMMA UntilStops ==
  ASSUME NEW S, NEW t \in Seq(S), NEW stop
  PROVE  \E n \in 0..Len(t) :
           /\ \A i \in 1..n : t[i] \notin stop
           /\ n = Len(t) \/ t[n + 1] \in stop
           /\ Until(t, stop) = SubSeq(t, 1, n)
<1> DEFINE those == {i \in 1..Len(t) : t[i] \in stop}
<1>1. Len(t) \in Nat
  BY LenProperties
<1>2. CASE those = {}
  <2>1. Len(t) \in 0..Len(t) /\ \A i \in 1..Len(t) : t[i] \notin stop
    BY <1>1, <1>2
  <2>2. Until(t, stop) = SubSeq(t, 1, Len(t))
    BY <2>1, UntilIs
  <2> QED BY <2>1, <2>2
<1>3. CASE those # {}
  <2>1. those \subseteq Nat
    OBVIOUS
  <2>2. PICK i \in those : \A j \in those : i <= j
    <3> HIDE DEF those
    <3> QED BY <1>3, <2>1, Smallest
  <2>3. i - 1 \in 0..Len(t) /\ t[i - 1 + 1] \in stop
    <3>1. i \in 1..Len(t) /\ t[i] \in stop
      OBVIOUS
    <3>2. i - 1 + 1 = i
      BY <3>1
    <3> QED BY <1>1, <3>1, <3>2
  <2>4. \A j \in 1..(i - 1) : t[j] \notin stop
    <3> TAKE j \in 1..(i - 1)
    <3>1. j \in 1..Len(t) /\ j < i
      BY <1>1
    <3> QED BY <2>2, <3>1
  <2>5. Until(t, stop) = SubSeq(t, 1, i - 1)
    BY <2>3, <2>4, UntilIs
  <2> QED BY <2>3, <2>4, <2>5
<1> QED BY <1>2, <1>3

\* What a C function takes for the string is a message without zeros.
LEMMA UpToNulIs ==
  ASSUME NEW m \in Seq(0..255)
  PROVE  /\ UpToNul(m) \in Seq(1..255) /\ UpToNul(m) \in Seq(0..255)
         /\ m \in Seq(1..255) => UpToNul(m) = m
<1>1. PICK n \in 0..Len(m) : /\ \A i \in 1..n : m[i] \notin {0}
                             /\ n = Len(m) \/ m[n + 1] \in {0}
                             /\ Until(m, {0}) = SubSeq(m, 1, n)
  BY UntilStops
<1>2. Len(m) \in Nat /\ n \in Nat
  BY LenProperties
<1> DEFINE u == SubSeq(m, 1, n)
<1>3. u \in Seq(0..255) /\ Len(u) = n /\ \A i \in 1..n : u[i] = m[i]
  BY FrontIs
<1>4. UpToNul(m) = u
  BY <1>1 DEF UpToNul
<1> HIDE DEF u
<1>5. \A i \in 1..n : u[i] \in 1..255
  <2> TAKE i \in 1..n
  <2>1. m[i] # 0 /\ u[i] = m[i]
    BY <1>1, <1>3
  <2>2. u[i] \in 0..255
    BY <1>3, ElementOfSeq
  <2> QED BY <2>1, <2>2
<1>6. u \in Seq(1..255)
  <2>1. u \in [1..n -> 0..255]
    <3>1. u \in [1..Len(u) -> 0..255]
      BY <1>3, LenProperties, ZenonT(40)
    <3> QED BY <1>3, <3>1
  <2>2. u \in [1..n -> 1..255]
    BY <1>5, <2>1
  <2> QED BY <1>2, <2>2, FunctionSeq
<1>7. m \in Seq(1..255) => u = m
  <2> HAVE m \in Seq(1..255)
  <2>2. CASE n # Len(m)
    <3>1. n + 1 \in 1..Len(m) /\ m[n + 1] = 0
      BY <1>1, <1>2, <2>2
    <3>2. m[n + 1] \in 1..255
      BY <3>1, ElementOfSeq
    <3> QED BY <3>1, <3>2
  <2>3. CASE n = Len(m)
    BY <2>3, SubSeqFull DEF u
  <2> QED BY <2>2, <2>3
<1> QED BY <1>3, <1>4, <1>6, <1>7

\* The encoder of the file tool writes the text of the string.
LEMMA FEncodes ==
  ASSUME NEW m \in Seq(0..255)
  PROVE  FEncode(m) = Text(UpToNul(m))
<1> DEFINE s == UpToNul(m)
           n == Len(s)
           padding == (-8 * n) % 6
<1>1. s \in Seq(0..255)
  BY UpToNulIs
<1>2. n \in Nat
  BY <1>1, LenProperties
<1> HIDE DEF s
<1>3. padding \div 2 \in Nat /\ padding \div 2 = TextLength(n) - Sextets(n)
  <2> DEFINE q == n \div 3
             r == n % 3
  <2>1. /\ q \in Nat /\ r \in {0, 1, 2} /\ n = 3 * q + r
        /\ r = 0 => Sextets(n) = 4 * q /\ TextLength(n) = 4 * q
        /\ r = 1 => Sextets(n) = 4 * q + 2 /\ TextLength(n) = 4 * q + 4
        /\ r = 2 => Sextets(n) = 4 * q + 3 /\ TextLength(n) = 4 * q + 4
    BY <1>2, Lengths
  <2> HIDE DEF q, r
  <2>2. /\ (-8 * (3 * q)) % 6 = 0 /\ (-8 * (3 * q + 1)) % 6 = 4 /\ (-8 * (3 * q + 2)) % 6 = 2
    BY <2>1
  <2>3. (r = 0 => padding = 0) /\ (r = 1 => padding = 4) /\ (r = 2 => padding = 2)
    <3> HIDE DEF n
    <3>1. r = 0 => n = 3 * q
      BY <2>1
    <3> QED BY <2>1, <2>2, <3>1
  <2> HIDE DEF padding, n
  <2>4. 0 \div 2 = 0 /\ 4 \div 2 = 2 /\ 2 \div 2 = 1
    OBVIOUS
  <2> QED BY <2>1, <2>3, <2>4
<1>4. FEncode(m) = Chars(Numbers(Bits(s, 8), 6)) \o Pads(padding \div 2)
  BY Zenon DEF FEncode, s, n
<1>5. Chars(Numbers(Bits(s, 8), 6)) = [k \in 1..Sextets(n) |-> Char(Sextet(s, k))]
  BY <1>1, SextetsOfBits, CharsOf
<1> HIDE DEF padding
<1>6. FEncode(m) = Text(s)
  BY <1>1, <1>3, <1>4, <1>5, Padded
<1> QED BY <1>6 DEF s

\* the four sextets of three bytes
LEMMA SextetPlaces ==
  ASSUME NEW m \in Seq(0..255), NEW p \in Nat
  PROVE  /\ Sextet(m, 4 * p + 1) = At(m, 3 * p + 1) \div 4
         /\ Sextet(m, 4 * p + 2) = (At(m, 3 * p + 1) % 4) * 16 + At(m, 3 * p + 2) \div 16
         /\ Sextet(m, 4 * p + 3) = (At(m, 3 * p + 2) % 16) * 4 + At(m, 3 * p + 3) \div 64
         /\ Sextet(m, 4 * p + 4) = At(m, 3 * p + 3) % 64
<1> DEFINE One(k, r) == (k - 1) \div 4 = p /\ (k - 1) % 4 = r
<1>1. One(4 * p + 1, 0) /\ One(4 * p + 2, 1) /\ One(4 * p + 3, 2) /\ One(4 * p + 4, 3)
  OBVIOUS
<1>2. ASSUME NEW k, NEW r \in {0, 1, 2, 3}, One(k, r)
      PROVE  Sextet(m, k) = IF r = 0 THEN At(m, 3 * p + 1) \div 4
                            ELSE IF r = 1 THEN (At(m, 3 * p + 1) % 4) * 16 + At(m, 3 * p + 2) \div 16
                            ELSE IF r = 2 THEN (At(m, 3 * p + 2) % 16) * 4 + At(m, 3 * p + 3) \div 64
                            ELSE At(m, 3 * p + 3) % 64
  BY <1>2, Zenon DEF Sextet
<1> HIDE DEF One
<1> QED BY <1>1, <1>2

\* The whole groups of three bytes, and what is left of a message behind them.
LEMMA GroupsAre ==
  ASSUME NEW m \in Seq(0..255)
  PROVE  LET q == Len(m) \div 3 IN
         Groups(m) = [k \in 1..(4 * q) |-> Char(Sextet(m, k))]
<1> DEFINE n == Len(m)
           q == n \div 3
<1>1. n \in Nat /\ q \in Nat /\ 3 * q <= n
  <2>1. n \in Nat
    BY LenProperties
  <2> HIDE DEF n
  <2> QED BY <2>1
<1> HIDE DEF q
<1>2. ASSUME NEW k \in 1..(4 * q)
      PROVE  LET i == 3 * ((k - 1) \div 4) IN
             Group(m[i + 1], m[i + 2], m[i + 3])[((k - 1) % 4) + 1] = Sextet(m, k)
  <2> DEFINE p == (k - 1) \div 4
             r == (k - 1) % 4
             i == 3 * p
             g == Group(m[i + 1], m[i + 2], m[i + 3])
  <2>1. k \in Nat \ {0} /\ p \in Nat /\ r \in {0, 1, 2, 3} /\ k = 4 * p + r + 1
    <3>1. k \in Nat \ {0}
      BY <1>1
    <3> QED BY <3>1, Quarter
  <2> HIDE DEF p, r
  <2>2. i + 1 \in 1..n /\ i + 2 \in 1..n /\ i + 3 \in 1..n
    <3> HIDE DEF n
    <3> QED BY <1>1, <2>1
  <2>3. At(m, i + 1) = m[i + 1] /\ At(m, i + 2) = m[i + 2] /\ At(m, i + 3) = m[i + 3]
    BY <2>2, Zenon DEF At
  <2>4. /\ Sextet(m, 4 * p + 1) = m[i + 1] \div 4
        /\ Sextet(m, 4 * p + 2) = (m[i + 1] % 4) * 16 + m[i + 2] \div 16
        /\ Sextet(m, 4 * p + 3) = (m[i + 2] % 16) * 4 + m[i + 3] \div 64
        /\ Sextet(m, 4 * p + 4) = m[i + 3] % 64
    <3>1. /\ Sextet(m, 4 * p + 1) = At(m, 3 * p + 1) \div 4
          /\ Sextet(m, 4 * p + 2) = (At(m, 3 * p + 1) % 4) * 16 + At(m, 3 * p + 2) \div 16
          /\ Sextet(m, 4 * p + 3) = (At(m, 3 * p + 2) % 16) * 4 + At(m, 3 * p + 3) \div 64
          /\ Sextet(m, 4 * p + 4) = At(m, 3 * p + 3) % 64
      BY <2>1, SextetPlaces
    <3> QED BY <2>3, <3>1
  <2>5. /\ g[1] = m[i + 1] \div 4
        /\ g[2] = (m[i + 1] % 4) * 16 + m[i + 2] \div 16
        /\ g[3] = (m[i + 2] % 16) * 4 + m[i + 3] \div 64
        /\ g[4] = m[i + 3] % 64
    <3> HIDE DEF i
    <3> QED BY DEF Group
  <2> HIDE DEF g, i
  <2>6. g[r + 1] = Sextet(m, k)
    <3>1. CASE r = 0
      <4>1. k = 4 * p + 1 /\ r + 1 = 1
        BY <2>1, <3>1
      <4> QED BY <2>4, <2>5, <4>1
    <3>2. CASE r = 1
      <4>1. k = 4 * p + 2 /\ r + 1 = 2
        BY <2>1, <3>2
      <4> QED BY <2>4, <2>5, <4>1
    <3>3. CASE r = 2
      <4>1. k = 4 * p + 3 /\ r + 1 = 3
        BY <2>1, <3>3
      <4> QED BY <2>4, <2>5, <4>1
    <3>4. CASE r = 3
      <4>1. k = 4 * p + 4 /\ r + 1 = 4
        BY <2>1, <3>4
      <4> QED BY <2>4, <2>5, <4>1
    <3> QED BY <2>1, <3>1, <3>2, <3>3, <3>4
  <2> QED BY <2>6 DEF g, i, p, r
<1>3. Groups(m) = [k \in 1..(4 * q) |->
                     LET i == 3 * ((k - 1) \div 4) IN
                     Char(Group(m[i + 1], m[i + 2], m[i + 3])[((k - 1) % 4) + 1])]
  BY Zenon DEF Groups, q
<1>4. Groups(m) = [k \in 1..(4 * q) |-> Char(Sextet(m, k))]
  BY <1>2, <1>3, Zenon
<1> QED BY <1>4 DEF q

\* A text is its whole groups and one more group, of the bytes left over.
LastGroup(m, t) ==
  LET q == Len(m) \div 3 IN
  /\ Len(t) = TextLength(Len(m)) - 4 * q
  /\ \A i \in 1..Len(t) :
       t[i] = IF 4 * q + i <= Sextets(Len(m)) THEN Char(Sextet(m, 4 * q + i)) ELSE Pad

\* whole groups and the last one make the text
LEMMA TextOfGroups ==
  ASSUME NEW m \in Seq(0..255), NEW t \in Seq(1..255), LastGroup(m, t)
  PROVE  Groups(m) \o t = Text(m)
<1> DEFINE n == Len(m)
           q == n \div 3
           z == TextLength(n)
           c == Sextets(n)
           g == [k \in 1..(4 * q) |-> Char(Sextet(m, k))]
<1>1. n \in Nat
  BY LenProperties
<1>2. q \in Nat /\ z \in Nat /\ c \in Nat /\ 4 * q <= c /\ c <= z
  <2> HIDE DEF n
  <2>1. /\ Sextets(n) \in Nat /\ TextLength(n) \in Nat
        /\ Sextets(n) <= TextLength(n)
        /\ n % 3 = 0 => Sextets(n) = 4 * q
        /\ n % 3 = 1 => Sextets(n) = 4 * q + 2
        /\ n % 3 = 2 => Sextets(n) = 4 * q + 3
        /\ n % 3 \in {0, 1, 2} /\ q \in Nat
    BY <1>1, Lengths
  <2> HIDE DEF q
  <2> QED BY <2>1
<1>0. /\ Len(t) = z - 4 * q
      /\ \A i \in 1..Len(t) :
           t[i] = IF 4 * q + i <= c THEN Char(Sextet(m, 4 * q + i)) ELSE Pad
  BY Zenon DEF LastGroup
<1> HIDE DEF q
<1>3. \A k \in 1..(4 * q) : Char(Sextet(m, k)) \in 1..255
  <2> TAKE k \in 1..(4 * q)
  <2>1. k \in Nat \ {0}
    BY <1>2
  <2>2. Sextet(m, k) \in 0..63
    BY <2>1, SextetIs
  <2> QED BY <2>2, Alphabet
<1>4. g \in Seq(1..255) /\ Len(g) = 4 * q
  <2> DEFINE j == 4 * q
  <2>1. g \in [1..j -> 1..255] /\ j \in Nat
    BY <1>2, <1>3
  <2> HIDE DEF g, j
  <2>2. g \in Seq(1..255) /\ Len(g) = j
    BY <2>1, FunctionSeq
  <2> QED BY <2>2 DEF j
<1>5. Text(m) \in [1..z -> 1..255]
  BY TextIs, LenProperties, ZenonT(40)
<1>6. \A k \in 1..z : Text(m)[k] = IF k <= c THEN Char(Sextet(m, k)) ELSE Pad
  BY TextIs
<1>7. \A k \in 1..z : Text(m)[k] = IF k <= 4 * q THEN g[k] ELSE t[k - 4 * q]
  <2> TAKE k \in 1..z
  <2>1. CASE k <= 4 * q
    <3>1. k <= c /\ k \in 1..(4 * q)
      BY <1>2, <2>1
    <3> HIDE DEF z, c
    <3> QED BY <1>6, <2>1, <3>1
  <2>2. CASE ~ (k <= 4 * q)
    <3> DEFINE i == k - 4 * q
    <3>1. i \in 1..Len(t) /\ 4 * q + i = k
      BY <1>0, <1>2, <2>2
    <3> HIDE DEF i
    <3>2. t[i] = IF k <= c THEN Char(Sextet(m, k)) ELSE Pad
      BY <1>0, <3>1
    <3> HIDE DEF c, z, g
    <3> QED BY <1>6, <2>2, <3>2 DEF i
  <2> QED BY <2>1, <2>2
<1>8. z = Len(g) + Len(t)
  BY <1>0, <1>2, <1>4
<1> HIDE DEF z, c, g, n
<1>9. g \o t = Text(m)
  <2>1. \A k \in 1..z : Text(m)[k] = IF k <= Len(g) THEN g[k] ELSE t[k - Len(g)]
    BY <1>4, <1>7
  <2> DEFINE f == Text(m)
             B == 1..255
  <2>2. /\ z \in Nat /\ g \in Seq(B) /\ t \in Seq(B) /\ f \in [1..z -> B]
        /\ \A k \in 1..z : f[k] = IF k <= Len(g) THEN g[k] ELSE t[k - Len(g)]
    BY <1>2, <1>4, <1>5, <2>1
  <2> HIDE DEF f, B
  <2>3. g \o t = f
    BY <1>8, <2>2, JoinedIs
  <2> QED BY <2>3 DEF f
<1> QED BY <1>9, GroupsAre DEF g, q, n

\* the bytes behind the last whole group
LEMMA RestIs ==
  ASSUME NEW m \in Seq(0..255)
  PROVE  LET q == Len(m) \div 3 IN
         /\ Rest(m) \in Seq(0..255) /\ Len(Rest(m)) = Len(m) % 3
         /\ \A i \in 1..(Len(m) % 3) : Rest(m)[i] = At(m, 3 * q + i)
<1> DEFINE n == Len(m)
           q == n \div 3
           r == n % 3
           a == 3 * q + 1
<1>1. n \in Nat
  BY LenProperties
<1>2. q \in Nat /\ r \in {0, 1, 2} /\ n = 3 * q + r
  <2> HIDE DEF n
  <2> QED BY <1>1
<1>3. Rest(m) = SubSeq(m, a, n)
  BY Zenon DEF Rest
<1> HIDE DEF q, r
<1>4. \A i \in a..n : m[i] \in 0..255
  <2> TAKE i \in a..n
  <2>1. i \in 1..Len(m)
    BY <1>1, <1>2
  <2> QED BY <2>1, ElementOfSeq
<1>5. a \in Int /\ n \in Int
  BY <1>1, <1>2
<1>6. /\ SubSeq(m, a, n) \in Seq(0..255)
      /\ Len(SubSeq(m, a, n)) = IF a <= n THEN n - a + 1 ELSE 0
      /\ \A i \in 1..(n - a + 1) : SubSeq(m, a, n)[i] = m[a + i - 1]
  <2> HIDE DEF a, n
  <2> QED BY <1>4, <1>5, SubSeqProperties
<1>7. n - a + 1 = r /\ (IF a <= n THEN n - a + 1 ELSE 0) = r
  <2> HIDE DEF n
  <2> QED BY <1>1, <1>2
<1>8. \A i \in 1..r : a + i - 1 = 3 * q + i /\ 3 * q + i \in 1..n
  <2> HIDE DEF n
  <2> QED BY <1>1, <1>2
<1>9. \A i \in 1..r : Rest(m)[i] = At(m, 3 * q + i)
  <2> TAKE i \in 1..r
  <2>1. a + i - 1 = 3 * q + i /\ 3 * q + i \in 1..n
    BY <1>8
  <2>2. SubSeq(m, a, n)[i] = m[a + i - 1]
    BY <1>6, <1>7
  <2> QED BY <1>3, <2>1, <2>2 DEF At
<1>10. Rest(m) \in Seq(0..255) /\ Len(Rest(m)) = r
  BY <1>3, <1>6, <1>7
<1> QED BY <1>9, <1>10 DEF q, r

LastSextet(m, i) == Char(Sextet(m, 4 * (Len(m) \div 3) + i))

\* the last group of a text by the number of bytes left
LEMMA LastGroups ==
  ASSUME NEW m \in Seq(0..255)
  PROVE  LET sx(i) == LastSextet(m, i) IN
         /\ Len(m) % 3 = 0 => LastGroup(m, <<>>)
         /\ Len(m) % 3 = 1 => LastGroup(m, <<sx(1), sx(2), Pad, Pad>>)
         /\ Len(m) % 3 = 2 => LastGroup(m, <<sx(1), sx(2), sx(3), Pad>>)
<1> DEFINE n == Len(m)
           q == n \div 3
           z == TextLength(n)
           c == Sextets(n)
           sx(i) == LastSextet(m, i)
           Last(t) == /\ Len(t) = z - 4 * q
                      /\ \A i \in 1..Len(t) :
                           t[i] = IF 4 * q + i <= c THEN sx(i) ELSE Pad
<1>1. n \in Nat
  BY LenProperties
<1>2. /\ q \in Nat /\ z \in Nat /\ c \in Nat
      /\ n % 3 = 0 => c = 4 * q /\ z = 4 * q
      /\ n % 3 = 1 => c = 4 * q + 2 /\ z = 4 * q + 4
      /\ n % 3 = 2 => c = 4 * q + 3 /\ z = 4 * q + 4
  <2> HIDE DEF n
  <2> QED BY <1>1, Lengths
<1>3. \A t : Last(t) => LastGroup(m, t)
  BY Zenon DEF LastGroup, LastSextet
<1> HIDE DEF q, z, c, n, sx
<1>4. ASSUME n % 3 = 0 PROVE Last(<<>>)
  BY <1>2, <1>4
<1>5. ASSUME n % 3 = 1 PROVE Last(<<sx(1), sx(2), Pad, Pad>>)
  <2> DEFINE t == <<sx(1), sx(2), Pad, Pad>>
  <2>1. Len(t) = 4 /\ t[1] = sx(1) /\ t[2] = sx(2) /\ t[3] = Pad /\ t[4] = Pad
    OBVIOUS
  <2>2. z - 4 * q = 4 /\ c = 4 * q + 2
    BY <1>2, <1>5
  <2> HIDE DEF t
  <2>3. \A i \in 1..4 : t[i] = IF 4 * q + i <= c THEN sx(i) ELSE Pad
    <3> TAKE i \in 1..4
    <3>1. i \in {1, 2, 3, 4} /\ (4 * q + i <= c <=> i <= 2)
      BY <1>2, <2>2
    <3> QED BY <2>1, <3>1
  <2>4. Last(t)
    BY <2>1, <2>2, <2>3
  <2> QED BY <2>4 DEF t
<1>6. ASSUME n % 3 = 2 PROVE Last(<<sx(1), sx(2), sx(3), Pad>>)
  <2> DEFINE t == <<sx(1), sx(2), sx(3), Pad>>
  <2>1. Len(t) = 4 /\ t[1] = sx(1) /\ t[2] = sx(2) /\ t[3] = sx(3) /\ t[4] = Pad
    OBVIOUS
  <2>2. z - 4 * q = 4 /\ c = 4 * q + 3
    BY <1>2, <1>6
  <2> HIDE DEF t
  <2>3. \A i \in 1..4 : t[i] = IF 4 * q + i <= c THEN sx(i) ELSE Pad
    <3> TAKE i \in 1..4
    <3>1. i \in {1, 2, 3, 4} /\ (4 * q + i <= c <=> i <= 3)
      BY <1>2, <2>2
    <3> QED BY <2>1, <3>1
  <2>4. Last(t)
    BY <2>1, <2>2, <2>3
  <2> QED BY <2>4 DEF t
<1> HIDE DEF Last
<1> QED BY <1>3, <1>4, <1>5, <1>6 DEF sx, n

\* The last sextets, from the bytes left over.
LEMMA RestSextets ==
  ASSUME NEW m \in Seq(0..255)
  PROVE  /\ Len(m) % 3 = 1 =>
              /\ Rest(m)[1] \in 0..255
              /\ LastSextet(m, 1) = Char(Rest(m)[1] \div 4)
              /\ LastSextet(m, 2) = Char((Rest(m)[1] % 4) * 16)
         /\ Len(m) % 3 = 2 =>
              /\ Rest(m)[1] \in 0..255 /\ Rest(m)[2] \in 0..255
              /\ LastSextet(m, 1) = Char(Rest(m)[1] \div 4)
              /\ LastSextet(m, 2) = Char((Rest(m)[1] % 4) * 16 + Rest(m)[2] \div 16)
              /\ LastSextet(m, 3) = Char((Rest(m)[2] % 16) * 4)
<1> DEFINE n == Len(m)
           q == n \div 3
           r == Rest(m)
           a == At(m, 3 * q + 1)
           b == At(m, 3 * q + 2)
           c == At(m, 3 * q + 3)
<1>1. n \in Nat
  BY LenProperties
<1>2. q \in Nat /\ n = 3 * q + (n % 3)
  <2> HIDE DEF n
  <2> QED BY <1>1
<1>3. \A i \in 1..(n % 3) : r[i] = At(m, 3 * q + i)
  BY RestIs
<1>4. /\ Sextet(m, 4 * q + 1) = a \div 4
      /\ Sextet(m, 4 * q + 2) = (a % 4) * 16 + b \div 16
      /\ Sextet(m, 4 * q + 3) = (b % 16) * 4 + c \div 64
  BY <1>2, SextetPlaces
<1>5. a \in 0..255 /\ b \in 0..255
  BY <1>2, ByteAt
<1>6. (n % 3 = 1 => b = 0) /\ (n % 3 = 2 => c = 0)
  BY <1>1, <1>2 DEF At
<1>7. /\ LastSextet(m, 1) = Char(Sextet(m, 4 * q + 1))
      /\ LastSextet(m, 2) = Char(Sextet(m, 4 * q + 2))
      /\ LastSextet(m, 3) = Char(Sextet(m, 4 * q + 3))
  BY Zenon DEF LastSextet
<1>8. /\ n % 3 = 1 => r[1] = a
      /\ n % 3 = 2 => r[1] = a /\ r[2] = b
  <2>1. ASSUME n % 3 = 1 PROVE r[1] = a
    <3>1. 1 \in 1..(n % 3)
      BY <2>1
    <3> HIDE DEF r
    <3> QED BY <1>3, <3>1
  <2>2. ASSUME n % 3 = 2 PROVE r[1] = a /\ r[2] = b
    <3>1. 1 \in 1..(n % 3) /\ 2 \in 1..(n % 3)
      BY <2>2
    <3> HIDE DEF r
    <3> QED BY <1>3, <3>1
  <2> QED BY <2>1, <2>2
<1> HIDE DEF n, q, r, a, b, c
<1>9. 0 \div 16 = 0 /\ 0 \div 64 = 0
  OBVIOUS
<1>10. (a % 4) * 16 + 0 = (a % 4) * 16 /\ (b % 16) * 4 + 0 = (b % 16) * 4
  BY <1>5
<1>11. ASSUME n % 3 = 1
       PROVE  /\ r[1] \in 0..255
              /\ LastSextet(m, 1) = Char(r[1] \div 4)
              /\ LastSextet(m, 2) = Char((r[1] % 4) * 16)
  BY <1>11, <1>4, <1>5, <1>6, <1>7, <1>8, <1>9, <1>10
<1>12. ASSUME n % 3 = 2
       PROVE  /\ r[1] \in 0..255 /\ r[2] \in 0..255
              /\ LastSextet(m, 1) = Char(r[1] \div 4)
              /\ LastSextet(m, 2) = Char((r[1] % 4) * 16 + r[2] \div 16)
              /\ LastSextet(m, 3) = Char((r[2] % 16) * 4)
  BY <1>12, <1>4, <1>5, <1>6, <1>7, <1>8, <1>9, <1>10
<1> QED BY <1>11, <1>12 DEF n, r

\* the characters that one byte alone decides are bytes
LEMMA CharOfByte ==
  ASSUME NEW a \in 0..255
  PROVE  /\ Char(a \div 4) \in 1..255 /\ Char((a % 4) * 16) \in 1..255
         /\ Char((a % 16) * 4) \in 1..255
<1>1. a \div 4 \in 0..63 /\ (a % 4) * 16 \in 0..63 /\ (a % 16) * 4 \in 0..63
  OBVIOUS
<1> QED BY <1>1, Alphabet, SMTT(20)

\* those that two bytes decide are bytes
LEMMA CharOfBytes ==
  ASSUME NEW a \in 0..255, NEW b \in 0..255
  PROVE  Char((a % 4) * 16 + b \div 16) \in 1..255
<1>1. (a % 4) * 16 + b \div 16 \in 0..63
  OBVIOUS
<1> QED BY <1>1, Alphabet

\* the characters of the last group and its '='
LEMMA TailJoined ==
  ASSUME NEW a, NEW b, NEW c, NEW d
  PROVE  <<a, b>> \o <<c, d>> = <<a, b, c, d>> /\ <<a, b, c>> \o <<d>> = <<a, b, c, d>>
<1> DEFINE S == {a, b, c, d}
           f == <<a, b, c, d>>
<1>1. /\ f \in [1..4 -> S] /\ f[1] = a /\ f[2] = b /\ f[3] = c /\ f[4] = d
  OBVIOUS
<1> HIDE DEF f, S
<1>2. <<a, b>> \o <<c, d>> = f
  <2> DEFINE s == <<a, b>>
             t == <<c, d>>
  <2>1. /\ s \in Seq(S) /\ Len(s) = 2 /\ s[1] = a /\ s[2] = b
        /\ t \in Seq(S) /\ Len(t) = 2 /\ t[1] = c /\ t[2] = d
    BY DEF S
  <2> HIDE DEF s, t
  <2>2. \A i \in 1..4 : f[i] = IF i <= Len(s) THEN s[i] ELSE t[i - Len(s)]
    <3> TAKE i \in 1..4
    <3>1. i \in {1, 2, 3, 4}
      OBVIOUS
    <3>2. 3 - 2 = 1 /\ 4 - 2 = 2
      OBVIOUS
    <3> QED BY <1>1, <2>1, <3>1, <3>2
  <2>3. 4 = Len(s) + Len(t)
    BY <2>1
  <2> DEFINE n == 4
  <2>4. /\ n \in Nat /\ n = Len(s) + Len(t) /\ f \in [1..n -> S]
        /\ \A i \in 1..n : f[i] = IF i <= Len(s) THEN s[i] ELSE t[i - Len(s)]
    BY <1>1, <2>2, <2>3
  <2>5. s \in Seq(S) /\ t \in Seq(S)
    BY <2>1
  <2> HIDE DEF n
  <2>6. s \o t = f
    BY <2>4, <2>5, JoinedIs
  <2> QED BY <2>6 DEF s, t
<1>3. <<a, b, c>> \o <<d>> = f
  <2> DEFINE s == <<a, b, c>>
             t == <<d>>
  <2>1. /\ s \in Seq(S) /\ Len(s) = 3 /\ s[1] = a /\ s[2] = b /\ s[3] = c
        /\ t \in Seq(S) /\ Len(t) = 1 /\ t[1] = d
    BY DEF S
  <2> HIDE DEF s, t
  <2>2. \A i \in 1..4 : f[i] = IF i <= Len(s) THEN s[i] ELSE t[i - Len(s)]
    <3> TAKE i \in 1..4
    <3>1. i \in {1, 2, 3, 4}
      OBVIOUS
    <3>2. 4 - 3 = 1
      OBVIOUS
    <3> QED BY <1>1, <2>1, <3>1, <3>2
  <2>3. 4 = Len(s) + Len(t)
    BY <2>1
  <2> DEFINE n == 4
  <2>4. /\ n \in Nat /\ n = Len(s) + Len(t) /\ f \in [1..n -> S]
        /\ \A i \in 1..n : f[i] = IF i <= Len(s) THEN s[i] ELSE t[i - Len(s)]
    BY <1>1, <2>2, <2>3
  <2>5. s \in Seq(S) /\ t \in Seq(S)
    BY <2>1
  <2> HIDE DEF n
  <2>6. s \o t = f
    BY <2>4, <2>5, JoinedIs
  <2> QED BY <2>6 DEF s, t
<1> QED BY <1>2, <1>3 DEF f

\* one '=' and two
LEMMA PadsAgain == Pads(1) = <<Pad>> /\ Pads(2) = <<Pad, Pad>>
BY DEF Pads

\* h_base64_encode writes the text of the message.
LEMMA HEncodes ==
  ASSUME NEW m \in Seq(0..255)
  PROVE  HEncode(m) = Text(m)
<1> DEFINE r == Rest(m)
           n == Len(m)
           sx(i) == LastSextet(m, i)
<1>1. n % 3 \in {0, 1, 2} /\ Len(r) = n % 3
  <2>1. n \in Nat
    BY LenProperties
  <2>2. n % 3 \in {0, 1, 2}
    <3> HIDE DEF n
    <3> QED BY <2>1
  <2> QED BY <2>2, RestIs
<1>2. CASE n % 3 = 0
  <2>1. HTail(r) = <<>>
    <3> HIDE DEF r
    <3> QED BY <1>1, <1>2 DEF HTail
  <2>2. LastGroup(m, <<>>)
    BY <1>2, LastGroups
  <2>3. <<>> \in Seq(1..255)
    BY EmptySeq
  <2> QED BY <2>1, <2>2, <2>3, TextOfGroups DEF HEncode
<1>3. CASE n % 3 = 1
  <2>1. r[1] \in 0..255 /\ sx(1) = Char(r[1] \div 4) /\ sx(2) = Char((r[1] % 4) * 16)
    BY <1>3, RestSextets
  <2>2. sx(1) \in 1..255 /\ sx(2) \in 1..255 /\ Pad \in 1..255
    <3> DEFINE x == r[1]
    <3>1. x \in 0..255 /\ sx(1) = Char(x \div 4) /\ sx(2) = Char((x % 4) * 16)
      BY <2>1, ZenonT(40)
    <3> HIDE DEF x, sx
    <3>2. Char(x \div 4) \in 1..255 /\ Char((x % 4) * 16) \in 1..255
      BY <3>1, CharOfByte, Zenon
    <3> QED BY <3>1, <3>2 DEF Pad
  <2> HIDE DEF sx, r
  <2> DEFINE t == <<sx(1), sx(2), Pad, Pad>>
  <2>3. HTail(r) = t
    <3>0. Len(r) = 1 /\ Len(r) # 2
      BY <1>1, <1>3
    <3>1. HTail(r) = Chars(<<r[1] \div 4, (r[1] % 4) * 16>>) \o Pads(2)
      BY <3>0, Zenon DEF HTail
    <3>2. Chars(<<r[1] \div 4, (r[1] % 4) * 16>>) = <<sx(1), sx(2)>>
      BY <2>1 DEF Chars
    <3> QED BY <3>1, <3>2, PadsAgain, TailJoined, Zenon
  <2>4. t \in Seq(1..255)
    BY <2>2
  <2>5. LastGroup(m, t)
    BY <1>3, LastGroups DEF sx
  <2> HIDE DEF t
  <2>6. Groups(m) \o t = Text(m)
    BY <2>4, <2>5, TextOfGroups
  <2> QED BY <2>3, <2>6 DEF HEncode, r
<1>4. CASE n % 3 = 2
  <2>1. /\ r[1] \in 0..255 /\ r[2] \in 0..255
        /\ sx(1) = Char(r[1] \div 4) /\ sx(2) = Char((r[1] % 4) * 16 + r[2] \div 16)
        /\ sx(3) = Char((r[2] % 16) * 4)
    BY <1>4, RestSextets
  <2>2. sx(1) \in 1..255 /\ sx(2) \in 1..255 /\ sx(3) \in 1..255 /\ Pad \in 1..255
    <3> DEFINE x == r[1]
               y == r[2]
    <3>1. /\ x \in 0..255 /\ y \in 0..255 /\ sx(1) = Char(x \div 4)
          /\ sx(2) = Char((x % 4) * 16 + y \div 16) /\ sx(3) = Char((y % 16) * 4)
      BY <2>1, ZenonT(40)
    <3> HIDE DEF x, y, sx
    <3>2. /\ Char(x \div 4) \in 1..255 /\ Char((x % 4) * 16 + y \div 16) \in 1..255
          /\ Char((y % 16) * 4) \in 1..255
      BY <3>1, CharOfByte, CharOfBytes, Zenon
    <3> QED BY <3>1, <3>2 DEF Pad
  <2> HIDE DEF sx, r
  <2> DEFINE t == <<sx(1), sx(2), sx(3), Pad>>
  <2>3. HTail(r) = t
    <3>1. HTail(r) = Chars(<<r[1] \div 4, (r[1] % 4) * 16 + r[2] \div 16, (r[2] % 16) * 4>>)
                       \o Pads(1)
      <4>1. Len(r) = 2 /\ Len(r) # 1
        BY <1>1, <1>4
      <4> QED BY <4>1, Zenon DEF HTail
    <3>2. Chars(<<r[1] \div 4, (r[1] % 4) * 16 + r[2] \div 16, (r[2] % 16) * 4>>)
            = <<sx(1), sx(2), sx(3)>>
      BY <2>1 DEF Chars
    <3> QED BY <3>1, <3>2, PadsAgain, TailJoined, Zenon
  <2>4. t \in Seq(1..255)
    BY <2>2
  <2>5. LastGroup(m, t)
    BY <1>4, LastGroups DEF sx
  <2> HIDE DEF t
  <2>6. Groups(m) \o t = Text(m)
    BY <2>4, <2>5, TextOfGroups
  <2> QED BY <2>3, <2>6 DEF HEncode, r
<1> QED BY <1>1, <1>2, <1>3, <1>4

\* the first characters of a group of four
LEMMA FrontOfFour ==
  ASSUME NEW a, NEW b, NEW c, NEW d
  PROVE  /\ SubSeq(<<a, b, c, d>>, 1, 2) = <<a, b>>
         /\ SubSeq(<<a, b, c, d>>, 1, 3) = <<a, b, c>>
<1> DEFINE S == {a, b, c, d}
           s == <<a, b, c, d>>
<1>1. /\ s \in Seq(S) /\ Len(s) = 4 /\ s[1] = a /\ s[2] = b /\ s[3] = c /\ s[4] = d
  OBVIOUS
<1>2. SubSeq(s, 1, 2) = <<a, b>>
  <2> DEFINE f == <<a, b>>
  <2>1. f \in [1..2 -> S] /\ f[1] = a /\ f[2] = b
    OBVIOUS
  <2> HIDE DEF s, f, S
  <2>2. \A i \in 1..2 : f[i] = s[i]
    <3> TAKE i \in 1..2
    <3>1. i \in {1, 2}
      OBVIOUS
    <3> QED BY <1>1, <2>1, <3>1
  <2>3. 2 \in 0..Len(s)
    BY <1>1
  <2> DEFINE n == 2
  <2>4. n \in 0..Len(s) /\ f \in [1..n -> S] /\ \A i \in 1..n : f[i] = s[i]
    BY <2>1, <2>2, <2>3
  <2> HIDE DEF n
  <2>5. SubSeq(s, 1, n) = f
    BY <1>1, <2>4, SameFront
  <2> QED BY <2>5 DEF f, n
<1>3. SubSeq(s, 1, 3) = <<a, b, c>>
  <2> DEFINE f == <<a, b, c>>
  <2>1. f \in [1..3 -> S] /\ f[1] = a /\ f[2] = b /\ f[3] = c
    OBVIOUS
  <2> HIDE DEF s, f, S
  <2>2. \A i \in 1..3 : f[i] = s[i]
    <3> TAKE i \in 1..3
    <3>1. i \in {1, 2, 3}
      OBVIOUS
    <3> QED BY <1>1, <2>1, <3>1
  <2>3. 3 \in 0..Len(s)
    BY <1>1
  <2> DEFINE n == 3
  <2>4. n \in 0..Len(s) /\ f \in [1..n -> S] /\ \A i \in 1..n : f[i] = s[i]
    BY <2>1, <2>2, <2>3
  <2> HIDE DEF n
  <2>5. SubSeq(s, 1, n) = f
    BY <1>1, <2>4, SameFront
  <2> QED BY <2>5 DEF f, n
<1> QED BY <1>2, <1>3

\* a group that has been filled up with zeros
LEMMA FilledGroup ==
  ASSUME NEW a, NEW b
  PROVE  /\ SubSeq(Chars(Group(a, b, 0)), 1, 3)
              = <<Char(a \div 4), Char((a % 4) * 16 + b \div 16), Char((b % 16) * 4 + 0 \div 64)>>
         /\ SubSeq(Chars(Group(a, b, 0)), 1, 2)
              = <<Char(a \div 4), Char((a % 4) * 16 + b \div 16)>>
<1> DEFINE w == a \div 4
           x == (a % 4) * 16 + b \div 16
           y == (b % 16) * 4 + 0 \div 64
           z == 0 % 64
<1>1. Group(a, b, 0) = <<w, x, y, z>>
  BY DEF Group
<1> HIDE DEF w, x, y, z
<1>2. Chars(<<w, x, y, z>>) = <<Char(w), Char(x), Char(y), Char(z)>>
  BY DEF Chars
<1> QED BY <1>1, <1>2, FrontOfFour DEF w, x, y

\* base64_encode of test_bs64.cc writes the text of the message.
LEMMA CEncodes ==
  ASSUME NEW m \in Seq(0..255)
  PROVE  CEncode(m) = Text(m)
<1> DEFINE r == Rest(m)
           n == Len(m)
           b(k) == IF k <= Len(r) THEN r[k] ELSE 0
           t == IF r = <<>> THEN <<>>
                ELSE SubSeq(Chars(Group(b(1), b(2), b(3))), 1, Len(r) + 1) \o Pads(3 - Len(r))
<1>1. n % 3 \in {0, 1, 2} /\ Len(r) = n % 3 /\ r \in Seq(0..255)
  <2>1. n \in Nat
    BY LenProperties
  <2>2. n % 3 \in {0, 1, 2}
    <3> HIDE DEF n
    <3> QED BY <2>1
  <2> QED BY <2>2, RestIs
<1>2. CEncode(m) = Groups(m) \o t
  BY Zenon DEF CEncode
<1>3. HEncode(m) = Groups(m) \o HTail(r)
  BY Zenon DEF HEncode
<1>4. HTail(r) = t
  <2>1. CASE n % 3 = 0
    <3>1. r = <<>> /\ Len(r) = 0
      BY <1>1, <2>1, EmptySeq
    <3>2. t = <<>>
      BY <3>1
    <3> HIDE DEF r, t
    <3>3. HTail(r) = <<>>
      BY <3>1 DEF HTail
    <3> QED BY <3>2, <3>3
  <2>2. CASE n % 3 = 1
    <3>1. Len(r) = 1 /\ r # <<>>
      BY <1>1, <2>2
    <3> DEFINE a == r[1]
    <3>2. b(1) = a /\ b(2) = 0 /\ b(3) = 0 /\ Len(r) + 1 = 2 /\ 3 - Len(r) = 2
      <4> HIDE DEF r
      <4> QED BY <3>1
    <3>3. t = SubSeq(Chars(Group(a, 0, 0)), 1, 2) \o Pads(2)
      <4> HIDE DEF a, b, r
      <4> QED BY <3>1, <3>2, Zenon
    <3>4. a \in 0..255
      <4> HIDE DEF r
      <4>1. 1 \in 1..Len(r)
        BY <3>1
      <4> QED BY <1>1, <4>1, ElementOfSeq, ZenonT(40)
    <3>5. 0 \div 16 = 0 /\ (a % 4) * 16 + 0 = (a % 4) * 16
      <4> HIDE DEF a
      <4> QED BY <3>4
    <3>6. t = <<Char(a \div 4), Char((a % 4) * 16)>> \o Pads(2)
      <4> HIDE DEF a, t
      <4> QED BY <3>3, <3>5, FilledGroup, ZenonT(40)
    <3>7. HTail(r) = Chars(<<a \div 4, (a % 4) * 16>>) \o Pads(2)
      <4>1. Len(r) # 2 /\ Len(r) = 1
        BY <3>1
      <4> HIDE DEF r
      <4> QED BY <4>1, Zenon DEF HTail, a
    <3>8. Chars(<<a \div 4, (a % 4) * 16>>) = <<Char(a \div 4), Char((a % 4) * 16)>>
      <4> HIDE DEF a
      <4> QED BY DEF Chars
    <3> HIDE DEF a, t, r
    <3> QED BY <3>6, <3>7, <3>8
  <2>3. CASE n % 3 = 2
    <3>1. Len(r) = 2 /\ r # <<>>
      BY <1>1, <2>3
    <3> DEFINE a == r[1]
               c == r[2]
    <3>2. b(1) = a /\ b(2) = c /\ b(3) = 0 /\ Len(r) + 1 = 3 /\ 3 - Len(r) = 1
      <4> HIDE DEF r
      <4> QED BY <3>1
    <3>3. t = SubSeq(Chars(Group(a, c, 0)), 1, 3) \o Pads(1)
      <4> HIDE DEF a, b, r, c
      <4> QED BY <3>1, <3>2, Zenon
    <3>4. a \in 0..255 /\ c \in 0..255
      <4> HIDE DEF r
      <4>1. 1 \in 1..Len(r) /\ 2 \in 1..Len(r)
        BY <3>1
      <4> QED BY <1>1, <4>1, ElementOfSeq
    <3>5. 0 \div 64 = 0 /\ (c % 16) * 4 + 0 = (c % 16) * 4
      <4> HIDE DEF a, c
      <4> QED BY <3>4
    <3> DEFINE x == (a % 4) * 16 + c \div 16
    <3>6. t = <<Char(a \div 4), Char(x), Char((c % 16) * 4)>> \o Pads(1)
      <4> HIDE DEF a, t, c
      <4>1. SubSeq(Chars(Group(a, c, 0)), 1, 3) = <<Char(a \div 4), Char(x), Char((c % 16) * 4 + 0 \div 64)>>
        BY FilledGroup
      <4> QED BY <3>3, <3>5, <4>1
    <3>7. HTail(r) = Chars(<<a \div 4, x, (c % 16) * 4>>) \o Pads(1)
      <4>1. Len(r) = 2 /\ Len(r) # 1
        BY <3>1
      <4>2. HTail(r) = Chars(<<r[1] \div 4, (r[1] % 4) * 16 + r[2] \div 16,
                             (r[2] % 16) * 4>>) \o Pads(1)
        <5> HIDE DEF r
        <5> QED BY <4>1, Zenon DEF HTail
      <4> QED BY <4>2, Zenon
    <3> HIDE DEF x
    <3>8. Chars(<<a \div 4, x, (c % 16) * 4>>) = <<Char(a \div 4), Char(x), Char((c % 16) * 4)>>
      <4> HIDE DEF a, c
      <4> QED BY DEF Chars
    <3> HIDE DEF a, t, r, c
    <3> QED BY <3>6, <3>7, <3>8
  <2> QED BY <1>1, <2>1, <2>2, <2>3
<1> QED BY <1>2, <1>3, <1>4, HEncodes

\* What b_base64_encode has after k bytes.
BAfter(m, k) ==
  [val |-> At(m, k - 1) * 256 + At(m, k),
   valb |-> IF k % 3 = 0 THEN -6 ELSE IF k % 3 = 1 THEN -4 ELSE -2,
   out |-> [j \in 1..((8 * k) \div 6) |-> Sextet(m, j)]]

\* the groups of six bits of two bytes
Splits(x, y, v) ==
  /\ (v \div 4) % 64 = y \div 4
  /\ (v \div 16) % 64 = (x % 4) * 16 + y \div 16
  /\ (v \div 64) % 64 = (x % 16) * 4 + y \div 64
  /\ (v \div 1) % 64 = y % 64
  /\ ((v * 256) \div 16) % 64 = (y % 4) * 16
  /\ ((v * 256) \div 64) % 64 = (y % 16) * 4

\* what b_base64_encode has in val after a byte
LEMMA Accumulated ==
  ASSUME NEW x \in 0..255, NEW y \in 0..255, NEW v, v = x * 256 + y
  PROVE  Splits(x, y, v)
<1>1. v \in Nat
  OBVIOUS
<1>2. v \div 4 = x * 64 + y \div 4 /\ y \div 4 \in 0..63
  OBVIOUS
<1>3. v \div 16 = x * 16 + y \div 16 /\ y \div 16 \in 0..15 /\ x = 4 * (x \div 4) + (x % 4)
      /\ x % 4 \in 0..3 /\ x \div 4 \in Nat
  OBVIOUS
<1>4. v \div 64 = x * 4 + y \div 64 /\ y \div 64 \in 0..3 /\ x = 16 * (x \div 16) + (x % 16)
      /\ x % 16 \in 0..15 /\ x \div 16 \in Nat
  OBVIOUS
<1>5. (v * 256) \div 16 = v * 16 /\ (v * 256) \div 64 = v * 4
  BY <1>1, SMT
<1>6. (v \div 4) % 64 = y \div 4
  BY <1>2
<1>7. (v \div 16) % 64 = (x % 4) * 16 + y \div 16
  BY <1>3
<1>8. (v \div 64) % 64 = (x % 16) * 4 + y \div 64
  BY <1>4
<1>9. v \div 1 = v /\ v % 64 = y % 64
  OBVIOUS
<1>10. (v * 16) % 64 = (y % 4) * 16 /\ (v * 4) % 64 = (y % 16) * 4
  OBVIOUS
<1> QED BY <1>1, <1>5, <1>6, <1>7, <1>8, <1>9, <1>10 DEF Splits

\* a third byte behind two
Two(x, y) == x * 256 + y
Shifted3(a, x, y) == ((a * 256 + x) * 256 + y) % 65536

\* the byte before last does not matter in it
LEMMA Forgets ==
  \A a \in 0..255, x \in 0..255, y \in 0..255 : Shifted3(a, x, y) = Two(x, y)
<1> TAKE a \in 0..255, x \in 0..255, y \in 0..255
<1> DEFINE z == x * 256 + y
<1>1. (a * 256 + x) * 256 + y = 65536 * a + z
  BY SMT
<1>2. z \in Nat /\ z < 65536
  BY SMT
<1> HIDE DEF z
<1>3. (65536 * a + z) % 65536 = z
  BY <1>2, SMT
<1> QED BY <1>1, <1>3, SMTT(20) DEF z, Shifted3, Two

\* the characters b_base64_encode writes for one byte
More(v, b, n) == [k \in 1..n |-> ShiftRight(v, b - 6 * (k - 1)) % 64]
\* One more byte.
LEMMA Accumulates ==
  ASSUME NEW m \in Seq(0..255), NEW k \in 0..(Len(m) - 1)
  PROVE  BAdd(BAfter(m, k), m[k + 1]) = BAfter(m, k + 1)
<1> DEFINE s == BAfter(m, k)
           c == m[k + 1]
           v == (s.val * 256 + c) % 65536
           b == s.valb + 8
           n == b \div 6 + 1
           x == At(m, k)
           y == At(m, k + 1)
           o == s.out
           more == More(v, b, n)
<1>0. BAdd(s, c) = [val |-> v, valb |-> b - 6 * n, out |-> o \o more]
  <2> HIDE DEF s, c
  <2> QED BY SMT DEF BAdd, More
<1>1. Len(m) \in Nat
  BY LenProperties
<1>2. k \in Nat /\ k + 1 \in 1..Len(m) /\ k + 1 - 1 = k /\ k % 3 \in {0, 1, 2}
  BY <1>1
<1>3. c = y /\ x \in 0..255 /\ y \in 0..255 /\ At(m, k - 1) \in 0..255
  <2>1. k - 1 \in Int /\ k \in Int /\ k + 1 \in Int
    BY <1>2
  <2>2. c = y
    BY <1>2 DEF At
  <2> QED BY <2>1, <2>2, ByteAt
<1>4. v = x * 256 + y
  <2> DEFINE a == At(m, k - 1)
  <2>1. s.val = a * 256 + x
    BY DEF BAfter
  <2>2. a \in 0..255
    BY <1>3
  <2>3. v = Shifted3(a, x, c)
    <3> HIDE DEF a, s, x, y, c
    <3> QED BY <2>1, SMT DEF Shifted3
  <2> HIDE DEF a, s, x, y, c, v
  <2>4. x \in 0..255 /\ y \in 0..255 /\ c = y
    BY <1>3
  <2>5. Shifted3(a, x, y) = Two(x, y)
    <3> HIDE DEF b, n, o, more
    <3>1. a \in 0..255 /\ x \in 0..255 /\ y \in 0..255
      BY <2>2, <2>4
    <3> QED BY <3>1, Forgets, ZenonT(40)
  <2>6. v = Two(x, y)
    BY <2>3, <2>4, <2>5
  <2> QED BY <2>6 DEF Two
<1>5. s.valb = IF k % 3 = 0 THEN -6 ELSE IF k % 3 = 1 THEN -4 ELSE -2
  BY DEF BAfter
<1>6. o = [j \in 1..((8 * k) \div 6) |-> Sextet(m, j)]
  BY DEF BAfter
<1>7. BAfter(m, k + 1) =
        [val |-> x * 256 + y,
         valb |-> IF (k + 1) % 3 = 0 THEN -6 ELSE IF (k + 1) % 3 = 1 THEN -4 ELSE -2,
         out |-> [j \in 1..((8 * (k + 1)) \div 6) |-> Sextet(m, j)]]
  BY <1>2 DEF BAfter
<1> DEFINE p == k \div 3
           z == [j \in 1..((8 * (k + 1)) \div 6) |-> Sextet(m, j)]
<1>8. p \in Nat /\ k = 3 * p + (k % 3)
  BY <1>2
<1>9. /\ (v \div 4) % 64 = y \div 4
      /\ (v \div 16) % 64 = (x % 4) * 16 + y \div 16
      /\ (v \div 64) % 64 = (x % 16) * 4 + y \div 64
      /\ (v \div 1) % 64 = y % 64
  <2>1. x \in 0..255 /\ y \in 0..255
    BY <1>3
  <2> HIDE DEF x, y, v, c
  <2>2. Splits(x, y, v)
    BY <2>1, <1>4, Accumulated, Zenon
  <2> QED BY <2>2 DEF Splits
<1>10. /\ Sextet(m, 4 * p + 1) = At(m, 3 * p + 1) \div 4
       /\ Sextet(m, 4 * p + 2) = (At(m, 3 * p + 1) % 4) * 16 + At(m, 3 * p + 2) \div 16
       /\ Sextet(m, 4 * p + 3) = (At(m, 3 * p + 2) % 16) * 4 + At(m, 3 * p + 3) \div 64
       /\ Sextet(m, 4 * p + 4) = At(m, 3 * p + 3) % 64
  BY <1>8, SextetPlaces
<1>11. ASSUME NEW i \in Nat, NEW j \in Nat, i >= 1, j >= i,
              o = [h \in 1..(i - 1) |-> Sextet(m, h)], z = [h \in 1..j |-> Sextet(m, h)],
              n = j - i + 1, \A h \in i..j : more[h - i + 1] = Sextet(m, h)
       PROVE  o \o more = z
  <2> HIDE DEF o, more, z, n, v, b
  <2>1. \A h \in 1..j : Sextet(m, h) \in 0..63
    <3> TAKE h \in 1..j
    <3>1. h \in Nat \ {0}
      BY <1>11
    <3> QED BY <3>1, SextetIs
  <2>2. i - 1 \in Nat /\ \A h \in 1..(i - 1) : h \in 1..j
    BY <1>11
  <2>3. o \in [1..(i - 1) -> 0..63] /\ z \in [1..j -> 0..63]
    BY <1>11, <2>1, <2>2
  <2>4. o \in Seq(0..63) /\ Len(o) = i - 1
    <3> DEFINE e == i - 1
    <3> HIDE DEF e
    <3>1. e \in Nat /\ o \in [1..e -> 0..63]
      BY <2>2, <2>3 DEF e
    <3>2. o \in Seq(0..63) /\ Len(o) = e
      BY <3>1, FunctionSeq
    <3> QED BY <3>2 DEF e
  <2>5. n \in Nat /\ \A h \in 1..n : h + i - 1 \in i..j /\ (h + i - 1) - i + 1 = h /\ h + i - 1 \in 1..j
    BY <1>11
  <2>6. \A h \in 1..n : more[h] \in 0..63
    <3> TAKE h \in 1..n
    <3>1. more[h] = Sextet(m, h + i - 1)
      <4> DEFINE g == h + i - 1
      <4>1. g \in i..j /\ g - i + 1 = h
        BY <2>5
      <4> HIDE DEF g
      <4>2. more[g - i + 1] = Sextet(m, g)
        BY <1>11, <4>1
      <4> QED BY <4>1, <4>2 DEF g
    <3> QED BY <2>1, <2>5, <3>1, ZenonT(40)
  <2>7. more \in Seq(0..63) /\ Len(more) = n
    <3>1. more \in [1..n -> 0..63]
      BY <2>6 DEF more, More
    <3> QED BY <2>5, <3>1, FunctionSeq
  <2>8. \A h \in 1..j : z[h] = IF h <= Len(o) THEN o[h] ELSE more[h - Len(o)]
    <3> TAKE h \in 1..j
    <3>1. CASE h <= i - 1
      <4>1. h \in 1..(i - 1)
        BY <3>1
      <4> QED BY <1>11, <2>4, <3>1, <4>1
    <3>2. CASE ~ (h <= i - 1)
      <4>1. h \in i..j /\ h - i + 1 = h - (i - 1)
        BY <1>11, <3>2
      <4>2. more[h - i + 1] = Sextet(m, h)
        BY <1>11, <4>1
      <4>3. z[h] = Sextet(m, h)
        BY <1>11
      <4> QED BY <2>4, <3>2, <4>1, <4>2, <4>3
    <3> QED BY <3>1, <3>2
  <2>9. j = Len(o) + Len(more)
    BY <1>11, <2>4, <2>7
  <2> DEFINE S == 0..63
  <2>10. o \in Seq(S) /\ more \in Seq(S) /\ z \in [1..j -> S]
    BY <2>3, <2>4, <2>7
  <2> HIDE DEF S
  <2> QED BY <2>8, <2>9, <2>10, JoinedIs
<1>12. \A i \in 1..n : more[i] = ShiftRight(v, b - 6 * (i - 1)) % 64
  <2> HIDE DEF v, b, n
  <2> QED BY DEF More
<1>13. ASSUME k % 3 = 0
       PROVE  b - 6 * n = -4 /\ o \o more = z
  <2>1. b = 2 /\ n = 1 /\ b - 6 * n = -4 /\ k = 3 * p
    <3>1. s.valb = -6 /\ k = 3 * p
      BY <1>5, <1>8, <1>13
    <3> HIDE DEF s
    <3> QED BY <3>1
  <2> HIDE DEF b, n, v, x, y
  <2>2. more[1] = (v \div 4) % 64
    <3>1. more[1] = ShiftRight(v, b - 6 * (1 - 1)) % 64
      <4>1. 1 \in 1..n
        BY <2>1
      <4> QED BY <1>12, <4>1
    <3>2. b - 6 * (1 - 1) = 2
      BY <2>1
    <3> QED BY <3>1, <3>2, Shifting
  <2>3. y = At(m, 3 * p + 1)
    BY <2>1 DEF y
  <2>4. more[1] = Sextet(m, 4 * p + 1)
    BY <1>9, <1>10, <2>2, <2>3
  <2> DEFINE i == 4 * p + 1
  <2>5. i \in Nat /\ i >= 1 /\ (8 * k) \div 6 = i - 1 /\ (8 * (k + 1)) \div 6 = i /\ n = i - i + 1
    BY <1>8, <2>1
  <2>6. \A h \in i..i : more[h - i + 1] = Sextet(m, h)
    <3> HIDE DEF more
    <3> TAKE h \in i..i
    <3>1. h = i /\ h - i + 1 = 1
      BY <2>5
    <3> QED BY <2>4, <3>1
  <2>7. o = [h \in 1..(i - 1) |-> Sextet(m, h)] /\ z = [h \in 1..i |-> Sextet(m, h)]
    <3> HIDE DEF i, o
    <3> QED BY <1>6, <2>5, Zenon
  <2> HIDE DEF i, o, more, z
  <2> QED BY <1>11, <2>1, <2>5, <2>6, <2>7
<1>14. ASSUME k % 3 = 1
       PROVE  b - 6 * n = -2 /\ o \o more = z
  <2>1. b = 4 /\ n = 1 /\ b - 6 * n = -2 /\ k = 3 * p + 1
    <3>1. s.valb = -4 /\ k = 3 * p + 1
      BY <1>5, <1>8, <1>14
    <3> HIDE DEF s
    <3> QED BY <3>1
  <2> HIDE DEF b, n, v, x, y
  <2>2. more[1] = (v \div 16) % 64
    <3>1. more[1] = ShiftRight(v, b - 6 * (1 - 1)) % 64
      <4>1. 1 \in 1..n
        BY <2>1
      <4> QED BY <1>12, <4>1
    <3>2. b - 6 * (1 - 1) = 4
      BY <2>1
    <3> QED BY <3>1, <3>2, Shifting
  <2>3. x = At(m, 3 * p + 1) /\ y = At(m, 3 * p + 2)
    <3>1. 3 * p + 1 + 1 = 3 * p + 2
      BY <1>8
    <3> QED BY <2>1, <3>1 DEF x, y
  <2>4. more[1] = Sextet(m, 4 * p + 2)
    BY <1>9, <1>10, <2>2, <2>3
  <2> DEFINE i == 4 * p + 2
  <2>5. i \in Nat /\ i >= 1 /\ (8 * k) \div 6 = i - 1 /\ (8 * (k + 1)) \div 6 = i /\ n = i - i + 1
    BY <1>8, <2>1
  <2>6. \A h \in i..i : more[h - i + 1] = Sextet(m, h)
    <3> HIDE DEF more
    <3> TAKE h \in i..i
    <3>1. h = i /\ h - i + 1 = 1
      BY <2>5
    <3> QED BY <2>4, <3>1
  <2>7. o = [h \in 1..(i - 1) |-> Sextet(m, h)] /\ z = [h \in 1..i |-> Sextet(m, h)]
    <3> HIDE DEF i, o
    <3> QED BY <1>6, <2>5, Zenon
  <2> HIDE DEF i, o, more, z
  <2> QED BY <1>11, <2>1, <2>5, <2>6, <2>7
<1>15. ASSUME k % 3 = 2
       PROVE  b - 6 * n = -6 /\ o \o more = z
  <2>1. b = 6 /\ n = 2 /\ b - 6 * n = -6 /\ k = 3 * p + 2
    <3>1. s.valb = -2 /\ k = 3 * p + 2
      BY <1>5, <1>8, <1>15
    <3> HIDE DEF s
    <3> QED BY <3>1
  <2> HIDE DEF b, n, v, x, y
  <2>2. more[1] = (v \div 64) % 64 /\ more[2] = (v \div 1) % 64
    <3>1. more[1] = ShiftRight(v, b - 6 * (1 - 1)) % 64 /\ more[2] = ShiftRight(v, b - 6 * (2 - 1)) % 64
      <4>1. 1 \in 1..n /\ 2 \in 1..n
        BY <2>1
      <4> QED BY <1>12, <4>1
    <3>2. b - 6 * (1 - 1) = 6 /\ b - 6 * (2 - 1) = 0
      BY <2>1
    <3> QED BY <3>1, <3>2, Shifting
  <2>3. x = At(m, 3 * p + 2) /\ y = At(m, 3 * p + 3)
    <3>1. 3 * p + 2 + 1 = 3 * p + 3
      BY <1>8
    <3> QED BY <2>1, <3>1 DEF x, y
  <2>4. more[1] = Sextet(m, 4 * p + 3) /\ more[2] = Sextet(m, 4 * p + 4)
    BY <1>9, <1>10, <2>2, <2>3
  <2> DEFINE i == 4 * p + 3
             j == 4 * p + 4
  <2>5. /\ i \in Nat /\ j \in Nat /\ i >= 1 /\ j >= i /\ (8 * k) \div 6 = i - 1
        /\ (8 * (k + 1)) \div 6 = j /\ n = j - i + 1
    BY <1>8, <2>1
  <2>6. \A h \in i..j : more[h - i + 1] = Sextet(m, h)
    <3> HIDE DEF more
    <3> TAKE h \in i..j
    <3>1. (h = i /\ h - i + 1 = 1) \/ (h = j /\ h - i + 1 = 2)
      BY <1>8, <2>5
    <3> QED BY <2>4, <3>1
  <2>7. o = [h \in 1..(i - 1) |-> Sextet(m, h)] /\ z = [h \in 1..j |-> Sextet(m, h)]
    <3> HIDE DEF i, j, o
    <3> QED BY <1>6, <2>5, Zenon
  <2> HIDE DEF i, j, o, more, z
  <2> QED BY <1>11, <2>1, <2>5, <2>6, <2>7
<1>16. /\ k % 3 = 0 => (k + 1) % 3 = 1
       /\ k % 3 = 1 => (k + 1) % 3 = 2
       /\ k % 3 = 2 => (k + 1) % 3 = 0
  BY <1>2
<1>17. /\ b - 6 * n = IF (k + 1) % 3 = 0 THEN -6 ELSE IF (k + 1) % 3 = 1 THEN -4 ELSE -2
       /\ o \o more = z
  <2> HIDE DEF b, n, o, more, z
  <2> QED BY <1>2, <1>13, <1>14, <1>15, <1>16
<1> HIDE DEF v, b, n, o, more, s, c
<1>18. BAdd(s, c) = BAfter(m, k + 1)
  BY <1>0, <1>4, <1>7, <1>17, Zenon DEF z
<1> QED BY <1>18 DEF s, c

\* b_base64_encode before its first byte
LEMMA BBegins ==
  ASSUME NEW m \in Seq(0..255)
  PROVE  BAfter(m, 0) = [val |-> 0, valb |-> -6, out |-> <<>>]
<1>1. At(m, 0 - 1) = 0 /\ At(m, 0) = 0
  BY LenProperties DEF At
<1>2. 0 % 3 = 0 /\ (8 * 0) \div 6 = 0 /\ 0 * 256 + 0 = 0
  OBVIOUS
<1>3. [j \in 1..0 |-> Sextet(m, j)] = <<>>
  OBVIOUS
<1> QED BY <1>1, <1>2, <1>3 DEF BAfter

\* b_base64_encode after its last one
LEMMA BReaches ==
  ASSUME NEW m \in Seq(0..255)
  PROVE  LET after == CHOOSE after :
                        after = [k \in 0..Len(m) |->
                                   IF k = 0 THEN [val |-> 0, valb |-> -6, out |-> <<>>]
                                   ELSE BAdd(after[k - 1], m[k])]
         IN after[Len(m)] = BAfter(m, Len(m))
<1> DEFINE n == Len(m)
           e == [val |-> 0, valb |-> -6, out |-> <<>>]
           Made(f) == f = [k \in 0..n |-> IF k = 0 THEN e ELSE BAdd(f[k - 1], m[k])]
           w == [k \in 0..n |-> BAfter(m, k)]
           after == CHOOSE f : Made(f)
<1>1. n \in Nat
  BY LenProperties
<1>2. \A k \in 0..n : w[k] = BAfter(m, k)
  OBVIOUS
<1>3. w[0] = e
  <2>1. 0 \in 0..n
    BY <1>1
  <2> QED BY <1>2, <2>1, BBegins
<1>4. \A k \in 1..n : w[k] = BAdd(w[k - 1], m[k])
  <2> TAKE k \in 1..n
  <2>1. k - 1 \in 0..(n - 1) /\ k - 1 \in 0..n /\ k \in 0..n /\ k - 1 + 1 = k
    BY <1>1
  <2> DEFINE j == k - 1
  <2>2. BAdd(BAfter(m, j), m[j + 1]) = BAfter(m, j + 1)
    BY <2>1, Accumulates
  <2> HIDE DEF w
  <2> QED BY <1>2, <2>1, <2>2
<1>5. Made(w)
  <2>1. w = [k \in 0..n |-> w[k]]
    OBVIOUS
  <2>2. \A k \in 0..n : w[k] = IF k = 0 THEN e ELSE BAdd(w[k - 1], m[k])
    <3> HIDE DEF w, e
    <3> TAKE k \in 0..n
    <3>1. k = 0 \/ k \in 1..n
      BY <1>1
    <3> QED BY <1>1, <1>3, <1>4, <3>1
  <2> HIDE DEF w, e
  <2> QED BY <2>1, <2>2
<1>6. Made(after)
  <2> HIDE DEF Made, w
  <2> QED BY <1>5
<1>7. after[0] = w[0] /\ \A k \in 1..n : after[k - 1] = w[k - 1] => after[k] = w[k]
  <2> HIDE DEF w, e, after
  <2>1. 0 \in 0..n /\ \A k \in 1..n : k \in 0..n /\ k # 0
    BY <1>1
  <2>2. after[0] = e
    BY <1>6, <2>1
  <2>3. \A k \in 1..n : after[k] = BAdd(after[k - 1], m[k])
    BY <1>6, <2>1
  <2> HIDE DEF Made
  <2> QED BY <1>3, <1>4, <2>2, <2>3
<1>8. after[n] = w[n]
  <2> HIDE DEF after, w, n
  <2> QED BY <1>1, <1>7, Alike
<1>9. w[n] = BAfter(m, n)
  BY <1>1, <1>2
<1> QED BY <1>8, <1>9, Zenon

\* b_base64_encode writes the text of the message.
LEMMA BEncodes ==
  ASSUME NEW m \in Seq(0..255)
  PROVE  BEncode(m) = Text(m)
<1> DEFINE n == Len(m)
           s == BAfter(m, n)
           x == At(m, n - 1)
           y == At(m, n)
           v == x * 256 + y
           rest == IF s.valb > -6
                     THEN <<ShiftRight(s.val * 256, s.valb + 8) % 64>> ELSE <<>>
           p == n \div 3
           o == s.out
           z == [k \in 1..Sextets(n) |-> Sextet(m, k)]
<1>1. BEncode(m) = ToFour(Chars(o \o rest))
  <2> DEFINE after == CHOOSE after :
                        after = [k \in 0..Len(m) |->
                                   IF k = 0 THEN [val |-> 0, valb |-> -6, out |-> <<>>]
                                   ELSE BAdd(after[k - 1], m[k])]
             a == after[Len(m)]
  <2>1. BEncode(m) = ToFour(Chars(a.out \o
                       (IF a.valb > -6 THEN <<ShiftRight(a.val * 256, a.valb + 8) % 64>> ELSE <<>>)))
    BY DEF BEncode
  <2>2. a = s
    BY BReaches, Zenon
  <2> HIDE DEF a, s
  <2> QED BY <2>1, <2>2
<1>2. n \in Nat
  BY LenProperties
<1>3. /\ s.val = v /\ s.valb = IF n % 3 = 0 THEN -6 ELSE IF n % 3 = 1 THEN -4 ELSE -2
      /\ o = [j \in 1..((8 * n) \div 6) |-> Sextet(m, j)]
  BY DEF BAfter
<1>4. n % 3 \in {0, 1, 2} /\ p \in Nat /\ n = 3 * p + (n % 3)
  <2> HIDE DEF n
  <2> QED BY <1>2
<1>5. x \in 0..255 /\ y \in 0..255
  <2>1. n - 1 \in Int /\ n \in Int
    BY <1>2
  <2> QED BY <2>1, ByteAt, SMTT(20)
<1>6. ((v * 256) \div 16) % 64 = (y % 4) * 16 /\ ((v * 256) \div 64) % 64 = (y % 16) * 4
  <2> HIDE DEF x, y
  <2>1. Splits(x, y, v)
    BY <1>5, Accumulated, Zenon
  <2> QED BY <2>1 DEF Splits
<1>7. /\ Sextet(m, 4 * p + 2) = (At(m, 3 * p + 1) % 4) * 16 + At(m, 3 * p + 2) \div 16
      /\ Sextet(m, 4 * p + 3) = (At(m, 3 * p + 2) % 16) * 4 + At(m, 3 * p + 3) \div 64
  BY <1>4, SextetPlaces
<1>8. 0 \div 16 = 0 /\ 0 \div 64 = 0
  OBVIOUS
<1>9. \A j \in 1..Sextets(n) : Sextet(m, j) \in 0..63
  <2> TAKE j \in 1..Sextets(n)
  <2>1. j \in Nat \ {0}
    BY <1>2, Lengths
  <2> QED BY <2>1, SextetIs
<1>10. z \in [1..Sextets(n) -> 0..63]
  BY <1>9
<1>11. Sextets(n) \in Nat /\ z \in Seq(0..63) /\ Len(z) = Sextets(n)
  <2> DEFINE j == Sextets(n)
             S == 0..63
  <2>1. j \in Nat /\ z \in [1..j -> S]
    <3> HIDE DEF z, n
    <3> QED BY <1>2, <1>10, Lengths
  <2> HIDE DEF z, j, S
  <2>2. j \in Nat /\ z \in Seq(S) /\ Len(z) = j
    BY <2>1, FunctionSeq
  <2> QED BY <2>2 DEF j, S
<1>12. o \o rest = z
  <2>1. CASE n % 3 = 0
    <3>1. (8 * n) \div 6 = Sextets(n) /\ ~ (s.valb > -6)
      <4> HIDE DEF n, s
      <4>1. Sextets(n) = 4 * p
        BY <1>2, <2>1, Lengths
      <4>2. (8 * n) \div 6 = 4 * p
        <5> HIDE DEF p
        <5> QED BY <1>4, <2>1
      <4> QED BY <1>3, <2>1, <4>1, <4>2
    <3>2. o = z /\ rest = <<>>
      <4> HIDE DEF s, n
      <4> QED BY <1>3, <3>1
    <3> HIDE DEF o, rest, z
    <3>3. z \o <<>> = z
      BY <1>11, ConcatEmptySeq
    <3> QED BY <3>2, <3>3
  <2>2. ASSUME NEW i \in Nat, i + 1 = Sextets(n), (8 * n) \div 6 = i,
               rest = <<Sextet(m, i + 1)>>
        PROVE  o \o rest = z
    <3> HIDE DEF n, s, rest, z
    <3> DEFINE t == <<Sextet(m, i + 1)>>
               j == Sextets(n)
               S == 0..63
    <3>1. i + 1 \in 1..j /\ j \in Nat /\ \A h \in 1..i : h \in 1..j
      BY <1>11, <2>2
    <3>2. t \in Seq(S) /\ Len(t) = 1 /\ t[1] = Sextet(m, i + 1)
      BY <1>9, <3>1
    <3>3. o = [h \in 1..i |-> Sextet(m, h)]
      BY <1>3, <2>2
    <3>4. o \in [1..i -> S]
      BY <1>9, <3>1, <3>3
    <3> HIDE DEF o, t, S
    <3>5. o \in Seq(S) /\ Len(o) = i
      BY <3>4, FunctionSeq
    <3>6. \A h \in 1..j : z[h] = Sextet(m, h)
      BY DEF z
    <3>7. \A h \in 1..j : z[h] = IF h <= Len(o) THEN o[h] ELSE t[h - Len(o)]
      <4> TAKE h \in 1..j
      <4>1. z[h] = Sextet(m, h)
        BY <3>6
      <4>2. CASE h <= i
        <5>1. h \in 1..i
          BY <4>2
        <5> QED BY <3>3, <3>5, <4>1, <4>2, <5>1
      <4>3. CASE ~ (h <= i)
        <5>1. h = i + 1 /\ h - i = 1
          BY <2>2, <4>3
        <5> QED BY <3>2, <3>5, <4>1, <4>3, <5>1
      <4> QED BY <4>2, <4>3
    <3>8. j = Len(o) + Len(t) /\ z \in [1..j -> S]
      BY <1>10, <2>2, <3>2, <3>5 DEF S
    <3>9. o \o t = z
      <4> HIDE DEF j
      <4>1. j \in Nat /\ o \in Seq(S) /\ t \in Seq(S)
        BY <3>1, <3>2, <3>5
      <4> QED BY <3>7, <3>8, <4>1, JoinedIs
    <3> QED BY <2>2, <3>9 DEF t
  <2>3. CASE n % 3 = 1
    <3> DEFINE i == 4 * p + 1
    <3>1. i \in Nat /\ i + 1 = Sextets(n) /\ (8 * n) \div 6 = i /\ i + 1 = 4 * p + 2
      <4> HIDE DEF n
      <4>1. Sextets(n) = 4 * p + 2 /\ n = 3 * p + 1
        BY <1>2, <1>4, <2>3, Lengths DEF p
      <4> HIDE DEF p
      <4> QED BY <1>4, <4>1
    <3>2. At(m, 3 * p + 1) = y /\ At(m, 3 * p + 2) = 0
      <4>1. 3 * p + 1 = n /\ 3 * p + 2 > n
        BY <1>4, <2>3
      <4> QED BY <4>1 DEF At
    <3>3. Sextet(m, 4 * p + 2) = (y % 4) * 16
      <4> HIDE DEF x, y, p
      <4>1. (y % 4) * 16 + 0 = (y % 4) * 16
        BY <1>5
      <4> QED BY <1>7, <1>8, <3>2, <4>1
    <3>4. s.valb = -4 /\ s.val = v
      BY <1>3, <2>3, Zenon
    <3>5. rest = <<ShiftRight(v * 256, 4) % 64>>
      <4>1. -4 > -6 /\ -4 + 8 = 4
        OBVIOUS
      <4> HIDE DEF s, v
      <4> QED BY <3>4, <4>1
    <3>6. ShiftRight(v * 256, 4) % 64 = (y % 4) * 16
      <4> HIDE DEF v
      <4> QED BY <1>6, Shifting
    <3>7. rest = <<Sextet(m, i + 1)>>
      <4> HIDE DEF rest, v, y, i
      <4> QED BY <3>1, <3>3, <3>5, <3>6
    <3> HIDE DEF o, rest, z, i, n
    <3> QED BY <2>2, <3>1, <3>7
  <2>4. CASE n % 3 = 2
    <3> DEFINE i == 4 * p + 2
    <3>1. i \in Nat /\ i + 1 = Sextets(n) /\ (8 * n) \div 6 = i /\ i + 1 = 4 * p + 3
      <4> HIDE DEF n
      <4>1. Sextets(n) = 4 * p + 3 /\ n = 3 * p + 2
        BY <1>2, <1>4, <2>4, Lengths DEF p
      <4> HIDE DEF p
      <4> QED BY <1>4, <4>1
    <3>2. At(m, 3 * p + 2) = y /\ At(m, 3 * p + 3) = 0
      <4>1. 3 * p + 2 = n /\ 3 * p + 3 > n
        BY <1>4, <2>4
      <4> QED BY <4>1 DEF At
    <3>3. Sextet(m, 4 * p + 3) = (y % 16) * 4
      <4> HIDE DEF x, y, p
      <4>1. (y % 16) * 4 + 0 = (y % 16) * 4
        BY <1>5
      <4> QED BY <1>7, <1>8, <3>2, <4>1
    <3>4. s.valb = -2 /\ s.val = v
      <4>1. 2 # 0 /\ 2 # 1
        OBVIOUS
      <4> QED BY <1>3, <2>4, <4>1, Zenon
    <3>5. rest = <<ShiftRight(v * 256, 6) % 64>>
      <4>1. -2 > -6 /\ -2 + 8 = 6
        OBVIOUS
      <4> HIDE DEF s, v
      <4> QED BY <3>4, <4>1
    <3>6. ShiftRight(v * 256, 6) % 64 = (y % 16) * 4
      <4> HIDE DEF v
      <4> QED BY <1>6, Shifting
    <3>7. rest = <<Sextet(m, i + 1)>>
      <4> HIDE DEF rest, v, y, i
      <4> QED BY <3>1, <3>3, <3>5, <3>6
    <3> HIDE DEF o, rest, z, i, n
    <3> QED BY <2>2, <3>1, <3>7
  <2> QED BY <1>4, <2>1, <2>3, <2>4
<1>13. Chars(z) = [k \in 1..Sextets(n) |-> Char(Sextet(m, k))]
  BY CharsOf
<1> HIDE DEF o, rest, z
<1> QED BY <1>1, <1>12, <1>13, ToFourIs

\* a byte is made of the parts the shifts take
LEMMA ByteDigits ==
  ASSUME NEW a \in 0..255
  PROVE  /\ a \div 4 \in 0..63 /\ a % 4 \in 0..3 /\ (a \div 4) * 4 + (a % 4) = a
         /\ a \div 16 \in 0..15 /\ a % 16 \in 0..15 /\ (a \div 16) * 16 + (a % 16) = a
         /\ a \div 64 \in 0..3 /\ a % 64 \in 0..63 /\ (a \div 64) * 64 + (a % 64) = a
<1>1. a \div 4 \in 0..63 /\ a \div 16 \in 0..15 /\ a \div 64 \in 0..3
  OBVIOUS
<1>2. a % 4 \in 0..3 /\ a % 16 \in 0..15 /\ a % 64 \in 0..63
  OBVIOUS
<1>3. (a \div 4) * 4 + (a % 4) = a
  OBVIOUS
<1>4. (a \div 16) * 16 + (a % 16) = a
  OBVIOUS
<1>5. (a \div 64) * 64 + (a % 64) = a
  OBVIOUS
<1> QED BY <1>1, <1>2, <1>3, <1>4, <1>5

\* two digits are taken apart again
LEMMA TwoDigits ==
  /\ \A x \in 0..3, y \in 0..15 : (x * 16 + y) \div 16 = x /\ (x * 16 + y) % 16 = y
  /\ \A x \in 0..15, y \in 0..3 : (x * 4 + y) \div 4 = x /\ (x * 4 + y) % 4 = y
OBVIOUS

\* Three bytes, from four sextets.
LEMMA BytesOfSextets ==
  ASSUME NEW m \in Seq(0..255), NEW p \in Nat
  PROVE  LET v(i) == Sextet(m, 4 * p + i) IN
         /\ v(1) * 4 + v(2) \div 16 = At(m, 3 * p + 1)
         /\ (v(2) % 16) * 16 + v(3) \div 4 = At(m, 3 * p + 2)
         /\ (v(3) % 4) * 64 + v(4) = At(m, 3 * p + 3)
<1> DEFINE a == At(m, 3 * p + 1)
           b == At(m, 3 * p + 2)
           c == At(m, 3 * p + 3)
           v1 == Sextet(m, 4 * p + 1)
           v2 == Sextet(m, 4 * p + 2)
           v3 == Sextet(m, 4 * p + 3)
           v4 == Sextet(m, 4 * p + 4)
           a1 == a \div 4
           a2 == a % 4
           b1 == b \div 16
           b2 == b % 16
           c1 == c \div 64
           c2 == c % 64
<1>1. a \in 0..255 /\ b \in 0..255 /\ c \in 0..255
  BY ByteAt
<1>2. v1 = a1 /\ v2 = a2 * 16 + b1 /\ v3 = b2 * 4 + c1 /\ v4 = c2
  BY SextetPlaces
<1> HIDE DEF a, b, c, v1, v2, v3, v4
<1>3. /\ a2 \in 0..3 /\ a1 * 4 + a2 = a
      /\ b1 \in 0..15 /\ b2 \in 0..15 /\ b1 * 16 + b2 = b
      /\ c1 \in 0..3 /\ c1 * 64 + c2 = c
  BY <1>1, ByteDigits
<1> HIDE DEF a1, a2, b1, b2, c1, c2
<1>4. v2 \div 16 = a2 /\ v2 % 16 = b1 /\ v3 \div 4 = b2 /\ v3 % 4 = c1
  BY <1>2, <1>3, TwoDigits
<1>5. v1 * 4 + v2 \div 16 = a /\ (v2 % 16) * 16 + v3 \div 4 = b /\ (v3 % 4) * 64 + v4 = c
  BY <1>2, <1>3, <1>4, Zenon
<1> QED BY <1>5 DEF a, b, c, v1, v2, v3, v4

\* What a decoder gives back of the first p sextets.
Front(m, p) == [q \in 1..((6 * p) \div 8) |-> At(m, q)]

\* how many bytes a number of sextets makes
LEMMA FrontLength ==
  ASSUME NEW q \in Nat
  PROVE  /\ (6 * (4 * q)) \div 8 = 3 * q /\ (6 * (4 * q + 1)) \div 8 = 3 * q
         /\ (6 * (4 * q + 2)) \div 8 = 3 * q + 1 /\ (6 * (4 * q + 3)) \div 8 = 3 * q + 2
OBVIOUS

\* what the first p sextets tell of the message
LEMMA FrontOf ==
  ASSUME NEW m \in Seq(0..255), NEW p \in 0..Sextets(Len(m))
  PROVE  /\ (6 * p) \div 8 \in 0..Len(m)
         /\ Front(m, p) = SubSeq(m, 1, (6 * p) \div 8) /\ Len(Front(m, p)) = (6 * p) \div 8
         /\ p = Sextets(Len(m)) => (6 * p) \div 8 = Len(m) /\ Front(m, p) = m
<1> DEFINE n == Len(m)
           j == (6 * p) \div 8
           f == Front(m, p)
<1>1. n \in Nat
  BY LenProperties
<1>2. j \in 0..n /\ j \in Nat /\ (p = Sextets(n) => j = n)
  <2> HIDE DEF n
  <2> DEFINE q == n \div 3
             r == n % 3
  <2>1. /\ q \in Nat /\ r \in {0, 1, 2} /\ n = 3 * q + r
        /\ r = 0 => Sextets(n) = 4 * q
        /\ r = 1 => Sextets(n) = 4 * q + 2
        /\ r = 2 => Sextets(n) = 4 * q + 3
    BY <1>1, Lengths
  <2> HIDE DEF q, r
  <2>2. p \in Nat /\ p <= Sextets(n) /\ Sextets(n) \in Nat
    <3>1. Sextets(n) \in Nat
      BY <1>1, Lengths
    <3> QED BY <3>1 DEF n
  <2>3. CASE r = 0
    BY <2>1, <2>2, <2>3
  <2>4. CASE r = 1
    BY <2>1, <2>2, <2>4
  <2>5. CASE r = 2
    BY <2>1, <2>2, <2>5
  <2> QED BY <2>1, <2>3, <2>4, <2>5
<1>3. f = [q \in 1..j |-> At(m, q)]
  BY Zenon DEF Front
<1> HIDE DEF j, f
<1>4. \A q \in 1..j : q \in 1..n /\ At(m, q) = m[q] /\ m[q] \in 0..255
  <2> TAKE q \in 1..j
  <2>1. q \in 1..n
    BY <1>1, <1>2
  <2> QED BY <2>1, ElementOfSeq DEF At
<1>5. f \in [1..j -> 0..255] /\ \A q \in 1..j : f[q] = m[q]
  BY <1>3, <1>4
<1> DEFINE S == 0..255
<1>6. m \in Seq(S) /\ f \in [1..j -> S]
  BY <1>5
<1> HIDE DEF S
<1>7. SubSeq(m, 1, j) = f /\ Len(f) = j
  BY <1>2, <1>5, <1>6, SameFront, FunctionSeq DEF n
<1>8. j = n => f = m
  BY <1>7, SubSeqFull DEF n
<1> QED BY <1>2, <1>7, <1>8 DEF j, f, n

\* The text of a message, cut short, has p sextets and behind them only pads.
Arrival(m, L) == SubSeq(Text(m), 1, L)
Kept(m, L) == IF L <= Sextets(Len(m)) THEN L ELSE Sextets(Len(m))

\* a text cut short, character by character
LEMMA ArrivalIs ==
  ASSUME NEW m \in Seq(0..255), NEW L \in 0..TextLength(Len(m))
  PROVE  LET w == Arrival(m, L)
             p == Kept(m, L)
         IN /\ w \in Seq(1..255) /\ Len(w) = L
            /\ p \in 0..L /\ p \in 0..Sextets(Len(m))
            /\ \A k \in 1..p : w[k] = Char(Sextet(m, k)) /\ Sextet(m, k) \in 0..63
            /\ \A k \in (p + 1)..L : w[k] = Pad
            /\ p # L => p = Sextets(Len(m)) /\ L > p
            /\ p % 4 \in {0, 1} => p = L
            /\ p % 4 \in {2, 3} => L <= p + 4 - (p % 4)
<1> DEFINE n == Len(m)
           w == Arrival(m, L)
           p == Kept(m, L)
           c == Sextets(n)
           z == TextLength(n)
<1>1. n \in Nat
  BY LenProperties
<1>2. c \in Nat /\ z \in Nat /\ c <= z
  BY <1>1, Lengths
<1>3. p = IF L <= c THEN L ELSE c
  BY DEF Kept
<1>4. p \in 0..L /\ p \in 0..c /\ (p # L => p = c /\ L > p)
  <2> HIDE DEF c, p
  <2> QED BY <1>2, <1>3
<1>5. /\ p % 4 \in {0, 1} => p = L
      /\ p % 4 \in {2, 3} => L <= p + 4 - (p % 4)
  <2> DEFINE q == n \div 3
             r == n % 3
  <2>1. /\ q \in Nat /\ r \in {0, 1, 2}
        /\ r = 0 => c = 4 * q /\ z = 4 * q
        /\ r = 1 => c = 4 * q + 2 /\ z = 4 * q + 4
        /\ r = 2 => c = 4 * q + 3 /\ z = 4 * q + 4
    BY <1>1, Lengths
  <2>2. L \in 0..z
    OBVIOUS
  <2> HIDE DEF q, r, c, z, p, n
  <2>3. ASSUME p # L
        PROVE  \/ p % 4 = 2 /\ L <= p + 2
               \/ p % 4 = 3 /\ L <= p + 1
    <3>1. p = c /\ L > p
      BY <1>4, <2>3
    <3>2. CASE r = 0
      BY <1>2, <2>1, <2>2, <3>1, <3>2
    <3>3. CASE r = 1
      <4>1. c % 4 = 2
        BY <2>1, <3>3
      <4> QED BY <1>2, <2>1, <2>2, <3>1, <3>3, <4>1
    <3>4. CASE r = 2
      <4>1. c % 4 = 3
        BY <2>1, <3>4
      <4> QED BY <1>2, <2>1, <2>2, <3>1, <3>4, <4>1
    <3> QED BY <2>1, <3>2, <3>3, <3>4
  <2>4. p \in Nat /\ L \in Nat /\ p <= L
    BY <1>2, <1>4, <2>2
  <2> QED BY <2>3, <2>4
<1>6. /\ Text(m) \in Seq(1..255) /\ Len(Text(m)) = z
      /\ \A k \in 1..z : Text(m)[k] = IF k <= c THEN Char(Sextet(m, k)) ELSE Pad
  BY TextIs
<1>7. w \in Seq(1..255) /\ Len(w) = L /\ \A k \in 1..L : w[k] = Text(m)[k]
  <2> DEFINE S == 1..255
             t == Text(m)
  <2>1. t \in Seq(S) /\ L \in 0..Len(t)
    BY <1>6
  <2>2. w = SubSeq(t, 1, L)
    BY DEF Arrival
  <2> HIDE DEF S, t, w
  <2>3. w \in Seq(S) /\ Len(w) = L /\ \A k \in 1..L : w[k] = t[k]
    BY <2>1, <2>2, FrontIs
  <2> QED BY <2>3 DEF S, t
<1> HIDE DEF p, w, c, z
<1>8. \A k \in 1..p : w[k] = Char(Sextet(m, k)) /\ Sextet(m, k) \in 0..63
  <2> TAKE k \in 1..p
  <2>1. k \in 1..L /\ k \in 1..z /\ k <= c /\ k \in Nat \ {0}
    BY <1>2, <1>4
  <2> QED BY <1>6, <1>7, <2>1, SextetIs
<1>9. \A k \in (p + 1)..L : w[k] = Pad
  <2> TAKE k \in (p + 1)..L
  <2>1. p # L /\ k \in 1..L
    BY <1>4
  <2>2. k \in 1..z /\ ~ (k <= c)
    BY <1>2, <1>4, <2>1 DEF z
  <2> QED BY <1>6, <1>7, <2>1, <2>2
<1> QED BY <1>4, <1>5, <1>7, <1>8, <1>9 DEF p, w, c, n

Joins(s, t, n, f) ==
  /\ n = Len(s) + Len(t)
  /\ \A i \in 1..n : f[i] = IF i <= Len(s) THEN s[i] ELSE t[i - Len(s)]

\* the same as JoinedIs, from a named condition
LEMMA Joining ==
  ASSUME NEW S, NEW s \in Seq(S), NEW t \in Seq(S), NEW n \in Nat, NEW f \in [1..n -> S],
         Joins(s, t, n, f)
  PROVE  s \o t = f
BY JoinedIs DEF Joins

\* The bytes before the q-th group of four, and one byte more.
LEMMA OneMore ==
  ASSUME NEW m \in Seq(0..255), NEW p \in Nat, NEW x,
         (6 * (p + 1)) \div 8 = (6 * p) \div 8 + 1, x = At(m, (6 * p) \div 8 + 1)
  PROVE  Append(Front(m, p), x) = Front(m, p + 1)
<1> DEFINE S == 0..255
           f == Front(m, p)
           g == Front(m, p + 1)
           t == <<x>>
           q == (6 * p) \div 8
           j == q + 1
<1>0. q \in Nat
  OBVIOUS
<1>1. f = [i \in 1..q |-> At(m, i)] /\ g = [i \in 1..j |-> At(m, i)] /\ j \in Nat
  BY <1>0 DEF Front
<1> HIDE DEF q
<1>2. \A i \in 1..j : At(m, i) \in S
  <2> TAKE i \in 1..j
  <2>1. i \in Int
    BY <1>0
  <2> QED BY <2>1, ByteAt
<1>3. x \in S
  <2>1. q + 1 \in Int
    BY <1>0
  <2> QED BY <2>1, ByteAt DEF q
<1> HIDE DEF S, f, g
<1>4. f \in [1..q -> S] /\ g \in [1..j -> S] /\ \A i \in 1..q : i \in 1..j
  BY <1>0, <1>1, <1>2
<1>5. f \in Seq(S) /\ Len(f) = q
  BY <1>0, <1>4, FunctionSeq
<1>6. t \in Seq(S) /\ Len(t) = 1 /\ t[1] = x
  BY <1>3
<1> HIDE DEF t
<1>7. \A i \in 1..j : g[i] = IF i <= Len(f) THEN f[i] ELSE t[i - Len(f)]
  <2> TAKE i \in 1..j
  <2>1. CASE i <= q
    <3>1. i \in 1..q
      BY <2>1
    <3> QED BY <1>1, <1>5, <2>1, <3>1
  <2>2. CASE ~ (i <= q)
    <3>1. i = q + 1 /\ i - q = 1
      BY <1>0, <2>2
    <3>2. g[i] = x
      BY <1>1, <3>1 DEF q
    <3> QED BY <1>5, <1>6, <2>2, <3>1, <3>2
  <2> QED BY <2>1, <2>2
<1>8. j = Len(f) + Len(t)
  BY <1>5, <1>6
<1>9. f \o t = g
  <2>1. j \in Nat /\ g \in [1..j -> S] /\ f \in Seq(S) /\ t \in Seq(S)
    BY <1>1, <1>4, <1>5, <1>6
  <2>2. Joins(f, t, j, g)
    BY <1>7, <1>8 DEF Joins
  <2> HIDE DEF j
  <2> QED BY <2>1, <2>2, Joining, Zenon
<1>10. Append(f, x) = f \o t
  BY <1>5, <1>3, AppendIsConcat DEF t
<1> QED BY <1>9, <1>10 DEF f, g, j

\* What h_base64_decode has after k characters.
HPart(r, v) ==
  IF r = 0 THEN 0 ELSE IF r = 1 THEN v * 4 ELSE IF r = 2 THEN (v % 16) * 16 ELSE (v % 4) * 64
HAfter(m, k) == [out |-> Front(m, k), i |-> k % 4, part |-> HPart(k % 4, Sextet(m, k))]

\* what h_base64_decode keeps of a sextet for the next byte
LEMMA HParts ==
  ASSUME NEW v
  PROVE  /\ HPart(0, v) = 0 /\ HPart(1, v) = v * 4
         /\ HPart(2, v) = (v % 16) * 16 /\ HPart(3, v) = (v % 4) * 64
BY DEF HPart

\* the place of a character in its group of four
LEMMA QuarterOf ==
  ASSUME NEW k \in Nat
  PROVE  LET p == k \div 4 IN
         /\ p \in Nat /\ k % 4 \in {0, 1, 2, 3} /\ k = 4 * p + (k % 4)
         /\ k % 4 = 0 => k = 4 * p /\ (k + 1) % 4 = 1
         /\ k % 4 = 1 => k = 4 * p + 1 /\ (k + 1) % 4 = 2
         /\ k % 4 = 2 => k = 4 * p + 2 /\ (k + 1) % 4 = 3
         /\ k % 4 = 3 => k = 4 * p + 3 /\ (k + 1) % 4 = 0
OBVIOUS

\* h_base64_decode goes on with one character
LEMMA HTakes ==
  ASSUME NEW m \in Seq(0..255), NEW k \in Nat, NEW c,
         Index(IF c = 32 THEN 43 ELSE c) = Sextet(m, k + 1)
  PROVE  HTake(HAfter(m, k), c) = HAfter(m, k + 1)
<1> DEFINE p == k \div 4
           u == Sextet(m, k)
           v == Sextet(m, k + 1)
           s == HAfter(m, k)
           z == HAfter(m, k + 1)
           o == Front(m, k)
           r == (k + 1) % 4
<1>1. v \in 0..63
  <2>1. k + 1 \in Nat \ {0}
    OBVIOUS
  <2> QED BY <2>1, SextetIs
<1>2. /\ s.out = o /\ s.i = k % 4
      /\ s.part = HPart(k % 4, u)
      /\ s = [out |-> o, i |-> s.i, part |-> s.part]
  BY DEF HAfter
<1>3. z = [out |-> Front(m, k + 1), i |-> r, part |-> HPart(r, v)]
  BY DEF HAfter
<1> HIDE DEF s, z
<1>4. /\ s.i = 0 => HTake(s, c) = [out |-> o, i |-> 1, part |-> v * 4]
      /\ s.i = 1 => HTake(s, c) = [out |-> Append(o, s.part + v \div 16), i |-> 2, part |-> (v % 16) * 16]
      /\ s.i = 2 => HTake(s, c) = [out |-> Append(o, s.part + v \div 4), i |-> 3, part |-> (v % 4) * 64]
      /\ s.i = 3 => HTake(s, c) = [out |-> Append(o, s.part + v), i |-> 0, part |-> 0]
  <2>1. HTake(s, c) =
          CASE s.i = 0 -> [s EXCEPT !.i = 1, !.part = v * 4]
            [] s.i = 1 -> [out |-> Append(s.out, s.part + v \div 16), i |-> 2, part |-> (v % 16) * 16]
            [] s.i = 2 -> [out |-> Append(s.out, s.part + v \div 4), i |-> 3, part |-> (v % 4) * 64]
            [] OTHER   -> [out |-> Append(s.out, s.part + v), i |-> 0, part |-> 0]
    <3> HIDE DEF v
    <3>1. ~ (v < 0)
      BY <1>1
    <3> QED BY <3>1 DEF HTake, v
  <2> HIDE DEF v, o
  <2>2. s.out = o
    BY <1>2
  <2>3. s.i = 0 => HTake(s, c) = [s EXCEPT !.i = 1, !.part = v * 4]
    BY <2>1
  <2>4. [s EXCEPT !.i = 1, !.part = v * 4] = [out |-> o, i |-> 1, part |-> v * 4]
    <3> DEFINE a == s.i
               b == s.part
               w == v * 4
    <3>1. s = [out |-> o, i |-> a, part |-> b]
      BY <1>2
    <3> HIDE DEF a, b, s, w
    <3>2. [s EXCEPT !.i = 1, !.part = w] = [out |-> o, i |-> 1, part |-> w]
      <4>1. [[out |-> o, i |-> a, part |-> b] EXCEPT !.i = 1] = [out |-> o, i |-> 1, part |-> b]
        BY SMT
      <4>2. [[out |-> o, i |-> 1, part |-> b] EXCEPT !.part = w] = [out |-> o, i |-> 1, part |-> w]
        BY SMT
      <4> QED BY <3>1, <4>1, <4>2, Zenon
    <3> QED BY <3>2 DEF w
  <2>5. s.i = 1 => HTake(s, c) = [out |-> Append(o, s.part + v \div 16), i |-> 2, part |-> (v % 16) * 16]
    BY <2>1, <2>2
  <2>6. s.i = 2 => HTake(s, c) = [out |-> Append(o, s.part + v \div 4), i |-> 3, part |-> (v % 4) * 64]
    BY <2>1, <2>2
  <2>7. s.i = 3 => HTake(s, c) = [out |-> Append(o, s.part + v), i |-> 0, part |-> 0]
    BY <2>1, <2>2
  <2> QED BY <2>3, <2>4, <2>5, <2>6, <2>7
<1>5. /\ p \in Nat /\ k % 4 \in {0, 1, 2, 3}
      /\ k % 4 = 0 => k = 4 * p /\ r = 1
      /\ k % 4 = 1 => k = 4 * p + 1 /\ r = 2
      /\ k % 4 = 2 => k = 4 * p + 2 /\ r = 3
      /\ k % 4 = 3 => k = 4 * p + 3 /\ r = 0
  BY QuarterOf
<1> HIDE DEF p
<1>6. /\ (6 * (4 * p)) \div 8 = 3 * p /\ (6 * (4 * p + 1)) \div 8 = 3 * p
      /\ (6 * (4 * p + 2)) \div 8 = 3 * p + 1 /\ (6 * (4 * p + 3)) \div 8 = 3 * p + 2
      /\ (6 * (4 * (p + 1))) \div 8 = 3 * (p + 1)
  BY <1>5, FrontLength
<1>7. /\ Sextet(m, 4 * p + 1) * 4 + Sextet(m, 4 * p + 2) \div 16 = At(m, 3 * p + 1)
      /\ (Sextet(m, 4 * p + 2) % 16) * 16 + Sextet(m, 4 * p + 3) \div 4 = At(m, 3 * p + 2)
      /\ (Sextet(m, 4 * p + 3) % 4) * 64 + Sextet(m, 4 * p + 4) = At(m, 3 * p + 3)
  BY <1>5, BytesOfSextets
<1> HIDE DEF r
<1>8. CASE k % 4 = 0
  <2>1. k = 4 * p /\ r = 1 /\ k + 1 = 4 * p + 1
    BY <1>5, <1>8
  <2>2. Front(m, k + 1) = o
    BY <1>6, <2>1 DEF Front
  <2>3. z = [out |-> o, i |-> 1, part |-> v * 4]
    <3> HIDE DEF o, v
    <3> QED BY <1>3, <2>1, <2>2, HParts, Zenon
  <2>4. HTake(s, c) = [out |-> o, i |-> 1, part |-> v * 4]
    BY <1>2, <1>4, <1>8, Zenon
  <2> HIDE DEF o, v
  <2> QED BY <2>3, <2>4 DEF s, z
<1>9. CASE k % 4 = 1
  <2>1. k = 4 * p + 1 /\ r = 2 /\ k + 1 = 4 * p + 2 /\ s.part = u * 4
    <3> HIDE DEF u
    <3> QED BY HParts, <1>2, <1>5, <1>9
  <2>2. s.part + v \div 16 = At(m, 3 * p + 1)
    BY <1>7, <2>1
  <2>3. Append(o, s.part + v \div 16) = Front(m, k + 1)
    <3>1. (6 * k) \div 8 = 3 * p /\ (6 * (k + 1)) \div 8 = 3 * p + 1
      BY <1>5, <1>6, <2>1
    <3>2. (6 * (k + 1)) \div 8 = (6 * k) \div 8 + 1 /\ s.part + v \div 16 = At(m, (6 * k) \div 8 + 1)
      BY <2>2, <3>1, Zenon
    <3> HIDE DEF v
    <3> QED BY <3>2, OneMore, Zenon
  <2>4. z = [out |-> Append(o, s.part + v \div 16), i |-> 2, part |-> (v % 16) * 16]
    <3> HIDE DEF o, v
    <3> QED BY <1>3, <2>1, <2>3, HParts, Zenon
  <2>5. HTake(s, c) = [out |-> Append(o, s.part + v \div 16), i |-> 2, part |-> (v % 16) * 16]
    BY <1>2, <1>4, <1>9, Zenon
  <2> HIDE DEF o, v
  <2> QED BY <2>4, <2>5 DEF s, z
<1>10. CASE k % 4 = 2
  <2>1. k = 4 * p + 2 /\ r = 3 /\ k + 1 = 4 * p + 3 /\ s.part = (u % 16) * 16
    <3> HIDE DEF u
    <3> QED BY HParts, <1>2, <1>5, <1>10
  <2>2. s.part + v \div 4 = At(m, 3 * p + 2)
    BY <1>7, <2>1
  <2>3. Append(o, s.part + v \div 4) = Front(m, k + 1)
    <3> DEFINE q == 3 * p + 1
    <3>1. (6 * k) \div 8 = q /\ (6 * (k + 1)) \div 8 = q + 1 /\ q + 1 = 3 * p + 2
      BY <1>5, <1>6, <2>1
    <3>2. (6 * (k + 1)) \div 8 = (6 * k) \div 8 + 1 /\ s.part + v \div 4 = At(m, (6 * k) \div 8 + 1)
      BY <2>2, <3>1, Zenon
    <3> HIDE DEF v, q
    <3> QED BY <3>2, OneMore, Zenon
  <2>4. z = [out |-> Append(o, s.part + v \div 4), i |-> 3, part |-> (v % 4) * 64]
    <3> HIDE DEF o, v
    <3> QED BY <1>3, <2>1, <2>3, HParts, Zenon
  <2>5. HTake(s, c) = [out |-> Append(o, s.part + v \div 4), i |-> 3, part |-> (v % 4) * 64]
    BY <1>2, <1>4, <1>10, Zenon
  <2> HIDE DEF o, v
  <2> QED BY <2>4, <2>5 DEF s, z
<1>11. CASE k % 4 = 3
  <2>1. k = 4 * p + 3 /\ r = 0 /\ k + 1 = 4 * p + 4 /\ s.part = (u % 4) * 64
    <3> HIDE DEF u
    <3> QED BY HParts, <1>2, <1>5, <1>11
  <2>2. s.part + v = At(m, 3 * p + 3)
    BY <1>7, <2>1
  <2>3. Append(o, s.part + v) = Front(m, k + 1)
    <3> DEFINE q == 3 * p + 2
    <3>1. (6 * k) \div 8 = q /\ (6 * (k + 1)) \div 8 = q + 1 /\ q + 1 = 3 * p + 3
      BY <1>5, <1>6, <2>1
    <3>2. (6 * (k + 1)) \div 8 = (6 * k) \div 8 + 1 /\ s.part + v = At(m, (6 * k) \div 8 + 1)
      BY <2>2, <3>1, Zenon
    <3> HIDE DEF v, q
    <3> QED BY <3>2, OneMore, Zenon
  <2>4. z = [out |-> Append(o, s.part + v), i |-> 0, part |-> 0]
    <3> HIDE DEF o, v
    <3> QED BY <1>3, <2>1, <2>3, HParts, Zenon
  <2>5. HTake(s, c) = [out |-> Append(o, s.part + v), i |-> 0, part |-> 0]
    BY <1>2, <1>4, <1>11, Zenon
  <2> HIDE DEF o, v
  <2> QED BY <2>4, <2>5 DEF s, z
<1> QED BY <1>5, <1>8, <1>9, <1>10, <1>11

\* a text has no zeros in it
LEMMA NonZero ==
  ASSUME NEW t \in Seq(1..255)
  PROVE  t \in Seq(0..255) /\ UpToNul(t) = t
<1> DEFINE n == Len(t)
<1>1. n \in Nat /\ t \in [1..n -> 1..255]
  BY LenProperties
<1>2. t \in [1..n -> 0..255]
  BY <1>1
<1> HIDE DEF n
<1>3. t \in Seq(0..255)
  BY <1>1, <1>2, FunctionSeq
<1> QED BY <1>3, UpToNulIs

\* h_base64_decode before its first character
LEMMA HBegins ==
  ASSUME NEW m \in Seq(0..255)
  PROVE  HAfter(m, 0) = [out |-> <<>>, i |-> 0, part |-> 0]
<1>1. 0 % 4 = 0 /\ (6 * 0) \div 8 = 0
  OBVIOUS
<1>2. Front(m, 0) = <<>>
  <2>1. [q \in 1..0 |-> At(m, q)] = <<>>
    OBVIOUS
  <2> QED BY <1>1, <2>1 DEF Front
<1> QED BY <1>1, <1>2, HParts DEF HAfter

\* the characters h_base64_decode takes for the sextets of a message
HChars(m, h) == \A k \in 1..Len(h) : Index(IF h[k] = 32 THEN 43 ELSE h[k]) = Sextet(m, k)

\* h_base64_decode after its last one
LEMMA HReaches ==
  ASSUME NEW m \in Seq(0..255), NEW h, Len(h) \in Nat, HChars(m, h)
  PROVE  LET after == CHOOSE after :
                        after = [k \in 0..Len(h) |->
                                   IF k = 0 THEN [out |-> <<>>, i |-> 0, part |-> 0]
                                   ELSE HTake(after[k - 1], h[k])]
         IN after[Len(h)] = HAfter(m, Len(h))
<1> DEFINE n == Len(h)
           e == [out |-> <<>>, i |-> 0, part |-> 0]
           Made(f) == f = [k \in 0..n |-> IF k = 0 THEN e ELSE HTake(f[k - 1], h[k])]
           w == [k \in 0..n |-> HAfter(m, k)]
           after == CHOOSE f : Made(f)
<1>1. n \in Nat
  OBVIOUS
<1>2. \A k \in 0..n : w[k] = HAfter(m, k)
  OBVIOUS
<1>3. w[0] = e
  <2>1. 0 \in 0..n
    BY <1>1
  <2> QED BY <1>2, <2>1, HBegins
<1>4. \A k \in 1..n : w[k] = HTake(w[k - 1], h[k])
  <2> TAKE k \in 1..n
  <2>1. k - 1 \in Nat /\ k - 1 \in 0..n /\ k \in 0..n /\ k - 1 + 1 = k
    BY <1>1
  <2> DEFINE j == k - 1
  <2>2. Index(IF h[k] = 32 THEN 43 ELSE h[k]) = Sextet(m, j + 1)
    BY <2>1 DEF HChars
  <2> HIDE DEF j
  <2>3. HTake(HAfter(m, j), h[k]) = HAfter(m, j + 1)
    BY <2>1, <2>2, HTakes DEF j
  <2> HIDE DEF w
  <2> QED BY <1>2, <2>1, <2>3 DEF j
<1>5. Made(w)
  <2>1. w = [k \in 0..n |-> w[k]]
    OBVIOUS
  <2>2. \A k \in 0..n : w[k] = IF k = 0 THEN e ELSE HTake(w[k - 1], h[k])
    <3> HIDE DEF w, e
    <3> TAKE k \in 0..n
    <3>1. k = 0 \/ k \in 1..n
      BY <1>1
    <3> QED BY <1>1, <1>3, <1>4, <3>1
  <2> HIDE DEF w, e
  <2> QED BY <2>1, <2>2
<1>6. Made(after)
  <2> HIDE DEF Made, w
  <2> QED BY <1>5
<1>7. after[0] = w[0] /\ \A k \in 1..n : after[k - 1] = w[k - 1] => after[k] = w[k]
  <2> HIDE DEF w, e, after
  <2>1. 0 \in 0..n /\ \A k \in 1..n : k \in 0..n /\ k # 0
    BY <1>1
  <2>2. after[0] = e
    BY <1>6, <2>1
  <2>3. \A k \in 1..n : after[k] = HTake(after[k - 1], h[k])
    BY <1>6, <2>1
  <2> HIDE DEF Made
  <2> QED BY <1>3, <1>4, <2>2, <2>3
<1>8. after[n] = w[n]
  <2> HIDE DEF after, w, n
  <2> QED BY <1>1, <1>7, Alike
<1>9. w[n] = HAfter(m, n)
  BY <1>1, <1>2
<1> QED BY <1>8, <1>9, Zenon

\* What reads like the text of a message, cut after L characters
HText(m, L, t) ==
  LET p == Kept(m, L) IN
  /\ Len(t) = L
  /\ \A k \in 1..p : t[k] # Pad /\ Index(IF t[k] = 32 THEN 43 ELSE t[k]) = Sextet(m, k)
  /\ \A k \in (p + 1)..L : t[k] = Pad

\* h_base64_decode gives back the bytes of the sextets that arrived.
LEMMA HDecodes ==
  ASSUME NEW m \in Seq(0..255), NEW L \in 0..TextLength(Len(m)),
         NEW t \in Seq(1..255), HText(m, L, t)
  PROVE  HDecode(t) = Front(m, Kept(m, L))
<1> DEFINE p == Kept(m, L)
           u == UpToNul(t)
           h == Until(u, {Pad})
           after == CHOOSE after :
                      after = [k \in 0..Len(h) |->
                                 IF k = 0 THEN [out |-> <<>>, i |-> 0, part |-> 0]
                                 ELSE HTake(after[k - 1], h[k])]
           s == after[Len(h)]
<1>1. HDecode(t) = IF h # u /\ s.i \in {0, 1} THEN NULL ELSE s.out
  BY Zenon DEF HDecode
<1>2. u = t
  BY NonZero
<1>3. /\ p \in 0..L /\ (p % 4 \in {0, 1} => p = L) /\ L \in Nat
  <2>1. L \in Nat
    BY LenProperties, Lengths
  <2> QED BY <2>1, ArrivalIs
<1> HIDE DEF p
<1>4. /\ Len(t) = L
      /\ \A k \in 1..p : t[k] # Pad /\ Index(IF t[k] = 32 THEN 43 ELSE t[k]) = Sextet(m, k)
      /\ \A k \in (p + 1)..L : t[k] = Pad
  BY Zenon DEF HText, p
<1>5. h = SubSeq(t, 1, p)
  <2>1. p = Len(t) \/ t[p + 1] \in {Pad}
    <3>1. p = L \/ p + 1 \in (p + 1)..L
      BY <1>3
    <3> QED BY <1>4, <3>1
  <2>2. p \in 0..Len(t) /\ \A i \in 1..p : t[i] \notin {Pad}
    BY <1>3, <1>4
  <2>3. Until(t, {Pad}) = SubSeq(t, 1, p)
    <3> DEFINE S == 1..255
               stop == {Pad}
    <3>1. t \in Seq(S) /\ p \in 0..Len(t) /\ (\A i \in 1..p : t[i] \notin stop)
          /\ (p = Len(t) \/ t[p + 1] \in stop)
      BY <2>1, <2>2
    <3> HIDE DEF S, stop
    <3>2. Until(t, stop) = SubSeq(t, 1, p)
      BY <3>1, UntilIs
    <3> QED BY <3>2 DEF stop
  <2> QED BY <1>2, <2>3
<1> HIDE DEF u, h
<1>6. Len(h) = p /\ \A i \in 1..p : h[i] = t[i]
  <2> DEFINE S == 1..255
  <2>1. t \in Seq(S) /\ p \in 0..Len(t)
    BY <1>3, <1>4
  <2> HIDE DEF S
  <2> QED BY <1>5, <2>1, FrontIs
<1>7. HChars(m, h)
  BY <1>4, <1>6 DEF HChars
<1>8. s = HAfter(m, p)
  <2>1. Len(h) \in Nat
    BY <1>3, <1>6
  <2>2. s = HAfter(m, Len(h))
    BY <1>7, <2>1, HReaches, Zenon
  <2> QED BY <1>6, <2>2
<1>9. s.out = Front(m, p) /\ s.i = p % 4
  BY <1>8 DEF HAfter
<1> HIDE DEF s
<1>10. ~ (h # u /\ s.i \in {0, 1})
  <2> SUFFICES ASSUME s.i \in {0, 1} PROVE h = u
    OBVIOUS
  <2>1. p = L
    BY <1>3, <1>9
  <2>2. h = t
    BY <1>4, <1>5, <2>1, SubSeqFull
  <2> QED BY <1>2, <2>2
<1> QED BY <1>1, <1>9, <1>10 DEF p

\* h_base64_decode gives back what has arrived, posted in a form or not
LEMMA HDecodesArrival ==
  ASSUME NEW m \in Seq(0..255), NEW L \in 0..TextLength(Len(m))
  PROVE  /\ HDecode(Arrival(m, L)) = Front(m, Kept(m, L))
         /\ HDecode(Posted(Arrival(m, L))) = Front(m, Kept(m, L))
<1> DEFINE t == Arrival(m, L)
           p == Kept(m, L)
<1>1. /\ t \in Seq(1..255) /\ Len(t) = L /\ p \in 0..L
      /\ \A k \in 1..p : t[k] = Char(Sextet(m, k)) /\ Sextet(m, k) \in 0..63
      /\ \A k \in (p + 1)..L : t[k] = Pad
  BY ArrivalIs
<1>2. L \in Nat
  BY LenProperties, Lengths, SMTT(20)
<1>3. ASSUME NEW k \in 1..p
      PROVE  /\ t[k] # Pad /\ t[k] # 32 /\ Index(t[k]) = Sextet(m, k) /\ k \in 1..L
  <2>1. t[k] = Char(Sextet(m, k)) /\ Sextet(m, k) \in 0..63 /\ k \in 1..L
    BY <1>1, <1>2
  <2> QED BY <2>1, Alphabet
<1> HIDE DEF t
<1>4. HText(m, L, t)
  BY <1>1, <1>3 DEF HText
<1>5. HDecode(t) = Front(m, p)
  BY <1>1, <1>4, HDecodes
<1> DEFINE w == Posted(t)
<1>6. DOMAIN t = 1..L
  BY <1>1, LenProperties
<1>7. w = [i \in 1..L |-> IF t[i] = 43 THEN 32 ELSE t[i]]
  BY <1>6 DEF Posted
<1>8. w \in Seq(1..255) /\ Len(w) = L
  <2>1. \A i \in 1..L : t[i] \in 1..255
    BY <1>1, ElementOfSeq
  <2> DEFINE S == 1..255
  <2>2. w \in [1..L -> S]
    BY <1>7, <2>1
  <2> HIDE DEF S, w
  <2>3. w \in Seq(S) /\ Len(w) = L
    BY <1>2, <2>2, FunctionSeq
  <2> QED BY <2>3 DEF S
<1>9. \A i \in 1..L : w[i] = IF t[i] = 43 THEN 32 ELSE t[i]
  BY <1>7
<1> HIDE DEF w
<1>10. HText(m, L, w)
  <2>1. \A k \in 1..p : w[k] # Pad /\ Index(IF w[k] = 32 THEN 43 ELSE w[k]) = Sextet(m, k)
    <3> TAKE k \in 1..p
    <3>1. t[k] # Pad /\ t[k] # 32 /\ Index(t[k]) = Sextet(m, k) /\ k \in 1..L
      BY <1>3
    <3>2. w[k] = IF t[k] = 43 THEN 32 ELSE t[k]
      BY <1>9, <3>1
    <3>3. w[k] # Pad /\ (IF w[k] = 32 THEN 43 ELSE w[k]) = t[k]
      BY <3>1, <3>2, PadIs
    <3> QED BY <3>1, <3>3
  <2>2. \A k \in (p + 1)..L : w[k] = Pad
    <3> TAKE k \in (p + 1)..L
    <3>1. t[k] = Pad /\ k \in 1..L
      BY <1>1, <1>2
    <3>2. w[k] = IF t[k] = 43 THEN 32 ELSE t[k]
      BY <1>9, <3>1
    <3> QED BY <3>1, <3>2, PadIs
  <2> QED BY <1>8, <2>1, <2>2 DEF HText
<1>11. HDecode(w) = Front(m, p)
  BY <1>8, <1>10, HDecodes
<1> QED BY <1>5, <1>11 DEF t, p, w

\* the last 16 bits of three groups of six
Three(x, y, z) == (x % 16) * 4096 + y * 64 + z
Shifted4(v, w) == (v * 64 + w) % 65536

\* a sextet is made of two bits and four
LEMMA Remainders ==
  ASSUME NEW x \in 0..63
  PROVE  x % 16 \in 0..15 /\ x \div 16 \in 0..3 /\ x = (x \div 16) * 16 + (x % 16)
OBVIOUS

Dropped(x, y, z, w) == Shifted4(Three(x, y, z), w) = Three(y, z, w)

\* the bits b_base64_decode loses out of val are those it has written
LEMMA Drops ==
  ASSUME NEW x \in 0..63, NEW y \in 0..63, NEW z \in 0..63, NEW w \in 0..63
  PROVE  Dropped(x, y, z, w)
<1> DEFINE a == x % 16
           b == y \div 16
           c == y % 16
<1>1. a \in 0..15 /\ b \in 0..3 /\ c \in 0..15 /\ y = b * 16 + c
  BY Remainders
<1>2. Three(x, y, z) = a * 4096 + y * 64 + z /\ Three(y, z, w) = c * 4096 + z * 64 + w
  BY DEF Three
<1> HIDE DEF a, b, c
<1> DEFINE t == c * 4096 + z * 64 + w
<1>3. (a * 4096 + y * 64 + z) * 64 + w = 65536 * (4 * a + b) + t
  BY <1>1, SMT
<1>4. t \in Nat /\ t < 65536
  BY <1>1, SMT
<1> DEFINE d == 4 * a + b
<1>5. d \in Nat
  BY <1>1
<1> HIDE DEF t, d
<1>6. (65536 * d + t) % 65536 = t
  BY <1>4, <1>5, SMT
<1> QED BY <1>2, <1>3, <1>6, SMT DEF Dropped, Shifted4, t, d

Taken(x, y, v) ==
  /\ (v \div 16) % 256 = x * 4 + y \div 16
  /\ (v \div 4) % 256 = (x % 16) * 16 + y \div 4
  /\ (v \div 1) % 256 = (x % 4) * 64 + y

\* the byte b_base64_decode takes out of val is the one between two sextets
LEMMA Takes ==
  ASSUME NEW x \in 0..63, NEW y \in 0..63, NEW z \in 0..63
  PROVE  Taken(y, z, Three(x, y, z))
<1> DEFINE a == x % 16
           v == Three(x, y, z)
<1>1. a \in 0..15
  BY Remainders
<1>2. v = a * 4096 + y * 64 + z
  BY DEF Three
<1> HIDE DEF a, v
<1>3. v \in Nat
  BY <1>1, <1>2
<1>4. (v \div 16) % 256 = y * 4 + z \div 16
  <2>1. v \div 16 = a * 256 + (y * 4 + z \div 16)
    BY <1>1, <1>2
  <2>2. y * 4 + z \div 16 \in 0..255
    OBVIOUS
  <2> DEFINE e == y * 4 + z \div 16
  <2> HIDE DEF e
  <2>3. (a * 256 + e) % 256 = e
    BY <1>1, <2>2 DEF e
  <2> QED BY <2>1, <2>3 DEF e
<1>5. (v \div 4) % 256 = (y % 16) * 16 + z \div 4
  <2> DEFINE g == y \div 16
             h == y % 16
             e == h * 16 + z \div 4
  <2>1. g \in 0..3 /\ h \in 0..15 /\ y = g * 16 + h
    BY Remainders
  <2> HIDE DEF g, h
  <2>2. v \div 4 = 256 * (a * 4 + g) + e /\ e \in 0..255
    BY <1>1, <1>2, <2>1
  <2> DEFINE f == a * 4 + g
  <2>3. f \in Nat
    BY <1>1, <2>1
  <2> HIDE DEF e, f
  <2>4. (256 * f + e) % 256 = e
    BY <2>2, <2>3
  <2> QED BY <2>2, <2>4 DEF e, f, h
<1>6. (v \div 1) % 256 = (y % 4) * 64 + z
  <2> DEFINE g == y \div 4
             h == y % 4
             e == h * 64 + z
  <2>1. g \in 0..15 /\ h \in 0..3 /\ y = g * 4 + h
    OBVIOUS
  <2> HIDE DEF g, h
  <2>2. v \div 1 = 256 * (a * 16 + g) + e /\ e \in 0..255
    BY <1>1, <1>2, <2>1
  <2> DEFINE f == a * 16 + g
  <2>3. f \in Nat
    BY <1>1, <2>1
  <2> HIDE DEF e, f
  <2>4. (256 * f + e) % 256 = e
    BY <2>2, <2>3
  <2> QED BY <2>2, <2>4 DEF e, f, h
<1> QED BY <1>4, <1>5, <1>6 DEF Taken, v

\* What b_base64_decode has after k characters.
Group6(m, k) == IF k \in Nat \ {0} THEN Sextet(m, k) ELSE 0
TBits(r) == IF r = 0 THEN -8 ELSE IF r = 1 THEN -2 ELSE IF r = 2 THEN -4 ELSE -6
TAfter(m, k) ==
  [val |-> Three(Group6(m, k - 2), Group6(m, k - 1), Group6(m, k)),
   valb |-> TBits(k % 4), out |-> Front(m, k)]

\* valb of b_base64_decode at the four places of a group
LEMMA TBitsAre == TBits(0) = -8 /\ TBits(1) = -2 /\ TBits(2) = -4 /\ TBits(3) = -6
BY DEF TBits

\* b_base64_decode with one character, by cases
LEMMA BTakeIs ==
  ASSUME NEW s, NEW c, NEW v, NEW b, v = Shifted4(s.val, Index(c)), b = s.valb + 6,
         s = [val |-> s.val, valb |-> s.valb, out |-> s.out]
  PROVE  /\ b >= 0 => BTake(s, c) = [val |-> v, valb |-> b - 8,
                                     out |-> Append(s.out, ShiftRight(v, b) % 256)]
         /\ ~ (b >= 0) => BTake(s, c) = [val |-> v, valb |-> b, out |-> s.out]
<1>1. v = (s.val * 64 + Index(c)) % 65536
  BY SMT DEF Shifted4
<1>2. BTake(s, c) = IF b >= 0
                      THEN [val |-> v, valb |-> b - 8, out |-> Append(s.out, ShiftRight(v, b) % 256)]
                      ELSE [s EXCEPT !.val = v, !.valb = b]
  BY <1>1, SMT DEF BTake
<1>3. [s EXCEPT !.val = v, !.valb = b] = [val |-> v, valb |-> b, out |-> s.out]
  <2> DEFINE x == s.val
             y == s.valb
             z == s.out
  <2>1. s = [val |-> x, valb |-> y, out |-> z]
    OBVIOUS
  <2> HIDE DEF x, y, z
  <2>2. [[val |-> x, valb |-> y, out |-> z] EXCEPT !.val = v] = [val |-> v, valb |-> y, out |-> z]
    BY SMT
  <2>3. [[val |-> v, valb |-> y, out |-> z] EXCEPT !.valb = b] = [val |-> v, valb |-> b, out |-> z]
    BY SMT
  <2> QED BY <2>1, <2>2, <2>3, Zenon DEF z
<1> QED BY <1>2, <1>3

\* b_base64_decode goes on with one character
LEMMA BTakes ==
  ASSUME NEW m \in Seq(0..255), NEW k \in Nat, NEW c, Index(c) = Sextet(m, k + 1)
  PROVE  BTake(TAfter(m, k), c) = TAfter(m, k + 1)
<1> DEFINE p == k \div 4
           x == Group6(m, k - 2)
           y == Group6(m, k - 1)
           z == Group6(m, k)
           w == Sextet(m, k + 1)
           s == TAfter(m, k)
           v == Three(y, z, w)
           b == s.valb + 6
           o == Front(m, k)
           r == (k + 1) % 4
<1>1. x \in 0..63 /\ y \in 0..63 /\ z \in 0..63 /\ w \in 0..63
  <2>1. ASSUME NEW j PROVE Group6(m, j) \in 0..63
    <3>1. CASE j \in Nat \ {0}
      BY <3>1, SextetIs DEF Group6
    <3>2. CASE j \notin Nat \ {0}
      BY <3>2 DEF Group6
    <3> QED BY <3>1, <3>2
  <2>2. k + 1 \in Nat \ {0}
    OBVIOUS
  <2> QED BY <2>1, <2>2, SextetIs
<1>2. s.val = Three(x, y, z) /\ s.valb = TBits(k % 4) /\ s.out = o
      /\ s = [val |-> s.val, valb |-> s.valb, out |-> s.out]
  BY DEF TAfter
<1>3. TAfter(m, k + 1) = [val |-> v, valb |-> TBits(r), out |-> Front(m, k + 1)]
  <2>1. (k + 1) - 2 = k - 1 /\ (k + 1) - 1 = k /\ k + 1 \in Nat \ {0}
    OBVIOUS
  <2>2. Group6(m, k + 1) = w
    BY <2>1 DEF Group6
  <2>3. Group6(m, (k + 1) - 2) = y /\ Group6(m, (k + 1) - 1) = z
    BY <2>1, Zenon
  <2>4. TAfter(m, k + 1) =
          [val |-> Three(Group6(m, (k + 1) - 2), Group6(m, (k + 1) - 1), Group6(m, k + 1)),
           valb |-> TBits(r), out |-> Front(m, k + 1)]
    BY Zenon DEF TAfter
  <2> HIDE DEF x, y, z, w, r
  <2> QED BY <2>2, <2>3, <2>4, Zenon
<1>4. Shifted4(s.val, Index(c)) = v
  <2> HIDE DEF x, y, z, w, s
  <2>1. Dropped(x, y, z, w)
    BY <1>1, Drops, ZenonT(40)
  <2> QED BY <1>2, <2>1, ZenonT(40) DEF Dropped, v, w
<1>5. Taken(z, w, v)
  <2> HIDE DEF y, z, w
  <2> QED BY <1>1, Takes, Zenon
<1> HIDE DEF s, v
<1>6. /\ b >= 0 => BTake(s, c) = [val |-> v, valb |-> b - 8,
                                  out |-> Append(o, ShiftRight(v, b) % 256)]
      /\ ~ (b >= 0) => BTake(s, c) = [val |-> v, valb |-> b, out |-> o]
  <2>1. b = s.valb + 6
    OBVIOUS
  <2> HIDE DEF b, o
  <2>2. /\ b >= 0 => BTake(s, c) = [val |-> v, valb |-> b - 8,
                                    out |-> Append(s.out, ShiftRight(v, b) % 256)]
        /\ ~ (b >= 0) => BTake(s, c) = [val |-> v, valb |-> b, out |-> s.out]
    BY <1>2, <1>4, <2>1, BTakeIs, SMTT(20)
  <2> QED BY <1>2, <2>2
<1>7. /\ p \in Nat /\ k % 4 \in {0, 1, 2, 3}
      /\ k % 4 = 0 => k = 4 * p /\ r = 1
      /\ k % 4 = 1 => k = 4 * p + 1 /\ r = 2
      /\ k % 4 = 2 => k = 4 * p + 2 /\ r = 3
      /\ k % 4 = 3 => k = 4 * p + 3 /\ r = 0
  BY QuarterOf
<1> HIDE DEF p
<1>8. /\ (6 * (4 * p)) \div 8 = 3 * p /\ (6 * (4 * p + 1)) \div 8 = 3 * p
      /\ (6 * (4 * p + 2)) \div 8 = 3 * p + 1 /\ (6 * (4 * p + 3)) \div 8 = 3 * p + 2
      /\ (6 * (4 * (p + 1))) \div 8 = 3 * (p + 1)
  BY <1>7, FrontLength
<1>9. /\ Sextet(m, 4 * p + 1) * 4 + Sextet(m, 4 * p + 2) \div 16 = At(m, 3 * p + 1)
      /\ (Sextet(m, 4 * p + 2) % 16) * 16 + Sextet(m, 4 * p + 3) \div 4 = At(m, 3 * p + 2)
      /\ (Sextet(m, 4 * p + 3) % 4) * 64 + Sextet(m, 4 * p + 4) = At(m, 3 * p + 3)
  BY <1>7, BytesOfSextets
<1>10. k > 0 => z = Sextet(m, k)
  BY DEF Group6
<1> HIDE DEF r, b, z
<1>11. b = TBits(k % 4) + 6
  BY <1>2 DEF b
<1>12. CASE k % 4 = 0
  <2>1. k = 4 * p /\ r = 1 /\ k + 1 = 4 * p + 1 /\ b = -2
    BY <1>7, <1>11, <1>12, TBitsAre
  <2>2. Front(m, k + 1) = o
    BY <1>8, <2>1 DEF Front
  <2>3. BTake(s, c) = [val |-> v, valb |-> -2, out |-> o]
    <3> HIDE DEF o
    <3> QED BY <1>6, <2>1
  <2>4. TBits(r) = -2
    BY <2>1, TBitsAre
  <2> QED BY <1>3, <2>2, <2>3, <2>4, Zenon DEF s
<1>13. ASSUME NEW e, b >= 0, ShiftRight(v, b) % 256 = e, b - 8 = TBits(r),
              (6 * (k + 1)) \div 8 = (6 * k) \div 8 + 1, e = At(m, (6 * k) \div 8 + 1)
       PROVE  BTake(s, c) = TAfter(m, k + 1)
  <2>1. Append(o, e) = Front(m, k + 1)
    BY <1>13, OneMore, Zenon
  <2>2. BTake(s, c) = [val |-> v, valb |-> TBits(r), out |-> Append(o, e)]
    <3>1. BTake(s, c) = [val |-> v, valb |-> b - 8, out |-> Append(o, ShiftRight(v, b) % 256)]
      BY <1>6, <1>13, Zenon
    <3> QED BY <1>13, <3>1, Zenon
  <2> QED BY <1>3, <2>1, <2>2, Zenon
<1>14. CASE k % 4 = 1
  <2>1. k = 4 * p + 1 /\ r = 2 /\ k + 1 = 4 * p + 2 /\ b = 4 /\ k > 0
    BY <1>7, <1>11, <1>14, TBitsAre
  <2> DEFINE e == z * 4 + w \div 16
  <2>2. ShiftRight(v, b) % 256 = e
    <3> HIDE DEF w
    <3> QED BY <1>5, <2>1, Shifting DEF Taken
  <2>3. e = At(m, 3 * p + 1)
    BY <1>9, <1>10, <2>1
  <2>4. b >= 0 /\ b - 8 = TBits(r)
    BY <2>1, TBitsAre
  <2>5. (6 * k) \div 8 = 3 * p /\ (6 * (k + 1)) \div 8 = 3 * p + 1
    BY <1>8, <2>1
  <2> HIDE DEF e
  <2>6. (6 * (k + 1)) \div 8 = (6 * k) \div 8 + 1 /\ e = At(m, (6 * k) \div 8 + 1)
    BY <2>3, <2>5, Zenon
  <2> QED BY <1>13, <2>2, <2>4, <2>6, Zenon DEF s
<1>15. CASE k % 4 = 2
  <2>1. k = 4 * p + 2 /\ r = 3 /\ k + 1 = 4 * p + 3 /\ b = 2 /\ k > 0
    BY <1>7, <1>11, <1>15, TBitsAre
  <2> DEFINE e == (z % 16) * 16 + w \div 4
  <2>2. ShiftRight(v, b) % 256 = e
    <3> HIDE DEF w
    <3> QED BY <1>5, <2>1, Shifting DEF Taken
  <2>3. e = At(m, 3 * p + 2)
    BY <1>9, <1>10, <2>1
  <2>4. b >= 0 /\ b - 8 = TBits(r)
    BY <2>1, TBitsAre
  <2>5. (6 * k) \div 8 = 3 * p + 1 /\ (6 * (k + 1)) \div 8 = 3 * p + 1 + 1 /\ 3 * p + 1 + 1 = 3 * p + 2
    BY <1>7, <1>8, <2>1
  <2> HIDE DEF e
  <2>6. (6 * (k + 1)) \div 8 = (6 * k) \div 8 + 1 /\ e = At(m, (6 * k) \div 8 + 1)
    BY <2>3, <2>5, Zenon
  <2> QED BY <1>13, <2>2, <2>4, <2>6, Zenon DEF s
<1>16. CASE k % 4 = 3
  <2>1. k = 4 * p + 3 /\ r = 0 /\ k + 1 = 4 * p + 4 /\ b = 0 /\ k > 0
    BY <1>7, <1>11, <1>16, TBitsAre
  <2> DEFINE e == (z % 4) * 64 + w
  <2>2. ShiftRight(v, b) % 256 = e
    <3> HIDE DEF w
    <3> QED BY <1>5, <2>1, Shifting DEF Taken
  <2>3. e = At(m, 3 * p + 3)
    BY <1>9, <1>10, <2>1
  <2>4. b >= 0 /\ b - 8 = TBits(r)
    BY <2>1, TBitsAre
  <2>5. (6 * k) \div 8 = 3 * p + 2 /\ (6 * (k + 1)) \div 8 = 3 * p + 2 + 1 /\ 3 * p + 2 + 1 = 3 * p + 3
    BY <1>7, <1>8, <2>1
  <2> HIDE DEF e
  <2>6. (6 * (k + 1)) \div 8 = (6 * k) \div 8 + 1 /\ e = At(m, (6 * k) \div 8 + 1)
    BY <2>3, <2>5, Zenon
  <2> QED BY <1>13, <2>2, <2>4, <2>6, Zenon DEF s
<1> QED BY <1>7, <1>12, <1>14, <1>15, <1>16 DEF s

\* up to the first character that is none of the alphabet there are sextets
LEMMA BeforeForeign ==
  ASSUME NEW m \in Seq(0..255), NEW L \in 0..TextLength(Len(m))
  PROVE  LET u == Until(Arrival(m, L), Foreign) IN
         /\ Len(u) = Kept(m, L) /\ Len(u) \in Nat
         /\ \A k \in 1..Len(u) : Index(u[k]) = Sextet(m, k)
<1> DEFINE t == Arrival(m, L)
           p == Kept(m, L)
           u == Until(t, Foreign)
           S == 1..255
<1>1. /\ t \in Seq(S) /\ Len(t) = L /\ p \in 0..L
      /\ \A k \in 1..p : t[k] = Char(Sextet(m, k)) /\ Sextet(m, k) \in 0..63
      /\ \A k \in (p + 1)..L : t[k] = Pad
  BY ArrivalIs, SMTT(20)
<1>2. L \in Nat
  BY LenProperties, Lengths
<1> HIDE DEF t, p, S
<1>3. \A k \in 1..p : t[k] \notin Foreign /\ Index(t[k]) = Sextet(m, k)
  <2> TAKE k \in 1..p
  <2>1. t[k] = Char(Sextet(m, k)) /\ Sextet(m, k) \in 0..63
    BY <1>1
  <2> QED BY <2>1, Alphabet
<1>4. p = Len(t) \/ t[p + 1] \in Foreign
  <2>1. p = L \/ p + 1 \in (p + 1)..L
    BY <1>1, <1>2
  <2> QED BY <1>1, <2>1, PadIs
<1>5. u = SubSeq(t, 1, p)
  <2>1. t \in Seq(S) /\ p \in 0..Len(t) /\ \A k \in 1..p : t[k] \notin Foreign
    BY <1>1, <1>3
  <2> QED BY <1>4, <2>1, UntilIs
<1>6. Len(u) = p /\ \A i \in 1..p : u[i] = t[i]
  <2>1. t \in Seq(S) /\ p \in 0..Len(t)
    BY <1>1
  <2> HIDE DEF u
  <2> QED BY <1>5, <2>1, FrontIs
<1>7. p \in Nat
  BY <1>1, <1>2
<1> HIDE DEF u
<1>8. \A k \in 1..p : Index(u[k]) = Sextet(m, k)
  BY <1>3, <1>6
<1> QED BY <1>6, <1>7, <1>8 DEF u, t, p

\* b_base64_decode before its first character
LEMMA TBegins ==
  ASSUME NEW m \in Seq(0..255)
  PROVE  TAfter(m, 0) = [val |-> 0, valb |-> -8, out |-> <<>>]
<1>1. 0 % 4 = 0 /\ (6 * 0) \div 8 = 0 /\ 0 - 2 \notin Nat \ {0} /\ 0 - 1 \notin Nat \ {0}
  OBVIOUS
<1>2. Front(m, 0) = <<>>
  <2>1. [q \in 1..0 |-> At(m, q)] = <<>>
    OBVIOUS
  <2> QED BY <1>1, <2>1 DEF Front
<1>3. Group6(m, 0 - 2) = 0 /\ Group6(m, 0 - 1) = 0 /\ Group6(m, 0) = 0
  BY <1>1 DEF Group6
<1>4. Three(0, 0, 0) = 0
  BY SMT DEF Three
<1>5. TAfter(m, 0) = [val |-> Three(0, 0, 0), valb |-> TBits(0), out |-> <<>>]
  BY <1>1, <1>2, <1>3 DEF TAfter
<1> QED BY <1>4, <1>5, TBitsAre

\* b_base64_decode after its last one
LEMMA TReaches ==
  ASSUME NEW m \in Seq(0..255), NEW h, Len(h) \in Nat,
         \A k \in 1..Len(h) : Index(h[k]) = Sextet(m, k)
  PROVE  LET after == CHOOSE after :
                        after = [k \in 0..Len(h) |->
                                   IF k = 0 THEN [val |-> 0, valb |-> -8, out |-> <<>>]
                                   ELSE BTake(after[k - 1], h[k])]
         IN after[Len(h)] = TAfter(m, Len(h))
<1> DEFINE n == Len(h)
           e == [val |-> 0, valb |-> -8, out |-> <<>>]
           Made(f) == f = [k \in 0..n |-> IF k = 0 THEN e ELSE BTake(f[k - 1], h[k])]
           w == [k \in 0..n |-> TAfter(m, k)]
           after == CHOOSE f : Made(f)
<1>1. n \in Nat
  OBVIOUS
<1>2. \A k \in 0..n : w[k] = TAfter(m, k)
  OBVIOUS
<1>3. w[0] = e
  <2>1. 0 \in 0..n
    BY <1>1
  <2> QED BY <1>2, <2>1, TBegins
<1>4. \A k \in 1..n : w[k] = BTake(w[k - 1], h[k])
  <2> TAKE k \in 1..n
  <2>1. k - 1 \in Nat /\ k - 1 \in 0..n /\ k \in 0..n /\ k - 1 + 1 = k
    BY <1>1
  <2> DEFINE j == k - 1
  <2>2. Index(h[k]) = Sextet(m, j + 1)
    BY <2>1
  <2> HIDE DEF j
  <2>3. BTake(TAfter(m, j), h[k]) = TAfter(m, j + 1)
    BY <2>1, <2>2, BTakes DEF j
  <2> HIDE DEF w
  <2> QED BY <1>2, <2>1, <2>3 DEF j
<1>5. Made(w)
  <2>1. w = [k \in 0..n |-> w[k]]
    OBVIOUS
  <2>2. \A k \in 0..n : w[k] = IF k = 0 THEN e ELSE BTake(w[k - 1], h[k])
    <3> HIDE DEF w, e
    <3> TAKE k \in 0..n
    <3>1. k = 0 \/ k \in 1..n
      BY <1>1
    <3> QED BY <1>1, <1>3, <1>4, <3>1
  <2> HIDE DEF w, e
  <2> QED BY <2>1, <2>2
<1>6. Made(after)
  <2> HIDE DEF Made, w
  <2> QED BY <1>5
<1>7. after[0] = w[0] /\ \A k \in 1..n : after[k - 1] = w[k - 1] => after[k] = w[k]
  <2> HIDE DEF w, e, after
  <2>1. 0 \in 0..n /\ \A k \in 1..n : k \in 0..n /\ k # 0
    BY <1>1
  <2>2. after[0] = e
    BY <1>6, <2>1
  <2>3. \A k \in 1..n : after[k] = BTake(after[k - 1], h[k])
    BY <1>6, <2>1
  <2> HIDE DEF Made
  <2> QED BY <1>3, <1>4, <2>2, <2>3
<1>8. after[n] = w[n]
  <2> HIDE DEF after, w, n
  <2> QED BY <1>1, <1>7, Alike
<1>9. w[n] = TAfter(m, n)
  BY <1>1, <1>2
<1> QED BY <1>8, <1>9, Zenon

\* b_base64_decode gives back the bytes of the sextets that arrived.
LEMMA BDecodes ==
  ASSUME NEW m \in Seq(0..255), NEW L \in 0..TextLength(Len(m))
  PROVE  BDecode(Arrival(m, L)) = Front(m, Kept(m, L))
<1> DEFINE u == Until(Arrival(m, L), Foreign)
           after == CHOOSE after :
                      after = [k \in 0..Len(u) |->
                                 IF k = 0 THEN [val |-> 0, valb |-> -8, out |-> <<>>]
                                 ELSE BTake(after[k - 1], u[k])]
           s == after[Len(u)]
<1>1. BDecode(Arrival(m, L)) = s.out
  BY Zenon DEF BDecode
<1>2. /\ Len(u) = Kept(m, L) /\ Len(u) \in Nat
      /\ \A k \in 1..Len(u) : Index(u[k]) = Sextet(m, k)
  BY BeforeForeign
<1>3. s = TAfter(m, Len(u))
  <2> HIDE DEF u
  <2> QED BY <1>2, TReaches, Zenon
<1> HIDE DEF s, u
<1>4. s.out = Front(m, Len(u))
  BY <1>3 DEF TAfter
<1> QED BY <1>1, <1>2, <1>4

Tripled(a, b, c, d) ==
  /\ Triple(a, b, c, d)[1] = a * 4 + b \div 16
  /\ c \in 0..63 => Triple(a, b, c, d)[2] = (b % 16) * 16 + c \div 4
  /\ c \in 0..63 /\ d \in 0..63 => Triple(a, b, c, d)[3] = (c % 4) * 64 + d

\* four sextets make three bytes
LEMMA TripleIs ==
  ASSUME NEW a \in 0..63, NEW b \in 0..63, NEW c, NEW d
  PROVE  Tripled(a, b, c, d)
<1>1. /\ Triple(a, b, c, d)[1] = (a * 4 + (b % 64) \div 16) % 256
      /\ Triple(a, b, c, d)[2] = ((b % 16) * 16 + (c % 64) \div 4) % 256
      /\ Triple(a, b, c, d)[3] = ((c % 4) * 64 + d) % 256
  BY Zenon DEF Triple
<1> DEFINE x == Triple(a, b, c, d)[1]
           y == Triple(a, b, c, d)[2]
           z == Triple(a, b, c, d)[3]
<1> HIDE DEF x, y, z
<1>2. b % 64 = b /\ (a * 4 + b \div 16) % 256 = a * 4 + b \div 16
  OBVIOUS
<1>3. ASSUME c \in 0..63
      PROVE  c % 64 = c /\ ((b % 16) * 16 + c \div 4) % 256 = (b % 16) * 16 + c \div 4
  BY <1>3
<1>4. ASSUME c \in 0..63, d \in 0..63
      PROVE  ((c % 4) * 64 + d) % 256 = (c % 4) * 64 + d
  BY <1>4
<1>5. x = a * 4 + b \div 16
  BY <1>1, <1>2, Zenon DEF x
<1>6. c \in 0..63 => y = (b % 16) * 16 + c \div 4
  BY <1>1, <1>3, Zenon DEF y
<1>7. c \in 0..63 /\ d \in 0..63 => z = (c % 4) * 64 + d
  BY <1>1, <1>4, Zenon DEF z
<1> QED BY <1>5, <1>6, <1>7, Zenon DEF x, y, z, Tripled

\* the place of a byte in its group of three
LEMMA Third ==
  ASSUME NEW k \in Nat \ {0}
  PROVE  /\ (k - 1) \div 3 \in Nat /\ (k - 1) % 3 \in {0, 1, 2}
         /\ k = 3 * ((k - 1) \div 3) + ((k - 1) % 3) + 1
<1> DEFINE x == k - 1
<1>1. x \in Nat /\ k = x + 1
  OBVIOUS
<1> HIDE DEF x
<1>2. x \div 3 \in Nat /\ x % 3 \in {0, 1, 2} /\ x = 3 * (x \div 3) + (x % 3)
  BY <1>1
<1> QED BY <1>1, <1>2 DEF x

\* base64_decode of test_bs64.cc gives back the bytes of the sextets that arrived.
LEMMA CDecodes ==
  ASSUME NEW m \in Seq(0..255), NEW L \in 0..TextLength(Len(m))
  PROVE  CDecode(Arrival(m, L)) = Front(m, Kept(m, L))
<1> DEFINE u == Until(Arrival(m, L), Foreign)
           p == Len(u)
           v(k) == IF k <= Len(u) THEN Index(u[k]) ELSE 255
           all == [k \in 1..(3 * ((Len(u) + 3) \div 4)) |->
                     LET i == 4 * ((k - 1) \div 3) IN
                       Triple(v(i + 1), v(i + 2), v(i + 3), v(i + 4))[((k - 1) % 3) + 1]]
           left == Len(u) % 4
           j == 3 * (Len(u) \div 4) + (IF left > 0 THEN left - 1 ELSE 0)
           n == 3 * ((p + 3) \div 4)
           a == p \div 4
<1>1. CDecode(Arrival(m, L)) = SubSeq(all, 1, j)
  BY Zenon DEF CDecode
<1>2. p = Kept(m, L) /\ p \in Nat /\ \A k \in 1..p : Index(u[k]) = Sextet(m, k)
  BY BeforeForeign
<1> HIDE DEF u
<1>3. \A k \in 1..p : v(k) = Sextet(m, k) /\ v(k) \in 0..63
  <2> TAKE k \in 1..p
  <2>1. k \in Nat \ {0} /\ k <= p
    BY <1>2
  <2>2. v(k) = Sextet(m, k)
    BY <1>2, <2>1
  <2> QED BY <2>1, <2>2, SextetIs
<1> HIDE DEF v
<1>4. a \in Nat /\ left \in {0, 1, 2, 3} /\ p = 4 * a + left
  BY <1>2, QuarterOf
<1>5. j = (6 * p) \div 8 /\ n \in Nat /\ j \in 0..n /\ j = 3 * a + (IF left > 0 THEN left - 1 ELSE 0)
  <2> HIDE DEF p, a, left
  <2>1. /\ (6 * (4 * a)) \div 8 = 3 * a /\ (6 * (4 * a + 1)) \div 8 = 3 * a
        /\ (6 * (4 * a + 2)) \div 8 = 3 * a + 1 /\ (6 * (4 * a + 3)) \div 8 = 3 * a + 2
    BY <1>4, FrontLength
  <2>2. j = 3 * a + (IF left > 0 THEN left - 1 ELSE 0)
    BY DEF a, left, p
  <2>3. n = IF left = 0 THEN 3 * a ELSE 3 * a + 3
    BY <1>4
  <2> HIDE DEF j, n
  <2>4. CASE left = 0
    BY <1>4, <2>1, <2>2, <2>3, <2>4
  <2>5. CASE left = 1
    BY <1>4, <2>1, <2>2, <2>3, <2>5
  <2>6. CASE left = 2
    BY <1>4, <2>1, <2>2, <2>3, <2>6
  <2>7. CASE left = 3
    BY <1>4, <2>1, <2>2, <2>3, <2>7
  <2> QED BY <1>4, <2>4, <2>5, <2>6, <2>7
<1>6. ASSUME NEW q \in 1..j
      PROVE  all[q] = At(m, q)
  <2> DEFINE g == (q - 1) \div 3
             r == (q - 1) % 3
             t == Triple(v(4 * g + 1), v(4 * g + 2), v(4 * g + 3), v(4 * g + 4))
  <2>1. q \in Nat \ {0} /\ q \in 1..n /\ q <= j
    <3> HIDE DEF j, n
    <3> QED BY <1>5
  <2>2. g \in Nat /\ r \in {0, 1, 2} /\ q = 3 * g + r + 1
    <3> HIDE DEF j, n
    <3> QED BY <2>1, Third
  <2>3. all[q] = t[r + 1]
    <3> HIDE DEF j, t
    <3>1. all[q] = LET i == 4 * ((q - 1) \div 3) IN
                   Triple(v(i + 1), v(i + 2), v(i + 3), v(i + 4))[((q - 1) % 3) + 1]
      BY <2>1
    <3> QED BY <3>1, Zenon DEF t
  <2> HIDE DEF g, r, t, all
  <2>4. 4 * g + 1 \in 1..p /\ 4 * g + 2 \in 1..p
    <3> HIDE DEF j, p, a, left
    <3> QED BY <1>2, <1>4, <1>5, <2>1, <2>2
  <2>5. r >= 1 => 4 * g + 3 \in 1..p
    <3> HIDE DEF j, p, a, left
    <3> QED BY <1>2, <1>4, <1>5, <2>1, <2>2
  <2>6. r = 2 => 4 * g + 4 \in 1..p
    <3> HIDE DEF j, p, a, left
    <3> QED BY <1>2, <1>4, <1>5, <2>1, <2>2
  <2>7. /\ Sextet(m, 4 * g + 1) * 4 + Sextet(m, 4 * g + 2) \div 16 = At(m, 3 * g + 1)
        /\ (Sextet(m, 4 * g + 2) % 16) * 16 + Sextet(m, 4 * g + 3) \div 4 = At(m, 3 * g + 2)
        /\ (Sextet(m, 4 * g + 3) % 4) * 64 + Sextet(m, 4 * g + 4) = At(m, 3 * g + 3)
    BY <2>2, BytesOfSextets
  <2> HIDE DEF p, j
  <2>8. v(4 * g + 1) \in 0..63 /\ v(4 * g + 2) \in 0..63 /\ v(4 * g + 1) = Sextet(m, 4 * g + 1)
        /\ v(4 * g + 2) = Sextet(m, 4 * g + 2)
    BY <1>3, <2>4
  <2>9. r >= 1 => v(4 * g + 3) \in 0..63 /\ v(4 * g + 3) = Sextet(m, 4 * g + 3)
    BY <1>3, <2>5
  <2>10. r = 2 => v(4 * g + 4) \in 0..63 /\ v(4 * g + 4) = Sextet(m, 4 * g + 4)
    BY <1>3, <2>6
  <2>11. /\ t[1] = v(4 * g + 1) * 4 + v(4 * g + 2) \div 16
         /\ v(4 * g + 3) \in 0..63 => t[2] = (v(4 * g + 2) % 16) * 16 + v(4 * g + 3) \div 4
         /\ v(4 * g + 3) \in 0..63 /\ v(4 * g + 4) \in 0..63 =>
              t[3] = (v(4 * g + 3) % 4) * 64 + v(4 * g + 4)
    <3> DEFINE v1 == v(4 * g + 1)
               v2 == v(4 * g + 2)
               v3 == v(4 * g + 3)
               v4 == v(4 * g + 4)
    <3>1. v1 \in 0..63 /\ v2 \in 0..63 /\ t = Triple(v1, v2, v3, v4)
      BY <2>8 DEF t
    <3> HIDE DEF v1, v2, v3, v4
    <3>0. Tripled(v1, v2, v3, v4)
      BY <3>1, TripleIs
    <3>2. /\ Triple(v1, v2, v3, v4)[1] = v1 * 4 + v2 \div 16
          /\ v3 \in 0..63 => Triple(v1, v2, v3, v4)[2] = (v2 % 16) * 16 + v3 \div 4
          /\ v3 \in 0..63 /\ v4 \in 0..63 => Triple(v1, v2, v3, v4)[3] = (v3 % 4) * 64 + v4
      BY <3>0, Zenon DEF Tripled
    <3> QED BY <3>1, <3>2, Zenon DEF v1, v2, v3, v4
  <2>12. CASE r = 0
    <3>1. q = 3 * g + 1 /\ r + 1 = 1
      BY <2>2, <2>12
    <3> QED BY <2>3, <2>7, <2>8, <2>11, <3>1, Zenon
  <2>13. CASE r = 1
    <3>1. q = 3 * g + 2 /\ r + 1 = 2 /\ r >= 1
      BY <2>2, <2>13
    <3> QED BY <2>3, <2>7, <2>8, <2>9, <2>11, <3>1, Zenon
  <2>14. CASE r = 2
    <3>1. q = 3 * g + 3 /\ r + 1 = 3 /\ r >= 1
      BY <2>2, <2>14
    <3> QED BY <2>3, <2>7, <2>8, <2>9, <2>10, <2>11, <2>14, <3>1, Zenon
  <2> QED BY <2>2, <2>12, <2>13, <2>14
<1> DEFINE S == Range(all)
           f == Front(m, p)
<1>7. f = [q \in 1..j |-> At(m, q)]
  BY <1>5 DEF Front
<1>8. all = [k \in 1..n |-> all[k]] /\ DOMAIN all = 1..n
  BY DEF n
<1> HIDE DEF all, f, j, n
<1> DEFINE T == {all[k] : k \in 1..n}
<1>9. all \in [1..n -> T]
  BY <1>8
<1>10. all \in Seq(T) /\ Len(all) = n
  <2> HIDE DEF T
  <2> QED BY <1>5, <1>9, FunctionSeq
<1>11. \A q \in 1..j : f[q] = all[q]
  BY <1>6, <1>7
<1>12. f \in [1..j -> T]
  <2>1. \A q \in 1..j : q \in 1..n
    BY <1>5
  <2> QED BY <1>6, <1>7, <2>1
<1>13. SubSeq(all, 1, j) = f
  <2>1. j \in 0..Len(all)
    BY <1>5, <1>10
  <2> HIDE DEF T
  <2> QED BY <1>10, <1>11, <1>12, <2>1, SameFront
<1> QED BY <1>1, <1>2, <1>13 DEF f

\* a value of six bits at a place, zero behind the last
Six(v, a) == IF a \in 1..Len(v) THEN v[a] ELSE 0

\* behind the end of the sextets there are zeros
LEMMA SixAt ==
  ASSUME NEW v \in Seq(0..63), NEW a
  PROVE  Six(v, a) \in 0..63
<1>1. CASE a \in 1..Len(v)
  <2>1. v[a] \in 0..63
    BY <1>1, ElementOfSeq
  <2> QED BY <1>1, <2>1 DEF Six
<1>2. CASE a \notin 1..Len(v)
  BY <1>2 DEF Six
<1> QED BY <1>1, <1>2

\* what the shifts and masks take out of a sextet
LEMMA SixBits ==
  ASSUME NEW x \in 0..63
  PROVE  LET y == BitsOf(x) IN
         /\ y[3] \in Int /\ y[4] \in Int /\ y[5] \in Int
         /\ y[6] \in Int /\ y[7] \in Int /\ y[8] \in Int
         /\ x = 32 * y[3] + 16 * y[4] + 8 * y[5] + 4 * y[6] + 2 * y[7] + y[8]
         /\ x \div 16 = 2 * y[3] + y[4] /\ x % 16 = 8 * y[5] + 4 * y[6] + 2 * y[7] + y[8]
         /\ x \div 4 = 8 * y[3] + 4 * y[4] + 2 * y[5] + y[6] /\ x % 4 = 2 * y[7] + y[8]
<1> DEFINE y == BitsOf(x)
           y1 == y[1]
           y2 == y[2]
           y3 == y[3]
           y4 == y[4]
           y5 == y[5]
           y6 == y[6]
           y7 == y[7]
           y8 == y[8]
<1>1. x \in 0..255
  OBVIOUS
<1>2. \A t \in 1..8 : y[t] \in 0..1
  <2> HIDE DEF y
  <2>1. LET z == BitsOf(x) IN \A t \in 1..8 : z[t] \in 0..1
    BY <1>1, ByteBits, Zenon
  <2> QED BY <2>1, Zenon DEF y
<1>3. /\ x \div 4 = 32 * y1 + 16 * y2 + 8 * y3 + 4 * y4 + 2 * y5 + y6
      /\ x % 4 = 2 * y7 + y8 /\ x \div 16 = 8 * y1 + 4 * y2 + 2 * y3 + y4
      /\ x % 16 = 8 * y5 + 4 * y6 + 2 * y7 + y8 /\ x \div 64 = 2 * y1 + y2
      /\ x % 64 = 32 * y3 + 16 * y4 + 8 * y5 + 4 * y6 + 2 * y7 + y8
  BY <1>1, ByteBits, Zenon
<1> HIDE DEF y
<1>4. /\ y1 \in 0..1 /\ y2 \in 0..1 /\ y3 \in 0..1 /\ y4 \in 0..1
      /\ y5 \in 0..1 /\ y6 \in 0..1 /\ y7 \in 0..1 /\ y8 \in 0..1
  BY <1>2
<1> HIDE DEF y1, y2, y3, y4, y5, y6, y7, y8
<1>5. x \div 64 = 0 /\ x % 64 = x
  OBVIOUS
<1>6. y1 = 0 /\ y2 = 0
  BY <1>3, <1>4, <1>5
<1>7. /\ y3 \in Int /\ y4 \in Int /\ y5 \in Int /\ y6 \in Int /\ y7 \in Int /\ y8 \in Int
      /\ x = 32 * y3 + 16 * y4 + 8 * y5 + 4 * y6 + 2 * y7 + y8
      /\ x \div 16 = 2 * y3 + y4 /\ x % 16 = 8 * y5 + 4 * y6 + 2 * y7 + y8
      /\ x \div 4 = 8 * y3 + 4 * y4 + 2 * y5 + y6 /\ x % 4 = 2 * y7 + y8
  BY <1>3, <1>4, <1>5, <1>6
<1> QED BY <1>7, Zenon DEF y3, y4, y5, y6, y7, y8, y

\* every bit of the sextets is one of the bits in a row
LEMMA SixBitAt ==
  ASSUME NEW v \in Seq(0..63), NEW q \in Nat, NEW t \in 1..6
  PROVE  /\ Len(Bits(v, 6)) = 6 * Len(v)
         /\ (IF 6 * q + t <= 6 * Len(v) THEN Bits(v, 6)[6 * q + t] ELSE 0)
              = BitsOf(Six(v, q + 1))[t + 2]
<1>1. Len(v) \in Nat
  OBVIOUS
<1> DEFINE n == 6 * Len(v)
           k == 6 * q + t
<1>2. n \in Nat /\ k \in Nat /\ k > 0
  BY <1>1
<1>3. Bits(v, 6) = [j \in 1..n |-> ShiftRight(v[(j - 1) \div 6 + 1], (6 - 1) - ((j - 1) % 6)) % 2]
  BY DEF Bits
<1>4. Len(Bits(v, 6)) = n
  <2> HIDE DEF n
  <2> QED BY <1>2, <1>3
<1>0. t + 2 \in 1..8
  OBVIOUS
<1>5. CASE k <= n
  <2>1. (k - 1) \div 6 + 1 = q + 1 /\ (6 - 1) - ((k - 1) % 6) = 8 - (t + 2)
    OBVIOUS
  <2>2. q + 1 \in 1..Len(v) /\ k \in 1..n
    BY <1>1, <1>2, <1>5
  <2> HIDE DEF n, k
  <2>3. Bits(v, 6)[k] = ShiftRight(v[(k - 1) \div 6 + 1], (6 - 1) - ((k - 1) % 6)) % 2
    BY <1>3, <2>2
  <2>4. Bits(v, 6)[k] = ShiftRight(v[q + 1], 8 - (t + 2)) % 2
    BY <2>1, <2>3, Zenon
  <2>5. BitsOf(v[q + 1])[t + 2] = ShiftRight(v[q + 1], 8 - (t + 2)) % 2
    BY <1>0, Zenon DEF BitsOf
  <2>6. Six(v, q + 1) = v[q + 1]
    BY <2>2 DEF Six
  <2>7. Bits(v, 6)[k] = BitsOf(Six(v, q + 1))[t + 2]
    BY <2>4, <2>5, <2>6, Zenon
  <2> QED BY <1>4, <1>5, <2>7, Zenon DEF k, n
<1>6. CASE ~ (k <= n)
  <2>1. Six(v, q + 1) = 0
    BY <1>1, <1>2, <1>6 DEF Six
  <2> HIDE DEF k, n
  <2>2. BitsOf(Six(v, q + 1))[t + 2] = 0
    BY <1>0, <2>1, ZeroBits
  <2> QED BY <1>4, <1>6, <2>2, Zenon DEF k, n
<1> QED BY <1>5, <1>6

\* the k-th byte of six-bit values
SixByte(v, k) ==
  LET g == (k - 1) \div 3
      r == (k - 1) % 3
  IN IF r = 0 THEN Six(v, 4 * g + 1) * 4 + Six(v, 4 * g + 2) \div 16
     ELSE IF r = 1 THEN (Six(v, 4 * g + 2) % 16) * 16 + Six(v, 4 * g + 3) \div 4
     ELSE (Six(v, 4 * g + 3) % 4) * 64 + Six(v, 4 * g + 4)

SixBitsAre(bit, v) ==
  \A q \in Nat : \A t \in 1..6 : bit[6 * q + t] = BitsOf(Six(v, q + 1))[t + 2]

\* eight bits in a row are the byte of two sextets
LEMMA BytesFromBits ==
  ASSUME NEW v \in Seq(0..63), NEW g \in Nat, NEW bit, SixBitsAre(bit, v)
  PROVE  LET eight(k) == 4 * (32 * bit[k + 1] + 16 * bit[k + 2] + 8 * bit[k + 3]
                            + 4 * bit[k + 4] + 2 * bit[k + 5] + bit[k + 6])
                            + 2 * bit[k + 7] + bit[k + 8]
         IN /\ eight(24 * g) = Six(v, 4 * g + 1) * 4 + Six(v, 4 * g + 2) \div 16
            /\ eight(24 * g + 8) = (Six(v, 4 * g + 2) % 16) * 16 + Six(v, 4 * g + 3) \div 4
            /\ eight(24 * g + 16) = (Six(v, 4 * g + 3) % 4) * 64 + Six(v, 4 * g + 4)
<1> DEFINE a == Six(v, 4 * g + 1)
           b == Six(v, 4 * g + 2)
           c == Six(v, 4 * g + 3)
           d == Six(v, 4 * g + 4)
           w == BitsOf(a)
           x == BitsOf(b)
           y == BitsOf(c)
           z == BitsOf(d)
<1>1. a \in 0..63 /\ b \in 0..63 /\ c \in 0..63 /\ d \in 0..63
  BY SixAt
<1>2. ASSUME NEW q \in Nat, NEW u, u = BitsOf(Six(v, q + 1))
      PROVE  /\ bit[6 * q + 1] = u[3] /\ bit[6 * q + 2] = u[4] /\ bit[6 * q + 3] = u[5]
             /\ bit[6 * q + 4] = u[6] /\ bit[6 * q + 5] = u[7] /\ bit[6 * q + 6] = u[8]
  <2>1. \A t \in 1..6 : bit[6 * q + t] = u[t + 2]
    BY <1>2 DEF SixBitsAre
  <2>2. /\ bit[6 * q + 1] = u[1 + 2] /\ bit[6 * q + 2] = u[2 + 2] /\ bit[6 * q + 3] = u[3 + 2]
        /\ bit[6 * q + 4] = u[4 + 2] /\ bit[6 * q + 5] = u[5 + 2] /\ bit[6 * q + 6] = u[6 + 2]
    BY <2>1
  <2> QED BY <2>2
<1>3. /\ bit[24 * g + 1] = w[3] /\ bit[24 * g + 2] = w[4] /\ bit[24 * g + 3] = w[5]
      /\ bit[24 * g + 4] = w[6] /\ bit[24 * g + 5] = w[7] /\ bit[24 * g + 6] = w[8]
  <2> DEFINE q == 4 * g
  <2>1. q \in Nat /\ q + 1 = 4 * g + 1 /\ 6 * q = 24 * g
    OBVIOUS
  <2>2. w = BitsOf(Six(v, q + 1))
    OBVIOUS
  <2> HIDE DEF q, w
  <2>3. /\ bit[6 * q + 1] = w[3] /\ bit[6 * q + 2] = w[4] /\ bit[6 * q + 3] = w[5]
        /\ bit[6 * q + 4] = w[6] /\ bit[6 * q + 5] = w[7] /\ bit[6 * q + 6] = w[8]
    BY <1>2, <2>1, <2>2, Zenon
  <2> QED BY <2>1, <2>3
<1>4. /\ bit[24 * g + 7] = x[3] /\ bit[24 * g + 8] = x[4] /\ bit[24 * g + 9] = x[5]
      /\ bit[24 * g + 10] = x[6] /\ bit[24 * g + 11] = x[7] /\ bit[24 * g + 12] = x[8]
  <2> DEFINE q == 4 * g + 1
  <2>1. q \in Nat /\ q + 1 = 4 * g + 2 /\ 6 * q = 24 * g + 6
    OBVIOUS
  <2>2. x = BitsOf(Six(v, q + 1))
    BY <2>1
  <2> HIDE DEF q, x
  <2>3. /\ bit[6 * q + 1] = x[3] /\ bit[6 * q + 2] = x[4] /\ bit[6 * q + 3] = x[5]
        /\ bit[6 * q + 4] = x[6] /\ bit[6 * q + 5] = x[7] /\ bit[6 * q + 6] = x[8]
    BY <1>2, <2>1, <2>2, Zenon
  <2>4. /\ 6 * q + 1 = 24 * g + 7 /\ 6 * q + 2 = 24 * g + 8 /\ 6 * q + 3 = 24 * g + 9
        /\ 6 * q + 4 = 24 * g + 10 /\ 6 * q + 5 = 24 * g + 11 /\ 6 * q + 6 = 24 * g + 12
    BY <2>1
  <2> QED BY <2>3, <2>4
<1>5. /\ bit[24 * g + 13] = y[3] /\ bit[24 * g + 14] = y[4] /\ bit[24 * g + 15] = y[5]
      /\ bit[24 * g + 16] = y[6] /\ bit[24 * g + 17] = y[7] /\ bit[24 * g + 18] = y[8]
  <2> DEFINE q == 4 * g + 2
  <2>1. q \in Nat /\ q + 1 = 4 * g + 3 /\ 6 * q = 24 * g + 12
    OBVIOUS
  <2>2. y = BitsOf(Six(v, q + 1))
    BY <2>1
  <2> HIDE DEF q, y
  <2>3. /\ bit[6 * q + 1] = y[3] /\ bit[6 * q + 2] = y[4] /\ bit[6 * q + 3] = y[5]
        /\ bit[6 * q + 4] = y[6] /\ bit[6 * q + 5] = y[7] /\ bit[6 * q + 6] = y[8]
    BY <1>2, <2>1, <2>2, Zenon
  <2>4. /\ 6 * q + 1 = 24 * g + 13 /\ 6 * q + 2 = 24 * g + 14 /\ 6 * q + 3 = 24 * g + 15
        /\ 6 * q + 4 = 24 * g + 16 /\ 6 * q + 5 = 24 * g + 17 /\ 6 * q + 6 = 24 * g + 18
    BY <2>1
  <2> QED BY <2>3, <2>4
<1>6. /\ bit[24 * g + 19] = z[3] /\ bit[24 * g + 20] = z[4] /\ bit[24 * g + 21] = z[5]
      /\ bit[24 * g + 22] = z[6] /\ bit[24 * g + 23] = z[7] /\ bit[24 * g + 24] = z[8]
  <2> DEFINE q == 4 * g + 3
  <2>1. q \in Nat /\ q + 1 = 4 * g + 4 /\ 6 * q = 24 * g + 18
    OBVIOUS
  <2>2. z = BitsOf(Six(v, q + 1))
    BY <2>1
  <2> HIDE DEF q, z
  <2>3. /\ bit[6 * q + 1] = z[3] /\ bit[6 * q + 2] = z[4] /\ bit[6 * q + 3] = z[5]
        /\ bit[6 * q + 4] = z[6] /\ bit[6 * q + 5] = z[7] /\ bit[6 * q + 6] = z[8]
    BY <1>2, <2>1, <2>2, Zenon
  <2>4. /\ 6 * q + 1 = 24 * g + 19 /\ 6 * q + 2 = 24 * g + 20 /\ 6 * q + 3 = 24 * g + 21
        /\ 6 * q + 4 = 24 * g + 22 /\ 6 * q + 5 = 24 * g + 23 /\ 6 * q + 6 = 24 * g + 24
    BY <2>1
  <2> QED BY <2>3, <2>4
<1> DEFINE w3 == w[3]
           w4 == w[4]
           w5 == w[5]
           w6 == w[6]
           w7 == w[7]
           w8 == w[8]
           x3 == x[3]
           x4 == x[4]
           x5 == x[5]
           x6 == x[6]
           x7 == x[7]
           x8 == x[8]
           y3 == y[3]
           y4 == y[4]
           y5 == y[5]
           y6 == y[6]
           y7 == y[7]
           y8 == y[8]
           z3 == z[3]
           z4 == z[4]
           z5 == z[5]
           z6 == z[6]
           z7 == z[7]
           z8 == z[8]
<1>7. /\ w3 \in Int /\ w4 \in Int /\ w5 \in Int /\ w6 \in Int /\ w7 \in Int /\ w8 \in Int
      /\ a = 32 * w3 + 16 * w4 + 8 * w5 + 4 * w6 + 2 * w7 + w8
  <2> HIDE DEF a
  <2> QED BY <1>1, SixBits, Zenon
<1>8. /\ x3 \in Int /\ x4 \in Int /\ x5 \in Int /\ x6 \in Int /\ x7 \in Int /\ x8 \in Int
      /\ b \div 16 = 2 * x3 + x4 /\ b % 16 = 8 * x5 + 4 * x6 + 2 * x7 + x8
  <2> HIDE DEF b
  <2> QED BY <1>1, SixBits, Zenon
<1>9. /\ y3 \in Int /\ y4 \in Int /\ y5 \in Int /\ y6 \in Int /\ y7 \in Int /\ y8 \in Int
      /\ c \div 4 = 8 * y3 + 4 * y4 + 2 * y5 + y6 /\ c % 4 = 2 * y7 + y8
  <2> HIDE DEF c
  <2> QED BY <1>1, SixBits, Zenon
<1>10. /\ z3 \in Int /\ z4 \in Int /\ z5 \in Int /\ z6 \in Int /\ z7 \in Int /\ z8 \in Int
       /\ d = 32 * z3 + 16 * z4 + 8 * z5 + 4 * z6 + 2 * z7 + z8
  <2> HIDE DEF d
  <2> QED BY <1>1, SixBits, Zenon
<1> DEFINE eight(k) == 4 * (32 * bit[k + 1] + 16 * bit[k + 2] + 8 * bit[k + 3]
                         + 4 * bit[k + 4] + 2 * bit[k + 5] + bit[k + 6])
                         + 2 * bit[k + 7] + bit[k + 8]
<1> HIDE DEF a, b, c, d, w, x, y, z
<1>11. eight(24 * g) = a * 4 + b \div 16
  <2>1. eight(24 * g) = 4 * (32 * w3 + 16 * w4 + 8 * w5 + 4 * w6 + 2 * w7 + w8) + 2 * x3 + x4
    BY <1>3, <1>4, Zenon
  <2> HIDE DEF eight, w3, w4, w5, w6, w7, w8, x3, x4, x5, x6, x7, x8
  <2> DEFINE h == b \div 16
  <2>2. h = 2 * x3 + x4
    BY <1>8
  <2> HIDE DEF h
  <2>3. 4 * (32 * w3 + 16 * w4 + 8 * w5 + 4 * w6 + 2 * w7 + w8) + 2 * x3 + x4 = a * 4 + h
    BY <1>7, <1>8, <2>2
  <2> QED BY <2>1, <2>3, Zenon DEF h
<1>12. eight(24 * g + 8) = (b % 16) * 16 + c \div 4
  <2>1. /\ 24 * g + 8 + 1 = 24 * g + 9 /\ 24 * g + 8 + 2 = 24 * g + 10
        /\ 24 * g + 8 + 3 = 24 * g + 11 /\ 24 * g + 8 + 4 = 24 * g + 12
        /\ 24 * g + 8 + 5 = 24 * g + 13 /\ 24 * g + 8 + 6 = 24 * g + 14
        /\ 24 * g + 8 + 7 = 24 * g + 15 /\ 24 * g + 8 + 8 = 24 * g + 16
    OBVIOUS
  <2>2. eight(24 * g + 8) = 4 * (32 * x5 + 16 * x6 + 8 * x7 + 4 * x8 + 2 * y3 + y4) + 2 * y5 + y6
    BY <1>4, <1>5, <2>1, ZenonT(40)
  <2> HIDE DEF eight, x3, x4, x5, x6, x7, x8, y3, y4, y5, y6, y7, y8
  <2> DEFINE h == b % 16
             len == c \div 4
  <2>3. h = 8 * x5 + 4 * x6 + 2 * x7 + x8 /\ len = 8 * y3 + 4 * y4 + 2 * y5 + y6
    BY <1>8, <1>9, Zenon
  <2> HIDE DEF h, len
  <2>4. 4 * (32 * x5 + 16 * x6 + 8 * x7 + 4 * x8 + 2 * y3 + y4) + 2 * y5 + y6 = h * 16 + len
    BY <1>8, <1>9, <2>3
  <2> QED BY <2>2, <2>4, Zenon DEF h, len
<1>13. eight(24 * g + 16) = (c % 4) * 64 + d
  <2>1. /\ 24 * g + 16 + 1 = 24 * g + 17 /\ 24 * g + 16 + 2 = 24 * g + 18
        /\ 24 * g + 16 + 3 = 24 * g + 19 /\ 24 * g + 16 + 4 = 24 * g + 20
        /\ 24 * g + 16 + 5 = 24 * g + 21 /\ 24 * g + 16 + 6 = 24 * g + 22
        /\ 24 * g + 16 + 7 = 24 * g + 23 /\ 24 * g + 16 + 8 = 24 * g + 24
    OBVIOUS
  <2>2. eight(24 * g + 16) = 4 * (32 * y7 + 16 * y8 + 8 * z3 + 4 * z4 + 2 * z5 + z6) + 2 * z7 + z8
    BY <1>5, <1>6, <2>1, ZenonT(40)
  <2> HIDE DEF eight, y3, y4, y5, y6, y7, y8, z3, z4, z5, z6, z7, z8
  <2> DEFINE h == c % 4
  <2>3. h = 2 * y7 + y8
    BY <1>9, Zenon
  <2> HIDE DEF h
  <2>4. 4 * (32 * y7 + 16 * y8 + 8 * z3 + 4 * z4 + 2 * z5 + z6) + 2 * z7 + z8 = h * 64 + d
    BY <1>9, <1>10, <2>3
  <2> QED BY <2>2, <2>4, Zenon DEF h
<1> QED BY <1>11, <1>12, <1>13, Zenon DEF a, b, c, d

\* it is a byte
LEMMA SixByteIs ==
  ASSUME NEW v \in Seq(0..63), NEW k \in Nat \ {0}
  PROVE  SixByte(v, k) \in 0..255
<1> DEFINE g == (k - 1) \div 3
           r == (k - 1) % 3
           a == Six(v, 4 * g + 1)
           b == Six(v, 4 * g + 2)
           c == Six(v, 4 * g + 3)
           d == Six(v, 4 * g + 4)
<1>1. a \in 0..63 /\ b \in 0..63 /\ c \in 0..63 /\ d \in 0..63
  BY SixAt
<1>2. SixByte(v, k) = IF r = 0 THEN a * 4 + b \div 16
                      ELSE IF r = 1 THEN (b % 16) * 16 + c \div 4 ELSE (c % 4) * 64 + d
  BY Zenon DEF SixByte
<1> HIDE DEF a, b, c, d, r
<1>3. a * 4 + b \div 16 \in 0..255 /\ (b % 16) * 16 + c \div 4 \in 0..255 /\ (c % 4) * 64 + d \in 0..255
  BY <1>1
<1> QED BY <1>2, <1>3, Zenon

\* the bits of sextets in groups of eight
LEMMA BytesOfBits ==
  ASSUME NEW v \in Seq(0..63)
  PROVE  Numbers(Bits(v, 6), 8) = [k \in 1..((6 * Len(v) + 7) \div 8) |-> SixByte(v, k)]
<1> DEFINE b == Bits(v, 6)
           n == 6 * Len(v)
           bit == [k \in Nat |-> IF k <= n THEN b[k] ELSE 0]
           eight(k) == 4 * (32 * bit[k + 1] + 16 * bit[k + 2] + 8 * bit[k + 3]
                            + 4 * bit[k + 4] + 2 * bit[k + 5] + bit[k + 6])
                         + 2 * bit[k + 7] + bit[k + 8]
<1>1. Len(v) \in Nat
  OBVIOUS
<1>2. Len(b) = n /\ n \in Nat
  <2>1. 0 \in Nat /\ 1 \in 1..6
    OBVIOUS
  <2>2. Len(b) = n
    BY <2>1, SixBitAt, Zenon
  <2>3. n \in Nat
    BY <1>1
  <2> QED BY <2>2, <2>3
<1>3. SixBitsAre(bit, v)
  <2> SUFFICES ASSUME NEW q \in Nat, NEW t \in 1..6
               PROVE  bit[6 * q + t] = BitsOf(Six(v, q + 1))[t + 2]
    BY Zenon DEF SixBitsAre
  <2>1. (IF 6 * q + t <= n THEN b[6 * q + t] ELSE 0) = BitsOf(Six(v, q + 1))[t + 2]
    BY SixBitAt, Zenon
  <2>2. 6 * q + t \in Nat
    OBVIOUS
  <2> HIDE DEF n, b
  <2> QED BY <2>1, <2>2
<1>4. Numbers(b, 8) = [k \in 1..((n + 8 - 1) \div 8) |-> eight(8 * (k - 1))]
  <2> DEFINE at(k) == IF k <= n THEN b[k] ELSE 0
             sum(k) == 32 * at(k + 1) + 16 * at(k + 2) + 8 * at(k + 3)
                         + 4 * at(k + 4) + 2 * at(k + 5) + at(k + 6)
  <2>1. Numbers(b, 8) = [k \in 1..((n + 8 - 1) \div 8) |->
                           4 * sum(8 * (k - 1)) + 2 * at(8 * k - 1) + at(8 * k)]
    <3>1. 8 # 6
      OBVIOUS
    <3> HIDE DEF n, b
    <3>2. Len(b) = n
      BY <1>2
    <3> QED BY <3>1, <3>2 DEF Numbers
  <2>2. \A k \in 1..((n + 8 - 1) \div 8) :
          4 * sum(8 * (k - 1)) + 2 * at(8 * k - 1) + at(8 * k) = eight(8 * (k - 1))
    <3> TAKE k \in 1..((n + 8 - 1) \div 8)
    <3> DEFINE z == 8 * (k - 1)
    <3>1. z \in Nat /\ z + 1 \in Nat /\ z + 2 \in Nat /\ z + 3 \in Nat /\ z + 4 \in Nat
          /\ z + 5 \in Nat /\ z + 6 \in Nat /\ z + 7 \in Nat /\ z + 8 \in Nat
          /\ 8 * k - 1 = z + 7 /\ 8 * k = z + 8
      BY <1>2
    <3>2. \A j \in Nat : at(j) = bit[j]
      OBVIOUS
    <3> HIDE DEF z, at, bit
    <3>3. 4 * sum(z) + 2 * at(z + 7) + at(z + 8) = eight(z)
      BY <3>1, <3>2, Zenon
    <3> QED BY <3>1, <3>3, Zenon DEF z
  <2> HIDE DEF sum, eight, n, b, at
  <2> QED BY <2>1, <2>2
<1>5. n + 8 - 1 = n + 7
  BY <1>2
<1> HIDE DEF b, bit
<1>6. ASSUME NEW k \in Nat \ {0}
      PROVE  eight(8 * (k - 1)) = SixByte(v, k)
  <2> DEFINE g == (k - 1) \div 3
             r == (k - 1) % 3
  <2>1. g \in Nat /\ r \in {0, 1, 2} /\ k = 3 * g + r + 1
    BY Third
  <2>2. /\ eight(24 * g) = Six(v, 4 * g + 1) * 4 + Six(v, 4 * g + 2) \div 16
        /\ eight(24 * g + 8) = (Six(v, 4 * g + 2) % 16) * 16 + Six(v, 4 * g + 3) \div 4
        /\ eight(24 * g + 16) = (Six(v, 4 * g + 3) % 4) * 64 + Six(v, 4 * g + 4)
    <3> HIDE DEF g
    <3> QED BY <1>3, <2>1, BytesFromBits, ZenonT(40)
  <2>3. SixByte(v, k) =
          IF r = 0 THEN Six(v, 4 * g + 1) * 4 + Six(v, 4 * g + 2) \div 16
          ELSE IF r = 1 THEN (Six(v, 4 * g + 2) % 16) * 16 + Six(v, 4 * g + 3) \div 4
          ELSE (Six(v, 4 * g + 3) % 4) * 64 + Six(v, 4 * g + 4)
    BY Zenon DEF SixByte
  <2> HIDE DEF g, r, eight
  <2>4. 8 * (k - 1) = 24 * g + 8 * r
    BY <2>1
  <2>5. CASE r = 0
    <3>1. 8 * (k - 1) = 24 * g
      BY <2>1, <2>4, <2>5
    <3> QED BY <2>2, <2>3, <2>5, <3>1
  <2>6. CASE r = 1
    <3>1. 8 * (k - 1) = 24 * g + 8 /\ r # 0
      BY <2>1, <2>4, <2>6
    <3> QED BY <2>2, <2>3, <2>6, <3>1, Zenon
  <2>7. CASE r = 2
    <3>1. 8 * (k - 1) = 24 * g + 16 /\ r # 0 /\ r # 1
      BY <2>1, <2>4, <2>7
    <3> QED BY <2>2, <2>3, <2>7, <3>1, Zenon
  <2> QED BY <2>1, <2>5, <2>6, <2>7
<1> DEFINE c == (6 * Len(v) + 7) \div 8
<1>7. \A k \in 1..c : k \in Nat \ {0}
  OBVIOUS
<1>8. Numbers(b, 8) = [k \in 1..c |-> eight(8 * (k - 1))]
  BY <1>4, <1>5, Zenon DEF c
<1> HIDE DEF eight, c
<1>9. Numbers(b, 8) = [k \in 1..c |-> SixByte(v, k)]
  BY <1>6, <1>7, <1>8
<1> QED BY <1>9 DEF b, c

\* the bytes of values that begin with sextets of a message
LEMMA BytesOfFront ==
  ASSUME NEW m \in Seq(0..255), NEW v \in Seq(0..63), NEW p \in 0..Len(v),
         \A k \in 1..p : v[k] = Sextet(m, k), NEW k \in 1..((6 * p) \div 8)
  PROVE  SixByte(v, k) = At(m, k)
<1> DEFINE g == (k - 1) \div 3
           r == (k - 1) % 3
<1>1. Len(v) \in Nat /\ p \in Nat /\ p <= Len(v)
  BY LenProperties
<1>2. k \in Nat \ {0}
  OBVIOUS
<1>3. g \in Nat /\ r \in {0, 1, 2} /\ k = 3 * g + r + 1
  BY <1>2, Third
<1>4. SixByte(v, k) =
        IF r = 0 THEN Six(v, 4 * g + 1) * 4 + Six(v, 4 * g + 2) \div 16
        ELSE IF r = 1 THEN (Six(v, 4 * g + 2) % 16) * 16 + Six(v, 4 * g + 3) \div 4
        ELSE (Six(v, 4 * g + 3) % 4) * 64 + Six(v, 4 * g + 4)
  BY Zenon DEF SixByte
<1> HIDE DEF g, r
<1>5. ASSUME NEW a \in 1..p
      PROVE  Six(v, a) = Sextet(m, a)
  <2>1. a \in 1..Len(v)
    BY <1>1
  <2> QED BY <2>1 DEF Six
<1>6. k <= (6 * p) \div 8
  OBVIOUS
<1>7. /\ Sextet(m, 4 * g + 1) * 4 + Sextet(m, 4 * g + 2) \div 16 = At(m, 3 * g + 1)
      /\ (Sextet(m, 4 * g + 2) % 16) * 16 + Sextet(m, 4 * g + 3) \div 4 = At(m, 3 * g + 2)
      /\ (Sextet(m, 4 * g + 3) % 4) * 64 + Sextet(m, 4 * g + 4) = At(m, 3 * g + 3)
  BY <1>3, BytesOfSextets
<1>8. CASE r = 0
  <2>1. k = 3 * g + 1 /\ 4 * g + 1 \in 1..p /\ 4 * g + 2 \in 1..p
    BY <1>1, <1>3, <1>6, <1>8
  <2> QED BY <1>4, <1>5, <1>7, <1>8, <2>1, Zenon
<1>9. CASE r = 1
  <2>1. r # 0 /\ k = 3 * g + 2 /\ 4 * g + 2 \in 1..p /\ 4 * g + 3 \in 1..p
    BY <1>1, <1>3, <1>6, <1>9
  <2> QED BY <1>4, <1>5, <1>7, <1>9, <2>1, Zenon
<1>10. CASE r = 2
  <2>1. r # 0 /\ r # 1 /\ k = 3 * g + 3 /\ 4 * g + 3 \in 1..p /\ 4 * g + 4 \in 1..p
    BY <1>1, <1>3, <1>6, <1>10
  <2> QED BY <1>4, <1>5, <1>7, <2>1, Zenon
<1> QED BY <1>3, <1>8, <1>9, <1>10

Value(c) == IF InAlphabet(c) THEN Index(c) ELSE 0
SixValues(t, n) == [i \in 1..n |-> Value(t[i])]

\* decode() takes a character that is none for a zero
LEMMA ValueIs ==
  ASSUME NEW c
  PROVE  Value(c) \in 0..63 /\ Value(Pad) = 0
<1>1. Value(Pad) = 0
  BY PadIs DEF Value
<1>2. CASE c \in 65..90
  <2>1. Index(c) = c - 65
    BY <1>2 DEF Index
  <2>2. Index(c) \in 0..63
    BY <1>2, <2>1
  <2> QED BY <1>1, <2>2 DEF Value
<1>3. CASE c \in 97..122
  <2>1. c \notin 65..90
    BY <1>3
  <2>2. Index(c) = c - 71
    BY <1>3, <2>1 DEF Index
  <2>3. Index(c) \in 0..63
    BY <1>3, <2>2
  <2> QED BY <1>1, <2>3 DEF Value
<1>4. CASE c \in 48..57
  <2>1. c \notin 65..90 /\ c \notin 97..122
    BY <1>4
  <2>2. Index(c) = c + 4
    BY <1>4, <2>1 DEF Index
  <2>3. Index(c) \in 0..63
    BY <1>4, <2>2
  <2> QED BY <1>1, <2>3 DEF Value
<1>5. CASE c = 43
  <2>1. Index(c) = 62
    BY <1>5 DEF Index
  <2> QED BY <1>1, <2>1 DEF Value
<1>6. CASE c = 47
  <2>1. Index(c) = 63
    BY <1>6 DEF Index
  <2> QED BY <1>1, <2>1 DEF Value
<1>7. CASE c \notin 65..90 /\ c \notin 97..122 /\ c \notin 48..57 /\ c # 43 /\ c # 47
  <2>1. Index(c) = -1
    BY <1>7 DEF Index
  <2> QED BY <1>1, <2>1 DEF Value, InAlphabet
<1> QED BY <1>2, <1>3, <1>4, <1>5, <1>6, <1>7

\* the values of the first n characters
LEMMA SixValuesAre ==
  ASSUME NEW t, NEW n \in Nat
  PROVE  SixValues(t, n) \in Seq(0..63) /\ Len(SixValues(t, n)) = n
         /\ \A k \in 1..n : SixValues(t, n)[k] = Value(t[k])
<1>1. SixValues(t, n) \in [1..n -> 0..63] /\ \A k \in 1..n : SixValues(t, n)[k] = Value(t[k])
  BY ValueIs DEF SixValues
<1> DEFINE S == 0..63
           f == SixValues(t, n)
<1>2. f \in [1..n -> S]
  BY <1>1
<1> HIDE DEF S, f
<1>3. f \in Seq(S) /\ Len(f) = n
  BY <1>2, FunctionSeq
<1> QED BY <1>1, <1>3 DEF S, f

\* decode() has room for the bytes its bits make
LEMMA Sizes ==
  ASSUME NEW len \in Nat, NEW d \in 0..len, NEW n \in Nat, n = 6 * len - 8 * d
  PROVE  LET c == (6 * (len - d) + 7) \div 8
             j == n \div 8
         IN /\ c \in Nat /\ j \in 0..c /\ j \in Nat
            /\ n % 8 # 0 => j + 1 \in 1..c
<1>1. n <= 6 * (len - d)
  OBVIOUS
<1> DEFINE h == 6 * (len - d)
<1>2. h \in Nat /\ n <= h
  BY <1>1
<1> HIDE DEF h
<1>3. (h + 7) \div 8 \in Nat /\ n \div 8 \in Nat /\ n \div 8 <= (h + 7) \div 8
      /\ (n % 8 # 0 => n \div 8 + 1 <= (h + 7) \div 8)
  BY <1>2
<1> QED BY <1>3 DEF h

Decodes(t, v, n) ==
  /\ FDecode(t).whole = [k \in 1..(n \div 8) |-> SixByte(v, k)]
  /\ FDecode(t).behind = IF n % 8 = 0 THEN <<>> ELSE <<SixByte(v, n \div 8 + 1)>>

\* decode() of the file tool as bits in groups of eight
LEMMA FDecodes ==
  ASSUME NEW t \in Seq(1..255), NEW d \in 0..Len(t), PadsIn(t) = d,
         NEW n \in Nat, n = 6 * Len(t) - 8 * d
  PROVE  /\ FDecodeBits(t) = n
         /\ Decodes(t, SixValues(t, Len(t) - d), n)
<1> DEFINE len == Len(t)
           kept == SubSeq(t, 1, len - d)
           value(c) == IF InAlphabet(c) THEN Index(c) ELSE 0
           u == [i \in DOMAIN kept |-> value(kept[i])]
           v == SixValues(t, len - d)
           bytes == Numbers(Bits(u, 6), 8)
           c == (6 * (len - d) + 7) \div 8
           j == n \div 8
<1>1. UpToNul(t) = t /\ len \in Nat
  BY NonZero, LenProperties
<1>2. FDecodeBits(t) = n
  BY <1>1 DEF FDecodeBits
<1>3. /\ FDecode(t).whole = SubSeq(bytes, 1, n \div 8)
      /\ FDecode(t).behind = IF n % 8 = 0 THEN <<>> ELSE <<bytes[n \div 8 + 1]>>
  <2>1. FDecode(t) = [whole |-> SubSeq(bytes, 1, n \div 8),
                      behind |-> IF n <= -8 THEN <<0>>
                                 ELSE IF n < 0 \/ n % 8 = 0 THEN <<>>
                                 ELSE <<bytes[n \div 8 + 1]>>]
    BY <1>1, <1>2, Zenon DEF FDecode
  <2>2. ~(n <= -8) /\ ~(n < 0)
    OBVIOUS
  <2> HIDE DEF bytes
  <2> QED BY <2>1, <2>2
<1>4. len - d \in Nat /\ len - d \in 0..Len(t)
  <2> HIDE DEF len
  <2>1. len - d \in 0..len
    BY <1>1 DEF len
  <2> QED BY <1>1, <2>1 DEF len
<1>5. kept \in Seq(1..255) /\ Len(kept) = len - d /\ \A i \in 1..(len - d) : kept[i] = t[i]
  <2> DEFINE S == 1..255
             q == len - d
  <2>1. t \in Seq(S) /\ q \in 0..Len(t)
    BY <1>4
  <2> HIDE DEF S, q
  <2>2. SubSeq(t, 1, q) \in Seq(S) /\ Len(SubSeq(t, 1, q)) = q /\ \A i \in 1..q : SubSeq(t, 1, q)[i] = t[i]
    BY <2>1, FrontIs
  <2> QED BY <2>2 DEF S, q
<1>6. u = v
  <2> HIDE DEF kept
  <2>1. DOMAIN kept = 1..(len - d)
    BY <1>5
  <2>2. \A i \in 1..(len - d) : value(kept[i]) = Value(t[i])
    BY <1>5, Zenon DEF Value
  <2> HIDE DEF value, len
  <2> QED BY <2>1, <2>2 DEF SixValues
<1>7. v \in Seq(0..63) /\ Len(v) = len - d
  <2> HIDE DEF len
  <2> QED BY <1>4, SixValuesAre
<1>8. bytes = [k \in 1..c |-> SixByte(v, k)]
  <2> HIDE DEF u, v
  <2>1. Numbers(Bits(v, 6), 8) = [k \in 1..((6 * Len(v) + 7) \div 8) |-> SixByte(v, k)]
    BY <1>7, BytesOfBits, Zenon
  <2> QED BY <1>6, <1>7, <2>1, Zenon
<1>9. c \in Nat /\ j \in 0..c /\ j \in Nat /\ (n % 8 # 0 => j + 1 \in 1..c)
  <2> HIDE DEF len
  <2>1. len \in Nat /\ d \in 0..len /\ n = 6 * len - 8 * d
    BY <1>1 DEF len
  <2> QED BY <2>1, Sizes, Zenon
<1> HIDE DEF bytes, u, v, c, j
<1>10. SubSeq(bytes, 1, j) = [k \in 1..j |-> SixByte(v, k)]
  <2> DEFINE S == 0..255
             f == [k \in 1..j |-> SixByte(v, k)]
  <2>1. bytes \in [1..c -> S]
    <3>1. \A k \in 1..c : SixByte(v, k) \in S
      <4> TAKE k \in 1..c
      <4>1. k \in Nat \ {0}
        BY <1>9
      <4> QED BY <1>7, <4>1, SixByteIs
    <3> HIDE DEF S
    <3> QED BY <1>8, <3>1
  <2>2. \A i \in 1..j : i \in 1..c
    BY <1>9
  <2>3. f \in [1..j -> S] /\ \A i \in 1..j : f[i] = bytes[i]
    <3> HIDE DEF S
    <3>1. \A i \in 1..j : bytes[i] = SixByte(v, i) /\ bytes[i] \in S
      BY <1>8, <2>1, <2>2
    <3> QED BY <3>1
  <2> HIDE DEF S, f
  <2>4. bytes \in Seq(S) /\ Len(bytes) = c
    BY <1>9, <2>1, FunctionSeq
  <2>5. SubSeq(bytes, 1, j) = f
    BY <1>9, <2>3, <2>4, SameFront
  <2> QED BY <2>5 DEF f
<1>11. n % 8 # 0 => bytes[j + 1] = SixByte(v, j + 1)
  BY <1>8, <1>9
<1>12. Decodes(t, v, n)
  BY <1>3, <1>10, <1>11, Zenon DEF Decodes, j
<1> QED BY <1>2, <1>12 DEF v

\* The pads of a text that ends in them.
LEMMA PadsBehind ==
  ASSUME NEW t \in Seq(1..255), NEW p \in 0..Len(t),
         \A k \in 1..p : t[k] # Pad, \A k \in (p + 1)..Len(t) : t[k] = Pad
  PROVE  PadsIn(t) = Len(t) - p
<1> DEFINE len == Len(t)
<1>1. len \in Nat /\ p \in Nat /\ p <= len /\ DOMAIN t = 1..len
  <2>1. len \in Nat /\ DOMAIN t = 1..len
    BY LenProperties
  <2> QED BY <2>1
<1>2. {i \in DOMAIN t : t[i] = Pad} = (p + 1)..len
  <2> HIDE DEF len
  <2>1. \A i \in 1..len : t[i] = Pad <=> i \in (p + 1)..len
    <3> TAKE i \in 1..len
    <3>1. i \in 1..p \/ i \in (p + 1)..len
      BY <1>1
    <3>2. ~ (i \in 1..p /\ i \in (p + 1)..len)
      BY <1>1
    <3> QED BY <3>1, <3>2 DEF len
  <2>2. \A i \in (p + 1)..len : i \in 1..len
    BY <1>1
  <2> QED BY <1>1, <2>1, <2>2
<1>3. Cardinality((p + 1)..len) = IF p + 1 > len THEN 0 ELSE len - (p + 1) + 1
  <2> HIDE DEF len
  <2> QED BY <1>1, FS_Interval
<1>4. Cardinality((p + 1)..len) = len - p
  <2> HIDE DEF len
  <2> QED BY <1>1, <1>3
<1> QED BY <1>2, <1>4 DEF PadsIn

\* decode of en_de_file.c gives back the bytes of the sextets that arrived.
LEMMA FDecodesArrival ==
  ASSUME NEW m \in Seq(0..255), NEW L \in 0..TextLength(Len(m))
  PROVE  FDecode(Arrival(m, L)).whole = Front(m, Kept(m, L))
<1> DEFINE t == Arrival(m, L)
           p == Kept(m, L)
           d == L - p
           n == 6 * L - 8 * d
           v == SixValues(t, p)
<1>1. /\ t \in Seq(1..255) /\ Len(t) = L /\ p \in 0..L
      /\ \A k \in 1..p : t[k] = Char(Sextet(m, k)) /\ Sextet(m, k) \in 0..63
      /\ \A k \in (p + 1)..L : t[k] = Pad
      /\ p % 4 \in {0, 1} => p = L
      /\ p % 4 \in {2, 3} => L <= p + 4 - (p % 4)
  BY ArrivalIs
<1>2. L \in Nat
  BY LenProperties, Lengths
<1> HIDE DEF t, p
<1>3. p \in Nat /\ p <= L
  BY <1>1, <1>2
<1>4. n \in Nat /\ n \div 8 = (6 * p) \div 8
  <2> DEFINE a == p \div 4
             r == p % 4
  <2>1. a \in Nat /\ r \in {0, 1, 2, 3} /\ p = 4 * a + r
    BY <1>3, QuarterOf
  <2>2. r \in {0, 1} => p = L
    BY <1>1
  <2>3. r \in {2, 3} => L <= p + 4 - r
    BY <1>1
  <2> HIDE DEF a, r
  <2>4. CASE p = L
    BY <1>2, <2>4
  <2>5. CASE r = 2 /\ L = p + 1
    <3>1. n = 24 * a + 10 /\ 6 * p = 24 * a + 12
      BY <2>1, <2>5
    <3>2. (24 * a + 10) \div 8 = 3 * a + 1 /\ (24 * a + 12) \div 8 = 3 * a + 1
      BY <2>1
    <3> HIDE DEF n
    <3> QED BY <2>1, <3>1, <3>2
  <2>6. CASE r = 2 /\ L = p + 2
    <3>1. n = 24 * a + 8 /\ 6 * p = 24 * a + 12
      BY <2>1, <2>6
    <3>2. (24 * a + 8) \div 8 = 3 * a + 1 /\ (24 * a + 12) \div 8 = 3 * a + 1
      BY <2>1
    <3> HIDE DEF n
    <3> QED BY <2>1, <3>1, <3>2
  <2>7. CASE r = 3 /\ L = p + 1
    <3>1. n = 24 * a + 16 /\ 6 * p = 24 * a + 18
      BY <2>1, <2>7
    <3>2. (24 * a + 16) \div 8 = 3 * a + 2 /\ (24 * a + 18) \div 8 = 3 * a + 2
      BY <2>1
    <3> HIDE DEF n
    <3> QED BY <2>1, <3>1, <3>2
  <2>8. p = L \/ (r = 2 /\ L = p + 1) \/ (r = 2 /\ L = p + 2) \/ (r = 3 /\ L = p + 1)
    BY <1>2, <1>3, <2>1, <2>2, <2>3
  <2> QED BY <2>4, <2>5, <2>6, <2>7, <2>8
<1>5. PadsIn(t) = d
  <2>1. \A k \in 1..p : t[k] # Pad
    BY <1>1, Alphabet, Zenon
  <2> QED BY <1>1, <2>1, PadsBehind, Zenon
<1>6. d \in 0..Len(t) /\ Len(t) - d = p /\ n = 6 * Len(t) - 8 * d
  BY <1>1, <1>2, <1>3
<1>7. Decodes(t, v, n)
  <2> HIDE DEF d, n
  <2>1. Decodes(t, SixValues(t, Len(t) - d), n)
    BY <1>1, <1>4, <1>5, <1>6, FDecodes
  <2> QED BY <1>6, <2>1
<1>8. v \in Seq(0..63) /\ Len(v) = p /\ \A k \in 1..p : v[k] = Sextet(m, k)
  <2>1. v \in Seq(0..63) /\ Len(v) = p /\ \A k \in 1..p : v[k] = Value(t[k])
    BY <1>3, SixValuesAre, ZenonT(40)
  <2>2. \A k \in 1..p : Value(t[k]) = Sextet(m, k)
    <3> TAKE k \in 1..p
    <3>1. t[k] = Char(Sextet(m, k)) /\ Sextet(m, k) \in 0..63
      BY <1>1
    <3> QED BY <3>1, Alphabet DEF Value
  <2> HIDE DEF v
  <2> QED BY <2>1, <2>2
<1> HIDE DEF v, n, d
<1>9. \A k \in 1..((6 * p) \div 8) : SixByte(v, k) = At(m, k)
  <2> TAKE k \in 1..((6 * p) \div 8)
  <2>1. p \in 0..Len(v)
    BY <1>3, <1>8
  <2> QED BY <1>8, <2>1, BytesOfFront
<1>10. FDecode(t).whole = [k \in 1..((6 * p) \div 8) |-> SixByte(v, k)]
  BY <1>4, <1>7, Zenon DEF Decodes
<1>11. FDecode(t).whole = Front(m, p)
  <2> HIDE DEF p
  <2> QED BY <1>9, <1>10 DEF Front
<1> QED BY <1>11 DEF t, p

\* what the decoders give back of a text of a message, and of its front
GivesBack(s, w, out) ==
  /\ BDecode(w) = out /\ HDecode(w) = out /\ CDecode(w) = out
  /\ HDecode(Posted(w)) = out /\ FDecode(w).whole = out

\* every decoder gives back what has arrived of a message
LEMMA Given ==
  ASSUME NEW m \in Seq(0..255), NEW L \in 0..TextLength(Len(m))
  PROVE  GivesBack(m, Arrival(m, L), Front(m, Kept(m, L)))
BY BDecodes, HDecodesArrival, CDecodes, FDecodesArrival, Zenon DEF GivesBack

\* what is not cut short has arrived whole
LEMMA FullArrival ==
  ASSUME NEW m \in Seq(0..255)
  PROVE  /\ TextLength(Len(m)) \in 0..TextLength(Len(m))
         /\ Arrival(m, TextLength(Len(m))) = Text(m)
         /\ Front(m, Kept(m, TextLength(Len(m)))) = m
<1> DEFINE z == TextLength(Len(m))
           c == Sextets(Len(m))
<1>1. z \in Nat /\ c \in Nat /\ c <= z
  BY LenProperties, Lengths
<1>2. Text(m) \in Seq(1..255) /\ Len(Text(m)) = z
  BY TextIs
<1>3. Arrival(m, z) = Text(m)
  <2> HIDE DEF z
  <2> QED BY <1>2, SubSeqFull DEF Arrival
<1>4. Kept(m, z) = c
  <2>1. Kept(m, z) = IF z <= c THEN z ELSE c
    BY DEF Kept
  <2> HIDE DEF z, c
  <2> QED BY <1>1, <2>1
<1>5. Front(m, c) = m
  <2>1. c \in 0..c
    <3> HIDE DEF c
    <3> QED BY <1>1
  <2> QED BY <2>1, FrontOf
<1>6. z \in 0..z
  <2> HIDE DEF z
  <2> QED BY <1>1
<1> QED BY <1>3, <1>4, <1>5, <1>6

\* every decoder gives back the message
LEMMA GivenWhole ==
  ASSUME NEW m \in Seq(0..255)
  PROVE  GivesBack(m, Text(m), m)
<1> DEFINE z == TextLength(Len(m))
<1>1. z \in 0..z /\ Arrival(m, z) = Text(m) /\ Front(m, Kept(m, z)) = m
  BY FullArrival
<1>2. GivesBack(m, Arrival(m, z), Front(m, Kept(m, z)))
  BY <1>1, Given, Zenon
<1> QED BY <1>1, <1>2, Zenon

\* whatever the encoder and the decoder, and however short the text was cut
LEMMA TextsInverted ==
  ASSUME msg \in Seq(0..255), cut \in 0..TextLength(Len(msg))
  PROVE  Inverted
<1> DEFINE m == msg
           z == TextLength(Len(msg))
           L == z - cut
           w == Arrival(msg, L)
           out == Front(msg, Kept(msg, L))
           s == UpToNul(msg)
<1>1. z \in Nat /\ cut \in Nat /\ L \in 0..z /\ (cut = 0 => L = z)
  <2>1. z \in Nat
    BY LenProperties, Lengths
  <2> HIDE DEF z
  <2>2. cut \in 0..z
    BY DEF z
  <2> QED BY <2>1, <2>2
<1>2. /\ BEncode(msg) = Text(msg) /\ HEncode(msg) = Text(msg)
      /\ CEncode(msg) = Text(msg) /\ BioEncode(msg) = Text(msg)
  BY BEncodes, HEncodes, CEncodes, BioEncodes
<1>3. Arrived(Text(msg)) = w
  BY TextIs DEF Arrived, Arrival
<1>4. GivesBack(msg, w, out)
  <2> HIDE DEF L
  <2> QED BY <1>1, Given
<1>5. cut = 0 => out = msg
  BY <1>1, FullArrival, Zenon
<1>6. SubSeq(msg, 1, Len(out)) = out
  <2> DEFINE p == Kept(msg, L)
  <2>1. p \in 0..Sextets(Len(msg))
    <3> HIDE DEF L
    <3> QED BY <1>1, ArrivalIs
  <2> HIDE DEF p
  <2>2. Front(msg, p) = SubSeq(msg, 1, (6 * p) \div 8) /\ Len(Front(msg, p)) = (6 * p) \div 8
    BY <2>1, FrontOf
  <2>3. SubSeq(msg, 1, Len(Front(msg, p))) = Front(msg, p)
    BY <2>2, Zenon
  <2> QED BY <2>3 DEF p
<1>7. s \in Seq(0..255) /\ FEncode(msg) = Text(s) /\ GivesBack(s, Text(s), s)
  <2>1. s \in Seq(0..255) /\ FEncode(msg) = Text(s)
    BY UpToNulIs, FEncodes
  <2> HIDE DEF s
  <2> QED BY <2>1, GivenWhole
<1> HIDE DEF w, out, s
<1>8. ASSUME NEW t \in {BEncode(msg), HEncode(msg), CEncode(msg), BioEncode(msg)},
             NEW o \in {BDecode(Arrived(t)), HDecode(Arrived(t)), CDecode(Arrived(t)),
                        HDecode(Posted(Arrived(t))), FDecode(Arrived(t)).whole}
      PROVE  IF cut = 0 THEN o = msg ELSE SubSeq(msg, 1, Len(o)) = o
  <2>1. Arrived(t) = w
    BY <1>2, <1>3
  <2>2. o = out
    BY <1>4, <2>1 DEF GivesBack
  <2> QED BY <1>5, <1>6, <2>2
<1>9. ASSUME NEW o \in {BDecode(FEncode(msg)), HDecode(FEncode(msg)), CDecode(FEncode(msg)),
                        FDecode(FEncode(msg)).whole}
      PROVE  o = UpToNul(msg)
  <2>1. o = s
    BY <1>7 DEF GivesBack
  <2> QED BY <2>1 DEF s
<1> QED BY <1>8, <1>9 DEF Inverted

\* the buffers sized before decoding hold the message
LEMMA Room ==
  ASSUME msg \in Seq(0..255)
  PROVE  RoomToDecode
<1> DEFINE n == Len(msg)
           t == Text(msg)
           z == TextLength(n)
           c == Sextets(n)
           len == BioLines(msg, LineLen)
           more == (z + LineLen - 1) \div LineLen
           total == z + more
           q == n \div 3
           r == n % 3
<1>1. /\ n \in Nat /\ q \in Nat /\ r \in {0, 1, 2} /\ n = 3 * q + r
      /\ r = 0 => c = 4 * q /\ z = 4 * q
      /\ r = 1 => c = 4 * q + 2 /\ z = 4 * q + 4
      /\ r = 2 => c = 4 * q + 3 /\ z = 4 * q + 4
  <2>1. n \in Nat
    BY LenProperties
  <2> HIDE DEF n
  <2> QED BY <2>1, Lengths
<1>2. /\ Len(t) = z
      /\ \A k \in 1..z : t[k] = IF k <= c THEN Char(Sextet(msg, k)) ELSE Pad
  BY TextIs
<1>3. BioEncode(msg) = t
  BY BioEncodes
<1>4. \A k \in 1..z : k <= c => t[k] # Pad
  <2> TAKE k \in 1..z
  <2> HAVE k <= c
  <2>1. k \in Nat \ {0}
    <3> HIDE DEF z
    <3> QED OBVIOUS
  <2>2. t[k] = Char(Sextet(msg, k)) /\ Sextet(msg, k) \in 0..63
    BY <1>2, <2>1, SextetIs
  <2> QED BY <2>2, Alphabet
<1>5. Len(len) = total /\ total \in Nat /\ total >= z /\ (total > 0 => len[total] = Newline)
  <2>1. z \in Nat
    BY <1>1
  <2>2. more \in Nat
    <3> HIDE DEF z
    <3>1. LineLen \in Nat \ {0}
      BY AlgorithmsAssumption
    <3>2. z + LineLen - 1 \in Nat
      BY <2>1, <3>1
    <3> DEFINE x == z + LineLen - 1
    <3> HIDE DEF x
    <3>3. x \in Nat
      BY <3>2 DEF x
    <3>4. x \div LineLen \in Nat
      BY <3>1, <3>3, Z3
    <3> QED BY <3>4 DEF x
  <2>3. len = [k \in 1..total |-> IF k % (LineLen + 1) = 0 \/ k = total THEN Newline
                                ELSE t[k - (k - 1) \div (LineLen + 1)]]
    BY <1>2, <1>3, Zenon DEF BioLines
  <2> HIDE DEF z, more, t, len
  <2>4. total \in Nat /\ total >= z
    BY <2>1, <2>2
  <2> HIDE DEF total
  <2>5. Len(len) = total
    BY <2>3, <2>4
  <2>6. total > 0 => total \in 1..total
    BY <2>4
  <2>7. total > 0 => len[total] = Newline
    BY <2>3, <2>6
  <2> QED BY <2>4, <2>5, <2>7
<1> HIDE DEF t, z, c, len, q, r
<1>6. DecodeLength(t) >= n /\ BioDecodeRoom(t) >= n
  <2> DEFINE at(k) == k > 0 /\ t[k] = Pad
             padding == IF at(z) /\ at(z - 1) THEN 2 ELSE IF at(z) THEN 1 ELSE 0
  <2>1. DecodeLength(t) = (z * 3) \div 4 - padding /\ BioDecodeRoom(t) = (z \div 4) * 3 + 1
    BY <1>2, Zenon DEF DecodeLength, BioDecodeRoom
  <2>2. r = 0 => ~at(z)
    <3>1. r = 0 /\ z > 0 => z \in 1..z /\ z <= c
      BY <1>1
    <3> QED BY <1>4, <3>1
  <2>3. r = 2 => ~at(z - 1)
    <3>1. r = 2 => z - 1 \in 1..z /\ z - 1 <= c
      BY <1>1
    <3> QED BY <1>4, <3>1
  <2> HIDE DEF at
  <2>4. padding \in {0, 1, 2} /\ (r = 0 => padding = 0) /\ (r = 2 => padding # 2)
    BY <2>2, <2>3
  <2> HIDE DEF padding, n
  <2>5. CASE r = 0
    BY <1>1, <2>1, <2>4, <2>5
  <2>6. CASE r = 1
    BY <1>1, <2>1, <2>4, <2>6
  <2>7. CASE r = 2
    BY <1>1, <2>1, <2>4, <2>7
  <2> QED BY <1>1, <2>5, <2>6, <2>7
<1>7. len # <<>> => DecodeLength(len) >= n /\ BioDecodeRoom(len) >= n
  <2> SUFFICES ASSUME len # <<>> PROVE DecodeLength(len) >= n /\ BioDecodeRoom(len) >= n
    OBVIOUS
  <2> HIDE DEF total
  <2>1. total > 0
    <3>1. total # 0
      <4> SUFFICES ASSUME total = 0 PROVE FALSE
        OBVIOUS
      <4>1. len = [k \in 1..0 |-> IF k % (LineLen + 1) = 0 \/ k = 0 THEN Newline
                                ELSE BioEncode(msg)[k - (k - 1) \div (LineLen + 1)]]
        BY <1>2, <1>3, Zenon DEF BioLines, len, total
      <4>2. \A f : [k \in 1..0 |-> f[k]] = <<>>
        OBVIOUS
      <4>3. len = <<>>
        BY <4>1
      <4> QED BY <4>3
    <3> QED BY <1>5, <3>1
  <2> DEFINE at(k) == k > 0 /\ len[k] = Pad
             padding == IF at(total) /\ at(total - 1) THEN 2 ELSE IF at(total) THEN 1 ELSE 0
  <2>2. DecodeLength(len) = (total * 3) \div 4 - padding /\ BioDecodeRoom(len) = (total \div 4) * 3 + 1
    BY <1>5, Zenon DEF DecodeLength, BioDecodeRoom
  <2>3. ~at(total)
    BY <1>5, <2>1, PadIs DEF Newline
  <2> HIDE DEF at
  <2>4. padding = 0
    BY <2>3
  <2> HIDE DEF padding, n
  <2>5. (total * 3) \div 4 >= (z * 3) \div 4 /\ total \div 4 >= z \div 4
    BY <1>1, <1>5
  <2>6. (z * 3) \div 4 >= n /\ (z \div 4) * 3 + 1 >= n
    <3>1. CASE r = 0
      BY <1>1, <3>1
    <3>2. CASE r = 1
      BY <1>1, <3>2
    <3>3. CASE r = 2
      BY <1>1, <3>3
    <3> QED BY <1>1, <3>1, <3>2, <3>3
  <2> DEFINE x == (total * 3) \div 4
             y == total \div 4
  <2>7. x \in Int /\ y \in Int /\ z \in Nat
    BY <1>1, <1>5
  <2> QED BY <1>1, <2>2, <2>4, <2>5, <2>6, <2>7
<1> QED BY <1>3, <1>6, <1>7, Zenon DEF RoomToDecode, len, n

-----------------------------------------------------------------------------
(* The five helpers together, as Spec runs them.                           *)

CoderInv == msg \in Seq(0..255) /\ cut \in 0..TextLength(Len(msg))

\* the empty message is one
LEMMA CoderInitial == Init => CoderInv
<1> SUFFICES ASSUME Init PROVE CoderInv
  OBVIOUS
<1>1. msg = <<>> /\ cut = 0
  BY DEF Init
<1>2. msg \in Seq(0..255)
  <2> DEFINE S == 0..255
  <2> HIDE DEF S
  <2>1. msg \in Seq(S)
    BY <1>1
  <2> QED BY <2>1 DEF S
<1>3. TextLength(Len(msg)) \in Nat
  BY <1>2, LenProperties, Lengths
<1> QED BY <1>1, <1>2, <1>3 DEF CoderInv

\* a byte more, or a character less of its text, and it still is
LEMMA CoderStep == CoderInv /\ [Next]_vars => CoderInv'
<1> SUFFICES ASSUME CoderInv, [Next]_vars PROVE CoderInv'
  OBVIOUS
<1>1. msg \in Seq(0..255) /\ cut \in 0..TextLength(Len(msg))
  BY DEF CoderInv
<1>2. CASE UNCHANGED coderVars
  BY <1>1, <1>2 DEF CoderInv, coderVars
<1>3. ASSUME NEW b \in MsgBytes, Feed(b) PROVE CoderInv'
  <2> DEFINE S == 0..255
  <2>1. b \in S
    BY AlgorithmsAssumption
  <2>2. cut' = 0 /\ msg' = Append(msg, b)
    BY <1>3 DEF Feed
  <2>3. msg' \in Seq(0..255)
    <3>1. msg \in Seq(S)
      BY <1>1
    <3> HIDE DEF S
    <3>2. msg' \in Seq(S)
      BY <2>1, <2>2, <3>1
    <3> QED BY <3>2 DEF S
  <2>4. TextLength(Len(msg')) \in Nat
    BY <2>3, LenProperties, Lengths
  <2> QED BY <2>2, <2>3, <2>4 DEF CoderInv
<1>4. CASE CutShort
  <2>1. cut < Len(BioEncode(msg)) /\ cut' = cut + 1 /\ msg' = msg
    BY <1>4 DEF CutShort
  <2> DEFINE z == TextLength(Len(msg))
  <2>2. Len(BioEncode(msg)) = z
    BY <1>1, BioEncodes, TextIs
  <2>3. z \in Nat
    BY <1>1, LenProperties, Lengths
  <2>4. TextLength(Len(msg')) = z
    BY <2>1
  <2> HIDE DEF z
  <2>5. cut \in 0..z
    BY <1>1 DEF z
  <2>6. cut' \in 0..z
    BY <2>1, <2>2, <2>3, <2>5
  <2> QED BY <1>1, <2>1, <2>4, <2>6 DEF CoderInv
<1>5. CutShort \/ (\E b \in MsgBytes : Feed(b)) \/ UNCHANGED coderVars
  BY DEF Next, vars
<1> QED BY <1>2, <1>3, <1>4, <1>5

\* all decoders invert all encoders
LEMMA CoderInvImplies == CoderInv => CodersInvert
BY TextsInverted, Room DEF CoderInv, CodersInvert

\* each helper alone takes its own steps
LEMMA OneHelper ==
  /\ Init => HashInit /\ TreeInit /\ FileInit /\ WireInit
  /\ [Next]_vars => /\ [HashNext]_shaVars /\ [TreeNext]_treeVars
                    /\ [FileNext]_fileVars /\ [WireNext]_wireVars
<1>1. Init => HashInit /\ TreeInit /\ FileInit /\ WireInit
  BY Zenon DEF Init
<1>2. [Next]_vars => /\ [HashNext]_shaVars /\ [TreeNext]_treeVars
                     /\ [FileNext]_fileVars /\ [WireNext]_wireVars
  BY Zenon DEF Next, vars
<1> QED BY <1>1, <1>2

-----------------------------------------------------------------------------
(* The helpers as Spec runs them.                                          *)

\* Every decoder gives back the message of every encoder (the
\* two of bs64.h, those of test_bs64.cc and en_de_file.c, OpenSSL's filter), or a
\* prefix of it when the text was cut short, and the buffers sized before
\* decoding are large enough, for messages of any length.
THEOREM Coders == Spec => []CodersInvert
<1>1. Init => CoderInv
  BY CoderInitial
<1>2. CoderInv /\ [Next]_vars => CoderInv'
  BY CoderStep
<1>3. CoderInv => CodersInvert
  BY CoderInvImplies
<1> QED BY <1>1, <1>2, <1>3, PTL DEF Spec

\* The hasher, as one of the helpers, hashes the blocks of the
\* standard.
THEOREM DigestOfSpec == Spec => []DigestIsStandard
<1>1. Init => HashInv
  BY OneHelper, HashInitial
<1>2. HashInv /\ [Next]_vars => HashInv'
  BY OneHelper, HashStep
<1>3. HashInv => DigestIsStandard
  BY HashInvImplies
<1> QED BY <1>1, <1>2, <1>3, PTL DEF Spec

\* The constructor of the Merkle tree, as one of the helpers, keeps
\* every leaf.
THEOREM TreeOfSpec == Spec => []LeavesKept
<1>1. Init => TreeInv
  BY OneHelper, TreeInitial
<1>2. TreeInv /\ [Next]_vars => TreeInv'
  BY OneHelper, TreeStep
<1>3. TreeInv => LeavesKept
  BY TreeInvImplies
<1> QED BY <1>1, <1>2, <1>3, PTL DEF Spec

=============================================================================
