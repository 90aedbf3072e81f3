------------------------- MODULE FileAndMessageProofs -------------------------
(***************************************************************************)
(* What the file tool gives back, for files of any length encrypted any    *)
(* number of times (a chain of texts down to the file), and what becomes   *)
(* of a message of the greeter service between the class that writes it    *)
(* and the class that reads it, for any texts and numbers: varints, the    *)
(* fields of a message one behind the other, the loop that reads them, the *)
(* merge of what arrives for a field twice, a text cut short, and what a   *)
(* class reads of what another one wrote.                                  *)
(***************************************************************************)
EXTENDS AlgorithmProofs

\* the bytes of texts and names are not zero
LEMMA BytesNotZero == \A x \in 1..255 : x # 0
OBVIOUS

\* one byte behind a string, which it ends when it is zero
LEMMA OneMoreByte ==
  ASSUME NEW s \in Seq(1..255), NEW y \in 0..255
  PROVE  UpToNul(Append(s, y)) = IF y = 0 THEN s ELSE Append(s, y)
<1> DEFINE S == 0..255
           w == Append(s, y)
           n == Len(s)
<1>1. s \in Seq(S) /\ UpToNul(s) = s
  BY NonZero
<1>2. n \in Nat /\ \A k \in 1..n : s[k] \in 1..255
  BY LenProperties, ElementOfSeq
<1>3. w \in Seq(S) /\ Len(w) = n + 1 /\ w[n + 1] = y /\ \A k \in 1..n : w[k] = s[k]
  <2> HIDE DEF S
  <2>1. y \in S
    BY DEF S
  <2> QED BY <1>1, <1>2, <2>1, AppendProperties
<1> HIDE DEF w
<1>4. CASE y = 0
  <2>1. UpToNul(w) = SubSeq(w, 1, n)
    <3>0. \A k \in 1..n : w[k] \notin {0}
      <4> TAKE k \in 1..n
      <4>1. w[k] = s[k] /\ s[k] \in 1..255
        BY <1>2, <1>3
      <4> DEFINE x == s[k]
      <4> HIDE DEF x, n, S
      <4>2. x # 0
        BY <4>1, BytesNotZero DEF x
      <4> QED BY <4>1, <4>2 DEF x
    <3>1. n \in 0..Len(w) /\ \A k \in 1..n : w[k] \notin {0}
      <4> HIDE DEF n
      <4>1. n \in 0..Len(w)
        BY <1>2, <1>3
      <4> QED BY <3>0, <4>1
    <3>2. w[n + 1] \in {0}
      BY <1>3, <1>4
    <3> HIDE DEF S
    <3>3. Until(w, {0}) = SubSeq(w, 1, n)
      BY <1>3, <3>1, <3>2, UntilIs
    <3> QED BY <3>3 DEF UpToNul
  <2>2. SubSeq(w, 1, n) = s
    <3> HIDE DEF S
    <3>1. s \in [1..n -> S] /\ n \in 0..Len(w)
      BY <1>1, <1>2, <1>3, LenProperties
    <3>2. \A i \in 1..n : s[i] = w[i]
      BY <1>3
    <3> HIDE DEF n
    <3> QED BY <1>3, <3>1, <3>2, SameFront
  <2> QED BY <1>4, <2>1, <2>2 DEF w
<1>5. CASE y # 0
  <2>1. w \in Seq(1..255)
    <3> DEFINE T == 1..255
    <3>1. s \in Seq(T) /\ y \in T
      BY <1>5
    <3> HIDE DEF T
    <3>2. w \in Seq(T)
      BY <3>1, AppendProperties DEF w
    <3> QED BY <3>2 DEF T
  <2>2. UpToNul(w) = w
    BY <2>1, NonZero
  <2> QED BY <1>5, <2>2 DEF w
<1> QED BY <1>4, <1>5

\* a digit is printed and read back
LEMMA HexDigits ==
  ASSUME NEW d \in 0..15
  PROVE  HexDigit(d) \in 1..255 /\ HexValue(HexDigit(d)) = d
<1>1. CASE d < 10
  <2>1. HexDigit(d) = 48 + d
    BY <1>1 DEF HexDigit
  <2> QED BY <1>1, <2>1 DEF HexValue
<1>2. CASE ~ (d < 10)
  <2>1. HexDigit(d) = 87 + d /\ HexDigit(d) \notin 48..57
    BY <1>2 DEF HexDigit
  <2>2. HexDigit(d) \in 97..102
    BY <1>2, <2>1
  <2> QED BY <2>1, <2>2 DEF HexValue
<1> QED BY <1>1, <1>2

\* reading any character gives a number
LEMMA HexValues ==
  ASSUME NEW c
  PROVE  HexValue(c) \in Nat
BY DEF HexValue

\* a place in a dump: its word and its place in the word
LEMMA Fifth ==
  ASSUME NEW k \in Nat \ {0}
  PROVE  /\ (k - 1) \div 5 \in Nat /\ (k - 1) % 5 \in {0, 1, 2, 3, 4}
         /\ k = 5 * ((k - 1) \div 5) + ((k - 1) % 5) + 1
<1> DEFINE x == k - 1
<1>1. x \in Nat /\ k = x + 1
  OBVIOUS
<1> HIDE DEF x
<1>2. x \div 5 \in Nat /\ x % 5 \in {0, 1, 2, 3, 4} /\ x = 5 * (x \div 5) + (x % 5)
  BY <1>1
<1> QED BY <1>1, <1>2 DEF x

\* a word of five characters
LEMMA HexWords ==
  ASSUME NEW b \in 0..255, NEW i \in 1..5
  PROVE  HexWord(b)[i] \in 1..255
<1>1. b \div 16 \in 0..15 /\ b % 16 \in 0..15
  OBVIOUS
<1>2. HexDigit(b \div 16) \in 1..255 /\ HexDigit(b % 16) \in 1..255
  BY <1>1, HexDigits
<1> DEFINE x == HexDigit(b \div 16)
           y == HexDigit(b % 16)
<1>3. HexWord(b) = <<48, 120, x, y, 32>>
  BY DEF HexWord
<1>4. i \in {1, 2, 3, 4, 5}
  OBVIOUS
<1> HIDE DEF x, y
<1>5. x \in 1..255 /\ y \in 1..255
  BY <1>2 DEF x, y
<1> QED BY <1>3, <1>4, <1>5

\* the words of the bytes, one after the other
LEMMA HexTexts ==
  ASSUME NEW c, NEW n \in Nat, c \in [1..n -> 0..255]
  PROVE  /\ HexText(c) \in Seq(1..255) /\ Len(HexText(c)) = 5 * n /\ Len(c) = n
         /\ \A i \in 1..n : /\ HexText(c)[5 * i - 2] = HexDigit(c[i] \div 16)
                            /\ HexText(c)[5 * i - 1] = HexDigit(c[i] % 16)
<1> DEFINE z == 5 * n
           t == HexText(c)
<1>1. z \in Nat
  OBVIOUS
<1>2. Len(c) = n
  <2> DEFINE S == 0..255
  <2>1. c \in [1..n -> S]
    BY SMTT(20)
  <2> HIDE DEF S
  <2> QED BY <2>1, FunctionSeq
<1>3. t = [k \in 1..z |-> HexWord(c[(k - 1) \div 5 + 1])[((k - 1) % 5) + 1]]
  BY <1>2, Zenon DEF HexText
<1>4. ASSUME NEW k \in 1..z
      PROVE  HexWord(c[(k - 1) \div 5 + 1])[((k - 1) % 5) + 1] \in 1..255
  <2> DEFINE a == (k - 1) \div 5
             r == (k - 1) % 5
  <2>1. k \in Nat \ {0} /\ k <= 5 * n
    OBVIOUS
  <2>2. a \in Nat /\ r \in {0, 1, 2, 3, 4} /\ k = 5 * a + r + 1
    BY <2>1, Fifth
  <2> HIDE DEF a, r
  <2>3. a + 1 \in 1..n /\ r + 1 \in 1..5
    BY <2>1, <2>2
  <2>4. c[a + 1] \in 0..255
    BY <2>3, Zenon
  <2>5. HexWord(c[a + 1])[r + 1] \in 1..255
    BY <2>3, <2>4, HexWords, Zenon
  <2> QED BY <2>5 DEF a, r
<1>5. t \in Seq(1..255) /\ Len(t) = z
  <2> DEFINE S == 1..255
  <2>1. t \in [1..z -> S]
    <3> HIDE DEF z
    <3> QED BY <1>3, <1>4
  <2> HIDE DEF S, z, t
  <2>2. t \in Seq(S) /\ Len(t) = z
    BY <1>1, <2>1, FunctionSeq
  <2> QED BY <2>2 DEF S
<1>6. ASSUME NEW i \in 1..n
      PROVE  t[5 * i - 2] = HexDigit(c[i] \div 16) /\ t[5 * i - 1] = HexDigit(c[i] % 16)
  <2>1. /\ 5 * i - 2 \in 1..z /\ 5 * i - 1 \in 1..z
        /\ ((5 * i - 2) - 1) \div 5 + 1 = i /\ (((5 * i - 2) - 1) % 5) + 1 = 3
        /\ ((5 * i - 1) - 1) \div 5 + 1 = i /\ (((5 * i - 1) - 1) % 5) + 1 = 4
    OBVIOUS
  <2> HIDE DEF z
  <2> DEFINE k3 == 5 * i - 2
             k4 == 5 * i - 1
  <2>2. t[k3] = HexWord(c[(k3 - 1) \div 5 + 1])[((k3 - 1) % 5) + 1]
    <3> HIDE DEF t
    <3> QED BY <1>3, <2>1
  <2>3. t[k4] = HexWord(c[(k4 - 1) \div 5 + 1])[((k4 - 1) % 5) + 1]
    <3> HIDE DEF t
    <3> QED BY <1>3, <2>1
  <2>4. t[k3] = HexWord(c[i])[3] /\ t[k4] = HexWord(c[i])[4]
    <3> HIDE DEF t
    <3> QED BY <2>1, <2>2, <2>3, Zenon DEF k3, k4
  <2> DEFINE x == HexDigit(c[i] \div 16)
             y == HexDigit(c[i] % 16)
  <2>5. HexWord(c[i]) = <<48, 120, x, y, 32>>
    BY DEF HexWord
  <2> HIDE DEF x, y, t
  <2>6. t[k3] = x /\ t[k4] = y
    BY <2>4, <2>5
  <2> QED BY <2>6 DEF x, y, k3, k4
<1> HIDE DEF t
<1>7. \A i \in 1..n : t[5 * i - 2] = HexDigit(c[i] \div 16) /\ t[5 * i - 1] = HexDigit(c[i] % 16)
  BY <1>6
<1> QED BY <1>2, <1>5, <1>7 DEF t

Numerals(t) == [i \in 1..(Len(t) \div 5) |->
                  16 * HexValue(t[5 * i - 2]) + HexValue(t[5 * i - 1])]

\* What fscanf reads of a dump,
LEMMA HexReads ==
  ASSUME NEW c, NEW n \in Nat, c \in [1..n -> 0..255]
  PROVE  Numerals(HexText(c)) = c /\ HexBytes(HexText(c)) = c
<1> DEFINE t == HexText(c)
           number == Numerals(t)
<1>1. /\ t \in Seq(1..255) /\ Len(t) = 5 * n
      /\ \A i \in 1..n : t[5 * i - 2] = HexDigit(c[i] \div 16) /\ t[5 * i - 1] = HexDigit(c[i] % 16)
  BY HexTexts
<1> HIDE DEF t
<1>2. Len(t) \div 5 = n
  BY <1>1
<1>3. \A i \in 1..n : 16 * HexValue(t[5 * i - 2]) + HexValue(t[5 * i - 1]) = c[i]
  <2> TAKE i \in 1..n
  <2> DEFINE b == c[i]
  <2>1. b \in 0..255
    OBVIOUS
  <2> HIDE DEF b
  <2>2. b \div 16 \in 0..15 /\ b % 16 \in 0..15 /\ 16 * (b \div 16) + (b % 16) = b
    BY <2>1
  <2>3. HexValue(HexDigit(b \div 16)) = b \div 16 /\ HexValue(HexDigit(b % 16)) = b % 16
    BY <2>2, HexDigits
  <2>4. t[5 * i - 2] = HexDigit(b \div 16) /\ t[5 * i - 1] = HexDigit(b % 16)
    BY <1>1 DEF b
  <2>5. 16 * HexValue(t[5 * i - 2]) + HexValue(t[5 * i - 1]) = b
    BY <2>2, <2>3, <2>4, Zenon
  <2> QED BY <2>5 DEF b
<1>4. number = [i \in 1..n |-> c[i]]
  BY <1>2, <1>3 DEF Numerals
<1>5. number = c
  BY <1>4
<1>6. HexText(number) = t => HexBytes(t) = number
  <2> DEFINE dump == HexText(number)
             more == IF number = <<>> THEN {48} ELSE {48} \cup Blanks
  <2>1. HexBytes(t) = IF t = dump \/ \E c1 \in more : t = Append(dump, c1)
                        THEN number ELSE NULL
    BY Zenon DEF HexBytes, Numerals
  <2> HIDE DEF number, dump, more
  <2>2. dump = t => HexBytes(t) = number
    BY <2>1
  <2> QED BY <2>2 DEF dump
<1> QED BY <1>5, <1>6 DEF t

\* and of one with a byte behind it, if it comes to the end.
LEMMA HexReadsOn ==
  ASSUME NEW c, NEW n \in Nat, c \in [1..n -> 0..255], NEW y \in 1..255
  PROVE  HexBytes(Append(HexText(c), y)) \in {c, NULL}
<1> DEFINE s == HexText(c)
           t == Append(s, y)
           number == Numerals(t)
<1>1. s \in Seq(1..255) /\ Len(s) = 5 * n /\ Numerals(s) = c
  BY HexTexts, HexReads, SMTT(20)
<1> HIDE DEF s
<1>2. Len(t) = 5 * n + 1 /\ \A k \in 1..(5 * n) : t[k] = s[k]
  <2> DEFINE S == 1..255
  <2>1. s \in Seq(S) /\ y \in S
    BY <1>1
  <2> HIDE DEF S
  <2> QED BY <1>1, <2>1, AppendProperties
<1> HIDE DEF t
<1>3. Len(t) \div 5 = n /\ Len(s) \div 5 = n
  BY <1>1, <1>2
<1>4. \A i \in 1..n : t[5 * i - 2] = s[5 * i - 2] /\ t[5 * i - 1] = s[5 * i - 1]
  <2> TAKE i \in 1..n
  <2>1. 5 * i - 2 \in 1..(5 * n) /\ 5 * i - 1 \in 1..(5 * n)
    OBVIOUS
  <2> QED BY <1>2, <2>1
<1>5. /\ Numerals(t) = [i \in 1..n |-> 16 * HexValue(t[5 * i - 2]) + HexValue(t[5 * i - 1])]
      /\ Numerals(s) = [i \in 1..n |-> 16 * HexValue(s[5 * i - 2]) + HexValue(s[5 * i - 1])]
  BY <1>3, Zenon DEF Numerals
<1>6. number = c
  BY <1>1, <1>4, <1>5
<1>7. HexBytes(t) \in {number, NULL}
  BY Zenon DEF HexBytes, Numerals, number
<1> HIDE DEF number
<1> QED BY <1>6, <1>7 DEF t, s

\* what was read, when the loop ended
LEMMA HexNumbers ==
  ASSUME NEW t \in Seq(0..255), HexBytes(t) # NULL
  PROVE  HexBytes(t) = Numerals(t) /\ Len(t) \div 5 \in Nat
         /\ Numerals(t) \in [1..(Len(t) \div 5) -> Nat]
<1>1. HexBytes(t) = Numerals(t)
  <2>1. HexBytes(t) \in {Numerals(t), NULL}
    BY Zenon DEF HexBytes, Numerals
  <2> QED BY <2>1
<1>2. \A i \in 1..(Len(t) \div 5) : 16 * HexValue(t[5 * i - 2]) + HexValue(t[5 * i - 1]) \in Nat
  <2> TAKE i \in 1..(Len(t) \div 5)
  <2>1. HexValue(t[5 * i - 2]) \in Nat /\ HexValue(t[5 * i - 1]) \in Nat
    BY HexValues
  <2> DEFINE x == HexValue(t[5 * i - 2])
             y == HexValue(t[5 * i - 1])
  <2>2. x \in Nat /\ y \in Nat
    BY <2>1
  <2> HIDE DEF x, y
  <2>3. 16 * x + y \in Nat
    BY <2>2
  <2> QED BY <2>3 DEF x, y
<1>3. Len(t) \div 5 \in Nat
  <2>1. Len(t) \in Nat
    BY LenProperties
  <2> QED BY <2>1
<1> QED BY <1>1, <1>2, <1>3 DEF Numerals

\* Whole blocks: the length of what is encrypted.
LEMMA EncLengths ==
  ASSUME NEW n \in Nat
  PROVE  /\ EncLength(n) \in Nat /\ n <= EncLength(n)
         /\ EncLength(n) = n <=> n % BlockBytes = 0
<1> DEFINE B == BlockBytes
           q == n \div B
           r == n % B
<1>1. B \in Nat \ {0}
  BY FileToolAssumption
<1> HIDE DEF B
<1>2. q \in Nat /\ r \in 0..(B - 1) /\ n = B * q + r
  BY <1>1, Division
<1> HIDE DEF q, r
<1>3. r \in Nat /\ r < B
  BY <1>1, <1>2
<1> DEFINE w == n + B
<1>4. w = B * (q + 1) + r
  <2>1. B * (q + 1) = B * q + B
    BY <1>1, <1>2
  <2> HIDE DEF w
  <2>2. w = n + B
    BY DEF w
  <2> DEFINE a == B * q
             c == B * (q + 1)
  <2>3. a \in Nat /\ c = a + B /\ n = a + r
    BY <1>1, <1>2, <2>1
  <2> HIDE DEF a, c
  <2>4. w = c + r
    BY <1>1, <1>3, <2>2, <2>3
  <2> QED BY <2>4 DEF c
<1>5. w \div B = q + 1 /\ w % B = r
  <2> DEFINE p == q + 1
  <2>1. p \in Nat /\ w \in Nat /\ w = B * p + r
    BY <1>1, <1>2, <1>4
  <2> HIDE DEF w, p
  <2>2. w \div B = p /\ w % B = r
    BY <1>1, <1>2, <2>1, QuotientOf
  <2> QED BY <2>2 DEF p
<1>6. EncLength(n) = IF r = 0 THEN n ELSE (q + 1) * B
  BY <1>5, Zenon DEF EncLength, B, w
<1>7. (q + 1) * B = n + B - r /\ n + B - r \in Nat /\ n + B - r > n
  <2> DEFINE c == B * (q + 1)
  <2>1. (q + 1) * B = c /\ c \in Nat
    BY <1>1, <1>2
  <2>2. n + B = c + r
    BY <1>4
  <2> HIDE DEF c
  <2> QED BY <1>1, <1>3, <2>1, <2>2
<1> DEFINE e == (q + 1) * B
<1> HIDE DEF e
<1>8. e \in Nat /\ e > n
  BY <1>7 DEF e
<1>9. EncLength(n) = IF r = 0 THEN n ELSE e
  BY <1>6 DEF e
<1> QED BY <1>8, <1>9 DEF r, B

\* one byte of the cipher, and what it gives back
Chained(p, b) == (p + b + 7) % 256
Unchained(c, p) == (c - p - 7) % 256

\* the cipher of a byte is undone
LEMMA Unchaining ==
  ASSUME NEW p \in 0..255, NEW b \in 0..255
  PROVE  Chained(p, b) \in 0..255 /\ Unchained(Chained(p, b), p) = b
<1> DEFINE x == p + b + 7
<1>1. x \in Nat /\ x < 768 /\ x - p - 7 = b
  OBVIOUS
<1> HIDE DEF x
<1>2. \/ x % 256 = x \/ x % 256 = x - 256 \/ x % 256 = x - 512
  BY <1>1
<1>3. x % 256 \in 0..255
  BY <1>1
<1>4. b % 256 = b /\ (b - 256) % 256 = b /\ (b - 512) % 256 = b
  OBVIOUS
<1> DEFINE y == x % 256
<1>5. y = x \/ y = x - 256 \/ y = x - 512
  BY <1>2
<1>6. y \in 0..255
  BY <1>3
<1> HIDE DEF y
<1>7. y - p - 7 = b \/ y - p - 7 = b - 256 \/ y - p - 7 = b - 512
  BY <1>1, <1>5, <1>6
<1>8. (y - p - 7) % 256 = b
  BY <1>4, <1>7
<1>9. Chained(p, b) = y
  BY DEF Chained, y, x
<1> QED BY <1>6, <1>8, <1>9 DEF Unchained

\* deciphering gives bytes, whatever it is given
LEMMA UnchainedIs ==
  ASSUME NEW c \in Int, NEW p \in Int
  PROVE  Unchained(c, p) \in 0..255
<1> DEFINE x == c - p - 7
<1>1. x \in Int
  OBVIOUS
<1> HIDE DEF x
<1>2. x % 256 \in 0..255
  BY <1>1
<1> QED BY <1>2 DEF Unchained, x

Before(c, i) == IF i > BlockBytes THEN c[i - BlockBytes] ELSE 0

\* The cipher is a function of that kind: there is one.
LEMMA CipherIs ==
  ASSUME NEW m \in Seq(0..255), NEW n \in Nat
  PROVE  LET c == Cipher(m, n) IN
         /\ c \in [1..n -> 0..255]
         /\ \A i \in 1..n : Before(c, i) \in 0..255 /\ c[i] = Chained(Before(c, i), At(m, i))
<1> DEFINE S == 0..255
           prev(f, i) == IF i > BlockBytes THEN f[i - BlockBytes] ELSE 0
           step == [i \in 0..n |-> [f \in [0..(i - 1) -> S] |->
                      IF i = 0 THEN 0 ELSE Chained(prev(f, i), At(m, i))]]
           Made(c) == c = [i \in 1..n |-> Chained(prev(c, i), At(m, i))]
           c == Cipher(m, n)
<1>1. BlockBytes \in Nat /\ BlockBytes > 1
  BY FileToolAssumption
<1>2. ASSUME NEW i \in 1..n, NEW f \in [0..(i - 1) -> S]
      PROVE  prev(f, i) \in S /\ Chained(prev(f, i), At(m, i)) \in S
  <2>1. i > BlockBytes => i - BlockBytes \in 0..(i - 1)
    BY <1>1
  <2>2. prev(f, i) \in S
    <3>1. 0 \in S
      OBVIOUS
    <3> HIDE DEF S
    <3> QED BY <2>1, <3>1
  <2>3. At(m, i) \in 0..255
    <3>1. i \in Int
      OBVIOUS
    <3> QED BY <3>1, ByteAt
  <2> HIDE DEF prev
  <2> QED BY <2>2, <2>3, Unchaining, Zenon
<1>3. \A i \in 0..n : \A f \in [0..(i - 1) -> S] :
        /\ step[i][f] = IF i = 0 THEN 0 ELSE Chained(prev(f, i), At(m, i))
        /\ step[i][f] \in S
  <2> TAKE i \in 0..n
  <2> TAKE f \in [0..(i - 1) -> S]
  <2>1. step[i][f] = IF i = 0 THEN 0 ELSE Chained(prev(f, i), At(m, i))
    OBVIOUS
  <2>2. 0 \in S
    OBVIOUS
  <2>3. i # 0 => i \in 1..n
    OBVIOUS
  <2> HIDE DEF step, S, prev
  <2> QED BY <1>2, <2>1, <2>2, <2>3
<1>4. PICK g \in [0..n -> S] : Follows(g, step, n)
  <2> HIDE DEF step, S, prev
  <2>1. StaysIn(step, n, S)
    BY <1>3 DEF StaysIn
  <2> QED BY <2>1, Recursion
<1>5. ASSUME NEW i \in 1..n
      PROVE  g[i] = Chained(prev(g, i), At(m, i))
  <2> DEFINE f == [j \in 0..(i - 1) |-> g[j]]
  <2>1. i \in 0..n /\ i # 0
    OBVIOUS
  <2>2. f \in [0..(i - 1) -> S]
    <3>1. \A j \in 0..(i - 1) : j \in 0..n
      OBVIOUS
    <3> HIDE DEF S
    <3> QED BY <3>1
  <2>3. g[i] = step[i][f]
    <3> HIDE DEF step, S, prev
    <3> QED BY <1>4, <2>1 DEF Follows
  <2>4. step[i][f] = Chained(prev(f, i), At(m, i))
    <3> HIDE DEF step, S, prev, f
    <3> QED BY <1>3, <2>1, <2>2
  <2>5. i > BlockBytes => i - BlockBytes \in 0..(i - 1)
    BY <1>1
  <2>6. prev(f, i) = prev(g, i)
    <3> HIDE DEF S, step
    <3> QED BY <2>5
  <2> HIDE DEF f, step, S, prev
  <2> QED BY <2>3, <2>4, <2>6
<1> DEFINE h == [i \in 1..n |-> g[i]]
<1>6. Made(h)
  <2>1. \A i \in 1..n : prev(h, i) = prev(g, i)
    <3> TAKE i \in 1..n
    <3>1. i > BlockBytes => i - BlockBytes \in 1..n
      BY <1>1
    <3> HIDE DEF S, step
    <3> QED BY <3>1
  <2>2. \A i \in 1..n : g[i] = Chained(prev(h, i), At(m, i))
    <3> HIDE DEF S, step, prev, h
    <3> QED BY <1>5, <2>1
  <2> DEFINE k == [i \in 1..n |-> Chained(prev(h, i), At(m, i))]
  <2>3. h = k
    <3> HIDE DEF S, step, prev
    <3>1. k = [i \in 1..n |-> g[i]]
      <4> HIDE DEF h
      <4> QED BY <2>2
    <3> HIDE DEF k
    <3> QED BY <3>1
  <2> HIDE DEF h, prev
  <2> QED BY <2>3
<1>7. c = CHOOSE f : f = [i \in 1..n |->
        (prev(f, i) + (IF i <= Len(m) THEN m[i] ELSE 0) + 7) % 256]
  BY Zenon DEF Cipher
<1>8. \A i \in 1..n : At(m, i) = IF i <= Len(m) THEN m[i] ELSE 0
  <2> TAKE i \in 1..n
  <2>1. Len(m) \in Nat
    BY LenProperties
  <2>2. i \in 1..Len(m) <=> i <= Len(m)
    BY <2>1
  <2> QED BY <2>2 DEF At
<1> DEFINE Stated(f) == f = [i \in 1..n |->
             (prev(f, i) + (IF i <= Len(m) THEN m[i] ELSE 0) + 7) % 256]
<1>9. \A f : Stated(f) <=> Made(f)
  <2> TAKE f
  <2>1. \A i \in 1..n : (prev(f, i) + (IF i <= Len(m) THEN m[i] ELSE 0) + 7) % 256
                          = Chained(prev(f, i), At(m, i))
    <3> HIDE DEF prev
    <3> QED BY <1>8, Zenon DEF Chained
  <2> HIDE DEF prev
  <2> DEFINE x == [i \in 1..n |-> (prev(f, i) + (IF i <= Len(m) THEN m[i] ELSE 0) + 7) % 256]
             y == [i \in 1..n |-> Chained(prev(f, i), At(m, i))]
  <2>2. x = y
    BY <2>1
  <2> HIDE DEF x, y
  <2>3. (f = x) <=> (f = y)
    BY <2>2
  <2> QED BY <2>3 DEF x, y
<1>10. Made(c)
  <2>1. c = CHOOSE f : Stated(f)
    BY <1>7, Zenon
  <2> HIDE DEF Stated, Made, h, c
  <2>2. Stated(h)
    BY <1>6, <1>9
  <2>3. Stated(c)
    BY <2>1, <2>2, Zenon
  <2> QED BY <1>9, <2>3
<1> HIDE DEF c, h, step
<1>11. DOMAIN c = 1..n /\ c = [i \in 1..n |-> c[i]]
       /\ \A i \in 1..n : c[i] = Chained(prev(c, i), At(m, i))
  <2> HIDE DEF prev, S
  <2>1. c = [i \in 1..n |-> Chained(prev(c, i), At(m, i))]
    BY <1>10, Zenon
  <2> DEFINE y(i) == Chained(prev(c, i), At(m, i))
  <2>2. c = [i \in 1..n |-> y(i)]
    BY <2>1
  <2> HIDE DEF Made, y
  <2>3. DOMAIN c = 1..n /\ \A i \in 1..n : c[i] = y(i)
    BY <2>2
  <2>4. c = [i \in 1..n |-> c[i]]
    BY <2>2, <2>3
  <2> QED BY <2>3, <2>4, Zenon DEF y
\* every value is a byte: the smallest place of one that is not
<1> DEFINE U == {k \in 0..n : \A i \in 1..k : c[i] \in S}
<1>12. 0 \in U /\ \A k \in 1..n : k - 1 \in U => k \in U
  <2>1. 0 \in U
    OBVIOUS
  <2>2. ASSUME NEW k \in 1..n, \A i \in 1..(k - 1) : c[i] \in S
        PROVE  c[k] \in S
    <3>1. k > BlockBytes => k - BlockBytes \in 1..(k - 1)
      BY <1>1
    <3>2. 0 \in S
      OBVIOUS
    <3> HIDE DEF S
    <3>3. prev(c, k) \in S
      BY <2>2, <3>1, <3>2
    <3>4. At(m, k) \in S
      <4>1. k \in Int
        OBVIOUS
      <4> QED BY <4>1, ByteAt, Zenon DEF S
    <3> HIDE DEF prev
    <3>5. Chained(prev(c, k), At(m, k)) \in S
      BY <3>3, <3>4, Unchaining, Zenon DEF S
    <3> QED BY <1>11, <3>5
  <2>3. ASSUME NEW k \in 1..n, k - 1 \in U
        PROVE  k \in U
    <3>1. \A i \in 1..(k - 1) : c[i] \in S
      BY <2>3
    <3>2. c[k] \in S
      BY <2>2, <3>1
    <3>3. \A i \in 1..k : i \in 1..(k - 1) \/ i = k
      OBVIOUS
    <3> HIDE DEF S
    <3>4. \A i \in 1..k : c[i] \in S
      BY <3>1, <3>2, <3>3
    <3> QED BY <3>4
  <2> HIDE DEF U
  <2> QED BY <2>1, <2>3
<1>13. \A i \in 1..n : c[i] \in S
  <2> HIDE DEF U
  <2>1. \A k \in 0..n : k \in U
    BY <1>12, InductionUpTo
  <2>2. n \in 0..n
    OBVIOUS
  <2>3. n \in U
    BY <2>1, <2>2
  <2> HIDE DEF S
  <2> QED BY <2>3 DEF U
<1>14. c \in [1..n -> S]
  <2> HIDE DEF S
  <2> QED BY <1>11, <1>13
<1>15. \A i \in 1..n : Before(c, i) = prev(c, i) /\ Before(c, i) \in S
  <2> TAKE i \in 1..n
  <2>1. i > BlockBytes => i - BlockBytes \in 1..n
    BY <1>1
  <2>2. 0 \in S
    OBVIOUS
  <2>3. Before(c, i) = prev(c, i)
    BY DEF Before
  <2> HIDE DEF S
  <2> QED BY <1>13, <2>1, <2>2, <2>3
<1>16. \A i \in 1..n : c[i] = Chained(Before(c, i), At(m, i))
  <2> HIDE DEF prev, S
  <2> QED BY <1>11, <1>15
<1> HIDE DEF prev
<1> QED BY <1>14, <1>15, <1>16, Zenon DEF c

\* Decryption inverts it, up to the zeros that fill the last block.
LEMMA Deciphered ==
  ASSUME NEW m \in Seq(0..255), NEW n \in Nat
  PROVE  Decipher(Cipher(m, n)) = [i \in 1..n |-> At(m, i)]
<1> DEFINE c == Cipher(m, n)
<1>1. /\ c \in [1..n -> 0..255]
      /\ \A i \in 1..n : Before(c, i) \in 0..255 /\ c[i] = Chained(Before(c, i), At(m, i))
  BY CipherIs, Zenon
<1> HIDE DEF c
<1>2. DOMAIN c = 1..n
  <2> DEFINE S == 0..255
  <2>1. c \in [1..n -> S]
    BY <1>1
  <2> HIDE DEF S
  <2> QED BY <2>1
<1>3. Decipher(c) = [i \in 1..n |-> Unchained(c[i], Before(c, i))]
  BY <1>2, Zenon DEF Decipher, Unchained, Before
<1>4. \A i \in 1..n : Unchained(c[i], Before(c, i)) = At(m, i)
  <2> TAKE i \in 1..n
  <2>1. c[i] = Chained(Before(c, i), At(m, i)) /\ Before(c, i) \in 0..255 /\ At(m, i) \in 0..255
    BY <1>1, ByteAt, SMTT(20)
  <2> QED BY <2>1, Unchaining, Zenon
<1> QED BY <1>3, <1>4 DEF c

\* the same of the bytes of a cipher
LEMMA DeciphersBytes ==
  ASSUME NEW k \in Nat, NEW c \in [1..k -> Nat]
  PROVE  Decipher(c) \in Seq(0..255)
<1>1. DOMAIN c = 1..k
  OBVIOUS
<1>2. Decipher(c) = [i \in 1..k |-> Unchained(c[i], Before(c, i))]
  BY <1>1, Zenon DEF Decipher, Unchained, Before
<1>3. \A i \in 1..k : Unchained(c[i], Before(c, i)) \in 0..255
  <2> TAKE i \in 1..k
  <2>1. BlockBytes \in Nat /\ BlockBytes > 1
    BY FileToolAssumption
  <2>2. i > BlockBytes => i - BlockBytes \in 1..k
    BY <2>1
  <2>3. Before(c, i) \in Int /\ c[i] \in Int
    BY <2>2 DEF Before
  <2> QED BY <2>3, UnchainedIs
<1> DEFINE S == 0..255
           f == Decipher(c)
<1>4. f \in [1..k -> S]
  BY <1>2, <1>3
<1> HIDE DEF S, f
<1>5. f \in Seq(S)
  BY <1>4, FunctionSeq
<1> QED BY <1>5 DEF f, S

Enc(g) == FEncode(HexText(Cipher(g, EncLength(Len(g)))))

\* the pads of a text, when they stand together
PadsFrom(t, len, p, q) == \A k \in 1..len : t[k] = Pad <=> k \in (p + 1)..q

\* the number of '=' at the end of a text
LEMMA PadsBetween ==
  ASSUME NEW t, NEW len \in Nat, DOMAIN t = 1..len, NEW p \in 0..len, NEW q \in p..len,
         PadsFrom(t, len, p, q)
  PROVE  PadsIn(t) = q - p
<1>1. p \in Nat /\ q \in Nat /\ p <= q /\ q <= len
  OBVIOUS
<1>2. {i \in DOMAIN t : t[i] = Pad} = (p + 1)..q
  <2>1. \A i \in (p + 1)..q : i \in 1..len
    BY <1>1
  <2> QED BY <2>1 DEF PadsFrom
<1>3. Cardinality((p + 1)..q) = IF p + 1 > q THEN 0 ELSE q - (p + 1) + 1
  BY <1>1, FS_Interval
<1>4. Cardinality((p + 1)..q) = q - p
  BY <1>1, <1>3
<1> QED BY <1>2, <1>4 DEF PadsIn

\* A text, and what follows from it of its sizes: the sextets are c of z
\* characters, with d pads.
LEMMA TextSizes ==
  ASSUME NEW s \in Seq(0..255)
  PROVE  LET c == Sextets(Len(s))
             z == TextLength(Len(s))
         IN /\ Len(s) \in Nat /\ c \in Nat /\ z \in Nat /\ c <= z
            /\ 6 * z - 8 * (z - c) = 8 * Len(s)
            /\ (6 * c) \div 8 = Len(s)
<1> DEFINE n == Len(s)
           c == Sextets(n)
           z == TextLength(n)
           q == n \div 3
           r == n % 3
<1>1. n \in Nat
  BY LenProperties
<1>2. /\ q \in Nat /\ r \in {0, 1, 2} /\ n = 3 * q + r
      /\ r = 0 => c = 4 * q /\ z = 4 * q
      /\ r = 1 => c = 4 * q + 2 /\ z = 4 * q + 4
      /\ r = 2 => c = 4 * q + 3 /\ z = 4 * q + 4
  <2> HIDE DEF n
  <2> QED BY <1>1, Lengths
<1>3. c \in 0..c /\ c \in Nat /\ z \in Nat /\ c <= z
  <2>1. c \in Nat /\ z \in Nat /\ c <= z
    <3> HIDE DEF n
    <3> QED BY <1>1, Lengths
  <2> HIDE DEF c
  <2> QED BY <2>1
<1>4. (6 * c) \div 8 = n
  BY <1>3, FrontOf
<1> HIDE DEF n, c, z, q, r
<1>5. 6 * z - 8 * (z - c) = 8 * n
  <2>1. CASE r = 0
    BY <1>2, <2>1
  <2>2. CASE r = 1
    BY <1>2, <2>2
  <2>3. CASE r = 2
    BY <1>2, <2>3
  <2> QED BY <1>2, <2>1, <2>2, <2>3
<1> QED BY <1>1, <1>3, <1>4, <1>5 DEF n, c, z

\* The bytes of values that begin with the sextets of a whole message.
LEMMA BytesOfWhole ==
  ASSUME NEW s \in Seq(0..255), NEW v \in Seq(0..63), Sextets(Len(s)) \in 0..Len(v),
         \A k \in 1..Sextets(Len(s)) : v[k] = Sextet(s, k)
  PROVE  \A k \in 1..Len(s) : SixByte(v, k) = s[k]
<1> DEFINE p == Sextets(Len(s))
<1>1. (6 * p) \div 8 = Len(s) /\ p \in Nat
  BY TextSizes
<1>2. p \in 0..Len(v) /\ \A k \in 1..p : v[k] = Sextet(s, k)
  OBVIOUS
<1> HIDE DEF p
<1>3. ASSUME NEW k \in 1..Len(s)
      PROVE  SixByte(v, k) = s[k]
  <2>1. k \in 1..((6 * p) \div 8)
    BY <1>1
  <2>2. SixByte(v, k) = At(s, k)
    BY <1>2, <2>1, BytesOfFront
  <2>3. At(s, k) = s[k]
    BY DEF At
  <2> QED BY <2>2, <2>3
<1> QED BY <1>3

\* a text with a character behind it
LEMMA TextAnd ==
  ASSUME NEW s \in Seq(0..255), NEW x \in 1..255
  PROVE  LET c == Sextets(Len(s))
             z == TextLength(Len(s))
             t == Append(Text(s), x)
         IN /\ t \in Seq(1..255) /\ Len(t) = z + 1
            /\ \A k \in 1..z : t[k] = Text(s)[k]
            /\ t[z + 1] = x
            /\ \A k \in 1..c : t[k] # Pad /\ Value(t[k]) = Sextet(s, k)
            /\ PadsIn(t) = (z - c) + (IF x = Pad THEN 1 ELSE 0)
<1> DEFINE c == Sextets(Len(s))
           z == TextLength(Len(s))
           t == Append(Text(s), x)
<1>1. c \in Nat /\ z \in Nat /\ c <= z
  BY TextSizes
<1>2. /\ Text(s) \in Seq(1..255) /\ Len(Text(s)) = z
      /\ \A k \in 1..z : Text(s)[k] = IF k <= c THEN Char(Sextet(s, k)) ELSE Pad
  BY TextIs
<1>3. t \in Seq(1..255) /\ Len(t) = z + 1 /\ (\A k \in 1..z : t[k] = Text(s)[k]) /\ t[z + 1] = x
  <2> DEFINE S == 1..255
             u == Text(s)
  <2>1. u \in Seq(S) /\ Len(u) = z /\ x \in S
    BY <1>2
  <2> HIDE DEF S, u, z
  <2>2. /\ Append(u, x) \in Seq(S) /\ Len(Append(u, x)) = z + 1
        /\ \A k \in 1..z : Append(u, x)[k] = u[k]
        /\ Append(u, x)[z + 1] = x
    BY <2>1, AppendProperties, SMTT(20)
  <2> QED BY <2>2 DEF S, u
<1> HIDE DEF c, z, t
<1>4. \A k \in 1..c : t[k] # Pad /\ Value(t[k]) = Sextet(s, k)
  <2> TAKE k \in 1..c
  <2>1. k \in 1..z /\ k <= c /\ k \in Nat \ {0}
    BY <1>1
  <2>2. t[k] = Char(Sextet(s, k))
    BY <1>2, <1>3, <2>1
  <2>3. Sextet(s, k) \in 0..63
    BY <2>1, SextetIs
  <2> QED BY <2>2, <2>3, Alphabet DEF Value
<1>5. \A k \in (c + 1)..z : t[k] = Pad
  <2> TAKE k \in (c + 1)..z
  <2>1. k \in 1..z /\ ~ (k <= c)
    BY <1>1
  <2> QED BY <1>2, <1>3, <2>1
<1>6. DOMAIN t = 1..(z + 1) /\ z + 1 \in Nat /\ c \in 0..(z + 1)
  BY <1>1, <1>3, LenProperties
<1>7. CASE x = Pad
  <2>1. \A k \in 1..(z + 1) : t[k] = Pad <=> k \in (c + 1)..(z + 1)
    <3> TAKE k \in 1..(z + 1)
    <3>1. \/ k \in 1..c /\ k \notin (c + 1)..(z + 1)
          \/ k \in (c + 1)..z /\ k \in (c + 1)..(z + 1)
          \/ k = z + 1 /\ k \in (c + 1)..(z + 1)
      BY <1>1
    <3> QED BY <1>3, <1>4, <1>5, <1>7, <3>1
  <2>2. z + 1 \in c..(z + 1)
    BY <1>1
  <2>3. PadsIn(t) = (z + 1) - c
    <3> DEFINE q == z + 1
    <3> HIDE DEF q
    <3>1. q \in Nat /\ DOMAIN t = 1..q /\ c \in 0..q /\ q \in c..q
          /\ PadsFrom(t, q, c, q)
      BY <1>6, <2>1, <2>2 DEF q, PadsFrom
    <3>2. PadsIn(t) = q - c
      BY <3>1, PadsBetween
    <3> QED BY <3>2 DEF q
  <2> QED BY <1>1, <1>3, <1>4, <1>7, <2>3 DEF c, z, t
<1>8. CASE x # Pad
  <2>1. \A k \in 1..(z + 1) : t[k] = Pad <=> k \in (c + 1)..z
    <3> TAKE k \in 1..(z + 1)
    <3>1. \/ k \in 1..c /\ k \notin (c + 1)..z
          \/ k \in (c + 1)..z
          \/ k = z + 1 /\ k \notin (c + 1)..z
      BY <1>1
    <3> QED BY <1>3, <1>4, <1>5, <1>8, <3>1
  <2>2. z \in c..(z + 1)
    BY <1>1
  <2>3. PadsIn(t) = z - c
    <3> DEFINE q == z + 1
    <3> HIDE DEF q
    <3>1. q \in Nat /\ DOMAIN t = 1..q /\ c \in 0..q /\ z \in c..q
          /\ PadsFrom(t, q, c, z)
      BY <1>6, <2>1, <2>2 DEF q, PadsFrom
    <3> QED BY <3>1, PadsBetween, Zenon
  <2> QED BY <1>1, <1>3, <1>4, <1>8, <2>3 DEF c, z, t
<1> QED BY <1>7, <1>8

\* the values of the characters of a text, as far as they are kept
LEMMA SixValuesOf ==
  ASSUME NEW s \in Seq(0..255), NEW t, NEW n \in Nat, Sextets(Len(s)) <= n,
         \A k \in 1..Sextets(Len(s)) : Value(t[k]) = Sextet(s, k)
  PROVE  /\ SixValues(t, n) \in Seq(0..63)
         /\ \A k \in 1..Len(s) : SixByte(SixValues(t, n), k) = s[k]
<1> DEFINE c == Sextets(Len(s))
           v == SixValues(t, n)
<1>1. c \in Nat
  BY TextSizes
<1>2. v \in Seq(0..63) /\ Len(v) = n /\ \A k \in 1..n : v[k] = Value(t[k])
  BY SixValuesAre, Zenon
<1> HIDE DEF v
<1>3. c \in 0..Len(v) /\ \A k \in 1..c : v[k] = Sextet(s, k)
  <2> HIDE DEF c
  <2>1. \A k \in 1..c : k \in 1..n
    BY <1>1 DEF c
  <2>2. \A k \in 1..c : Value(t[k]) = Sextet(s, k)
    BY DEF c
  <2>3. c \in 0..Len(v)
    BY <1>1, <1>2 DEF c
  <2> QED BY <1>2, <2>1, <2>2, <2>3
<1>4. \A k \in 1..Len(s) : SixByte(v, k) = s[k]
  BY <1>2, <1>3, BytesOfWhole
<1> QED BY <1>2, <1>4 DEF v

Almost(s, t) == t = s \/ \E y \in 1..255 : t = Append(s, y)

\* a sequence as a function
LEMMA AsFunction ==
  ASSUME NEW S, NEW s \in Seq(S)
  PROVE  s = [k \in 1..Len(s) |-> s[k]] /\ Len(s) \in Nat /\ DOMAIN s = 1..Len(s)
<1>1. s \in [1..Len(s) -> S] /\ Len(s) \in Nat
  BY LenProperties
<1> DEFINE n == Len(s)
<1> HIDE DEF n
<1>2. s \in [1..n -> S] /\ n \in Nat
  BY <1>1 DEF n
<1>3. s = [k \in 1..n |-> s[k]] /\ DOMAIN s = 1..n
  BY <1>2, SMTT(20)
<1> QED BY <1>2, <1>3 DEF n

\* one byte behind a string is the string, or the string and the byte
LEMMA OneBehind ==
  ASSUME NEW s \in Seq(1..255), NEW b \in 0..255
  PROVE  /\ s \o <<b>> = Append(s, b)
         /\ UpToNul(s \o <<b>>) = (IF b = 0 THEN s ELSE Append(s, b))
         /\ Almost(s, UpToNul(s \o <<b>>))
<1>1. s \in Seq(0..255)
  BY NonZero
<1>2. s \o <<b>> = Append(s, b)
  <2> DEFINE S == 0..255
  <2>1. s \in Seq(S) /\ b \in S
    BY <1>1
  <2> HIDE DEF S
  <2> QED BY <2>1, AppendIsConcat
<1>3. UpToNul(s \o <<b>>) = (IF b = 0 THEN s ELSE Append(s, b))
  BY <1>2, OneMoreByte
<1>4. b # 0 => b \in 1..255
  OBVIOUS
<1> QED BY <1>2, <1>3, <1>4 DEF Almost

\* decoding what encode() wrote gives the text, up to a byte behind it
LEMMA DecodedWhole ==
  ASSUME NEW s \in Seq(1..255), NEW b \in 0..255
  PROVE  FDecodeBits(Text(s)) >= 0 /\ Almost(s, Decoded(Text(s), b))
<1> DEFINE c == Sextets(Len(s))
           z == TextLength(Len(s))
           t == Text(s)
           d == z - c
           n == 8 * Len(s)
           v == SixValues(t, c)
<1>1. s \in Seq(0..255)
  BY NonZero
<1>2. /\ Len(s) \in Nat /\ c \in Nat /\ z \in Nat /\ c <= z /\ 6 * z - 8 * (z - c) = 8 * Len(s)
  BY <1>1, TextSizes
<1>3. /\ t \in Seq(1..255) /\ Len(t) = z
      /\ \A k \in 1..z : t[k] = IF k <= c THEN Char(Sextet(s, k)) ELSE Pad
  BY <1>1, TextIs, SMTT(20)
<1> HIDE DEF c, z, t
<1>4. ASSUME NEW k \in 1..c
      PROVE  t[k] # Pad /\ Value(t[k]) = Sextet(s, k)
  <2>1. k \in 1..z /\ k <= c /\ k \in Nat \ {0}
    BY <1>2
  <2>2. t[k] = Char(Sextet(s, k)) /\ Sextet(s, k) \in 0..63
    BY <1>1, <1>3, <2>1, SextetIs
  <2> QED BY <2>2, Alphabet DEF Value
<1>5. \A k \in (c + 1)..z : t[k] = Pad
  <2> TAKE k \in (c + 1)..z
  <2>1. k \in 1..z /\ ~ (k <= c)
    BY <1>2
  <2> QED BY <1>3, <2>1
<1>6. PadsIn(t) = d
  <2>1. c \in 0..Len(t)
    BY <1>2, <1>3
  <2> QED BY <1>3, <1>4, <1>5, <2>1, PadsBehind
<1>7. d \in 0..Len(t) /\ Len(t) - d = c /\ n \in Nat /\ n = 6 * Len(t) - 8 * d
  BY <1>2, <1>3
<1>8. FDecodeBits(t) = n /\ Decodes(t, v, n)
  <2> HIDE DEF d, n
  <2>1. FDecodeBits(t) = n /\ Decodes(t, SixValues(t, Len(t) - d), n)
    BY <1>3, <1>6, <1>7, FDecodes
  <2> QED BY <1>7, <2>1
<1>9. \A k \in 1..Len(s) : SixByte(v, k) = s[k]
  <2>1. \A k \in 1..c : Value(t[k]) = Sextet(s, k)
    BY <1>4
  <2>2. c \in Nat /\ c <= c
    BY <1>2
  <2>3. \A k \in 1..Len(s) : SixByte(SixValues(t, c), k) = s[k]
    BY <1>1, <2>1, <2>2, SixValuesOf DEF c
  <2> QED BY <2>3
<1> HIDE DEF v
<1>10. n % 8 = 0 /\ n \div 8 = Len(s)
  BY <1>2
<1>11. FDecode(t).whole = s /\ FDecode(t).behind = <<>>
  <2>1. FDecode(t).whole = [k \in 1..Len(s) |-> SixByte(v, k)] /\ FDecode(t).behind = <<>>
    BY <1>8, <1>10, Zenon DEF Decodes
  <2>2. [k \in 1..Len(s) |-> SixByte(v, k)] = [k \in 1..Len(s) |-> s[k]]
    BY <1>9
  <2> QED BY <2>1, <2>2, AsFunction, ZenonT(40)
<1>12. Decoded(t, b) = UpToNul(s \o <<b>>)
  BY <1>11, Zenon DEF Decoded
<1>13. n >= 0
  BY <1>7
<1> QED BY <1>8, <1>12, <1>13, OneBehind, Zenon DEF t

\* the same with a character too many behind it
LEMMA DecodedAnd ==
  ASSUME NEW s \in Seq(1..255), s # <<>>, NEW x \in 1..255, NEW b \in 0..255
  PROVE  Almost(s, Decoded(Append(Text(s), x), b))
<1> DEFINE c == Sextets(Len(s))
           z == TextLength(Len(s))
           t == Append(Text(s), x)
           len == Len(s)
<1>1. s \in Seq(0..255) /\ UpToNul(s) = s
  BY NonZero
<1>2. len \in Nat /\ c \in Nat /\ z \in Nat /\ c <= z /\ 6 * z - 8 * (z - c) = 8 * len
  BY <1>1, TextSizes
<1>3. /\ t \in Seq(1..255) /\ Len(t) = z + 1
      /\ \A k \in 1..c : t[k] # Pad /\ Value(t[k]) = Sextet(s, k)
      /\ PadsIn(t) = (z - c) + (IF x = Pad THEN 1 ELSE 0)
  BY <1>1, TextAnd, ZenonT(40)
<1>4. len # 0
  BY EmptySeq
<1>5. ASSUME NEW j \in Nat, c <= j
      PROVE  /\ SixValues(t, j) \in Seq(0..63)
             /\ \A k \in 1..len : SixByte(SixValues(t, j), k) = s[k]
  <2> HIDE DEF t
  <2>1. \A k \in 1..Sextets(Len(s)) : Value(t[k]) = Sextet(s, k)
    BY <1>3
  <2> QED BY <1>1, <1>5, <2>1, SixValuesOf
<1>6. s = [k \in 1..len |-> s[k]] /\ \A k \in 1..len : s[k] \in 1..255
  BY AsFunction, ElementOfSeq
<1> HIDE DEF c, z, t, len
<1>7. CASE x = Pad
  <2> DEFINE d == (z - c) + 1
             n == 8 * len - 2
             v == SixValues(t, c)
             f == [k \in 1..(len - 1) |-> s[k]]
  <2>1. /\ PadsIn(t) = d /\ d \in 0..Len(t) /\ Len(t) - d = c
        /\ n \in Nat /\ n = 6 * Len(t) - 8 * d
    BY <1>2, <1>3, <1>4, <1>7
  <2>2. Decodes(t, v, n)
    <3> HIDE DEF d, n
    <3>1. FDecodeBits(t) = n /\ Decodes(t, SixValues(t, Len(t) - d), n)
      BY <1>3, <2>1, FDecodes
    <3> QED BY <2>1, <3>1
  <2>3. n % 8 = 6 /\ n \div 8 = len - 1 /\ len - 1 + 1 = len /\ len \in 1..len /\ len - 1 \in Nat
    <3> DEFINE i == len - 1
    <3>1. i \in Nat /\ len = i + 1
      BY <1>2, <1>4
    <3> HIDE DEF i
    <3>2. (8 * i + 6) % 8 = 6 /\ (8 * i + 6) \div 8 = i
      BY <3>1
    <3>3. n = 8 * i + 6
      BY <3>1
    <3> HIDE DEF n
    <3> QED BY <3>1, <3>2, <3>3
  <2>4. \A k \in 1..len : SixByte(v, k) = s[k]
    BY <1>2, <1>5
  <2> HIDE DEF n, v
  <2>5. FDecode(t).whole = f /\ FDecode(t).behind = <<s[len]>>
    <3>0. 6 # 0
      OBVIOUS
    <3>1. /\ FDecode(t).whole = [k \in 1..(len - 1) |-> SixByte(v, k)]
          /\ FDecode(t).behind = <<SixByte(v, len)>>
      BY <2>2, <2>3, <3>0, Zenon DEF Decodes
    <3>2. \A k \in 1..(len - 1) : k \in 1..len
      BY <1>2
    <3>3. [k \in 1..(len - 1) |-> SixByte(v, k)] = f
      BY <2>4, <3>2
    <3>4. SixByte(v, len) = s[len]
      BY <2>3, <2>4
    <3> QED BY <3>1, <3>3, <3>4, Zenon
  <2>6. f \o <<s[len]>> = s
    <3> DEFINE S == 1..255
    <3>1. \A k \in 1..(len - 1) : k \in 1..len
      BY <1>2
    <3>2. f \in [1..(len - 1) -> S]
      BY <1>6, <3>1
    <3>3. s[len] \in S /\ s \in Seq(S) /\ s \in [1..len -> S]
      <4>1. s[len] \in S
        BY <1>6, <2>3
      <4>2. s \in Seq(S)
        OBVIOUS
      <4> HIDE DEF S
      <4>3. s \in [1..Len(s) -> S]
        BY <4>2, LenProperties
      <4> QED BY <4>1, <4>2, <4>3 DEF len
    <3> DEFINE i == len - 1
               g == <<s[len]>>
    <3>4. \A k \in 1..i : f[k] = s[k]
      OBVIOUS
    <3> HIDE DEF S, f
    <3>5. f \in Seq(S) /\ Len(f) = i
      BY <2>3, <3>2, FunctionSeq
    <3>6. g \in Seq(S) /\ Len(g) = 1 /\ g[1] = s[len]
      BY <3>3
    <3>7. len = i + 1
      BY <1>2
    <3> HIDE DEF i, g
    <3>8. \A k \in 1..len : s[k] = IF k <= Len(f) THEN f[k] ELSE g[k - Len(f)]
      <4> TAKE k \in 1..len
      <4>1. i \in Nat
        BY <2>3 DEF i
      <4>2. k <= i => k \in 1..i
        BY <4>1
      <4>3. ~ (k <= i) => k = len /\ k - i = 1
        BY <1>2, <3>7, <4>1
      <4> QED BY <3>4, <3>5, <3>6, <4>2, <4>3
    <3>9. len = Len(f) + Len(g)
      BY <3>5, <3>6, <3>7
    <3>10. f \o g = s
      <4>1. Joins(f, g, len, s)
        BY <3>8, <3>9 DEF Joins
      <4>2. len \in Nat /\ f \in Seq(S) /\ g \in Seq(S) /\ s \in [1..len -> S]
        BY <1>2, <3>3, <3>5, <3>6
      <4> QED BY <4>1, <4>2, Joining, Zenon
    <3> QED BY <3>10 DEF g
  <2>7. Decoded(t, b) = s
    <3>1. <<s[len]>> # <<>>
      OBVIOUS
    <3> HIDE DEF f
    <3> QED BY <1>1, <2>5, <2>6, <3>1, Zenon DEF Decoded
  <2> QED BY <2>7 DEF t, Almost
<1>8. CASE x # Pad
  <2> DEFINE d == z - c
             n == 8 * len + 6
             v == SixValues(t, c + 1)
             y == SixByte(v, len + 1)
  <2>1. /\ PadsIn(t) = d /\ d \in 0..Len(t) /\ Len(t) - d = c + 1
        /\ n \in Nat /\ n = 6 * Len(t) - 8 * d
    BY <1>2, <1>3, <1>8
  <2>2. Decodes(t, v, n)
    <3> HIDE DEF d, n
    <3>1. FDecodeBits(t) = n /\ Decodes(t, SixValues(t, Len(t) - d), n)
      BY <1>3, <2>1, FDecodes
    <3> QED BY <2>1, <3>1
  <2>3. n % 8 = 6 /\ n \div 8 = len /\ len + 1 \in Nat \ {0}
    BY <1>2
  <2>4. v \in Seq(0..63) /\ \A k \in 1..len : SixByte(v, k) = s[k]
    BY <1>2, <1>5
  <2>5. y \in 0..255
    <3> HIDE DEF v
    <3> QED BY <2>3, <2>4, SixByteIs
  <2> HIDE DEF n, v, y
  <2>6. FDecode(t).whole = s /\ FDecode(t).behind = <<y>>
    <3>0. 6 # 0
      OBVIOUS
    <3>1. /\ FDecode(t).whole = [k \in 1..len |-> SixByte(v, k)]
          /\ FDecode(t).behind = <<y>>
      BY <2>2, <2>3, <3>0, Zenon DEF Decodes, y
    <3>2. [k \in 1..len |-> SixByte(v, k)] = [k \in 1..len |-> s[k]]
      BY <2>4
    <3> QED BY <1>6, <3>1, <3>2, Zenon
  <2>7. Decoded(t, b) = UpToNul(s \o <<y>>)
    <3>1. <<y>> # <<>>
      OBVIOUS
    <3> QED BY <2>6, <3>1, Zenon DEF Decoded
  <2> QED BY <2>5, <2>7, OneBehind, Zenon DEF t
<1> QED BY <1>7, <1>8

Coded(g) == Cipher(g, EncLength(Len(g)))

\* what is written of a file and what can be read of it
LEMMA CodedIs ==
  ASSUME NEW g \in Seq(0..255)
  PROVE  /\ EncLength(Len(g)) \in Nat /\ Coded(g) \in [1..EncLength(Len(g)) -> 0..255]
         /\ HexText(Coded(g)) \in Seq(1..255) /\ Len(HexText(Coded(g))) = 5 * EncLength(Len(g))
         /\ HexBytes(HexText(Coded(g))) = Coded(g)
         /\ g # <<>> => HexText(Coded(g)) # <<>>
         /\ Enc(g) = Text(HexText(Coded(g)))
         /\ Enc(g) \in Seq(1..255)
<1> DEFINE n == EncLength(Len(g))
           c == Coded(g)
           s == HexText(c)
<1>1. Len(g) \in Nat
  BY LenProperties
<1>2. n \in Nat /\ Len(g) <= n
  BY <1>1, EncLengths
<1>3. c \in [1..n -> 0..255]
  <2> HIDE DEF n
  <2>1. Cipher(g, n) \in [1..n -> 0..255]
    BY <1>2, CipherIs
  <2> QED BY <2>1 DEF n, Coded
<1> HIDE DEF n, c
<1>4. s \in Seq(1..255) /\ Len(s) = 5 * n
  BY <1>2, <1>3, HexTexts
<1>5. HexBytes(s) = c
  BY <1>2, <1>3, HexReads
<1> HIDE DEF s
<1>6. g # <<>> => s # <<>>
  <2>1. g # <<>> => Len(g) > 0
    BY <1>1, EmptySeq
  <2>2. s = <<>> => 5 * n = 0
    BY <1>4
  <2> QED BY <1>1, <1>2, <2>1, <2>2
<1>7. Enc(g) = Text(s)
  <2>1. Enc(g) = FEncode(s)
    BY Zenon DEF Enc, s, c, Coded
  <2>2. s \in Seq(0..255) /\ UpToNul(s) = s
    BY <1>4, NonZero
  <2>3. FEncode(s) = Text(UpToNul(s))
    BY <2>2, FEncodes, Zenon
  <2> QED BY <2>1, <2>2, <2>3, Zenon
<1>8. Enc(g) \in Seq(1..255)
  <2>1. s \in Seq(0..255)
    BY <1>4, NonZero
  <2> QED BY <1>7, <2>1, TextIs
<1> QED BY <1>2, <1>3, <1>4, <1>5, <1>6, <1>7, <1>8 DEF n, c, s

\* What was encrypted, or that with a byte behind it, and is read to its end.
Follow(g, f) == f = Enc(g) \/ \E x \in 1..255 : f = Append(Enc(g), x)

\* whoever can read a cipher reads the one that was written
LEMMA ReadBack ==
  ASSUME NEW g \in Seq(0..255), g # <<>>, NEW f, Follow(g, f), NEW b \in 0..255,
         HexBytes(Decoded(f, b)) # NULL
  PROVE  HexBytes(Decoded(f, b)) = Coded(g) /\ Coded(g) # <<>>
<1> DEFINE s == HexText(Coded(g))
           n == EncLength(Len(g))
           t == Decoded(f, b)
<1>1. /\ n \in Nat /\ s \in Seq(1..255) /\ Len(s) = 5 * n /\ s # <<>>
      /\ HexBytes(s) = Coded(g) /\ Enc(g) = Text(s)
      /\ Coded(g) \in [1..n -> 0..255]
  BY CodedIs, ZenonT(40)
<1> HIDE DEF n
<1>0. \A y \in 1..255 : HexBytes(Append(s, y)) \in {Coded(g), NULL}
  BY <1>1, HexReadsOn, Zenon
<1> HIDE DEF s
<1>2. Almost(s, t)
  <2>1. CASE f = Enc(g)
    BY <1>1, <2>1, DecodedWhole
  <2>2. CASE \E x \in 1..255 : f = Append(Enc(g), x)
    <3> PICK x \in 1..255 : f = Append(Text(s), x)
      BY <1>1, <2>2
    <3>1. Almost(s, Decoded(Append(Text(s), x), b))
      BY <1>1, DecodedAnd, Zenon
    <3> QED BY <3>1
  <2> QED BY <2>1, <2>2, Zenon DEF Follow
<1> HIDE DEF t
<1>3. HexBytes(t) # NULL
  BY DEF t
<1>4. ASSUME NEW y \in 1..255, t = Append(s, y)
      PROVE  HexBytes(t) = Coded(g)
  BY <1>0, <1>3, <1>4, Zenon
<1>5. HexBytes(t) = Coded(g)
  BY <1>1, <1>2, <1>4, Zenon DEF Almost
<1>6. Coded(g) # <<>>
  <2>1. n # 0
    BY <1>1, EmptySeq
  <2>2. 1 \in 1..n
    BY <1>1, <2>1
  <2>3. 1 \in DOMAIN Coded(g)
    BY <1>1, <2>2
  <2> QED BY <2>3
<1> QED BY <1>5, <1>6 DEF t

\* and what is written of it: the text again, with a byte behind it when it
\* fills its last block
Back(g, w) == w = g \/ (Len(g) % BlockBytes = 0 /\ \E x \in 1..255 : w = Append(g, x))

\* deciphering it gives the file back, up to a byte behind it
LEMMA PrintedBack ==
  ASSUME NEW g \in Seq(1..255), NEW c \in 0..255
  PROVE  Back(g, Printed(Decipher(Coded(g)), c))
<1> DEFINE len == Len(g)
           n == EncLength(len)
           d == Decipher(Coded(g))
           w == Append(d, c)
           S == 0..255
<1>1. g \in Seq(S)
  BY NonZero
<1>2. len \in Nat /\ g = [i \in 1..len |-> g[i]] /\ \A i \in 1..len : g[i] \in 1..255
  BY AsFunction, ElementOfSeq, ZenonT(40)
<1>3. n \in Nat /\ len <= n /\ (n = len <=> len % BlockBytes = 0)
  <2> HIDE DEF len
  <2> QED BY <1>2, EncLengths
<1>4. d = [i \in 1..n |-> At(g, i)]
  <2> HIDE DEF n
  <2>1. Decipher(Cipher(g, n)) = [i \in 1..n |-> At(g, i)]
    BY <1>1, <1>3, Deciphered
  <2> QED BY <2>1, Zenon DEF Coded, n
<1>5. \A i \in 1..len : At(g, i) = g[i] /\ At(g, i) # 0
  <2> TAKE i \in 1..len
  <2>1. At(g, i) = g[i]
    BY DEF At
  <2> QED BY <1>2, <2>1, BytesNotZero
<1>6. d \in [1..n -> S]
  <2>1. \A i \in 1..n : At(g, i) \in S
    <3> TAKE i \in 1..n
    <3>1. i \in Int
      BY <1>3
    <3> QED BY <1>1, <3>1, ByteAt
  <2> HIDE DEF S, d
  <2> QED BY <1>4, <2>1
<1>7. Printed(d, c) = UpToNul(w)
  BY Zenon DEF Printed
<1> HIDE DEF n, d
<1>8. CASE n = len
  <2>1. d = g
    <3>1. [i \in 1..len |-> At(g, i)] = [i \in 1..len |-> g[i]]
      <4> HIDE DEF len
      <4> QED BY <1>5
    <3> QED BY <1>2, <1>4, <1>8, <3>1, Zenon
  <2>2. UpToNul(Append(g, c)) = IF c = 0 THEN g ELSE Append(g, c)
    BY OneMoreByte
  <2>3. c # 0 => c \in 1..255
    OBVIOUS
  <2> DEFINE p == Printed(d, c)
  <2>4. p = IF c = 0 THEN g ELSE Append(g, c)
    BY <1>7, <2>1, <2>2, Zenon
  <2> HIDE DEF p
  <2>5. Back(g, p)
    BY <1>3, <1>8, <2>3, <2>4, Zenon DEF Back
  <2> QED BY <2>5, Zenon DEF p, d
<1>9. CASE n # len
  <2>1. d \in Seq(S) /\ Len(d) = n
    <3> HIDE DEF S
    <3> QED BY <1>3, <1>6, FunctionSeq
  <2>2. w \in Seq(S) /\ Len(w) = n + 1 /\ \A i \in 1..n : w[i] = d[i]
    <3>1. c \in S
      OBVIOUS
    <3> HIDE DEF S
    <3> QED BY <2>1, <3>1, AppendProperties
  <2> HIDE DEF w
  <2>3. len + 1 \in 1..n /\ len \in 0..Len(w) /\ \A i \in 1..len : i \in 1..n
    <3> HIDE DEF len
    <3> QED BY <1>2, <1>3, <1>9, <2>2
  <2>4. w[len + 1] = 0
    <3>1. w[len + 1] = At(g, len + 1)
      <4> HIDE DEF len
      <4> QED BY <1>4, <2>2, <2>3
    <3>2. len + 1 \notin 1..Len(g)
      BY <1>2
    <3> QED BY <3>1, <3>2 DEF At
  <2>5. \A i \in 1..len : w[i] = g[i] /\ w[i] \notin {0}
    <3> TAKE i \in 1..len
    <3>1. w[i] = At(g, i)
      <4> HIDE DEF len
      <4> QED BY <1>4, <2>2, <2>3
    <3> QED BY <1>5, <3>1
  <2>6. UpToNul(w) = SubSeq(w, 1, len)
    <3>1. w[len + 1] \in {0}
      BY <2>4
    <3> HIDE DEF S, len
    <3>2. Until(w, {0}) = SubSeq(w, 1, len)
      BY <2>2, <2>3, <2>5, <3>1, UntilIs
    <3> QED BY <3>2 DEF UpToNul
  <2>7. SubSeq(w, 1, len) = g
    <3>1. g \in [1..len -> S]
      <4> HIDE DEF S
      <4> QED BY <1>1, LenProperties
    <3> HIDE DEF S, len
    <3> QED BY <2>2, <2>3, <2>5, <3>1, SameFront
  <2>8. Printed(d, c) = g
    BY <1>7, <2>6, <2>7, Zenon
  <2> QED BY <2>8, Zenon DEF Back, d
<1> QED BY <1>8, <1>9 DEF d

\* Whatever is decrypted, bytes come out of it.
LEMMA PrintedBytes ==
  ASSUME NEW d \in Seq(0..255), NEW c \in 0..255
  PROVE  Printed(d, c) \in Seq(0..255)
<1> DEFINE S == 0..255
           w == Append(d, c)
<1>1. w \in Seq(S)
  <2>1. d \in Seq(S) /\ c \in S
    OBVIOUS
  <2> HIDE DEF S
  <2> QED BY <2>1, AppendProperties
<1> HIDE DEF w
<1>2. UpToNul(w) \in Seq(0..255)
  BY <1>1, UpToNulIs
<1> QED BY <1>2 DEF Printed, w

\* Of a text with room for its pads, or without it,
LEMMA DecodedRoom ==
  ASSUME NEW f \in Seq(0..255), FDecodeBits(f) >= 0, NEW b \in 0..255
  PROVE  Decoded(f, b) \in Seq(0..255)
<1> DEFINE u == UpToNul(f)
           d == PadsIn(u)
           len == Len(u)
           n == FDecodeBits(f)
           v == SixValues(u, len - d)
           S == 0..255
<1>1. u \in Seq(1..255)
  BY UpToNulIs
<1>2. UpToNul(u) = u
  BY <1>1, NonZero
<1> HIDE DEF u
<1>3. FDecodeBits(u) = n /\ FDecode(u) = FDecode(f)
  BY <1>2, Zenon DEF FDecodeBits, FDecode, u
<1>4. len \in Nat /\ DOMAIN u = 1..len
  BY <1>1, LenProperties
<1>5. d \in 0..len
  <2> DEFINE P == {i \in 1..len : u[i] = Pad}
  <2>1. P \subseteq 1..len
    OBVIOUS
  <2>2. IsFiniteSet(1..len) /\ Cardinality(1..len) = len
    <3>1. Cardinality(1..len) = IF 1 > len THEN 0 ELSE len - 1 + 1
      <4> HIDE DEF len
      <4>1. 1 \in Int /\ len \in Int
        BY <1>4
      <4> QED BY <4>1, FS_Interval, Zenon
    <3>2. IsFiniteSet(1..len)
      <4> HIDE DEF len
      <4>1. 1 \in Int /\ len \in Int
        BY <1>4
      <4> QED BY <4>1, FS_Interval, Zenon
    <3> QED BY <1>4, <3>1, <3>2
  <2> HIDE DEF P
  <2>3. IsFiniteSet(P) /\ Cardinality(P) <= len
    BY <2>1, <2>2, FS_Subset, ZenonT(40)
  <2>4. Cardinality(P) \in Nat
    BY <2>3, FS_CardinalityType
  <2>5. d = Cardinality(P)
    BY <1>4, Zenon DEF PadsIn, P
  <2> QED BY <1>4, <2>3, <2>4, <2>5
<1>6. n = 6 * len - 8 * d /\ n \in Nat
  <2>1. n = 6 * len - 8 * d
    BY Zenon DEF FDecodeBits, u
  <2> HIDE DEF n
  <2>2. n >= 0
    BY DEF n
  <2> HIDE DEF d, len
  <2> QED BY <1>4, <1>5, <2>1, <2>2
<1>7. Decodes(u, v, n)
  <2> HIDE DEF n
  <2>1. d \in 0..Len(u) /\ PadsIn(u) = d
    BY <1>5
  <2> HIDE DEF d
  <2>2. Decodes(u, SixValues(u, Len(u) - d), n)
    BY <1>1, <1>6, <2>1, FDecodes
  <2> QED BY <2>2
<1>8. v \in Seq(0..63)
  <2>1. len - d \in Nat
    <3> HIDE DEF len, d
    <3> QED BY <1>4, <1>5
  <2> HIDE DEF len, d
  <2> QED BY <2>1, SixValuesAre
<1> HIDE DEF v, n
<1>9. \A k \in Nat \ {0} : SixByte(v, k) \in S
  BY <1>8, SixByteIs
<1> DEFINE j == n \div 8
           w == FDecode(f).whole
           x == IF FDecode(f).behind = <<>> THEN <<b>> ELSE FDecode(f).behind
<1>10. j \in Nat
  BY <1>6
<1>11. w \in Seq(S)
  <2>1. w = [k \in 1..j |-> SixByte(v, k)]
    BY <1>3, <1>7, Zenon DEF Decodes
  <2>2. \A k \in 1..j : k \in Nat \ {0}
    BY <1>10
  <2> HIDE DEF S, j, w
  <2>3. w \in [1..j -> S]
    BY <1>9, <2>1, <2>2
  <2> QED BY <1>10, <2>3, FunctionSeq
<1>12. x \in Seq(S)
  <2>1. FDecode(f).behind = <<>> \/ FDecode(f).behind = <<SixByte(v, j + 1)>>
    BY <1>3, <1>7, Zenon DEF Decodes
  <2>2. j + 1 \in Nat \ {0}
    BY <1>10
  <2>3. b \in S
    OBVIOUS
  <2> DEFINE y == SixByte(v, j + 1)
  <2>4. y \in S
    <3> HIDE DEF S, j
    <3> QED BY <1>9, <2>2
  <2> HIDE DEF S, y
  <2>5. <<b>> \in Seq(S) /\ <<y>> \in Seq(S)
    BY <2>3, <2>4
  <2>6. x = <<b>> \/ x = <<y>>
    BY <2>1 DEF y
  <2> QED BY <2>5, <2>6
<1>13. Decoded(f, b) = UpToNul(w \o x)
  BY Zenon DEF Decoded
<1>14. w \o x \in Seq(S)
  <2> HIDE DEF S, w, x
  <2> QED BY <1>11, <1>12, ConcatProperties
<1> HIDE DEF w, x
<1>15. UpToNul(w \o x) \in Seq(0..255)
  <2> DEFINE y == w \o x
  <2>1. y \in Seq(0..255)
    BY <1>14
  <2> HIDE DEF y
  <2>2. UpToNul(y) \in Seq(0..255)
    BY <2>1, UpToNulIs
  <2> QED BY <2>2 DEF y
<1> QED BY <1>13, <1>15

\* and of one without it,
LEMMA DecodedPads ==
  ASSUME NEW f, FDecodeBits(f) \in Int, FDecodeBits(f) < 0, NEW b \in 0..255
  PROVE  Decoded(f, b) \in Seq(0..255)
<1> DEFINE n == FDecodeBits(f)
           k == n \div 8
           S == 0..255
           d == FDecode(f)
           x == IF d.behind = <<>> THEN <<b>> ELSE d.behind
<1>1. n \in Int /\ n < 0 /\ k \in Int /\ k < 1
  OBVIOUS
<1>2. d.whole = <<>> /\ (d.behind = <<>> \/ d.behind = <<0>>)
  <2> HIDE DEF n, k
  <2>1. PICK bytes : d = [whole |-> SubSeq(bytes, 1, k),
                          behind |-> IF n <= -8 THEN <<0>>
                                     ELSE IF n < 0 \/ n % 8 = 0 THEN <<>>
                                     ELSE <<bytes[k + 1]>>]
    BY Zenon DEF FDecode, n, k
  <2>2. SubSeq(bytes, 1, k) = <<>>
    BY <1>1
  <2> HIDE DEF d
  <2> QED BY <1>1, <2>1, <2>2
<1> HIDE DEF d
<1>3. <<>> \o x = x /\ x \in Seq(S)
  <2>1. b \in S /\ 0 \in S /\ (x = <<b>> \/ x = <<0>>)
    BY <1>2
  <2> HIDE DEF S, x
  <2>2. <<b>> \in Seq(S) /\ <<0>> \in Seq(S)
    BY <2>1
  <2>3. <<>> \o <<b>> = <<b>> /\ <<>> \o <<0>> = <<0>>
    BY <2>1
  <2>4. x \in Seq(S)
    BY <2>1, <2>2
  <2>5. <<>> \o x = x
    BY <2>1, <2>3
  <2> QED BY <2>4, <2>5
<1>4. Decoded(f, b) = UpToNul(x)
  <2>1. Decoded(f, b) = UpToNul(d.whole \o x)
    BY Zenon DEF Decoded, d
  <2> HIDE DEF x
  <2> QED BY <1>2, <1>3, <2>1
<1> HIDE DEF x
<1> QED BY <1>3, <1>4, UpToNulIs

\* bytes come out of the decoder.
LEMMA DecodedBytes ==
  ASSUME NEW f \in Seq(0..255), NEW b \in 0..255
  PROVE  Decoded(f, b) \in Seq(0..255)
<1> DEFINE u == UpToNul(f)
           len == Len(u)
           d == PadsIn(u)
           n == FDecodeBits(f)
<1>1. n = 6 * len - 8 * d
  BY Zenon DEF FDecodeBits
<1>2. len \in Int
  <2>1. u \in Seq(1..255)
    BY UpToNulIs
  <2> HIDE DEF u
  <2> QED BY <2>1, LenProperties
<1>3. d \in Int
  <2> DEFINE P == {i \in 1..len : u[i] = Pad}
  <2>1. DOMAIN u = 1..len
    <3>1. u \in Seq(1..255)
      BY UpToNulIs
    <3> HIDE DEF u
    <3> QED BY <3>1, LenProperties
  <2>2. d = Cardinality(P)
    BY <2>1, Zenon DEF PadsIn
  <2>3. IsFiniteSet(1..len)
    <3> HIDE DEF len
    <3> QED BY <1>2, FS_Interval
  <2>4. P \subseteq 1..len
    OBVIOUS
  <2> HIDE DEF P, d
  <2>5. IsFiniteSet(P)
    BY <2>3, <2>4, FS_Subset
  <2>6. Cardinality(P) \in Nat
    BY <2>5, FS_CardinalityType
  <2> QED BY <2>2, <2>6
<1>4. n \in Int
  <2> HIDE DEF n, len, d
  <2> QED BY <1>1, <1>2, <1>3
<1>5. CASE n >= 0
  BY <1>5, DecodedRoom
<1>6. CASE ~(n >= 0)
  <2>1. n < 0
    <3> HIDE DEF n
    <3> QED BY <1>4, <1>6
  <2> QED BY <1>4, <2>1, DecodedPads
<1> QED BY <1>5, <1>6

\* nothing that is encoded becomes empty
LEMMA EncNotEmpty ==
  ASSUME NEW g \in Seq(0..255), g # <<>>
  PROVE  Enc(g) # <<>>
<1> DEFINE s == HexText(Coded(g))
<1>1. s \in Seq(1..255) /\ s # <<>> /\ Enc(g) = Text(s)
  BY CodedIs, Zenon
<1> HIDE DEF s
<1>2. s \in Seq(0..255)
  BY <1>1, NonZero
<1>3. Len(s) \in Nat /\ Len(Text(s)) = TextLength(Len(s)) /\ Len(s) # 0
  BY <1>1, <1>2, TextIs, EmptySeq
<1> DEFINE n == Len(s)
<1>4. TextLength(n) # 0
  <2> HIDE DEF n
  <2>1. n \in Nat /\ n # 0
    BY <1>3 DEF n
  <2> QED BY <2>1 DEF TextLength
<1>5. Len(Text(s)) # 0
  BY <1>3, <1>4
<1>6. Len(<<>>) = 0
  OBVIOUS
<1> QED BY <1>1, <1>5, <1>6

\* a byte behind whole blocks begins another one
LEMMA NotFull ==
  ASSUME NEW len \in Nat, len % BlockBytes = 0
  PROVE  (len + 1) % BlockBytes = 1
<1> DEFINE B == BlockBytes
           q == len \div B
           k == len + 1
           r == 1
<1>1. B \in Nat \ {0} /\ r \in 0..(B - 1) /\ k \in Nat
  BY FileToolAssumption
<1>2. len % B = 0
  OBVIOUS
<1> HIDE DEF B
<1>3. q \in Nat /\ len = B * q + (len % B)
  BY <1>1, Division
<1> HIDE DEF q
<1> DEFINE a == B * q
<1>4. a \in Nat
  BY <1>1, <1>3
<1> HIDE DEF a
<1>5. len = a + 0
  BY <1>2, <1>3, Zenon DEF a
<1>6. k = a + r
  BY <1>4, <1>5
<1> HIDE DEF r, k
<1>7. k = B * q + r
  BY <1>6 DEF a
<1>8. (B * q + r) % B = r
  BY <1>1, <1>3, Quotient, Zenon
<1>9. k % B = r
  BY <1>7, <1>8, Zenon
<1> QED BY <1>9 DEF k, B, r

\* Back of what came back: a byte behind a full block does not fill the next.
LEMMA BackAgain ==
  ASSUME NEW h \in Seq(1..255), NEW g, Back(h, g), NEW w, Back(g, w)
  PROVE  Back(h, w) /\ g \in Seq(1..255)
<1>1. CASE g = h
  BY <1>1
<1>2. CASE g # h
  <2> PICK x \in 1..255 : g = Append(h, x) /\ Len(h) % BlockBytes = 0
    BY <1>2, Zenon DEF Back
  <2> DEFINE len == Len(h)
             S == 1..255
  <2>1. Len(g) = len + 1 /\ g \in Seq(S)
    <3>1. x \in S /\ h \in Seq(S)
      OBVIOUS
    <3> HIDE DEF S
    <3> QED BY <3>1, AppendProperties
  <2>2. (len + 1) % BlockBytes = 1
    <3>1. len \in Nat
      BY LenProperties
    <3> QED BY <3>1, NotFull
  <2>3. Len(g) % BlockBytes # 0
    BY <2>1, <2>2
  <2>4. w = g
    BY <2>3, Zenon DEF Back
  <2> QED BY <2>1, <2>4
<1> QED BY <1>1, <1>2

Linked(g, f) == g # <<>> => Back(Enc(g), f)
FileTyped == file \in Seq(0..255) /\ below \in Seq(Seq(0..255))
FileInv ==
  /\ FileTyped
  /\ \A k \in 1..Len(below) :
       Linked(below[k], IF k = Len(below) THEN file ELSE below[k + 1])
  /\ RoundTrip

\* any file may be the first one
LEMMA FileInitial == FileInit => FileInv
<1> SUFFICES ASSUME FileInit PROVE FileInv
  OBVIOUS
<1>1. file \in Seq(0..255) /\ below = <<>> /\ last = "none"
  BY FileToolAssumption DEF FileInit
<1>2. below \in Seq(Seq(0..255)) /\ Len(below) = 0
  <2> DEFINE S == Seq(0..255)
  <2> HIDE DEF S
  <2>1. <<>> \in Seq(S)
    OBVIOUS
  <2> QED BY <1>1, <2>1 DEF S
<1>3. RoundTrip
  BY <1>1 DEF RoundTrip
<1> QED BY <1>1, <1>2, <1>3 DEF FileInv, FileTyped

\* what is decoded is the file one step up the chain, or one byte more
LEMMA CameBack ==
  ASSUME NEW g \in Seq(1..255), g # <<>>, NEW f, Linked(g, f),
         NEW b \in 0..255, NEW c \in 0..255, HexBytes(Decoded(f, b)) # NULL
  PROVE  /\ HexBytes(Decoded(f, b)) # <<>>
         /\ Back(g, Printed(Decipher(HexBytes(Decoded(f, b))), c))
<1>1. g \in Seq(0..255)
  BY NonZero
<1>2. Follow(g, f)
  BY Zenon DEF Linked, Back, Follow
<1>3. HexBytes(Decoded(f, b)) = Coded(g) /\ Coded(g) # <<>>
  BY <1>1, <1>2, ReadBack, Zenon
<1>4. Back(g, Printed(Decipher(Coded(g)), c))
  BY PrintedBack, Zenon
<1> QED BY <1>3, <1>4

\* the decoded file begins with the one encoded, and mostly is it
LEMMA BeginsWith ==
  ASSUME NEW g \in Seq(1..255), NEW w, Back(g, w)
  PROVE  /\ Len(g) <= Len(w) /\ g = SubSeq(w, 1, Len(g))
         /\ Len(g) % BlockBytes # 0 => w = g
<1> DEFINE S == 1..255
           len == Len(g)
<1>1. len % BlockBytes # 0 => w = g
  BY Zenon DEF Back
<1>2. g \in [1..len -> S] /\ len \in Nat /\ g \in Seq(S)
  BY LenProperties, ZenonT(40)
<1>3. w \in Seq(S) /\ len \in 0..Len(w) /\ \A k \in 1..len : g[k] = w[k]
  <2>1. CASE w = g
    <3> HIDE DEF S
    <3>1. len \in 0..len
      <4> HIDE DEF len
      <4> QED BY <1>2
    <3> QED BY <1>2, <2>1, <3>1
  <2>2. CASE w # g
    <3> PICK x \in S : w = Append(g, x)
      BY <2>2, Zenon DEF Back
    <3> HIDE DEF S
    <3>1. w \in Seq(S) /\ Len(w) = len + 1 /\ \A k \in 1..len : w[k] = g[k]
      BY <1>2, AppendProperties
    <3>2. len \in 0..Len(w)
      <4> HIDE DEF len
      <4> QED BY <1>2, <3>1
    <3> QED BY <3>1, <3>2
  <2> QED BY <2>1, <2>2
<1>4. SubSeq(w, 1, len) = g
  <2> HIDE DEF S, len
  <2> QED BY <1>2, <1>3, SameFront
<1>5. len <= Len(w)
  <2>1. Len(w) \in Nat
    BY <1>3, LenProperties
  <2> HIDE DEF S, len
  <2> QED BY <1>3, <2>1
<1> QED BY <1>1, <1>4, <1>5

\* A link of the chain holds what is not text before it is encrypted again.
LEMMA LinkIs ==
  ASSUME NEW h \in Seq(0..255), h # <<>>, NEW g, Linked(h, g)
  PROVE  g \in Seq(1..255) /\ g # <<>> /\ Back(Enc(h), g) /\ Enc(h) \in Seq(1..255)
<1>1. Enc(h) \in Seq(1..255) /\ Enc(h) # <<>>
  BY CodedIs, EncNotEmpty, Zenon
<1>2. Back(Enc(h), g)
  BY DEF Linked
<1> DEFINE e == Enc(h)
           S == 1..255
<1> HIDE DEF e
<1>3. CASE g = e
  BY <1>1, <1>2, <1>3 DEF e
<1>4. CASE g # e
  <2> PICK x \in S : g = Append(e, x)
    BY <1>2, <1>4, Zenon DEF Back, e
  <2>1. e \in Seq(S) /\ x \in S
    BY <1>1 DEF e
  <2> HIDE DEF S
  <2>2. g \in Seq(S) /\ g # <<>>
    BY <2>1, AppendProperties
  <2> QED BY <1>1, <1>2, <2>2 DEF S, e
<1> QED BY <1>3, <1>4

\* what a run that decrypts makes of the chain
LEMMA Unwound ==
  ASSUME NEW h \in Seq(0..255), NEW g, Linked(h, g), NEW f, Linked(g, f),
         NEW b \in 0..255, NEW c \in 0..255, HexBytes(Decoded(f, b)) # NULL
  PROVE  Linked(h, Printed(Decipher(HexBytes(Decoded(f, b))), c))
<1> DEFINE w == Printed(Decipher(HexBytes(Decoded(f, b))), c)
<1> SUFFICES ASSUME h # <<>> PROVE Back(Enc(h), w)
  BY DEF Linked
<1>1. g \in Seq(1..255) /\ g # <<>> /\ Back(Enc(h), g) /\ Enc(h) \in Seq(1..255)
  BY LinkIs
<1>2. Back(g, w)
  BY <1>1, CameBack, Zenon
<1> HIDE DEF w
<1>3. Back(Enc(h), w)
  BY <1>1, <1>2, BackAgain
<1> QED BY <1>3

\* whatever the tool writes is bytes
LEMMA Written ==
  ASSUME NEW f \in Seq(0..255), NEW b \in 0..255, NEW c \in 0..255,
         HexBytes(Decoded(f, b)) # NULL
  PROVE  /\ Printed(<<b>>, c) \in Seq(0..255)
         /\ Printed(Decipher(HexBytes(Decoded(f, b))), c) \in Seq(0..255)
<1> DEFINE t == Decoded(f, b)
<1>1. t \in Seq(0..255) /\ HexBytes(t) # NULL
  BY DecodedBytes
<1> HIDE DEF t
<1>2. HexBytes(t) = Numerals(t) /\ Len(t) \div 5 \in Nat /\ Numerals(t) \in [1..(Len(t) \div 5) -> Nat]
  BY <1>1, HexNumbers
<1>3. Decipher(HexBytes(t)) \in Seq(0..255)
  BY <1>2, DeciphersBytes
<1>4. <<b>> \in Seq(0..255)
  <2> DEFINE S == 0..255
  <2>1. b \in S
    OBVIOUS
  <2> HIDE DEF S
  <2> QED BY <2>1 DEF S
<1>5. Printed(Decipher(HexBytes(t)), c) \in Seq(0..255)
  BY <1>3, PrintedBytes
<1> QED BY <1>4, <1>5, PrintedBytes DEF t

Chain(bs, f) ==
  \A k \in 1..Len(bs) : Linked(bs[k], IF k = Len(bs) THEN f ELSE bs[k + 1])

\* encoding adds to the chain
LEMMA ChainGrows ==
  ASSUME NEW S, NEW bs \in Seq(S), NEW f \in S, NEW e, Chain(bs, f), Linked(f, e)
  PROVE  Append(bs, f) \in Seq(S) /\ Chain(Append(bs, f), e)
<1> DEFINE n == Len(bs)
           cs == Append(bs, f)
<1>1. n \in Nat
  BY LenProperties
<1>2. /\ cs \in Seq(S) /\ Len(cs) = n + 1 /\ cs[n + 1] = f
      /\ \A k \in 1..n : cs[k] = bs[k]
  BY AppendProperties
<1> HIDE DEF cs, n
<1>3. \A k \in 1..n : Linked(bs[k], IF k = n THEN f ELSE bs[k + 1])
  BY DEF Chain, n
<1>4. ASSUME NEW k \in 1..(n + 1)
      PROVE  Linked(cs[k], IF k = n + 1 THEN e ELSE cs[k + 1])
  <2>1. CASE k = n + 1
    BY <1>2, <2>1
  <2>2. CASE k = n /\ k # n + 1
    <3>1. k \in 1..n
      BY <1>1, <2>2
    <3> QED BY <1>2, <1>3, <2>2, <3>1
  <2>3. CASE k # n /\ k # n + 1
    <3>1. k \in 1..n /\ k + 1 \in 1..n
      BY <1>1, <2>3
    <3> QED BY <1>2, <1>3, <2>3, <3>1
  <2> QED BY <2>1, <2>2, <2>3
<1> QED BY <1>2, <1>4, Zenon DEF Chain, cs

\* decoding takes away from it
LEMMA ChainShrinks ==
  ASSUME NEW S, NEW bs \in Seq(S), bs # <<>>, NEW f, NEW e, Chain(bs, f),
         Len(bs) > 1 => Linked(bs[Len(bs) - 1], e)
  PROVE  LET cs == SubSeq(bs, 1, Len(bs) - 1) IN
         cs \in Seq(S) /\ Chain(cs, e)
<1> DEFINE n == Len(bs)
           j == n - 1
           cs == SubSeq(bs, 1, j)
<1>1. n \in Nat /\ n # 0
  BY LenProperties, EmptySeq
<1>2. j \in Nat /\ j \in 0..n /\ n = j + 1 /\ (j >= 1 => n > 1)
  <2> HIDE DEF n
  <2> QED BY <1>1
<1>3. cs \in Seq(S) /\ Len(cs) = j /\ \A k \in 1..j : cs[k] = bs[k]
  <2> HIDE DEF j
  <2> QED BY <1>2, FrontIs
<1>4. \A k \in 1..n : Linked(bs[k], IF k = n THEN f ELSE bs[k + 1])
  BY DEF Chain
<1>5. j >= 1 => Linked(bs[j], e)
  BY <1>2
<1> HIDE DEF n, j, cs
<1>6. ASSUME NEW k \in 1..j
      PROVE  Linked(cs[k], IF k = j THEN e ELSE cs[k + 1])
  <2>1. CASE k = j
    <3>1. j >= 1
      BY <1>2, <2>1
    <3> QED BY <1>3, <1>5, <2>1, <3>1
  <2>2. CASE k # j
    <3>1. k \in 1..n /\ k # n /\ k + 1 \in 1..j
      BY <1>2, <2>2
    <3> QED BY <1>3, <1>4, <2>2, <3>1
  <2> QED BY <2>1, <2>2
<1> QED BY <1>3, <1>6, Zenon DEF Chain, cs, j, n

\* every run of the tool keeps the invariant
LEMMA FileStep == FileInv /\ [FileNext]_fileVars => FileInv'
<1> SUFFICES ASSUME FileInv, [FileNext]_fileVars PROVE FileInv'
  OBVIOUS
<1> DEFINE S == Seq(0..255)
<1>1. file \in S /\ below \in Seq(S) /\ Chain(below, file)
  BY DEF FileInv, FileTyped, Chain
<1>2. ASSUME file' \in S, below' \in Seq(S), Chain(below', file'), RoundTrip'
      PROVE  FileInv'
  BY <1>2 DEF FileInv, FileTyped, Chain
<1>3. CASE UNCHANGED fileVars
  BY <1>3 DEF FileInv, FileTyped, RoundTrip, fileVars, Linked
<1>4. CASE Encrypt
  <2>1. file' = Enc(file) /\ below' = Append(below, file) /\ last' = "encrypted"
    BY <1>4 DEF Encrypt, Enc
  <2>2. file' \in S
    <3>1. Enc(file) \in Seq(1..255)
      BY <1>1, CodedIs, Zenon
    <3> QED BY <2>1, <3>1, NonZero
  <2>3. Linked(file, file')
    BY <2>1 DEF Linked, Back
  <2> HIDE DEF S
  <2>4. below' \in Seq(S) /\ Chain(below', file')
    BY <1>1, <2>1, <2>3, ChainGrows
  <2>5. RoundTrip'
    BY <2>1 DEF RoundTrip
  <2> QED BY <1>2, <2>2, <2>4, <2>5
<1>5. CASE Decrypt
  <2> PICK b \in Behind, c \in Behind :
         LET read == HexBytes(Decoded(file, b)) IN
         IF read = NULL
           THEN last' = "endless" /\ UNCHANGED <<file, below, asked>>
           ELSE /\ file' = Printed(IF read = <<>> THEN <<b>> ELSE Decipher(read), c)
                /\ last' = IF below = <<>> THEN "other" ELSE "decrypted"
                /\ asked' = IF below = <<>> THEN <<>> ELSE below[Len(below)]
                /\ below' = IF below = <<>> THEN <<>> ELSE SubSeq(below, 1, Len(below) - 1)
    BY <1>5, Zenon DEF Decrypt
  <2>1. b \in 0..255 /\ c \in 0..255
    BY FileToolAssumption
  <2> DEFINE t == HexBytes(Decoded(file, b))
  <2>2. CASE t = NULL
    <3>1. last' = "endless" /\ UNCHANGED <<file, below, asked>>
      BY <2>2
    <3>2. RoundTrip'
      BY <3>1 DEF RoundTrip
    <3> HIDE DEF S, t
    <3>3. Chain(below', file') /\ file' \in S /\ below' \in Seq(S)
      BY <1>1, <3>1
    <3> QED BY <1>2, <3>2, <3>3
  <2>3. CASE t # NULL
    <3> DEFINE w == Printed(Decipher(t), c)
    <3>1. /\ file' = IF t = <<>> THEN Printed(<<b>>, c) ELSE w
          /\ last' = IF below = <<>> THEN "other" ELSE "decrypted"
          /\ asked' = IF below = <<>> THEN <<>> ELSE below[Len(below)]
          /\ below' = IF below = <<>> THEN <<>> ELSE SubSeq(below, 1, Len(below) - 1)
      BY <2>3
    <3>2. Printed(<<b>>, c) \in S /\ w \in S
      BY <1>1, <2>1, <2>3, Written, ZenonT(40)
    <3>3. file' \in S
      <4> HIDE DEF w, t, S
      <4> QED BY <3>1, <3>2
    <3>4. CASE below = <<>>
      <4>1. below' = <<>> /\ last' = "other"
        BY <3>1, <3>4, Zenon
      <4>2. RoundTrip'
        BY <4>1 DEF RoundTrip
      <4> HIDE DEF S, w, t
      <4>3. below' \in Seq(S)
        BY <4>1
      <4>4. Chain(below', file')
        BY <4>1 DEF Chain
      <4> QED BY <1>2, <3>3, <4>2, <4>3, <4>4
    <3>5. CASE below # <<>>
      <4> DEFINE n == Len(below)
                 g == below[n]
      <4>1. n \in Nat /\ n # 0 /\ n \in 1..n
        BY <1>1, <3>5, EmptySeq, LenProperties
      <4>2. /\ last' = "decrypted" /\ asked' = g
            /\ below' = SubSeq(below, 1, n - 1)
        BY <3>1, <3>5, Zenon
      <4>3. g \in S /\ Linked(g, file)
        <5> HIDE DEF S
        <5>1. g \in S
          BY <1>1, <4>1, ElementOfSeq
        <5>2. Linked(below[n], IF n = n THEN file ELSE below[n + 1])
          BY <1>1, <4>1, Zenon DEF Chain
        <5> QED BY <5>1, <5>2
      <4>4. t # <<>> => file' = w
        BY <3>1
      <4>5. ASSUME g \in Seq(1..255), g # <<>>
            PROVE  Back(g, file')
        <5>1. t # <<>> /\ Back(g, w)
          <6> HIDE DEF g
          <6> QED BY <2>1, <2>3, <4>3, <4>5, CameBack, Zenon
        <5> HIDE DEF g, w, t
        <5> QED BY <4>4, <5>1
      <4>6. RoundTrip'
        <5> HIDE DEF g, w, t
        <5> SUFFICES ASSUME g # <<>>, UpToNul(g) = g
                     PROVE  /\ Len(g) <= Len(file') /\ g = SubSeq(file', 1, Len(g))
                            /\ Len(g) % BlockBytes # 0 => file' = g
          BY <4>2 DEF RoundTrip
        <5>1. g \in Seq(1..255)
          BY <4>3, UpToNulIs
        <5>2. Back(g, file')
          BY <4>5, <5>1
        <5> QED BY <5>1, <5>2, BeginsWith
      <4>7. ASSUME n > 1
            PROVE  Linked(below[n - 1], file')
        <5> DEFINE h == below[n - 1]
        <5>1. n - 1 \in 1..n /\ n - 1 # n /\ n - 1 + 1 = n
          BY <4>1, <4>7
        <5>2. h \in S /\ Linked(h, g)
          <6> HIDE DEF S
          <6>1. h \in S
            BY <1>1, <5>1, ElementOfSeq, Zenon
          <6>2. Linked(below[n - 1], IF n - 1 = n THEN file ELSE below[n - 1 + 1])
            BY <1>1, <5>1, Zenon DEF Chain
          <6> QED BY <5>1, <6>1, <6>2, Zenon
        <5> SUFFICES ASSUME h # <<>> PROVE Linked(h, file')
          BY DEF Linked
        <5>3. g # <<>> /\ g \in Seq(1..255)
          <6> HIDE DEF g, h
          <6> QED BY <5>2, LinkIs
        <5>4. t # <<>>
          <6> HIDE DEF g
          <6> QED BY <2>1, <2>3, <4>3, <5>3, CameBack, Zenon
        <5>5. Linked(h, w)
          <6> HIDE DEF g, h
          <6> QED BY <2>1, <2>3, <4>3, <5>2, Unwound, ZenonT(40)
        <5> HIDE DEF h, w, t
        <5> QED BY <4>4, <5>4, <5>5
      <4>8. below' \in Seq(S) /\ Chain(below', file')
        <5>1. Len(below) > 1 => Linked(below[Len(below) - 1], file')
          BY <4>7
        <5> HIDE DEF S, w, t, g
        <5> QED BY <1>1, <3>5, <4>2, <5>1, ChainShrinks
      <4> QED BY <1>2, <3>3, <4>6, <4>8
    <3> QED BY <3>4, <3>5
  <2> QED BY <2>2, <2>3
<1> QED BY <1>3, <1>4, <1>5 DEF FileNext

\* every run of the file tool keeps what it has to give back
LEMMA FileInvImplies == FileInv => RoundTrip
BY DEF FileInv

-----------------------------------------------------------------------------
(* Varints.                                                                *)

\* five groups of seven bits hold every int32 that is not negative
LEMMA FiveGroups == MaxInt \in Nat /\ MaxInt < 128 * (128 * (128 * (128 * 128)))
<1>1. MaxInt \in Nat
  BY SMT DEF MaxInt
<1>2. 128 * 128 = 16384
  BY SMT
<1>3. 128 * 16384 = 2097152
  BY SMT
<1>4. 128 * 2097152 = 268435456
  BY SMT
<1>5. 128 * 268435456 = 34359738368
  BY SMT
<1>6. MaxInt < 34359738368
  BY SMT DEF MaxInt
<1> QED BY <1>1, <1>2, <1>3, <1>4, <1>5, <1>6, SMT

\* the groups of seven bits a number has
LEMMA SevenBits ==
  ASSUME NEW n \in 0..MaxInt
  PROVE  /\ \A k \in 1..5 : Groups7(n, k) \in Nat
         /\ Groups7(n, 1) = n
         /\ \A k \in 1..4 : /\ Groups7(n, k) = 128 * Groups7(n, k + 1) + (Groups7(n, k) % 128)
                            /\ Groups7(n, k) % 128 \in 0..127
         /\ Groups7(n, 5) < 128
<1> DEFINE q == <<n, Above7(n), Above7(Above7(n)), Above7(Above7(Above7(n))),
                  Above7(Above7(Above7(Above7(n))))>>
<1>0. n \in Nat
  OBVIOUS
<1>1. \A k \in 1..5 : k \in {1, 2, 3, 4, 5}
  OBVIOUS
<1>2. \A k \in 1..5 : Groups7(n, k) = q[k]
  BY DEF Groups7
<1>3. \A x \in Nat : Above7(x) \in Nat /\ x = 128 * Above7(x) + (x % 128) /\ x % 128 \in 0..127
  <2> TAKE x \in Nat
  <2>1. 128 \in Nat \ {0} /\ 128 - 1 = 127
    OBVIOUS
  <2> QED BY <2>1, Division DEF Above7
<1>4. \A x \in Nat : \A z \in Nat : x < 128 * z => Above7(x) < z
  <2> TAKE x \in Nat
  <2> TAKE z \in Nat
  <2> DEFINE y == Above7(x)
             r == x % 128
  <2>1. y \in Nat /\ x = 128 * y + r /\ r \in 0..127
    BY <1>3
  <2> HIDE DEF y, r
  <2>2. x < 128 * z => y < z
    BY <2>1
  <2> QED BY <2>2 DEF y
<1>5. q[1] = n /\ q[2] = Above7(q[1]) /\ q[3] = Above7(q[2]) /\ q[4] = Above7(q[3])
      /\ q[5] = Above7(q[4])
  OBVIOUS
<1> HIDE DEF q
<1>6. q[1] \in Nat /\ q[2] \in Nat /\ q[3] \in Nat /\ q[4] \in Nat /\ q[5] \in Nat
  <2>1. \A x \in Nat : Above7(x) \in Nat
    BY <1>3, Zenon
  <2> QED BY <1>0, <1>5, <2>1, Zenon
<1>7. q[5] < 128
  <2>1. n < 128 * (128 * (128 * (128 * 128)))
    <3>1. n <= MaxInt
      OBVIOUS
    <3> HIDE DEF MaxInt
    <3>2. MaxInt \in Nat
      BY FiveGroups
    <3> DEFINE z == 128 * (128 * (128 * (128 * 128)))
    <3>3. MaxInt < z /\ z \in Nat
      BY FiveGroups
    <3> HIDE DEF z
    <3>4. n < z
      BY <3>1, <3>2, <3>3
    <3> QED BY <3>4 DEF z
  <2> DEFINE z2 == 128 * 128
             z3 == 128 * z2
             z4 == 128 * z3
  <2>2. z2 \in Nat /\ z3 \in Nat /\ z4 \in Nat /\ 128 \in Nat
    OBVIOUS
  <2>3. n < 128 * z4 /\ z4 = 128 * z3 /\ z3 = 128 * z2 /\ z2 = 128 * 128
    BY <2>1
  <2> HIDE DEF z2, z3, z4
  <2>4. q[2] < z4
    BY <1>0, <1>4, <1>5, <2>2, <2>3
  <2>5. q[3] < z3
    BY <1>4, <1>5, <1>6, <2>2, <2>3, <2>4
  <2>6. q[4] < z2
    BY <1>4, <1>5, <1>6, <2>2, <2>3, <2>5
  <2> QED BY <1>4, <1>5, <1>6, <2>2, <2>3, <2>6
<1>8. \A k \in 1..5 : Groups7(n, k) \in Nat
  BY <1>1, <1>2, <1>6
<1>9. ASSUME NEW k \in 1..4
      PROVE  /\ Groups7(n, k) = 128 * Groups7(n, k + 1) + (Groups7(n, k) % 128)
             /\ Groups7(n, k) % 128 \in 0..127
  <2>1. k \in {1, 2, 3, 4} /\ k \in 1..5 /\ k + 1 \in 1..5
    OBVIOUS
  <2>2. q[k + 1] = Above7(q[k])
    BY <1>5, <2>1
  <2>3. q[k] \in Nat
    BY <1>6, <2>1
  <2> DEFINE x == q[k]
  <2>4. x \in Nat /\ Groups7(n, k) = x /\ Groups7(n, k + 1) = Above7(x)
    BY <1>2, <2>1, <2>2, <2>3
  <2> HIDE DEF x
  <2>5. x = 128 * Above7(x) + (x % 128) /\ x % 128 \in 0..127
    BY <1>3, <2>4
  <2> QED BY <2>4, <2>5
<1>10. Groups7(n, 1) = n /\ Groups7(n, 5) < 128
  <2>1. 1 \in 1..5 /\ 5 \in 1..5
    OBVIOUS
  <2> QED BY <1>2, <1>5, <1>7, <2>1
<1> QED BY <1>8, <1>9, <1>10

\* a varint ends with its first group below 128
LEMMA VarintSizeIs ==
  ASSUME NEW n \in 0..MaxInt
  PROVE  /\ VarintSize(n) \in 1..5 /\ Groups7(n, VarintSize(n)) < 128
         /\ \A j \in 1..(VarintSize(n) - 1) : Groups7(n, j) >= 128
<1> DEFINE P(k) == Groups7(n, k) < 128 /\ \A j \in 1..(k - 1) : Groups7(n, j) >= 128
           T == {k \in 1..5 : Groups7(n, k) < 128}
<1>1. 5 \in T /\ T \subseteq Nat
  BY SevenBits
<1>2. PICK k \in T : \A j \in T : k <= j
  <2> HIDE DEF T
  <2>1. T # {}
    BY <1>1
  <2> QED BY <1>1, <2>1, Smallest
<1>3. k \in 1..5 /\ P(k)
  <2>1. ASSUME NEW j \in 1..(k - 1) PROVE Groups7(n, j) >= 128
    <3>1. j \in 1..5 /\ ~ (k <= j)
      OBVIOUS
    <3>2. j \notin T
      BY <1>2, <3>1
    <3>3. Groups7(n, j) \in Nat
      BY <3>1, SevenBits
    <3> QED BY <3>1, <3>2, <3>3
  <2> QED BY <2>1
<1> HIDE DEF P, T
<1>4. VarintSize(n) = CHOOSE i \in 1..5 : P(i)
  BY DEF VarintSize, P
<1>5. VarintSize(n) \in 1..5 /\ P(VarintSize(n))
  BY <1>3, <1>4, Zenon
<1> QED BY <1>5 DEF P

\* the bytes of a varint: seven bits of the number in each
Low7(x) == x % 128
Low7s(v, k) == IF k <= Len(v) THEN Low7(v[k]) ELSE 0
Horner(a, b, c, d, e) == a + 128 * (b + 128 * (c + 128 * (d + 128 * e)))

\* the bytes of a varint, and the number they stand for
LEMMA VarintIs ==
  ASSUME NEW n \in 0..MaxInt
  PROVE  LET v == Varint(n)
             s == VarintSize(n)
         IN /\ v \in Seq(0..255) /\ Len(v) = s /\ s \in 1..5
            /\ \A k \in 1..s : IF k < s THEN v[k] \in 128..255 ELSE v[k] \in 0..127
            /\ n = Horner(Low7s(v, 1), Low7s(v, 2), Low7s(v, 3), Low7s(v, 4), Low7s(v, 5))
<1> DEFINE v == Varint(n)
           s == VarintSize(n)
           g(k) == Groups7(n, k)
           d(k) == Low7s(v, k)
<1>1. s \in 1..5 /\ g(s) < 128
  BY VarintSizeIs
<1>2. /\ \A k \in 1..5 : g(k) \in Nat
      /\ g(1) = n
      /\ \A k \in 1..4 : g(k) = 128 * g(k + 1) + Low7(g(k)) /\ Low7(g(k)) \in 0..127
  BY SevenBits DEF Low7
<1>3. v = [k \in 1..s |-> IF k < s THEN 128 + Low7(g(k)) ELSE g(k)]
  BY DEF Varint, Low7
<1>4. \A x \in 0..127 : Low7(128 + x) = x /\ Low7(x) = x
  <2> TAKE x \in 0..127
  <2>1. 128 * 1 + x = 128 + x /\ 128 * 0 + x = x /\ 128 \in Nat \ {0} /\ x \in 0..(128 - 1)
    OBVIOUS
  <2>2. (128 * 1 + x) % 128 = x /\ (128 * 0 + x) % 128 = x
    BY <2>1, Quotient
  <2> QED BY <2>1, <2>2, Zenon DEF Low7
<1> HIDE DEF s, g
<1>10. g(s) \in 0..127
  <2>1. g(s) \in Nat
    BY <1>1, <1>2, Zenon
  <2> QED BY <1>1, <2>1
<1>5. \A k \in 1..s : v[k] = IF k < s THEN 128 + Low7(g(k)) ELSE g(k)
  BY <1>3
<1>6. \A k \in 1..s : IF k < s THEN v[k] \in 128..255 ELSE v[k] \in 0..127
  <2> TAKE k \in 1..s
  <2>1. k < s => k \in 1..4
    BY <1>1
  <2>2. k < s => Low7(g(k)) \in 0..127
    BY <1>2, <2>1
  <2>3. ~ (k < s) => k = s /\ k \in 1..5
    BY <1>1
  <2> HIDE DEF v
  <2>4. k < s => v[k] \in 128..255
    BY <1>5, <2>2
  <2>5. ~ (k < s) => v[k] \in 0..127
    BY <1>5, <1>10, <2>3
  <2> QED BY <2>4, <2>5
<1>7. v \in Seq(0..255) /\ Len(v) = s
  <2> DEFINE B == 0..255
  <2>1. \A k \in 1..s : v[k] \in B
    <3> HIDE DEF v
    <3> QED BY <1>6
  <2> HIDE DEF B
  <2>2. v \in [1..s -> B]
    BY <1>3, <2>1
  <2>3. s \in Nat
    BY <1>1
  <2> HIDE DEF v
  <2>4. v \in Seq(B) /\ Len(v) = s
    BY <2>2, <2>3, FunctionSeq
  <2> QED BY <2>4 DEF B
<1>8. \A k \in 1..5 : d(k) = IF k < s THEN Low7(g(k)) ELSE IF k = s THEN g(s) ELSE 0
  <2> TAKE k \in 1..5
  <2>1. CASE k < s
    <3>1. k \in 1..4 /\ k \in 1..s /\ k <= s
      BY <1>1, <2>1
    <3>2. Low7(g(k)) \in 0..127
      BY <1>2, <3>1
    <3>3. v[k] = 128 + Low7(g(k))
      BY <1>5, <2>1, <3>1
    <3> HIDE DEF v
    <3>4. Low7(v[k]) = Low7(g(k))
      BY <1>4, <3>2, <3>3, Zenon
    <3> QED BY <1>7, <2>1, <3>1, <3>4 DEF Low7s
  <2>2. CASE k = s
    <3>1. v[k] = g(s) /\ ~ (k < s) /\ k <= s
      BY <1>1, <1>5, <2>2
    <3>2. g(s) \in 0..127
      BY <1>10
    <3>3. Low7(g(s)) = g(s)
      BY <1>4, <3>2
    <3> HIDE DEF v
    <3> QED BY <1>7, <2>2, <3>1, <3>3 DEF Low7s
  <2>3. CASE k > s
    <3>1. ~ (k <= s) /\ ~ (k < s) /\ k # s
      BY <1>1, <2>3
    <3> HIDE DEF v
    <3> QED BY <1>7, <3>1 DEF Low7s
  <2> QED BY <1>1, <2>1, <2>2, <2>3
<1> HIDE DEF v, d
<1>9. n = Horner(d(1), d(2), d(3), d(4), d(5))
  <2> DEFINE lo7(k) == Low7(g(k))
  <2>0. /\ g(1) \in Nat /\ g(2) \in Nat /\ g(3) \in Nat /\ g(4) \in Nat /\ g(5) \in Nat
        /\ g(1) = 128 * g(2) + lo7(1) /\ g(2) = 128 * g(3) + lo7(2)
        /\ g(3) = 128 * g(4) + lo7(3) /\ g(4) = 128 * g(5) + lo7(4)
        /\ lo7(1) \in Nat /\ lo7(2) \in Nat /\ lo7(3) \in Nat /\ lo7(4) \in Nat
    <3>1. \A k \in {1, 2, 3, 4} : k \in 1..4 /\ k + 1 \in 1..5
      OBVIOUS
    <3>2. \A k \in 1..4 : g(k) = 128 * g(k + 1) + lo7(k) /\ lo7(k) \in Nat
      BY <1>2
    <3> HIDE DEF lo7
    <3>3. 1 + 1 = 2 /\ 2 + 1 = 3 /\ 3 + 1 = 4 /\ 4 + 1 = 5
      OBVIOUS
    <3> QED BY <1>2, <3>1, <3>2, <3>3
  <2>1. \A k \in 1..5 : d(k) = IF k < s THEN lo7(k) ELSE IF k = s THEN g(s) ELSE 0
    BY <1>8
  <2>2. d(1) = (IF 1 < s THEN lo7(1) ELSE IF 1 = s THEN g(s) ELSE 0)
        /\ d(2) = (IF 2 < s THEN lo7(2) ELSE IF 2 = s THEN g(s) ELSE 0)
        /\ d(3) = (IF 3 < s THEN lo7(3) ELSE IF 3 = s THEN g(s) ELSE 0)
        /\ d(4) = (IF 4 < s THEN lo7(4) ELSE IF 4 = s THEN g(s) ELSE 0)
        /\ d(5) = (IF 5 < s THEN lo7(5) ELSE IF 5 = s THEN g(s) ELSE 0)
    BY <2>1
  <2> HIDE DEF lo7
  <2>3. CASE s = 1
    BY <1>2, <2>2, <2>3 DEF Horner
  <2>4. CASE s = 2
    BY <1>2, <2>0, <2>2, <2>4 DEF Horner
  <2>5. CASE s = 3
    BY <1>2, <2>0, <2>2, <2>5 DEF Horner
  <2>6. CASE s = 4
    BY <1>2, <2>0, <2>2, <2>6 DEF Horner
  <2>7. CASE s = 5
    BY <1>2, <2>0, <2>2, <2>7 DEF Horner
  <2> QED BY <1>1, <2>3, <2>4, <2>5, <2>6, <2>7
<1> QED BY <1>1, <1>6, <1>7, <1>9 DEF v, d, s

-----------------------------------------------------------------------------
(* What is read back from a text of bytes.                                 *)

\* two sequences one behind the other, taken apart again
LEMMA BackIs ==
  ASSUME NEW S, NEW s \in Seq(S), NEW n \in 0..Len(s)
  PROVE  LET t == SubSeq(s, n + 1, Len(s)) IN
         /\ t \in Seq(S) /\ Len(t) = Len(s) - n
         /\ \A i \in 1..(Len(s) - n) : t[i] = s[n + i]
<1> DEFINE len == Len(s)
           t == SubSeq(s, n + 1, len)
<1>1. len \in Nat /\ n \in 0..len
  BY LenProperties
<1>2. \A i \in (n + 1)..len : s[i] \in S
  <2> TAKE i \in (n + 1)..len
  <2>1. i \in 1..Len(s)
    BY <1>1
  <2> QED BY <2>1, ElementOfSeq
<1> HIDE DEF len
<1>3. n + 1 \in Int /\ len \in Int
  BY <1>1
<1>4. /\ t \in Seq(S) /\ Len(t) = (IF n + 1 <= len THEN len - (n + 1) + 1 ELSE 0)
      /\ \A i \in 1..(len - (n + 1) + 1) : t[i] = s[n + 1 + i - 1]
  BY <1>2, <1>3, SubSeqProperties
<1> HIDE DEF t
<1>5. len - (n + 1) + 1 = len - n /\ \A i \in 1..(len - n) : n + 1 + i - 1 = n + i
  BY <1>1
<1>6. Len(t) = len - n
  BY <1>1, <1>4
<1>7. \A i \in 1..(len - n) : t[i] = s[n + i]
  BY <1>4, <1>5
<1> QED BY <1>4, <1>6, <1>7 DEF t, len

\* two sequences are taken apart again
LEMMA JoinedApart ==
  ASSUME NEW S, NEW s \in Seq(S), NEW t \in Seq(S)
  PROVE  /\ SubSeq(s \o t, 1, Len(s)) = s
         /\ SubSeq(s \o t, Len(s) + 1, Len(s \o t)) = t
<1> DEFINE j == s \o t
           m == Len(s)
           n == Len(t)
<1>1. m \in Nat /\ n \in Nat /\ s \in [1..m -> S]
  BY LenProperties
<1>2. /\ j \in Seq(S) /\ Len(j) = m + n
      /\ \A i \in 1..(m + n) : j[i] = IF i <= m THEN s[i] ELSE t[i - m]
  BY ConcatProperties
<1> HIDE DEF j
<1>3. SubSeq(j, 1, m) = s
  <2>1. m \in 0..Len(j) /\ \A i \in 1..m : s[i] = j[i]
    <3> HIDE DEF m, n
    <3> QED BY <1>1, <1>2
  <2> HIDE DEF m
  <2> QED BY <1>1, <1>2, <2>1, SameFront
<1>4. SubSeq(j, m + 1, Len(j)) = t
  <2> DEFINE b == SubSeq(j, m + 1, Len(j))
  <2>1. m \in 0..Len(j) /\ Len(j) - m = n
    <3> HIDE DEF m, n
    <3> QED BY <1>1, <1>2
  <2>2. b \in Seq(S) /\ Len(b) = n /\ \A i \in 1..n : b[i] = j[m + i]
    <3> HIDE DEF m, n
    <3> QED BY <1>2, <2>1, BackIs
  <2> HIDE DEF b
  <2>3. \A i \in 1..n : b[i] = t[i]
    <3> TAKE i \in 1..n
    <3>1. m + i \in 1..(m + n) /\ ~ (m + i <= m) /\ (m + i) - m = i
      <4> HIDE DEF m, n
      <4> QED BY <1>1
    <3> HIDE DEF m, n
    <3>2. b[i] = j[m + i]
      BY <2>2
    <3>3. j[m + i] = t[(m + i) - m]
      <4> DEFINE k == m + i
      <4>1. k \in 1..(m + n) /\ ~ (k <= m)
        BY <3>1
      <4> HIDE DEF k
      <4>2. j[k] = t[k - m]
        BY <1>2, <4>1
      <4> QED BY <4>2 DEF k
    <3> QED BY <3>1, <3>2, <3>3
  <2>4. b = t
    BY <2>2, <2>3, SeqEqual
  <2> QED BY <2>4 DEF b
<1> QED BY <1>3, <1>4 DEF j, m

\* a front of two sequences ends in the first or in the second
LEMMA CutInFirst ==
  ASSUME NEW S, NEW s \in Seq(S), NEW t \in Seq(S), NEW n \in 0..Len(s)
  PROVE  SubSeq(s \o t, 1, n) = SubSeq(s, 1, n)
<1> DEFINE f == SubSeq(s, 1, n)
           j == s \o t
<1>1. Len(s) \in Nat /\ Len(t) \in Nat
  BY LenProperties
<1>2. /\ j \in Seq(S) /\ Len(j) = Len(s) + Len(t)
      /\ \A i \in 1..(Len(s) + Len(t)) : j[i] = IF i <= Len(s) THEN s[i] ELSE t[i - Len(s)]
  BY ConcatProperties
<1>3. f \in Seq(S) /\ Len(f) = n /\ \A i \in 1..n : f[i] = s[i]
  BY FrontIs
<1> HIDE DEF f, j
<1>4. f \in [1..n -> S] /\ n \in 0..Len(j)
  BY <1>1, <1>2, <1>3, LenProperties
<1>5. \A i \in 1..n : f[i] = j[i]
  <2> TAKE i \in 1..n
  <2>1. i \in 1..(Len(s) + Len(t)) /\ i <= Len(s)
    BY <1>1
  <2> QED BY <1>2, <1>3, <2>1
<1>6. SubSeq(j, 1, n) = f
  BY <1>2, <1>4, <1>5, SameFront
<1> QED BY <1>6 DEF f, j

\* cutting a sequence within its second part
LEMMA CutInSecond ==
  ASSUME NEW S, NEW s \in Seq(S), NEW t \in Seq(S), NEW n \in 0..Len(t)
  PROVE  SubSeq(s \o t, 1, Len(s) + n) = s \o SubSeq(t, 1, n)
<1> DEFINE e == SubSeq(t, 1, n)
           f == s \o e
           j == s \o t
           m == Len(s) + n
<1>1. Len(s) \in Nat /\ Len(t) \in Nat
  BY LenProperties
<1>2. /\ j \in Seq(S) /\ Len(j) = Len(s) + Len(t)
      /\ \A i \in 1..(Len(s) + Len(t)) : j[i] = IF i <= Len(s) THEN s[i] ELSE t[i - Len(s)]
  BY ConcatProperties
<1>3. e \in Seq(S) /\ Len(e) = n /\ \A i \in 1..n : e[i] = t[i]
  BY FrontIs
<1> HIDE DEF e
<1>4. /\ f \in Seq(S) /\ Len(f) = m
      /\ \A i \in 1..m : f[i] = IF i <= Len(s) THEN s[i] ELSE e[i - Len(s)]
  BY <1>3, ConcatProperties
<1> HIDE DEF f, j
<1>5. m \in Nat /\ m \in 0..Len(j)
  BY <1>1, <1>2
<1>6. \A i \in 1..m : f[i] = j[i]
  <2> TAKE i \in 1..m
  <2>1. i \in 1..(Len(s) + Len(t))
    BY <1>1
  <2>2. ~ (i <= Len(s)) => i - Len(s) \in 1..n
    BY <1>1
  <2> QED BY <1>2, <1>3, <1>4, <2>1, <2>2
<1> HIDE DEF m
<1>7. f \in [1..m -> S]
  BY <1>4, LenProperties
<1>8. SubSeq(j, 1, m) = f
  BY <1>2, <1>5, <1>6, <1>7, SameFront
<1> QED BY <1>8 DEF f, j, m, e

\* The bytes of texts and messages, and a varint at the front of some.
Octets == 0..255
Digit7(b, n, k) == IF k <= n THEN Low7(b[k]) ELSE 0
Value7(b, n) == Horner(Digit7(b, n, 1), Digit7(b, n, 2), Digit7(b, n, 3),
                       Digit7(b, n, 4), Digit7(b, n, 5))
Ends7(b) == {i \in DOMAIN b : i <= 5 /\ b[i] < 128}
End7(b) == CHOOSE i \in Ends7(b) : \A j \in Ends7(b) : i <= j

\* reading a varint by its end and its value
LEMMA ReadsVarint ==
  ASSUME NEW b
  PROVE  ReadVarint(b) =
           IF Ends7(b) = {} THEN [ok |-> FALSE]
           ELSE [ok |-> TRUE, rest |-> SubSeq(b, End7(b) + 1, Len(b)),
                 val |-> Value7(b, End7(b))]
BY Zenon DEF ReadVarint, Ends7, End7, Value7, Digit7, Horner, Low7

\* its end is its first byte below 128
LEMMA EndIs ==
  ASSUME NEW b \in Seq(Octets)
  PROVE  /\ Ends7(b) \subseteq 1..Len(b) /\ Ends7(b) \subseteq 1..5
         /\ Ends7(b) # {} => /\ End7(b) \in Ends7(b)
                             /\ \A j \in Ends7(b) : End7(b) <= j
<1>1. DOMAIN b = 1..Len(b) /\ Len(b) \in Nat
  BY LenProperties
<1>2. Ends7(b) \subseteq 1..Len(b) /\ Ends7(b) \subseteq 1..5 /\ Ends7(b) \subseteq Nat
  BY <1>1 DEF Ends7
<1>3. Ends7(b) # {} => End7(b) \in Ends7(b) /\ \A j \in Ends7(b) : End7(b) <= j
  <2> HAVE Ends7(b) # {}
  <2>1. \E i \in Ends7(b) : \A j \in Ends7(b) : i <= j
    BY <1>2, Smallest
  <2> QED BY <2>1, Zenon DEF End7
<1> QED BY <1>2, <1>3

\* a byte and its seven lower bits are numbers
LEMMA OctetIs == \A x \in Octets : x \in Nat /\ Low7(x) \in Nat
<1> TAKE x \in Octets
<1>1. x \in Nat
  BY DEF Octets
<1>2. 128 \in Nat \ {0}
  OBVIOUS
<1>3. x % 128 \in 0..(128 - 1)
  BY <1>1, <1>2, Division
<1>4. Low7(x) \in Nat
  BY <1>3 DEF Low7
<1> QED BY <1>1, <1>4

\* whatever the bytes are
LEMMA VarintAny ==
  ASSUME NEW b \in Seq(Octets), ReadVarint(b).ok
  PROVE  /\ ReadVarint(b).rest \in Seq(Octets) /\ Len(ReadVarint(b).rest) < Len(b)
         /\ ReadVarint(b).val \in Nat
<1> DEFINE n == End7(b)
<1>1. Ends7(b) # {} /\ ReadVarint(b).rest = SubSeq(b, n + 1, Len(b))
      /\ ReadVarint(b).val = Value7(b, n)
  BY ReadsVarint
<1>2. n \in 1..Len(b) /\ n \in 1..5 /\ Len(b) \in Nat
  BY <1>1, EndIs, LenProperties
<1> HIDE DEF n
<1>3. n \in 0..Len(b)
  BY <1>2
<1>4. SubSeq(b, n + 1, Len(b)) \in Seq(Octets) /\ Len(SubSeq(b, n + 1, Len(b))) = Len(b) - n
  BY <1>3, BackIs
<1>5. Value7(b, n) \in Nat
  <2>1. \A k \in 1..5 : Digit7(b, n, k) \in Nat
    <3> TAKE k \in 1..5
    <3>1. CASE k <= n
      <4>1. k \in 1..Len(b)
        BY <1>2, <3>1
      <4>2. b[k] \in Octets
        BY <4>1, ElementOfSeq
      <4>3. Low7(b[k]) \in Nat
        BY <4>2, OctetIs
      <4> QED BY <3>1, <4>3 DEF Digit7
    <3>2. CASE ~ (k <= n)
      BY <3>2 DEF Digit7
    <3> QED BY <3>1, <3>2
  <2>2. /\ Digit7(b, n, 1) \in Nat /\ Digit7(b, n, 2) \in Nat /\ Digit7(b, n, 3) \in Nat
        /\ Digit7(b, n, 4) \in Nat /\ Digit7(b, n, 5) \in Nat
    BY <2>1
  <2>3. \A a, d, e, f, g \in Nat : Horner(a, d, e, f, g) \in Nat
    BY DEF Horner
  <2> QED BY <2>2, <2>3, Zenon DEF Value7
<1> QED BY <1>1, <1>2, <1>4, <1>5

\* one that was written, and the bytes behind it
LEMMA VarintRead ==
  ASSUME NEW n \in 0..MaxInt, NEW t \in Seq(Octets)
  PROVE  ReadVarint(Varint(n) \o t) = [ok |-> TRUE, rest |-> t, val |-> n]
<1> DEFINE v == Varint(n)
           s == VarintSize(n)
           b == v \o t
<1>1. /\ v \in Seq(Octets) /\ Len(v) = s /\ s \in 1..5
      /\ \A k \in 1..s : IF k < s THEN v[k] \in 128..255 ELSE v[k] \in 0..127
      /\ n = Horner(Low7s(v, 1), Low7s(v, 2), Low7s(v, 3), Low7s(v, 4), Low7s(v, 5))
  BY VarintIs DEF Octets
<1>2. Len(t) \in Nat
  BY LenProperties
<1> HIDE DEF v, s
<1>3. /\ b \in Seq(Octets) /\ Len(b) = s + Len(t)
      /\ \A k \in 1..s : b[k] = v[k]
  <2>1. /\ v \o t \in Seq(Octets) /\ Len(v \o t) = Len(v) + Len(t)
        /\ \A i \in 1..(Len(v) + Len(t)) : (v \o t)[i] = IF i <= Len(v) THEN v[i] ELSE t[i - Len(v)]
    BY <1>1, ConcatProperties
  <2> HIDE DEF b
  <2>2. \A k \in 1..s : k \in 1..(Len(v) + Len(t)) /\ k <= Len(v)
    BY <1>1, <1>2
  <2> QED BY <1>1, <2>1, <2>2 DEF b
<1> HIDE DEF b
<1>4. s \in Ends7(b)
  <2>1. DOMAIN b = 1..Len(b)
    BY <1>3, LenProperties
  <2>2. s \in DOMAIN b /\ s <= 5 /\ s \in 1..s
    BY <1>1, <1>2, <1>3, <2>1
  <2>3. v[s] \in 0..127
    BY <1>1, <2>2
  <2>4. b[s] = v[s]
    BY <1>3, <2>2
  <2>5. b[s] \in 0..127
    BY <2>3, <2>4, Zenon
  <2>6. b[s] < 128
    <3>1. \A x \in 0..127 : x < 128
      OBVIOUS
    <3> QED BY <2>5, <3>1, Zenon
  <2> QED BY <2>2, <2>6 DEF Ends7
<1>5. \A j \in Ends7(b) : s <= j
  <2> TAKE j \in Ends7(b)
  <2>1. j \in Nat /\ j >= 1 /\ b[j] < 128
    BY <1>3, EndIs DEF Ends7
  <2> SUFFICES ASSUME j < s PROVE FALSE
    BY <1>1, <2>1
  <2>2. j \in 1..s
    BY <1>1, <2>1
  <2>3. v[j] \in 128..255
    BY <1>1, <2>2
  <2>4. b[j] = v[j]
    BY <1>3, <2>2
  <2>5. b[j] \in 128..255
    BY <2>3, <2>4, Zenon
  <2>6. \A x \in 128..255 : ~ (x < 128)
    OBVIOUS
  <2> QED BY <2>1, <2>5, <2>6, Zenon
<1>6. End7(b) = s
  <2>1. End7(b) \in Ends7(b) /\ End7(b) <= s
    BY <1>3, <1>4, EndIs
  <2>2. s <= End7(b) /\ End7(b) \in Nat
    BY <1>3, <1>5, <2>1, EndIs
  <2> QED BY <1>1, <2>1, <2>2
<1>7. SubSeq(b, s + 1, Len(b)) = t
  BY <1>1, JoinedApart, Zenon DEF b
<1>8. Value7(b, s) = n
  <2>1. \A k \in 1..5 : Digit7(b, s, k) = Low7s(v, k)
    <3> TAKE k \in 1..5
    <3>1. k <= s => b[k] = v[k]
      BY <1>1, <1>3
    <3> QED BY <1>1, <3>1, Zenon DEF Digit7, Low7s
  <2>2. 1 \in 1..5 /\ 2 \in 1..5 /\ 3 \in 1..5 /\ 4 \in 1..5 /\ 5 \in 1..5
    OBVIOUS
  <2>3. /\ Digit7(b, s, 1) = Low7s(v, 1) /\ Digit7(b, s, 2) = Low7s(v, 2)
        /\ Digit7(b, s, 3) = Low7s(v, 3) /\ Digit7(b, s, 4) = Low7s(v, 4)
        /\ Digit7(b, s, 5) = Low7s(v, 5)
    BY <2>1, <2>2, Zenon
  <2> QED BY <1>1, <2>3, Zenon DEF Value7
<1>9. Ends7(b) # {}
  BY <1>4
<1>10. ReadVarint(b) = [ok |-> TRUE, rest |-> SubSeq(b, s + 1, Len(b)), val |-> Value7(b, s)]
  BY <1>6, <1>9, ReadsVarint, Zenon
<1> QED BY <1>7, <1>8, <1>10 DEF b, v

\* a part of one
LEMMA VarintCut ==
  ASSUME NEW n \in 0..MaxInt, NEW k \in 0..(VarintSize(n) - 1)
  PROVE  ReadVarint(SubSeq(Varint(n), 1, k)) = [ok |-> FALSE]
<1> DEFINE v == Varint(n)
           s == VarintSize(n)
           b == SubSeq(v, 1, k)
<1>1. /\ v \in Seq(Octets) /\ Len(v) = s /\ s \in 1..5
      /\ \A i \in 1..s : IF i < s THEN v[i] \in 128..255 ELSE v[i] \in 0..127
  BY VarintIs DEF Octets
<1>2. k \in 0..(s - 1)
  OBVIOUS
<1> HIDE DEF s, v
<1>3. k \in 0..Len(v)
  BY <1>1, <1>2
<1>4. b \in Seq(Octets) /\ Len(b) = k /\ \A i \in 1..k : b[i] = v[i]
  BY <1>1, <1>3, FrontIs
<1> HIDE DEF b
<1>5. ASSUME NEW i \in Ends7(b) PROVE FALSE
  <2>1. i \in 1..k /\ b[i] < 128
    BY <1>4, EndIs DEF Ends7
  <2>2. i \in 1..s /\ i < s
    BY <1>1, <1>2, <2>1
  <2>3. v[i] \in 128..255
    BY <1>1, <2>2
  <2>4. b[i] = v[i]
    BY <1>4, <2>1
  <2> QED BY <2>1, <2>3, <2>4
<1>6. Ends7(b) = {}
  BY <1>5
<1>7. ReadVarint(b) = [ok |-> FALSE]
  BY <1>6, ReadsVarint, Zenon
<1> QED BY <1>7 DEF b, v

-----------------------------------------------------------------------------
(* Fields.                                                                 *)

\* the fields messages of this program have
IsField(u) ==
  /\ u = [num |-> u.num, type |-> u.type, val |-> u.val]
  /\ u.num \in 1..3 /\ u.type \in {0, 2}
  /\ u.type = 0 => u.val \in 0..MaxInt
  /\ u.type = 2 => u.val \in Seq(Octets) /\ Len(u.val) \in 0..MaxInt

Tag(u) == 8 * u.num + u.type
Body(u) == IF u.type = 0 THEN Varint(u.val) ELSE Varint(Len(u.val)) \o u.val

\* a varint is a sequence of bytes
LEMMA VarintBytes ==
  ASSUME NEW n \in 0..MaxInt
  PROVE  /\ Varint(n) \in Seq(Octets) /\ Len(Varint(n)) = VarintSize(n)
         /\ VarintSize(n) \in Nat /\ VarintSize(n) >= 1
<1>1. Varint(n) \in Seq(Octets) /\ Len(Varint(n)) = VarintSize(n) /\ VarintSize(n) \in 1..5
  BY VarintIs DEF Octets
<1>2. VarintSize(n) \in Nat /\ VarintSize(n) >= 1
  BY <1>1
<1> QED BY <1>1, <1>2

\* number and type of a field are read back from its tag
LEMMA TagIs ==
  ASSUME NEW u, IsField(u)
  PROVE  Tag(u) \in 0..MaxInt /\ Tag(u) \div 8 = u.num /\ Tag(u) % 8 = u.type
<1>1. u.num \in 1..3 /\ u.type \in {0, 2}
  BY DEF IsField
<1> DEFINE a == u.num
           b == u.type
<1> HIDE DEF a, b
<1>2. a \in 1..3 /\ b \in {0, 2}
  BY <1>1 DEF a, b
<1>3. a \in Nat /\ b \in 0..(8 - 1) /\ 8 \in Nat \ {0}
  BY <1>2
<1>4. (8 * a + b) \div 8 = a /\ (8 * a + b) % 8 = b
  BY <1>3, Quotient
<1>5. 8 * a + b \in 0..MaxInt
  <2>1. 8 * a + b \in 8..26
    BY <1>2
  <2>2. MaxInt \in Nat /\ 26 <= MaxInt
    <3>1. 26 <= 2147483647
      BY SMT
    <3> QED BY <3>1, FiveGroups, SMT DEF MaxInt
  <2> QED BY <2>1, <2>2
<1> QED BY <1>4, <1>5 DEF Tag, a, b

\* what is behind the tag of a field
LEMMA BodyIs ==
  ASSUME NEW u, IsField(u)
  PROVE  /\ Body(u) \in Seq(Octets) /\ Len(Body(u)) \in Nat
         /\ Len(Body(u)) = IF u.type = 0 THEN VarintSize(u.val)
                           ELSE VarintSize(Len(u.val)) + Len(u.val)
<1>1. CASE u.type = 0
  <2>1. u.val \in 0..MaxInt
    BY <1>1 DEF IsField
  <2>2. Body(u) = Varint(u.val)
    BY <1>1 DEF Body
  <2> QED BY <1>1, <2>1, <2>2, VarintBytes
<1>2. CASE u.type # 0
  <2>1. u.val \in Seq(Octets) /\ Len(u.val) \in 0..MaxInt
    BY <1>2 DEF IsField
  <2>2. Body(u) = Varint(Len(u.val)) \o u.val
    BY <1>2 DEF Body
  <2> DEFINE len == Len(u.val)
  <2>3. Varint(len) \in Seq(Octets) /\ Len(Varint(len)) = VarintSize(len) /\ VarintSize(len) \in Nat
    BY <2>1, VarintBytes
  <2>4. Varint(len) \o u.val \in Seq(Octets) /\ Len(Varint(len) \o u.val) = VarintSize(len) + Len(u.val)
    <3> DEFINE v == Varint(len)
               w == u.val
    <3>1. v \in Seq(Octets) /\ w \in Seq(Octets)
      BY <2>1, <2>3
    <3> HIDE DEF v, w
    <3>2. v \o w \in Seq(Octets) /\ Len(v \o w) = Len(v) + Len(w)
      BY <3>1, ConcatProperties
    <3> QED BY <2>3, <3>2, Zenon DEF v, w
  <2>5. Len(u.val) \in Nat
    BY <2>1, LenProperties
  <2> QED BY <1>2, <2>2, <2>3, <2>4, <2>5
<1> QED BY <1>1, <1>2

\* a field is as long as FieldSize says
LEMMA FieldBytesAre ==
  ASSUME NEW u, IsField(u)
  PROVE  /\ FieldBytes(u) = Varint(Tag(u)) \o Body(u)
         /\ FieldBytes(u) \in Seq(Octets) /\ FieldBytes(u) # <<>>
         /\ Len(FieldBytes(u)) = FieldSize(u)
         /\ Len(FieldBytes(u)) = Len(Varint(Tag(u))) + Len(Body(u))
<1>1. FieldBytes(u) = Varint(Tag(u)) \o Body(u)
  BY DEF FieldBytes, Tag, Body
<1> DEFINE v == Varint(Tag(u))
<1>2. v \in Seq(Octets) /\ Len(v) = VarintSize(Tag(u)) /\ Len(v) \in Nat /\ Len(v) >= 1
  BY TagIs, VarintBytes
<1>3. Body(u) \in Seq(Octets) /\ Len(Body(u)) \in Nat
  BY BodyIs
<1> HIDE DEF v
<1>4. v \o Body(u) \in Seq(Octets) /\ Len(v \o Body(u)) = Len(v) + Len(Body(u))
  BY <1>2, <1>3, ConcatProperties
<1>5. v \o Body(u) # <<>>
  <2>1. Len(v \o Body(u)) # 0
    BY <1>2, <1>3, <1>4
  <2> QED BY <1>4, <2>1, EmptySeq
<1>6. FieldSize(u) = Len(v) + Len(Body(u))
  <2>1. FieldSize(u) = VarintSize(Tag(u)) + (IF u.type = 0 THEN VarintSize(u.val)
                                             ELSE VarintSize(Len(u.val)) + Len(u.val))
    BY DEF FieldSize, Tag
  <2> QED BY <1>2, <2>1, BodyIs, Zenon
<1> QED BY <1>1, <1>4, <1>5, <1>6 DEF v

\* reading a field, step by step
LEMMA TagMissing ==
  ASSUME NEW b, ~ReadVarint(b).ok
  PROVE  ReadField(b) = [ok |-> FALSE]
BY Zenon DEF ReadField

\* a tag without a value is no field
LEMMA ValueMissing ==
  ASSUME NEW b, ReadVarint(b).ok, ~ReadVarint(ReadVarint(b).rest).ok
  PROVE  ReadField(b) = [ok |-> FALSE]
BY Zenon DEF ReadField

\* reading a field, by what its tag is
LEMMA ReadsField ==
  ASSUME NEW b, NEW num, NEW type, num # 0, type \in {0, 2},
         ReadVarint(b).ok, ReadVarint(ReadVarint(b).rest).ok,
         ReadVarint(b).val \div 8 = num, ReadVarint(b).val % 8 = type
  PROVE  LET n == ReadVarint(ReadVarint(b).rest) IN
         ReadField(b) =
           IF type = 0
             THEN [ok |-> TRUE, field |-> [num |-> num, type |-> type, val |-> n.val],
                   rest |-> n.rest]
           ELSE IF Len(n.rest) < n.val THEN [ok |-> FALSE]
           ELSE [ok |-> TRUE,
                 field |-> [num |-> num, type |-> type, val |-> SubSeq(n.rest, 1, n.val)],
                 rest |-> SubSeq(n.rest, n.val + 1, Len(n.rest))]
BY Zenon DEF ReadField

\* whatever the bytes are
LEMMA FieldAny ==
  ASSUME NEW b \in Seq(Octets), ReadField(b).ok
  PROVE  ReadField(b).rest \in Seq(Octets) /\ Len(ReadField(b).rest) < Len(b)
<1> DEFINE tag == ReadVarint(b)
           n == ReadVarint(tag.rest)
           num == tag.val \div 8
           type == tag.val % 8
<1>1. tag.ok
  BY TagMissing
<1>2. n.ok
  BY <1>1, ValueMissing
<1>3. num # 0 /\ type \in {0, 2}
  <2> SUFFICES ASSUME ~ (num # 0 /\ type \in {0, 2}) PROVE ReadField(b) = [ok |-> FALSE]
    OBVIOUS
  <2> QED BY <1>1, Zenon DEF ReadField
<1>4. tag.rest \in Seq(Octets) /\ Len(tag.rest) < Len(b)
  BY <1>1, VarintAny
<1>5. n.rest \in Seq(Octets) /\ Len(n.rest) < Len(tag.rest) /\ n.val \in Nat
  BY <1>2, <1>4, VarintAny
<1>6. ReadField(b) =
        IF type = 0
          THEN [ok |-> TRUE, field |-> [num |-> num, type |-> type, val |-> n.val],
                rest |-> n.rest]
        ELSE IF Len(n.rest) < n.val THEN [ok |-> FALSE]
        ELSE [ok |-> TRUE,
              field |-> [num |-> num, type |-> type, val |-> SubSeq(n.rest, 1, n.val)],
              rest |-> SubSeq(n.rest, n.val + 1, Len(n.rest))]
  BY <1>1, <1>2, <1>3, ReadsField, ZenonT(40)
<1>7. Len(b) \in Nat /\ Len(tag.rest) \in Nat /\ Len(n.rest) \in Nat
  BY <1>4, <1>5, LenProperties
<1> HIDE DEF tag, n, num, type
<1>8. CASE type = 0
  <2>1. ReadField(b).rest = n.rest
    BY <1>6, <1>8
  <2> QED BY <1>4, <1>5, <1>7, <2>1
<1>9. CASE type # 0
  <2>1. ~ (Len(n.rest) < n.val)
    <3> SUFFICES ASSUME Len(n.rest) < n.val PROVE ReadField(b) = [ok |-> FALSE]
      OBVIOUS
    <3> QED BY <1>6, <1>9, Zenon
  <2>2. ReadField(b).rest = SubSeq(n.rest, n.val + 1, Len(n.rest))
    <3> DEFINE f == [num |-> num, type |-> type, val |-> SubSeq(n.rest, 1, n.val)]
               r == SubSeq(n.rest, n.val + 1, Len(n.rest))
    <3>1. ReadField(b) = [ok |-> TRUE, field |-> f, rest |-> r]
      BY <1>6, <1>9, <2>1, Zenon
    <3> HIDE DEF f, r
    <3>2. ReadField(b).rest = r
      BY <3>1
    <3> QED BY <3>2 DEF r
  <2>3. n.val \in 0..Len(n.rest)
    BY <1>5, <1>7, <2>1
  <2>4. /\ ReadField(b).rest \in Seq(Octets)
        /\ Len(ReadField(b).rest) = Len(n.rest) - n.val
    BY <1>5, <2>2, <2>3, BackIs
  <2> QED BY <1>4, <1>5, <1>7, <2>4
<1> QED BY <1>8, <1>9

\* A field that was written is read, and what follows it is left.
LEMMA FieldRead ==
  ASSUME NEW u, IsField(u), NEW t \in Seq(Octets)
  PROVE  ReadField(FieldBytes(u) \o t) = [ok |-> TRUE, field |-> u, rest |-> t]
<1> DEFINE v == Varint(Tag(u))
           c == Body(u)
           b == FieldBytes(u) \o t
<1>1. Tag(u) \in 0..MaxInt /\ Tag(u) \div 8 = u.num /\ Tag(u) % 8 = u.type
  BY TagIs
<1>2. u.num # 0 /\ u.type \in {0, 2} /\ u = [num |-> u.num, type |-> u.type, val |-> u.val]
  BY DEF IsField
<1>3. v \in Seq(Octets) /\ c \in Seq(Octets)
  BY <1>1, VarintBytes, BodyIs
<1>4. b = v \o (c \o t)
  <2>1. FieldBytes(u) = v \o c
    BY FieldBytesAre
  <2> HIDE DEF v, c
  <2> QED BY <1>3, <2>1, ConcatAssociative
<1>5. c \o t \in Seq(Octets)
  BY <1>3, ConcatProperties
<1> HIDE DEF c
<1>6. ReadVarint(b) = [ok |-> TRUE, rest |-> c \o t, val |-> Tag(u)]
  BY <1>1, <1>4, <1>5, VarintRead, Zenon
<1>7. /\ ReadVarint(b).ok /\ ReadVarint(b).rest = c \o t
      /\ ReadVarint(b).val \div 8 = u.num /\ ReadVarint(b).val % 8 = u.type
  <2>1. ReadVarint(b).ok /\ ReadVarint(b).rest = c \o t /\ ReadVarint(b).val = Tag(u)
    <3> HIDE DEF b
    <3> QED BY <1>6
  <2> QED BY <1>1, <2>1, Zenon
<1> HIDE DEF b
<1>8. CASE u.type = 0
  <2>1. u.val \in 0..MaxInt /\ c = Varint(u.val)
    BY <1>8 DEF IsField, Body, c
  <2>2. ReadVarint(c \o t) = [ok |-> TRUE, rest |-> t, val |-> u.val]
    BY <2>1, VarintRead, Zenon
  <2>3. ReadVarint(c \o t).ok /\ ReadVarint(c \o t).rest = t /\ ReadVarint(c \o t).val = u.val
    BY <2>2
  <2>4. ReadField(b) = [ok |-> TRUE, field |-> [num |-> u.num, type |-> u.type, val |-> u.val],
                        rest |-> t]
    <3> DEFINE n == ReadVarint(ReadVarint(b).rest)
    <3>1. n.ok /\ n.rest = t /\ n.val = u.val
      BY <1>7, <2>3, Zenon
    <3>2. ReadField(b) =
            IF u.type = 0
              THEN [ok |-> TRUE, field |-> [num |-> u.num, type |-> u.type, val |-> n.val],
                    rest |-> n.rest]
            ELSE IF Len(n.rest) < n.val THEN [ok |-> FALSE]
            ELSE [ok |-> TRUE,
                  field |-> [num |-> u.num, type |-> u.type, val |-> SubSeq(n.rest, 1, n.val)],
                  rest |-> SubSeq(n.rest, n.val + 1, Len(n.rest))]
      BY <1>2, <1>7, <3>1, ReadsField, ZenonT(40)
    <3> HIDE DEF n
    <3> QED BY <1>8, <3>1, <3>2, Zenon
  <2> QED BY <1>2, <2>4, Zenon DEF b
<1>9. CASE u.type # 0
  <2> DEFINE w == u.val
             len == Len(w)
             x == Varint(len)
  <2>1. w \in Seq(Octets) /\ len \in 0..MaxInt /\ c = x \o w
    BY <1>9 DEF IsField, Body, c
  <2>2. x \in Seq(Octets)
    BY <2>1, VarintBytes
  <2>3. c \o t = x \o (w \o t) /\ w \o t \in Seq(Octets) /\ Len(w \o t) = len + Len(t)
    <3> HIDE DEF w, x
    <3> QED BY <2>1, <2>2, ConcatAssociative, ConcatProperties
  <2>4. ReadVarint(x \o (w \o t)) = [ok |-> TRUE, rest |-> w \o t, val |-> len]
    BY <2>1, <2>3, VarintRead, Zenon
  <2> DEFINE n == ReadVarint(c \o t)
  <2>5. n.ok /\ n.rest = w \o t /\ n.val = len
    <3>1. n = [ok |-> TRUE, rest |-> w \o t, val |-> len]
      BY <2>3, <2>4, Zenon
    <3> HIDE DEF n, len, w
    <3> QED BY <3>1
  <2>6. ~ (Len(w \o t) < len)
    <3>1. len \in Nat /\ Len(t) \in Nat
      BY <2>1, LenProperties
    <3> HIDE DEF len, w
    <3> QED BY <2>3, <3>1
  <2>7. SubSeq(w \o t, 1, len) = w /\ SubSeq(w \o t, len + 1, Len(w \o t)) = t
    BY <2>1, JoinedApart, Zenon
  <2>8. ReadField(b) =
          IF Len(n.rest) < n.val THEN [ok |-> FALSE]
          ELSE [ok |-> TRUE,
                field |-> [num |-> u.num, type |-> u.type, val |-> SubSeq(n.rest, 1, n.val)],
                rest |-> SubSeq(n.rest, n.val + 1, Len(n.rest))]
    <3> DEFINE k == ReadVarint(ReadVarint(b).rest)
    <3>1. k = n
      BY <1>7, Zenon
    <3>2. k.ok
      BY <2>5, <3>1, Zenon
    <3>3. ReadField(b) =
            IF u.type = 0
              THEN [ok |-> TRUE, field |-> [num |-> u.num, type |-> u.type, val |-> k.val],
                    rest |-> k.rest]
            ELSE IF Len(k.rest) < k.val THEN [ok |-> FALSE]
            ELSE [ok |-> TRUE,
                  field |-> [num |-> u.num, type |-> u.type, val |-> SubSeq(k.rest, 1, k.val)],
                  rest |-> SubSeq(k.rest, k.val + 1, Len(k.rest))]
      BY <1>2, <1>7, <3>2, ReadsField, ZenonT(40)
    <3> HIDE DEF k, n
    <3> QED BY <1>9, <3>1, <3>3, Zenon
  <2> HIDE DEF n, len, w
  <2>9. ReadField(b) = [ok |-> TRUE, field |-> [num |-> u.num, type |-> u.type, val |-> w], rest |-> t]
    BY <2>5, <2>6, <2>7, <2>8, Zenon
  <2> QED BY <1>2, <2>9, Zenon DEF b, w
<1> QED BY <1>8, <1>9

\* One that is cut short is not.
LEMMA FieldCut ==
  ASSUME NEW u, IsField(u), NEW k \in 0..(Len(FieldBytes(u)) - 1)
  PROVE  ReadField(SubSeq(FieldBytes(u), 1, k)) = [ok |-> FALSE]
<1> DEFINE v == Varint(Tag(u))
           c == Body(u)
           b == SubSeq(FieldBytes(u), 1, k)
<1>1. Tag(u) \in 0..MaxInt /\ Tag(u) \div 8 = u.num /\ Tag(u) % 8 = u.type
  BY TagIs
<1>2. u.num # 0 /\ u.type \in {0, 2}
  BY DEF IsField
<1>3. /\ v \in Seq(Octets) /\ c \in Seq(Octets) /\ Len(v) = VarintSize(Tag(u))
      /\ Len(v) \in Nat /\ Len(c) \in Nat
  BY <1>1, VarintBytes, BodyIs
<1>4. FieldBytes(u) = v \o c /\ Len(FieldBytes(u)) = Len(v) + Len(c)
  BY FieldBytesAre
<1>5. CASE k < Len(v)
  <2>1. k \in 0..Len(v) /\ k \in 0..(Len(v) - 1)
    BY <1>3, <1>5
  <2>2. b = SubSeq(v, 1, k)
    <3> HIDE DEF v, c
    <3> QED BY <1>3, <1>4, <2>1, CutInFirst
  <2>3. k \in 0..(VarintSize(Tag(u)) - 1)
    BY <1>3, <2>1
  <2>4. ReadVarint(b) = [ok |-> FALSE]
    BY <1>1, <2>2, <2>3, VarintCut, Zenon
  <2> HIDE DEF b
  <2>5. ~ReadVarint(b).ok
    BY <2>4
  <2>6. ReadField(b) = [ok |-> FALSE]
    BY <2>5, TagMissing
  <2> QED BY <2>6 DEF b
<1>6. CASE ~ (k < Len(v))
  <2> DEFINE j == k - Len(v)
             d == SubSeq(c, 1, j)
  <2>1. j \in 0..(Len(c) - 1) /\ j \in 0..Len(c) /\ k = Len(v) + j
    <3> HIDE DEF v, c
    <3> QED BY <1>3, <1>4, <1>6
  <2> HIDE DEF j
  <2>2. b = v \o d /\ d \in Seq(Octets)
    <3>1. SubSeq(v \o c, 1, Len(v) + j) = v \o d
      <4> HIDE DEF v, c
      <4> QED BY <1>3, <2>1, CutInSecond
    <3>2. d \in Seq(Octets)
      <4> HIDE DEF c
      <4> QED BY <1>3, <2>1, FrontIs
    <3> QED BY <1>4, <2>1, <3>1, <3>2, Zenon
  <2> HIDE DEF d
  <2>3. ReadVarint(b) = [ok |-> TRUE, rest |-> d, val |-> Tag(u)]
    BY <1>1, <2>2, VarintRead, Zenon
  <2> HIDE DEF b
  <2>4. ReadVarint(b).ok /\ ReadVarint(b).rest = d /\ ReadVarint(b).val = Tag(u)
    BY <2>3
  <2> SUFFICES ReadField(b) = [ok |-> FALSE]
    BY DEF b
  <2>5. CASE u.type = 0
    <3>1. u.val \in 0..MaxInt /\ c = Varint(u.val)
      BY <2>5 DEF IsField, Body
    <3>2. Len(c) = VarintSize(u.val)
      BY <2>5, BodyIs
    <3>3. j \in 0..(VarintSize(u.val) - 1)
      BY <2>1, <3>2
    <3>4. d = SubSeq(Varint(u.val), 1, j)
      BY <3>1, Zenon DEF d
    <3>5. ReadVarint(d) = [ok |-> FALSE]
      BY <3>1, <3>3, <3>4, VarintCut, Zenon
    <3>6. ~ReadVarint(d).ok
      BY <3>5
    <3> QED BY <2>4, <3>6, ValueMissing, Zenon
  <2>6. CASE u.type # 0
    <3> DEFINE w == u.val
               len == Len(w)
               x == Varint(len)
    <3>1. w \in Seq(Octets) /\ len \in 0..MaxInt /\ c = x \o w
      BY <2>6 DEF IsField, Body
    <3>2. x \in Seq(Octets) /\ Len(x) = VarintSize(len) /\ Len(x) \in Nat
      BY <3>1, VarintBytes
    <3>3. Len(c) = Len(x) + len /\ len \in Nat
      <4>1. Len(c) = VarintSize(Len(u.val)) + Len(u.val)
        BY <2>6, BodyIs, Zenon
      <4> QED BY <3>1, <3>2, <4>1, LenProperties
    <3>4. CASE j < Len(x)
      <4>1. j \in 0..Len(x) /\ j \in 0..(VarintSize(len) - 1)
        BY <2>1, <3>2, <3>4
      <4>2. d = SubSeq(x, 1, j)
        <5> HIDE DEF x, w
        <5>1. SubSeq(x \o w, 1, j) = SubSeq(x, 1, j)
          BY <3>1, <3>2, <4>1, CutInFirst
        <5> QED BY <3>1, <5>1, Zenon DEF d
      <4>3. ReadVarint(d) = [ok |-> FALSE]
        BY <3>1, <4>1, <4>2, VarintCut, Zenon
      <4>4. ~ReadVarint(d).ok
        BY <4>3
      <4> QED BY <2>4, <4>4, ValueMissing, Zenon
    <3>5. CASE ~ (j < Len(x))
      <4> DEFINE i == j - Len(x)
                 y == SubSeq(w, 1, i)
      <4>1. i \in 0..len /\ i < len /\ j = Len(x) + i /\ i \in Nat
        <5> HIDE DEF x, len, c
        <5> QED BY <2>1, <3>2, <3>3, <3>5
      <4> HIDE DEF i
      <4>2. d = x \o y
        <5> HIDE DEF x, w
        <5>1. SubSeq(x \o w, 1, Len(x) + i) = x \o y
          BY <3>1, <3>2, <4>1, CutInSecond
        <5> QED BY <3>1, <4>1, <5>1, Zenon DEF d
      <4>3. y \in Seq(Octets) /\ Len(y) = i
        <5> HIDE DEF w
        <5> QED BY <3>1, <4>1, FrontIs
      <4> HIDE DEF y
      <4>4. ReadVarint(d) = [ok |-> TRUE, rest |-> y, val |-> len]
        BY <3>1, <4>2, <4>3, VarintRead, Zenon
      <4> DEFINE n == ReadVarint(d)
      <4>5. n.ok /\ n.rest = y /\ n.val = len
        <5> HIDE DEF len
        <5> QED BY <4>4
      <4>6. Len(n.rest) < n.val
        <5> HIDE DEF len, n
        <5> QED BY <4>1, <4>3, <4>5
      <4>7. ReadVarint(b).val \div 8 = u.num /\ ReadVarint(b).val % 8 = u.type
        BY <1>1, <2>4, Zenon
      <4>8. ReadField(b) =
              IF Len(n.rest) < n.val THEN [ok |-> FALSE]
              ELSE [ok |-> TRUE,
                    field |-> [num |-> u.num, type |-> u.type, val |-> SubSeq(n.rest, 1, n.val)],
                    rest |-> SubSeq(n.rest, n.val + 1, Len(n.rest))]
        BY <1>2, <2>4, <2>6, <4>5, <4>7, ReadsField, ZenonT(40)
      <4> QED BY <4>6, <4>8, Zenon
    <3> QED BY <3>4, <3>5
  <2> QED BY <2>5, <2>6
<1> QED BY <1>5, <1>6

-----------------------------------------------------------------------------
(* The loop of InternalParse, pass by pass.                                *)

Passed(f, C, at, n) ==
  f = [k \in 0..n |-> IF k = 0 THEN at ELSE ReadNext(C, f[k - 1])]
Passes(C, at, n) == CHOOSE f : Passed(f, C, at, n)
After(C, at, n) == Passes(C, at, n)[n]

\* every pass begins where the one before it ended
LEMMA PassedIs ==
  ASSUME NEW C, NEW at, NEW n \in Nat, NEW f, Passed(f, C, at, n)
  PROVE  f[0] = at /\ \A k \in 1..n : f[k] = ReadNext(C, f[k - 1])
<1>1. \A k \in 0..n : f[k] = IF k = 0 THEN at ELSE ReadNext(C, f[k - 1])
  BY Zenon DEF Passed
<1>2. 0 \in 0..n /\ \A k \in 1..n : k \in 0..n /\ k # 0
  OBVIOUS
<1> QED BY <1>1, <1>2, Zenon

\* the loop can be run for any number of passes
LEMMA PassesExist ==
  ASSUME NEW C, NEW at
  PROVE  \A n \in Nat : \E f : Passed(f, C, at, n)
<1> DEFINE S == {n \in Nat : \E f : Passed(f, C, at, n)}
<1>1. 0 \in S
  <2> DEFINE f == [k \in 0..0 |-> at]
  <2>1. \A k \in 0..0 : k = 0
    OBVIOUS
  <2>2. f = [k \in 0..0 |-> IF k = 0 THEN at ELSE ReadNext(C, f[k - 1])]
    <3>1. \A k \in 0..0 : at = IF k = 0 THEN at ELSE ReadNext(C, f[k - 1])
      BY <2>1, Zenon
    <3> DEFINE h(k) == IF k = 0 THEN at ELSE ReadNext(C, f[k - 1])
    <3>2. \A k \in 0..0 : at = h(k)
      BY <3>1
    <3> HIDE DEF h
    <3>3. f = [k \in 0..0 |-> h(k)]
      BY <3>2
    <3> QED BY <3>3 DEF h
  <2>3. Passed(f, C, at, 0)
    BY <2>2, Zenon DEF Passed
  <2> QED BY <2>3
<1>2. \A n \in Nat : n \in S => n + 1 \in S
  <2> TAKE n \in Nat
  <2> HAVE n \in S
  <2> PICK g : Passed(g, C, at, n)
    OBVIOUS
  <2> DEFINE f == [k \in 0..(n + 1) |-> IF k <= n THEN g[k] ELSE ReadNext(C, g[n])]
             h(k) == IF k = 0 THEN at ELSE ReadNext(C, f[k - 1])
  <2>1. g[0] = at /\ \A k \in 1..n : g[k] = ReadNext(C, g[k - 1])
    BY PassedIs
  <2>2. \A k \in 0..n : f[k] = g[k]
    OBVIOUS
  <2>3. f[n + 1] = ReadNext(C, g[n])
    OBVIOUS
  <2>4. \A k \in 0..(n + 1) : f[k] = h(k)
    <3> TAKE k \in 0..(n + 1)
    <3>1. CASE k = 0
      <4>1. 0 \in 0..n
        OBVIOUS
      <4> QED BY <2>1, <2>2, <3>1, <4>1, Zenon
    <3>2. CASE k \in 1..n
      <4>1. k \in 0..n /\ k - 1 \in 0..n /\ k # 0
        BY <3>2
      <4> HIDE DEF f
      <4> QED BY <2>1, <2>2, <3>2, <4>1, Zenon
    <3>3. CASE k = n + 1
      <4>1. k - 1 = n /\ n \in 0..n /\ k # 0
        BY <3>3
      <4> HIDE DEF f
      <4> QED BY <2>2, <2>3, <3>3, <4>1, Zenon
    <3> QED BY <3>1, <3>2, <3>3
  <2>5. f = [k \in 0..(n + 1) |-> f[k]]
    OBVIOUS
  <2>6. f = [k \in 0..(n + 1) |-> h(k)]
    <3> HIDE DEF f, h
    <3> QED BY <2>4, <2>5
  <2>7. Passed(f, C, at, n + 1)
    BY <2>6, Zenon DEF Passed
  <2> HIDE DEF f
  <2>8. n + 1 \in Nat
    OBVIOUS
  <2> QED BY <2>7, <2>8
<1>3. \A n \in Nat : n \in S
  <2> HIDE DEF S
  <2> QED BY <1>1, <1>2, Induction
<1> QED BY <1>3

\* in one way only
LEMMA PassesAre ==
  ASSUME NEW C, NEW at, NEW n \in Nat, NEW f, Passed(f, C, at, n), NEW k \in 0..n
  PROVE  f[k] = After(C, at, k)
<1> DEFINE g == Passes(C, at, k)
<1>1. k \in Nat
  OBVIOUS
<1>2. Passed(g, C, at, k)
  BY <1>1, PassesExist, Zenon DEF Passes
<1> HIDE DEF g
<1>3. g[0] = at /\ \A j \in 1..k : g[j] = ReadNext(C, g[j - 1])
  BY <1>1, <1>2, PassedIs
<1>4. f[0] = at /\ \A j \in 1..n : f[j] = ReadNext(C, f[j - 1])
  BY PassedIs
<1>5. f[0] = g[0] /\ \A j \in 1..k : f[j - 1] = g[j - 1] => f[j] = g[j]
  <2>1. \A j \in 1..k : j \in 1..n
    OBVIOUS
  <2> QED BY <1>3, <1>4, <2>1, Zenon
<1>6. f[k] = g[k]
  BY <1>1, <1>5, Alike
<1> QED BY <1>6 DEF After, g

\* one pass more
LEMMA AfterSteps ==
  ASSUME NEW C, NEW at, NEW n \in Nat
  PROVE  After(C, at, 0) = at /\ After(C, at, n + 1) = ReadNext(C, After(C, at, n))
<1>1. n + 1 \in Nat /\ 0 \in 0..(n + 1) /\ n \in 0..(n + 1) /\ n + 1 \in 0..(n + 1)
      /\ n + 1 \in 1..(n + 1) /\ (n + 1) - 1 = n
  OBVIOUS
<1> DEFINE m == n + 1
<1>2. PICK f : Passed(f, C, at, m)
  BY <1>1, PassesExist
<1>3. f[0] = at /\ \A k \in 1..m : f[k] = ReadNext(C, f[k - 1])
  BY <1>1, <1>2, PassedIs
<1>4. \A k \in 0..m : f[k] = After(C, at, k)
  BY <1>1, <1>2, PassesAre
<1>5. f[m] = ReadNext(C, f[n])
  BY <1>1, <1>3, Zenon
<1> QED BY <1>1, <1>3, <1>4, <1>5, Zenon

\* the first pass, and then the others
LEMMA AfterFirst ==
  ASSUME NEW C, NEW at
  PROVE  \A n \in Nat : After(C, at, n + 1) = After(C, ReadNext(C, at), n)
<1> DEFINE next == ReadNext(C, at)
           S == {n \in Nat : After(C, at, n + 1) = After(C, next, n)}
<1>1. 0 \in S
  <2>1. After(C, at, 0) = at /\ After(C, at, 0 + 1) = ReadNext(C, After(C, at, 0))
    BY AfterSteps
  <2>2. After(C, next, 0) = next
    BY AfterSteps
  <2>3. After(C, at, 0 + 1) = After(C, next, 0)
    BY <2>1, <2>2
  <2> QED BY <2>3
<1>2. \A n \in Nat : n \in S => n + 1 \in S
  <2> TAKE n \in Nat
  <2> HAVE n \in S
  <2>1. n + 1 \in Nat
    OBVIOUS
  <2>2. After(C, at, n + 1) = After(C, next, n)
    OBVIOUS
  <2>3. After(C, at, (n + 1) + 1) = ReadNext(C, After(C, at, n + 1))
    BY <2>1, AfterSteps
  <2>4. After(C, next, n + 1) = ReadNext(C, After(C, next, n))
    BY AfterSteps
  <2>5. After(C, at, (n + 1) + 1) = After(C, next, n + 1)
    BY <2>2, <2>3, <2>4, Zenon
  <2> QED BY <2>1, <2>5
<1>3. \A n \in Nat : n \in S
  <2> HIDE DEF S
  <2> QED BY <1>1, <1>2, Induction
<1> QED BY <1>3

\* Where nothing is left, nothing changes.
LEMMA AfterEnd ==
  ASSUME NEW C, NEW at, NEW n \in Nat, After(C, at, n).rest = <<>>
  PROVE  \A j \in Nat : After(C, at, n + j) = After(C, at, n)
<1> DEFINE e == After(C, at, n)
           S == {j \in Nat : After(C, at, n + j) = e}
<1>1. 0 \in S
  <2>1. n + 0 = n
    OBVIOUS
  <2> QED BY <2>1
<1>2. \A j \in Nat : j \in S => j + 1 \in S
  <2> TAKE j \in Nat
  <2> HAVE j \in S
  <2>1. n + j \in Nat /\ n + (j + 1) = (n + j) + 1 /\ j + 1 \in Nat
    OBVIOUS
  <2>2. After(C, at, (n + j) + 1) = ReadNext(C, After(C, at, n + j))
    BY <2>1, AfterSteps
  <2>3. After(C, at, n + j) = e
    OBVIOUS
  <2>4. ReadNext(C, e) = e
    BY Zenon DEF ReadNext
  <2>5. After(C, at, n + (j + 1)) = e
    BY <2>1, <2>2, <2>3, <2>4, Zenon
  <2> QED BY <2>1, <2>5
<1>3. \A j \in Nat : j \in S
  <2> HIDE DEF S
  <2> QED BY <1>1, <1>2, Induction
<1> QED BY <1>3

\* every pass reads something, until nothing is left
LEMMA ReadNextShrinks ==
  ASSUME NEW C, NEW at, at.rest \in Seq(Octets)
  PROVE  LET r == ReadNext(C, at).rest IN
         /\ r \in Seq(Octets)
         /\ at.rest # <<>> => Len(r) < Len(at.rest)
         /\ at.rest = <<>> => r = <<>>
<1> DEFINE r == ReadNext(C, at).rest
           b == at.rest
<1>1. CASE b = <<>>
  <2>1. ReadNext(C, at) = at
    BY <1>1, Zenon DEF ReadNext
  <2> QED BY <1>1, <2>1
<1>2. CASE b # <<>> /\ ~ReadField(b).ok
  <2>1. ReadNext(C, at) = [msg |-> Refused, rest |-> <<>>]
    BY <1>2, Zenon DEF ReadNext
  <2>2. r = <<>>
    BY <2>1
  <2>3. r \in Seq(Octets) /\ Len(r) = 0
    BY <2>2
  <2>4. Len(b) # 0 /\ Len(b) \in Nat
    BY <1>2, EmptySeq, LenProperties
  <2> QED BY <1>2, <2>3, <2>4
<1>3. CASE b # <<>> /\ ReadField(b).ok
  <2> DEFINE f == ReadField(b)
  <2>1. ReadNext(C, at) = [msg |-> Take(C, at.msg, f.field), rest |-> f.rest]
    BY <1>3, Zenon DEF ReadNext
  <2>2. f.rest \in Seq(Octets) /\ Len(f.rest) < Len(b)
    BY <1>3, FieldAny
  <2> HIDE DEF f
  <2>3. r = f.rest
    BY <2>1
  <2> QED BY <1>3, <2>2, <2>3
<1> QED BY <1>1, <1>2, <1>3

\* Each pass reads a byte or more, so that nothing is left after so many.
LEMMA AfterShrinks ==
  ASSUME NEW C, NEW at, at.rest \in Seq(Octets)
  PROVE  \A n \in Nat : LET r == After(C, at, n).rest IN
           r \in Seq(Octets) /\ (r = <<>> \/ Len(r) + n <= Len(at.rest))
<1> DEFINE r(n) == After(C, at, n).rest
           Left(n) == r(n) \in Seq(Octets) /\ (r(n) = <<>> \/ Len(r(n)) + n <= Len(at.rest))
           S == {n \in Nat : Left(n)}
<1>1. 0 \in S
  <2>1. After(C, at, 0) = at
    BY AfterSteps
  <2>2. Len(at.rest) \in Nat
    BY LenProperties
  <2>3. r(0) = at.rest
    BY <2>1
  <2> HIDE DEF r
  <2> QED BY <2>2, <2>3
<1>2. \A n \in Nat : n \in S => n + 1 \in S
  <2> TAKE n \in Nat
  <2> HAVE n \in S
  <2>1. r(n) \in Seq(Octets) /\ (r(n) = <<>> \/ Len(r(n)) + n <= Len(at.rest))
    OBVIOUS
  <2> DEFINE a == After(C, at, n)
  <2>2. After(C, at, n + 1) = ReadNext(C, a)
    BY AfterSteps
  <2>3. r(n) = a.rest /\ r(n + 1) = ReadNext(C, a).rest
    BY <2>2
  <2> HIDE DEF a, r
  <2>4. /\ r(n + 1) \in Seq(Octets)
        /\ r(n) # <<>> => Len(r(n + 1)) < Len(r(n))
        /\ r(n) = <<>> => r(n + 1) = <<>>
    BY <2>1, <2>3, ReadNextShrinks, Zenon
  <2>5. Len(r(n)) \in Nat /\ Len(r(n + 1)) \in Nat /\ Len(at.rest) \in Nat /\ n + 1 \in Nat
    BY <2>1, <2>4, LenProperties
  <2>6. r(n + 1) = <<>> \/ Len(r(n + 1)) + (n + 1) <= Len(at.rest)
    BY <2>1, <2>4, <2>5
  <2> QED BY <2>4, <2>5, <2>6
<1>3. \A n \in Nat : n \in S
  <2> HIDE DEF S
  <2> QED BY <1>1, <1>2, Induction
<1> QED BY <1>3

Start(m, b) == [msg |-> m, rest |-> b]

\* the loop begins with the message and all the bytes
LEMMA StartIs == \A m, b : Start(m, b).msg = m /\ Start(m, b).rest = b
BY DEF Start

\* the loop is over as soon as nothing is left, and not later
LEMMA ParseEnds ==
  ASSUME NEW C, NEW m, NEW b \in Seq(Octets)
  PROVE  /\ After(C, Start(m, b), Len(b)).rest = <<>>
         /\ \A k \in Nat : After(C, Start(m, b), k).rest = <<>> =>
              InternalParse(C, m, b) = After(C, Start(m, b), k).msg
<1> DEFINE at == Start(m, b)
           n == Len(b)
           p == Passes(C, at, n)
           done == CHOOSE k \in 0..n : p[k].rest = <<>>
<1>1. InternalParse(C, m, b) = p[done].msg
  BY Zenon DEF InternalParse, Passes, Passed, Start
<1>2. n \in Nat /\ at.rest = b /\ b \in Seq(Octets)
  BY LenProperties, StartIs
<1> HIDE DEF at, n
<1>3. Passed(p, C, at, n)
  BY <1>2, PassesExist, Zenon DEF Passes
<1> HIDE DEF p
<1>4. \A k \in 0..n : p[k] = After(C, at, k)
  BY <1>2, <1>3, PassesAre
<1>5. After(C, at, n).rest = <<>>
  <2> DEFINE r == After(C, at, n).rest
  <2>1. r \in Seq(Octets) /\ (r = <<>> \/ Len(r) + n <= Len(b))
    BY <1>2, AfterShrinks
  <2> HIDE DEF r
  <2>2. Len(r) \in Nat /\ Len(b) = n
    BY <2>1, LenProperties DEF n
  <2>3. Len(r) = 0 => r = <<>>
    BY <2>1, EmptySeq
  <2>4. r = <<>>
    BY <1>2, <2>1, <2>2, <2>3
  <2> QED BY <2>4 DEF r
<1>6. done \in 0..n /\ After(C, at, done).rest = <<>>
  <2>1. n \in 0..n
    BY <1>2
  <2>2. p[n].rest = <<>>
    BY <1>4, <1>5, <2>1
  <2>3. done \in 0..n /\ p[done].rest = <<>>
    BY <2>1, <2>2, Zenon
  <2> HIDE DEF done
  <2> QED BY <1>4, <2>3
<1>7. InternalParse(C, m, b) = After(C, at, done).msg
  <2> HIDE DEF done
  <2> QED BY <1>1, <1>4, <1>6
<1> HIDE DEF done
<1>8. ASSUME NEW k \in Nat, After(C, at, k).rest = <<>>
      PROVE  InternalParse(C, m, b) = After(C, at, k).msg
  <2>1. done \in Nat
    BY <1>2, <1>6
  <2>2. CASE done <= k
    <3>1. k - done \in Nat /\ done + (k - done) = k
      BY <2>1, <2>2
    <3>2. After(C, at, done + (k - done)) = After(C, at, done)
      BY <1>6, <2>1, <3>1, AfterEnd
    <3> QED BY <1>7, <3>1, <3>2, Zenon
  <2>3. CASE k <= done
    <3>1. done - k \in Nat /\ k + (done - k) = done
      BY <2>1, <2>3
    <3>2. After(C, at, k + (done - k)) = After(C, at, k)
      BY <1>8, <3>1, AfterEnd
    <3> QED BY <1>7, <3>1, <3>2, Zenon
  <2> QED BY <2>1, <2>2, <2>3
<1> QED BY <1>5, <1>8 DEF at, n

\* no bytes change nothing
LEMMA ParseDone == \A C, m : InternalParse(C, m, <<>>) = m
<1> TAKE C, m
<1> DEFINE b == <<>>
<1>1. b \in Seq(Octets) /\ 0 \in Nat
  OBVIOUS
<1>2. After(C, Start(m, b), 0) = Start(m, b)
  BY <1>1, AfterSteps
<1>3. After(C, Start(m, b), 0).rest = b /\ After(C, Start(m, b), 0).msg = m
  BY <1>2, StartIs
<1>4. After(C, Start(m, b), 0).rest = <<>> =>
        InternalParse(C, m, b) = After(C, Start(m, b), 0).msg
  <2> HIDE DEF b
  <2> QED BY <1>1, ParseEnds
<1> QED BY <1>3, <1>4

\* one pass more
LEMMA ParseNext ==
  ASSUME NEW C, NEW m, NEW b \in Seq(Octets), NEW n, NEW t \in Seq(Octets),
         ReadNext(C, Start(m, b)) = Start(n, t)
  PROVE  InternalParse(C, m, b) = InternalParse(C, n, t)
<1> DEFINE k == Len(t)
<1>1. k \in Nat /\ k + 1 \in Nat
  BY LenProperties
<1>2. After(C, Start(n, t), k).rest = <<>>
  BY ParseEnds
<1>3. InternalParse(C, n, t) = After(C, Start(n, t), k).msg
  BY <1>1, <1>2, ParseEnds
<1> HIDE DEF k
<1>4. After(C, Start(m, b), k + 1) = After(C, Start(n, t), k)
  BY <1>1, AfterFirst
<1>5. After(C, Start(m, b), k + 1).rest = <<>>
  BY <1>2, <1>4
<1>6. InternalParse(C, m, b) = After(C, Start(m, b), k + 1).msg
  BY <1>1, <1>5, ParseEnds
<1> QED BY <1>3, <1>4, <1>6

\* a field in front is taken first
LEMMA ParseField ==
  ASSUME NEW C, NEW m, NEW u, IsField(u), NEW t \in Seq(Octets)
  PROVE  InternalParse(C, m, FieldBytes(u) \o t) = InternalParse(C, Take(C, m, u), t)
<1> DEFINE f == FieldBytes(u)
           b == f \o t
<1>1. f \in Seq(Octets) /\ f # <<>>
  BY FieldBytesAre
<1>2. ReadField(b) = [ok |-> TRUE, field |-> u, rest |-> t]
  BY FieldRead
<1> HIDE DEF f
<1>3. b \in Seq(Octets) /\ b # <<>>
  BY <1>1, ConcatProperties, ConcatSimplifications
<1> HIDE DEF b
<1>4. ReadField(b).ok /\ ReadField(b).field = u /\ ReadField(b).rest = t
  BY <1>2
<1>5. ReadNext(C, Start(m, b)) = Start(Take(C, m, u), t)
  BY <1>3, <1>4, StartIs, Zenon DEF ReadNext, Start
<1>6. InternalParse(C, m, b) = InternalParse(C, Take(C, m, u), t)
  BY <1>3, <1>5, ParseNext
<1> QED BY <1>6 DEF b, f

\* bytes that are no field make the parse fail
LEMMA ParseStops ==
  ASSUME NEW C, NEW m, NEW b \in Seq(Octets), b # <<>>, ~ReadField(b).ok
  PROVE  InternalParse(C, m, b) = Refused
<1>1. ReadNext(C, Start(m, b)) = Start(Refused, <<>>)
  BY StartIs, Zenon DEF ReadNext, Start
<1>2. InternalParse(C, m, b) = InternalParse(C, Refused, <<>>)
  <2> DEFINE e == <<>>
  <2>1. e \in Seq(Octets)
    OBVIOUS
  <2>2. ReadNext(C, Start(m, b)) = Start(Refused, e)
    BY <1>1
  <2> HIDE DEF e
  <2>3. InternalParse(C, m, b) = InternalParse(C, Refused, e)
    BY <2>1, <2>2, ParseNext
  <2> QED BY <2>3 DEF e
<1> QED BY <1>2, ParseDone

-----------------------------------------------------------------------------
(* Texts one behind the other, and their lengths.                          *)

CatOut(f, p, n) == f = [i \in 0..n |-> IF i = 0 THEN <<>> ELSE f[i - 1] \o p[i]]
Cat(p, n) == (CHOOSE f : CatOut(f, p, n))[n]
SumOut(f, p, n) == f = [i \in 0..n |-> IF i = 0 THEN 0 ELSE f[i - 1] + p[i]]

\* joining and adding up, part by part
LEMMA CatOutIs ==
  ASSUME NEW p, NEW n \in Nat, NEW f
  PROVE  /\ CatOut(f, p, n) => f[0] = <<>> /\ \A i \in 1..n : f[i] = f[i - 1] \o p[i]
         /\ SumOut(f, p, n) => f[0] = 0 /\ \A i \in 1..n : f[i] = f[i - 1] + p[i]
<1>1. 0 \in 0..n /\ \A i \in 1..n : i \in 0..n /\ i # 0
  OBVIOUS
<1>2. ASSUME CatOut(f, p, n)
      PROVE  f[0] = <<>> /\ \A i \in 1..n : f[i] = f[i - 1] \o p[i]
  <2>1. \A i \in 0..n : f[i] = IF i = 0 THEN <<>> ELSE f[i - 1] \o p[i]
    BY <1>2, Zenon DEF CatOut
  <2> QED BY <1>1, <2>1, Zenon
<1>3. ASSUME SumOut(f, p, n)
      PROVE  f[0] = 0 /\ \A i \in 1..n : f[i] = f[i - 1] + p[i]
  <2>1. \A i \in 0..n : f[i] = IF i = 0 THEN 0 ELSE f[i - 1] + p[i]
    BY <1>3, Zenon DEF SumOut
  <2> QED BY <1>1, <2>1, Zenon
<1> QED BY <1>2, <1>3

\* any number of texts can be joined
LEMMA CatExists ==
  ASSUME NEW p
  PROVE  \A n \in Nat : \E f : CatOut(f, p, n)
<1> DEFINE S == {n \in Nat : \E f : CatOut(f, p, n)}
<1>1. 0 \in S
  <2> DEFINE f == [i \in 0..0 |-> <<>>]
             h(i) == IF i = 0 THEN <<>> ELSE f[i - 1] \o p[i]
  <2>1. \A i \in 0..0 : <<>> = h(i)
    <3>1. \A i \in 0..0 : i = 0
      OBVIOUS
    <3> QED BY <3>1, Zenon
  <2>2. f = [i \in 0..0 |-> h(i)]
    <3> HIDE DEF h
    <3> QED BY <2>1
  <2>3. CatOut(f, p, 0)
    BY <2>2, Zenon DEF CatOut
  <2> QED BY <2>3
<1>2. \A n \in Nat : n \in S => n + 1 \in S
  <2> TAKE n \in Nat
  <2> HAVE n \in S
  <2> PICK g : CatOut(g, p, n)
    OBVIOUS
  <2> DEFINE f == [i \in 0..(n + 1) |-> IF i <= n THEN g[i] ELSE g[n] \o p[n + 1]]
             h(i) == IF i = 0 THEN <<>> ELSE f[i - 1] \o p[i]
  <2>1. g[0] = <<>> /\ \A i \in 1..n : g[i] = g[i - 1] \o p[i]
    BY CatOutIs
  <2>2. \A i \in 0..n : f[i] = g[i]
    OBVIOUS
  <2>3. f[n + 1] = g[n] \o p[n + 1]
    OBVIOUS
  <2>4. \A i \in 0..(n + 1) : f[i] = h(i)
    <3> TAKE i \in 0..(n + 1)
    <3>1. CASE i = 0
      <4>1. 0 \in 0..n
        OBVIOUS
      <4> HIDE DEF f
      <4> QED BY <2>1, <2>2, <3>1, <4>1, Zenon
    <3>2. CASE i \in 1..n
      <4>1. i \in 0..n /\ i - 1 \in 0..n /\ i # 0
        BY <3>2
      <4> HIDE DEF f
      <4> QED BY <2>1, <2>2, <3>2, <4>1, Zenon
    <3>3. CASE i = n + 1
      <4>1. i - 1 = n /\ n \in 0..n /\ i # 0
        BY <3>3
      <4> HIDE DEF f
      <4> QED BY <2>2, <2>3, <3>3, <4>1, Zenon
    <3> QED BY <3>1, <3>2, <3>3
  <2>5. f = [i \in 0..(n + 1) |-> f[i]]
    OBVIOUS
  <2>6. f = [i \in 0..(n + 1) |-> h(i)]
    <3> HIDE DEF f, h
    <3> QED BY <2>4, <2>5
  <2>7. CatOut(f, p, n + 1)
    BY <2>6, Zenon DEF CatOut
  <2> HIDE DEF f
  <2>8. n + 1 \in Nat
    OBVIOUS
  <2> QED BY <2>7, <2>8
<1>3. \A n \in Nat : n \in S
  <2> HIDE DEF S
  <2> QED BY <1>1, <1>2, Induction
<1> QED BY <1>3

\* any number of lengths can be added up
LEMMA SumExists ==
  ASSUME NEW p
  PROVE  \A n \in Nat : \E f : SumOut(f, p, n)
<1> DEFINE S == {n \in Nat : \E f : SumOut(f, p, n)}
<1>1. 0 \in S
  <2> DEFINE f == [i \in 0..0 |-> 0]
             h(i) == IF i = 0 THEN 0 ELSE f[i - 1] + p[i]
  <2>1. \A i \in 0..0 : 0 = h(i)
    <3>1. \A i \in 0..0 : i = 0
      OBVIOUS
    <3> QED BY <3>1, Zenon
  <2>2. f = [i \in 0..0 |-> h(i)]
    <3> HIDE DEF h
    <3> QED BY <2>1
  <2>3. SumOut(f, p, 0)
    BY <2>2, Zenon DEF SumOut
  <2> QED BY <2>3
<1>2. \A n \in Nat : n \in S => n + 1 \in S
  <2> TAKE n \in Nat
  <2> HAVE n \in S
  <2> PICK g : SumOut(g, p, n)
    OBVIOUS
  <2> DEFINE f == [i \in 0..(n + 1) |-> IF i <= n THEN g[i] ELSE g[n] + p[n + 1]]
             h(i) == IF i = 0 THEN 0 ELSE f[i - 1] + p[i]
  <2>1. g[0] = 0 /\ \A i \in 1..n : g[i] = g[i - 1] + p[i]
    BY CatOutIs
  <2>2. \A i \in 0..n : f[i] = g[i]
    OBVIOUS
  <2>3. f[n + 1] = g[n] + p[n + 1]
    OBVIOUS
  <2>4. \A i \in 0..(n + 1) : f[i] = h(i)
    <3> TAKE i \in 0..(n + 1)
    <3>1. CASE i = 0
      <4>1. 0 \in 0..n
        OBVIOUS
      <4> HIDE DEF f
      <4> QED BY <2>1, <2>2, <3>1, <4>1, Zenon
    <3>2. CASE i \in 1..n
      <4>1. i \in 0..n /\ i - 1 \in 0..n /\ i # 0
        BY <3>2
      <4> HIDE DEF f
      <4> QED BY <2>1, <2>2, <3>2, <4>1, Zenon
    <3>3. CASE i = n + 1
      <4>1. i - 1 = n /\ n \in 0..n /\ i # 0
        BY <3>3
      <4> HIDE DEF f
      <4> QED BY <2>2, <2>3, <3>3, <4>1, Zenon
    <3> QED BY <3>1, <3>2, <3>3
  <2>5. f = [i \in 0..(n + 1) |-> f[i]]
    OBVIOUS
  <2>6. f = [i \in 0..(n + 1) |-> h(i)]
    <3> HIDE DEF f, h
    <3> QED BY <2>4, <2>5
  <2>7. SumOut(f, p, n + 1)
    BY <2>6, Zenon DEF SumOut
  <2> HIDE DEF f
  <2>8. n + 1 \in Nat
    OBVIOUS
  <2> QED BY <2>7, <2>8
<1>3. \A n \in Nat : n \in S
  <2> HIDE DEF S
  <2> QED BY <1>1, <1>2, Induction
<1> QED BY <1>3

\* Whatever is put together of the same parts is the same.
LEMMA CatSame ==
  ASSUME NEW p, NEW q, NEW n \in Nat, NEW f, CatOut(f, p, n), \A i \in 1..n : p[i] = q[i]
  PROVE  f[n] = Cat(q, n)
<1> DEFINE g == CHOOSE h : CatOut(h, q, n)
<1>1. CatOut(g, q, n)
  BY CatExists, Zenon
<1> HIDE DEF g
<1>2. /\ f[0] = <<>> /\ \A i \in 1..n : f[i] = f[i - 1] \o p[i]
      /\ g[0] = <<>> /\ \A i \in 1..n : g[i] = g[i - 1] \o q[i]
  <2>1. f[0] = <<>> /\ \A i \in 1..n : f[i] = f[i - 1] \o p[i]
    BY CatOutIs, Zenon
  <2>2. g[0] = <<>> /\ \A i \in 1..n : g[i] = g[i - 1] \o q[i]
    BY <1>1, CatOutIs, Zenon
  <2> QED BY <2>1, <2>2
<1>3. f[0] = g[0] /\ \A i \in 1..n : f[i - 1] = g[i - 1] => f[i] = g[i]
  BY <1>2, Zenon
<1>4. f[n] = g[n]
  BY <1>3, Alike
<1> QED BY <1>4 DEF g, Cat

\* one part more
LEMMA CatIs ==
  ASSUME NEW p
  PROVE  Cat(p, 0) = <<>> /\ \A n \in Nat : Cat(p, n + 1) = Cat(p, n) \o p[n + 1]
<1>1. Cat(p, 0) = <<>>
  <2> DEFINE g == CHOOSE h : CatOut(h, p, 0)
  <2>1. CatOut(g, p, 0)
    BY CatExists, Zenon
  <2> HIDE DEF g
  <2>2. g[0] = <<>>
    BY <2>1, CatOutIs, ZenonT(40)
  <2> QED BY <2>2 DEF g, Cat
<1>2. ASSUME NEW n \in Nat PROVE Cat(p, n + 1) = Cat(p, n) \o p[n + 1]
  <2> DEFINE m == n + 1
             g == CHOOSE h : CatOut(h, p, m)
             e == CHOOSE h : CatOut(h, p, n)
  <2>1. m \in Nat /\ m \in 1..m /\ m - 1 = n /\ \A i \in 1..n : i \in 1..m
    OBVIOUS
  <2>2. CatOut(g, p, m) /\ CatOut(e, p, n)
    BY <2>1, CatExists, Zenon
  <2> HIDE DEF g, e, m
  <2>3. /\ g[0] = <<>> /\ \A i \in 1..m : g[i] = g[i - 1] \o p[i]
        /\ e[0] = <<>> /\ \A i \in 1..n : e[i] = e[i - 1] \o p[i]
    <3>1. g[0] = <<>> /\ \A i \in 1..m : g[i] = g[i - 1] \o p[i]
      BY <2>1, <2>2, CatOutIs, ZenonT(40)
    <3>2. e[0] = <<>> /\ \A i \in 1..n : e[i] = e[i - 1] \o p[i]
      BY <2>2, CatOutIs, Zenon
    <3> QED BY <3>1, <3>2
  <2>4. g[0] = e[0] /\ \A i \in 1..n : g[i - 1] = e[i - 1] => g[i] = e[i]
    BY <2>1, <2>3, Zenon
  <2>5. g[n] = e[n]
    BY <2>4, Alike
  <2>6. g[m] = g[n] \o p[m]
    BY <2>1, <2>3, Zenon
  <2>7. Cat(p, m) = Cat(p, n) \o p[m]
    BY <2>5, <2>6, Zenon DEF Cat, g, e
  <2> QED BY <2>7 DEF m
<1> QED BY <1>1, <1>2

\* the sum of the lengths is the length
LEMMA CatLength ==
  ASSUME NEW n \in Nat, NEW p, NEW q, NEW s, SumOut(s, q, n),
         \A i \in 1..n : p[i] \in Seq(Octets) /\ q[i] = Len(p[i])
  PROVE  Cat(p, n) \in Seq(Octets) /\ Len(Cat(p, n)) = s[n]
<1> DEFINE S == {i \in 0..n : Cat(p, i) \in Seq(Octets) /\ Len(Cat(p, i)) = s[i]}
<1>1. s[0] = 0 /\ \A i \in 1..n : s[i] = s[i - 1] + q[i]
  BY CatOutIs
<1>2. 0 \in S
  <2> DEFINE e == <<>>
  <2>1. e \in Seq(Octets) /\ Len(e) = 0 /\ Cat(p, 0) = e /\ 0 \in 0..n
    BY CatIs
  <2> HIDE DEF e
  <2> QED BY <1>1, <2>1
<1>3. \A i \in 1..n : i - 1 \in S => i \in S
  <2> TAKE i \in 1..n
  <2> HAVE i - 1 \in S
  <2>1. i - 1 \in Nat /\ (i - 1) + 1 = i /\ i \in 0..n
    OBVIOUS
  <2> DEFINE c == Cat(p, i - 1)
  <2>2. c \in Seq(Octets) /\ Len(c) = s[i - 1] /\ p[i] \in Seq(Octets) /\ q[i] = Len(p[i])
    OBVIOUS
  <2>3. Cat(p, i) = c \o p[i]
    BY <2>1, CatIs
  <2> HIDE DEF c
  <2>4. c \o p[i] \in Seq(Octets) /\ Len(c \o p[i]) = Len(c) + Len(p[i])
    BY <2>2, ConcatProperties
  <2>5. s[i] = Len(c) + Len(p[i])
    BY <1>1, <2>2, Zenon
  <2> QED BY <2>1, <2>3, <2>4, <2>5
<1> HIDE DEF S
<1>4. \A i \in 0..n : i \in S
  BY <1>2, <1>3, InductionUpTo
<1>5. n \in S
  BY <1>4
<1> QED BY <1>5 DEF S

\* texts joined are a text
LEMMA CatSeq ==
  ASSUME NEW n \in Nat, NEW p, \A i \in 1..n : p[i] \in Seq(Octets)
  PROVE  Cat(p, n) \in Seq(Octets)
<1> DEFINE q == [i \in 1..n |-> Len(p[i])]
<1>1. \A i \in 1..n : q[i] = Len(p[i])
  OBVIOUS
<1> HIDE DEF q
<1>2. PICK s : SumOut(s, q, n)
  BY SumExists
<1> QED BY <1>1, <1>2, CatLength

-----------------------------------------------------------------------------
(* What is written of a message: its known fields, then the unknown ones.  *)

\* the three forms a class of helloworld.proto has
LEMMA SchemaIs ==
  ASSUME NEW C \in Class
  PROVE  /\ Schema[C] \in {<<"string">>, <<"int32">>, <<"string", "string", "int32">>}
         /\ Len(Schema[C]) \in Nat /\ Len(Schema[C]) \in {1, 3}
         /\ DOMAIN Schema[C] = 1..Len(Schema[C])
         /\ \A i \in DOMAIN Schema[C] : Schema[C][i] \in {"string", "int32"} /\ i \in 1..3
<1>1. Schema[C] \in {<<"string">>, <<"int32">>, <<"string", "string", "int32">>}
  BY DEF Class, Schema, HelloRequest, HelloReply, OllehRequest, OllehReply, ShareRequest,
         ShareReply, VerifyRequest, VerifyReply, ThreshholdRequest, ThreshholdReply,
         EncryptRequest, EncryptReply
<1> DEFINE s == Schema[C]
<1> HIDE DEF s
<1>2. /\ Len(s) \in Nat /\ Len(s) \in {1, 3} /\ DOMAIN s = 1..Len(s)
      /\ \A i \in DOMAIN s : s[i] \in {"string", "int32"} /\ i \in 1..3
  <2>1. CASE s = <<"string">>
    BY <2>1
  <2>2. CASE s = <<"int32">>
    BY <2>2
  <2>3. CASE s = <<"string", "string", "int32">>
    BY <2>3
  <2> QED BY <1>1, <2>1, <2>2, <2>3 DEF s
<1> QED BY <1>1, <1>2 DEF s

Piece(C, m, i) == IF HasField(C, m, i) THEN FieldBytes(FieldOf(C, m, i)) ELSE <<>>
PieceSize(C, m, i) == IF HasField(C, m, i) THEN FieldSize(FieldOf(C, m, i)) ELSE 0
PiecesOf(C, m) == [i \in 1..Len(Schema[C]) |-> Piece(C, m, i)]
KnownTo(C, m, i) == Cat(PiecesOf(C, m), i)
Kept7(us) == [k \in 1..Len(us) |-> FieldBytes(us[k])]

\* the known fields as texts joined
LEMMA KnownBytesAre ==
  ASSUME NEW C, NEW m, Len(Schema[C]) \in Nat
  PROVE  KnownBytes(C, m) = KnownTo(C, m, Len(Schema[C]))
<1> DEFINE n == Len(Schema[C])
           p == PiecesOf(C, m)
           h(f, i) == IF i = 0 THEN <<>> ELSE f[i - 1] \o Piece(C, m, i)
           K(f) == f = [i \in 0..n |-> h(f, i)]
           g == CHOOSE f : K(f)
<1>1. KnownBytes(C, m) = g[n]
  BY Zenon DEF KnownBytes, Piece
<1>2. \A i \in 1..n : p[i] = Piece(C, m, i)
  BY DEF PiecesOf
<1> HIDE DEF p
<1>3. ASSUME NEW f PROVE K(f) <=> CatOut(f, p, n)
  <2> DEFINE e(i) == IF i = 0 THEN <<>> ELSE f[i - 1] \o p[i]
             d(i) == h(f, i)
  <2>1. \A i \in 0..n : d(i) = e(i)
    <3> TAKE i \in 0..n
    <3>1. i # 0 => i \in 1..n
      OBVIOUS
    <3> QED BY <1>2, <3>1, Zenon
  <2>2. CatOut(f, p, n) <=> f = [i \in 0..n |-> e(i)]
    BY Zenon DEF CatOut
  <2>3. K(f) <=> f = [i \in 0..n |-> d(i)]
    BY Zenon
  <2> HIDE DEF d, e, K
  <2>4. [i \in 0..n |-> d(i)] = [i \in 0..n |-> e(i)]
    BY <2>1
  <2> QED BY <2>2, <2>3, <2>4, Zenon
<1> HIDE DEF K, h
<1>4. K(g)
  <2>1. PICK f : CatOut(f, p, n)
    BY CatExists
  <2>2. K(f)
    BY <1>3, <2>1, Zenon
  <2> QED BY <2>2, Zenon
<1> HIDE DEF g
<1>5. CatOut(g, p, n)
  BY <1>3, <1>4, Zenon
<1>6. g[n] = Cat(p, n)
  BY <1>5, CatSame
<1> QED BY <1>1, <1>6, Zenon DEF KnownTo, p

\* the unknown fields as texts joined
LEMMA UnknownBytesAre ==
  ASSUME NEW us, Len(us) \in Nat
  PROVE  UnknownBytes(us) = Cat(Kept7(us), Len(us))
<1> DEFINE n == Len(us)
           p == Kept7(us)
           h(f, k) == IF k = 0 THEN <<>> ELSE f[k - 1] \o FieldBytes(us[k])
           K(f) == f = [k \in 0..n |-> h(f, k)]
           g == CHOOSE f : K(f)
<1>1. UnknownBytes(us) = g[n]
  BY Zenon DEF UnknownBytes
<1>2. \A k \in 1..n : p[k] = FieldBytes(us[k])
  BY DEF Kept7
<1> HIDE DEF p
<1>3. ASSUME NEW f PROVE K(f) <=> CatOut(f, p, n)
  <2> DEFINE e(i) == IF i = 0 THEN <<>> ELSE f[i - 1] \o p[i]
             d(i) == h(f, i)
  <2>1. \A i \in 0..n : d(i) = e(i)
    <3> TAKE i \in 0..n
    <3>1. i # 0 => i \in 1..n
      OBVIOUS
    <3> QED BY <1>2, <3>1, Zenon
  <2>2. CatOut(f, p, n) <=> f = [i \in 0..n |-> e(i)]
    BY Zenon DEF CatOut
  <2>3. K(f) <=> f = [i \in 0..n |-> d(i)]
    BY Zenon
  <2> HIDE DEF d, e, K
  <2>4. [i \in 0..n |-> d(i)] = [i \in 0..n |-> e(i)]
    BY <2>1
  <2> QED BY <2>2, <2>3, <2>4, Zenon
<1> HIDE DEF K, h
<1>4. K(g)
  <2>1. PICK f : CatOut(f, p, n)
    BY CatExists
  <2>2. K(f)
    BY <1>3, <2>1, Zenon
  <2> QED BY <2>2, Zenon
<1> HIDE DEF g
<1>5. CatOut(g, p, n)
  BY <1>3, <1>4, Zenon
<1>6. g[n] = Cat(p, n)
  BY <1>5, CatSame
<1> QED BY <1>1, <1>6, Zenon DEF p

\* ByteSizeLong adds up the sizes of the fields
LEMMA SizesAre ==
  ASSUME NEW C, NEW m, Len(Schema[C]) \in Nat, Len(m.unknown) \in Nat
  PROVE  \E f, g :
           /\ SumOut(f, [i \in 1..Len(Schema[C]) |-> PieceSize(C, m, i)], Len(Schema[C]))
           /\ SumOut(g, [k \in 1..Len(m.unknown) |-> FieldSize(m.unknown[k])], Len(m.unknown))
           /\ ByteSizeLong(C, m) = f[Len(Schema[C])] + g[Len(m.unknown)]
<1> DEFINE n == Len(Schema[C])
           len == Len(m.unknown)
           p == [i \in 1..n |-> PieceSize(C, m, i)]
           q == [k \in 1..len |-> FieldSize(m.unknown[k])]
           h(f, i) == IF i = 0 THEN 0 ELSE f[i - 1] + PieceSize(C, m, i)
           j(f, k) == IF k = 0 THEN 0 ELSE f[k - 1] + FieldSize(m.unknown[k])
           K(f) == f = [i \in 0..n |-> h(f, i)]
           U(f) == f = [k \in 0..len |-> j(f, k)]
           a == CHOOSE f : K(f)
           b == CHOOSE f : U(f)
<1>1. ByteSizeLong(C, m) = a[n] + b[len]
  BY Zenon DEF ByteSizeLong, PieceSize
<1>2. /\ \A i \in 1..n : p[i] = PieceSize(C, m, i)
      /\ \A k \in 1..len : q[k] = FieldSize(m.unknown[k])
  OBVIOUS
<1> HIDE DEF p, q, n, len
<1>3. ASSUME NEW f PROVE K(f) <=> SumOut(f, p, n)
  <2> DEFINE e(i) == IF i = 0 THEN 0 ELSE f[i - 1] + p[i]
             d(i) == h(f, i)
  <2>1. \A i \in 0..n : d(i) = e(i)
    <3> TAKE i \in 0..n
    <3>1. i # 0 => i \in 1..n
      BY DEF n
    <3> QED BY <1>2, <3>1, Zenon
  <2>2. SumOut(f, p, n) <=> f = [i \in 0..n |-> e(i)]
    BY Zenon DEF SumOut
  <2>3. K(f) <=> f = [i \in 0..n |-> d(i)]
    BY Zenon
  <2> HIDE DEF d, e, K
  <2>4. [i \in 0..n |-> d(i)] = [i \in 0..n |-> e(i)]
    BY <2>1
  <2> QED BY <2>2, <2>3, <2>4, Zenon
<1>4. ASSUME NEW f PROVE U(f) <=> SumOut(f, q, len)
  <2> DEFINE e(i) == IF i = 0 THEN 0 ELSE f[i - 1] + q[i]
             d(i) == j(f, i)
  <2>1. \A i \in 0..len : d(i) = e(i)
    <3> TAKE i \in 0..len
    <3>1. i # 0 => i \in 1..len
      BY DEF len
    <3> QED BY <1>2, <3>1, Zenon
  <2>2. SumOut(f, q, len) <=> f = [i \in 0..len |-> e(i)]
    BY Zenon DEF SumOut
  <2>3. U(f) <=> f = [i \in 0..len |-> d(i)]
    BY Zenon
  <2> HIDE DEF d, e, U
  <2>4. [i \in 0..len |-> d(i)] = [i \in 0..len |-> e(i)]
    BY <2>1
  <2> QED BY <2>2, <2>3, <2>4, Zenon
<1> HIDE DEF K, U, h, j
<1>5. K(a) /\ U(b)
  <2>1. n \in Nat /\ len \in Nat
    BY DEF n, len
  <2>2. PICK f : SumOut(f, p, n)
    BY <2>1, SumExists
  <2>3. PICK g : SumOut(g, q, len)
    BY <2>1, SumExists
  <2>4. K(f) /\ U(g)
    BY <1>3, <1>4, <2>2, <2>3, Zenon
  <2> QED BY <2>4, Zenon
<1> HIDE DEF a, b
<1>6. SumOut(a, p, n) /\ SumOut(b, q, len)
  BY <1>3, <1>4, <1>5, Zenon
<1> QED BY <1>1, <1>6, Zenon DEF p, q, n, len

-----------------------------------------------------------------------------
(* Messages of a class.                                                    *)

IsVal(type, v) ==
  IF type = "int32" THEN v \in 0..MaxInt ELSE v \in Seq(Octets) /\ Len(v) \in 0..MaxInt
Fields == {u \in [num : 1..3, type : {0, 2}, val : (0..MaxInt) \cup Seq(Octets)] : IsField(u)}
IsMsg(C, m) ==
  /\ m = [fields |-> m.fields, unknown |-> m.unknown]
  /\ m.fields = [i \in DOMAIN Schema[C] |-> m.fields[i]]
  /\ \A i \in DOMAIN Schema[C] : IsVal(Schema[C][i], m.fields[i])
  /\ m.unknown \in Seq(Fields)

\* the fields are a set
LEMMA FieldsAre == \A u : IsField(u) <=> u \in Fields
<1> TAKE u
<1>1. ASSUME IsField(u) PROVE u \in Fields
  <2>1. u = [num |-> u.num, type |-> u.type, val |-> u.val]
        /\ u.num \in 1..3 /\ u.type \in {0, 2}
    BY <1>1 DEF IsField
  <2>2. u.val \in (0..MaxInt) \cup Seq(Octets)
    BY <1>1, <2>1 DEF IsField
  <2> DEFINE S == (0..MaxInt) \cup Seq(Octets)
             N == 1..3
  <2> HIDE DEF S, N
  <2>3. [num |-> u.num, type |-> u.type, val |-> u.val] \in [num : N, type : {0, 2}, val : S]
    BY <2>1, <2>2 DEF S, N
  <2>4. u \in [num : N, type : {0, 2}, val : S]
    BY <2>1, <2>3, Zenon
  <2> QED BY <1>1, <2>4, Zenon DEF Fields, S, N
<1>2. ASSUME u \in Fields PROVE IsField(u)
  BY <1>2, Zenon DEF Fields
<1> QED BY <1>1, <1>2

\* the i-th field of a message is a field
LEMMA FieldOfIs ==
  ASSUME NEW C \in Class, NEW m, IsMsg(C, m), NEW i \in DOMAIN Schema[C]
  PROVE  /\ IsField(FieldOf(C, m, i))
         /\ FieldOf(C, m, i).num = i /\ FieldOf(C, m, i).val = m.fields[i]
         /\ FieldOf(C, m, i).type = WireType[Schema[C][i]]
         /\ FieldOf(C, m, i).type = 2 <=> Schema[C][i] = "string"
<1> DEFINE t == Schema[C][i]
           w == WireType[t]
           v == m.fields[i]
           u == FieldOf(C, m, i)
<1>1. t \in {"string", "int32"} /\ i \in 1..3
  BY SchemaIs
<1>2. IsVal(t, v)
  BY DEF IsMsg
<1>3. w = (IF t = "string" THEN 2 ELSE 0)
  BY <1>1 DEF WireType
<1>4. u = [num |-> i, type |-> w, val |-> v]
  BY DEF FieldOf
<1> HIDE DEF t, w, v, u
<1>5. u.num = i /\ u.type = w /\ u.val = v
  BY <1>4
<1>6. (w = 2 <=> t = "string") /\ (w = 0 <=> t = "int32") /\ w \in {0, 2}
  BY <1>1, <1>3
<1>7. /\ w = 0 => v \in 0..MaxInt
      /\ w = 2 => v \in Seq(Octets) /\ Len(v) \in 0..MaxInt
  BY <1>1, <1>2, <1>6, Zenon DEF IsVal
<1>8. IsField(u)
  BY <1>1, <1>4, <1>5, <1>6, <1>7, Zenon DEF IsField
<1> QED BY <1>5, <1>6, <1>8 DEF u, v, w, t

\* a message is not what a failed parse leaves
LEMMA NotRefused ==
  ASSUME NEW C \in Class, NEW m, IsMsg(C, m)
  PROVE  m # Refused
<1>1. DOMAIN m.fields = DOMAIN Schema[C]
  <2> DEFINE D == DOMAIN Schema[C]
             f == m.fields
  <2>1. f = [i \in D |-> f[i]]
    BY DEF IsMsg
  <2> HIDE DEF D, f
  <2>2. DOMAIN [i \in D |-> f[i]] = D
    OBVIOUS
  <2>3. DOMAIN f = D
    BY <2>1, <2>2, Zenon
  <2> QED BY <2>3 DEF D, f
<1>2. 1 \in DOMAIN Schema[C]
  BY SchemaIs
<1>3. m = Refused => DOMAIN m.fields = {}
  <2>1. Refused.fields = <<>>
    BY DEF Refused
  <2>2. DOMAIN <<>> = {}
    OBVIOUS
  <2> QED BY <2>1, <2>2, Zenon
<1> QED BY <1>1, <1>2, <1>3

\* the default has the type of its field
LEMMA DefaultIs ==
  ASSUME NEW C \in Class, NEW i \in DOMAIN Schema[C]
  PROVE  IsVal(Schema[C][i], Default[Schema[C][i]])
<1> DEFINE t == Schema[C][i]
<1>1. t \in {"string", "int32"}
  BY SchemaIs
<1> HIDE DEF t
<1>2. Default[t] = IF t = "string" THEN <<>> ELSE 0
  BY <1>1 DEF Default
<1>3. MaxInt \in Nat /\ 0 \in 0..MaxInt
  BY FiveGroups
<1>4. <<>> \in Seq(Octets) /\ Len(<<>>) = 0
  OBVIOUS
<1>5. ASSUME t = "string" PROVE IsVal(t, Default[t])
  <2>1. t # "int32" /\ Default[t] = <<>>
    BY <1>2, <1>5
  <2>2. Len(<<>>) \in 0..MaxInt
    BY <1>3, <1>4
  <2> QED BY <1>4, <2>1, <2>2, Zenon DEF IsVal
<1>6. ASSUME t = "int32" PROVE IsVal(t, Default[t])
  <2>1. Default[t] = 0
    BY <1>2, <1>6
  <2> QED BY <1>3, <1>6, <2>1, Zenon DEF IsVal
<1>7. IsVal(t, Default[t])
  BY <1>1, <1>5, <1>6
<1> QED BY <1>7 DEF t

\* Clear makes a message with every field at its default
LEMMA ClearIs ==
  ASSUME NEW C \in Class
  PROVE  /\ IsMsg(C, Clear(C)) /\ Clear(C).unknown = <<>>
         /\ \A i \in DOMAIN Schema[C] : Clear(C).fields[i] = Default[Schema[C][i]]
<1> DEFINE m == Clear(C)
           D == DOMAIN Schema[C]
           d(i) == Default[Schema[C][i]]
<1>1. m = [fields |-> [i \in D |-> d(i)], unknown |-> <<>>]
  BY DEF Clear
<1> HIDE DEF m, D, d
<1>2. m.fields = [i \in D |-> d(i)] /\ m.unknown = <<>>
  BY <1>1
<1>3. \A i \in D : m.fields[i] = d(i)
  BY <1>2
<1>4. m.fields = [i \in D |-> m.fields[i]]
  BY <1>2
<1>5. m = [fields |-> m.fields, unknown |-> m.unknown]
  BY <1>1, <1>2, Zenon
<1>6. m.unknown \in Seq(Fields)
  BY <1>2
<1>7. \A i \in D : IsVal(Schema[C][i], m.fields[i])
  <2>1. \A i \in D : IsVal(Schema[C][i], d(i))
    BY DefaultIs DEF D, d
  <2> QED BY <1>3, <2>1, Zenon
<1>8. IsMsg(C, m)
  BY <1>4, <1>5, <1>6, <1>7, Zenon DEF IsMsg, D
<1> QED BY <1>2, <1>3, <1>8 DEF m, D, d

\* what is written of one field is as long as its size
LEMMA PieceIs ==
  ASSUME NEW C \in Class, NEW m, IsMsg(C, m), NEW i \in DOMAIN Schema[C]
  PROVE  Piece(C, m, i) \in Seq(Octets) /\ PieceSize(C, m, i) = Len(Piece(C, m, i))
<1> DEFINE u == FieldOf(C, m, i)
           e == <<>>
<1>1. IsField(u)
  BY FieldOfIs
<1> HIDE DEF u
<1>2. FieldBytes(u) \in Seq(Octets) /\ Len(FieldBytes(u)) = FieldSize(u)
  BY <1>1, FieldBytesAre
<1>3. e \in Seq(Octets) /\ Len(e) = 0
  OBVIOUS
<1> HIDE DEF e
<1> QED BY <1>2, <1>3, Zenon DEF Piece, PieceSize, u, e

\* the bytes of the known fields, one after the other
LEMMA KnownIs ==
  ASSUME NEW C \in Class, NEW m
  PROVE  /\ KnownTo(C, m, 0) = <<>>
         /\ \A i \in DOMAIN Schema[C] : KnownTo(C, m, i) = KnownTo(C, m, i - 1) \o Piece(C, m, i)
         /\ KnownBytes(C, m) = KnownTo(C, m, Len(Schema[C]))
<1>1. Len(Schema[C]) \in Nat /\ DOMAIN Schema[C] = 1..Len(Schema[C])
  BY SchemaIs
<1> DEFINE n == Len(Schema[C])
           p == PiecesOf(C, m)
<1> HIDE DEF n
<1>2. KnownTo(C, m, 0) = <<>>
  BY CatIs DEF KnownTo
<1>3. ASSUME NEW i \in 1..n PROVE KnownTo(C, m, i) = KnownTo(C, m, i - 1) \o Piece(C, m, i)
  <2>1. i - 1 \in Nat /\ (i - 1) + 1 = i
    BY <1>1 DEF n
  <2>2. p[i] = Piece(C, m, i)
    BY DEF PiecesOf, n
  <2> HIDE DEF p
  <2>3. Cat(p, (i - 1) + 1) = Cat(p, i - 1) \o p[(i - 1) + 1]
    BY <2>1, CatIs
  <2>4. Cat(p, i) = Cat(p, i - 1) \o Piece(C, m, i)
    BY <2>1, <2>2, <2>3
  <2> QED BY <2>4 DEF KnownTo, p
<1>4. KnownBytes(C, m) = KnownTo(C, m, Len(Schema[C]))
  BY <1>1, KnownBytesAre
<1> QED BY <1>1, <1>2, <1>3, <1>4 DEF n

\* the known fields are bytes
LEMMA KnownSeq ==
  ASSUME NEW C \in Class, NEW m, IsMsg(C, m)
  PROVE  \A i \in 0..Len(Schema[C]) : KnownTo(C, m, i) \in Seq(Octets)
<1> TAKE i \in 0..Len(Schema[C])
<1> DEFINE p == PiecesOf(C, m)
<1>1. Len(Schema[C]) \in Nat /\ DOMAIN Schema[C] = 1..Len(Schema[C])
  BY SchemaIs
<1>2. \A j \in 1..Len(Schema[C]) : p[j] = Piece(C, m, j)
  BY DEF PiecesOf
<1> HIDE DEF p
<1>3. i \in Nat /\ \A j \in 1..i : j \in 1..Len(Schema[C])
  BY <1>1
<1>4. \A j \in 1..Len(Schema[C]) : Piece(C, m, j) \in Seq(Octets)
  BY <1>1, PieceIs
<1>5. \A j \in 1..i : p[j] \in Seq(Octets)
  BY <1>2, <1>3, <1>4
<1> QED BY <1>3, <1>5, CatSeq DEF KnownTo, p

\* the bytes of the unknown ones, in the order they came
LEMMA UnknownIs ==
  ASSUME NEW us \in Seq(Fields)
  PROVE  /\ UnknownBytes(us) \in Seq(Octets)
         /\ \A k \in 1..Len(us) : IsField(us[k])
<1> DEFINE p == Kept7(us)
<1>1. Len(us) \in Nat
  BY LenProperties
<1>2. \A k \in 1..Len(us) : IsField(us[k])
  BY FieldsAre, ElementOfSeq
<1>3. \A k \in 1..Len(us) : p[k] \in Seq(Octets)
  <2>1. \A k \in 1..Len(us) : p[k] = FieldBytes(us[k])
    BY DEF Kept7
  <2> HIDE DEF p
  <2>2. ASSUME NEW k \in 1..Len(us) PROVE FieldBytes(us[k]) \in Seq(Octets)
    BY <1>2, FieldBytesAre
  <2> QED BY <2>1, <2>2
<1> HIDE DEF p
<1>4. Cat(p, Len(us)) \in Seq(Octets)
  BY <1>1, <1>3, CatSeq
<1>5. UnknownBytes(us) = Cat(p, Len(us))
  BY <1>1, UnknownBytesAre DEF p
<1> QED BY <1>2, <1>4, <1>5

\* no unknown fields make no bytes
LEMMA UnknownNone == UnknownBytes(<<>>) = <<>>
<1> DEFINE e == <<>>
<1>1. Len(e) = 0 /\ Len(e) \in Nat
  OBVIOUS
<1> HIDE DEF e
<1>2. UnknownBytes(e) = Cat(Kept7(e), 0)
  BY <1>1, UnknownBytesAre
<1>3. UnknownBytes(e) = <<>>
  BY <1>2, CatIs
<1> QED BY <1>3 DEF e

\* one unknown field more
LEMMA UnknownMore ==
  ASSUME NEW us \in Seq(Fields), NEW u \in Fields
  PROVE  /\ Append(us, u) \in Seq(Fields)
         /\ UnknownBytes(Append(us, u)) = UnknownBytes(us) \o FieldBytes(u)
<1> DEFINE vs == Append(us, u)
           n == Len(us)
           m == n + 1
           p == Kept7(us)
           q == Kept7(vs)
<1>1. vs \in Seq(Fields) /\ Len(vs) = m /\ vs[m] = u /\ \A i \in 1..n : vs[i] = us[i]
  BY AppendProperties
<1>2. n \in Nat /\ m \in Nat /\ m \in 1..m /\ \A i \in 1..n : i \in 1..m
  BY LenProperties
<1> HIDE DEF vs, n
<1>3. /\ \A i \in 1..n : p[i] = FieldBytes(us[i])
      /\ \A i \in 1..m : q[i] = FieldBytes(vs[i])
  BY <1>1 DEF Kept7, n
<1> HIDE DEF p, q
<1>4. \A i \in 1..n : p[i] = q[i]
  BY <1>1, <1>2, <1>3, Zenon
<1>5. Cat(p, n) = Cat(q, n)
  <2> DEFINE f == CHOOSE h : CatOut(h, p, n)
  <2>1. CatOut(f, p, n)
    BY <1>2, CatExists, Zenon
  <2> HIDE DEF f
  <2>2. f[n] = Cat(q, n) 
    BY <1>2, <1>4, <2>1, CatSame
  <2>3. f[n] = Cat(p, n)
    BY <1>2, <2>1, CatSame
  <2> QED BY <2>2, <2>3
<1>6. Cat(q, m) = Cat(q, n) \o q[m]
  BY <1>2, CatIs
<1>7. q[m] = FieldBytes(u)
  BY <1>1, <1>2, <1>3
<1>8. UnknownBytes(us) = Cat(p, n)
  BY <1>2, UnknownBytesAre DEF n, p
<1> HIDE DEF m
<1>9. UnknownBytes(vs) = Cat(q, m)
  BY <1>1, <1>2, UnknownBytesAre DEF q
<1> QED BY <1>1, <1>5, <1>6, <1>7, <1>8, <1>9 DEF vs

\* a message is as long as ByteSizeLong says
LEMMA WrittenIs ==
  ASSUME NEW C \in Class, NEW m, IsMsg(C, m)
  PROVE  /\ InternalSerialize(C, m) = KnownTo(C, m, Len(Schema[C])) \o UnknownBytes(m.unknown)
         /\ InternalSerialize(C, m) \in Seq(Octets)
         /\ ByteSizeLong(C, m) = Len(InternalSerialize(C, m))
<1> DEFINE n == Len(Schema[C])
           us == m.unknown
           len == Len(us)
           p == PiecesOf(C, m)
           q == Kept7(us)
           a == [i \in 1..n |-> PieceSize(C, m, i)]
           b == [k \in 1..len |-> FieldSize(us[k])]
           x == KnownTo(C, m, n)
           y == UnknownBytes(us)
<1>1. n \in Nat /\ DOMAIN Schema[C] = 1..n
  BY SchemaIs
<1>2. us \in Seq(Fields)
  BY DEF IsMsg
<1>3. len \in Nat /\ \A k \in 1..len : IsField(us[k])
  BY <1>2, UnknownIs, LenProperties
<1>4. PICK f, g : SumOut(f, a, n) /\ SumOut(g, b, len) /\ ByteSizeLong(C, m) = f[n] + g[len]
  BY <1>1, <1>3, SizesAre
<1>5. \A i \in 1..n : p[i] \in Seq(Octets) /\ a[i] = Len(p[i])
  <2>1. \A i \in 1..n : p[i] = Piece(C, m, i) /\ a[i] = PieceSize(C, m, i)
    BY DEF PiecesOf
  <2>2. \A i \in 1..n : Piece(C, m, i) \in Seq(Octets)
                        /\ PieceSize(C, m, i) = Len(Piece(C, m, i))
    BY <1>1, PieceIs
  <2> HIDE DEF p, a
  <2> QED BY <2>1, <2>2, Zenon
<1>6. \A k \in 1..len : q[k] \in Seq(Octets) /\ b[k] = Len(q[k])
  <2>1. \A k \in 1..len : q[k] = FieldBytes(us[k]) /\ b[k] = FieldSize(us[k])
    BY DEF Kept7
  <2>2. ASSUME NEW k \in 1..len
        PROVE  FieldBytes(us[k]) \in Seq(Octets) /\ Len(FieldBytes(us[k])) = FieldSize(us[k])
    BY <1>3, FieldBytesAre
  <2> HIDE DEF q, b
  <2> QED BY <2>1, <2>2, Zenon
<1> HIDE DEF a, b
<1>7. x = Cat(p, n) /\ y = Cat(q, len)
  BY <1>3, UnknownBytesAre DEF KnownTo
<1>8. InternalSerialize(C, m) = x \o y
  BY <1>1, KnownIs DEF InternalSerialize
<1> HIDE DEF p, q, x, y, us, len, n
<1>9. x \in Seq(Octets) /\ Len(x) = f[n] /\ y \in Seq(Octets) /\ Len(y) = g[len]
  BY <1>1, <1>3, <1>4, <1>5, <1>6, <1>7, CatLength
<1>10. x \o y \in Seq(Octets) /\ Len(x \o y) = Len(x) + Len(y)
  BY <1>9, ConcatProperties
<1> QED BY <1>4, <1>8, <1>9, <1>10 DEF x, y, n, us

-----------------------------------------------------------------------------
(* Reading field after field: after the bytes b the message x has become   *)
(* y, whatever follows them.                                               *)

ReadsAs(C, x, b, y) ==
  \A r \in Seq(Octets) : InternalParse(C, x, b \o r) = InternalParse(C, y, r)

\* no bytes change nothing
LEMMA ReadsNone == \A C, x : ReadsAs(C, x, <<>>, x)
<1> TAKE C, x
<1>1. \A r \in Seq(Octets) : <<>> \o r = r
  BY ConcatEmptySeq
<1> QED BY <1>1, Zenon DEF ReadsAs

\* one field behind the bytes is taken last
LEMMA ReadsMore ==
  ASSUME NEW C, NEW x, NEW b \in Seq(Octets), NEW y, ReadsAs(C, x, b, y), NEW u, IsField(u)
  PROVE  ReadsAs(C, x, b \o FieldBytes(u), Take(C, y, u))
<1> DEFINE f == FieldBytes(u)
<1>1. f \in Seq(Octets)
  BY FieldBytesAre
<1>2. ASSUME NEW r \in Seq(Octets)
      PROVE  InternalParse(C, x, (b \o f) \o r) = InternalParse(C, Take(C, y, u), r)
  <2>1. InternalParse(C, y, f \o r) = InternalParse(C, Take(C, y, u), r)
    BY ParseField
  <2> HIDE DEF f
  <2>2. f \o r \in Seq(Octets)
    BY <1>1, ConcatProperties
  <2>3. (b \o f) \o r = b \o (f \o r)
    BY <1>1, ConcatAssociative
  <2>4. InternalParse(C, x, b \o (f \o r)) = InternalParse(C, y, f \o r)
    BY <2>2, Zenon DEF ReadsAs
  <2> QED BY <2>1, <2>3, <2>4, Zenon
<1> HIDE DEF f
<1>3. ReadsAs(C, x, b \o f, Take(C, y, u))
  BY <1>2, Zenon DEF ReadsAs
<1> QED BY <1>3 DEF f

\* with nothing behind them the parse is over
LEMMA ReadsDone ==
  ASSUME NEW C, NEW x, NEW b \in Seq(Octets), NEW y, ReadsAs(C, x, b, y)
  PROVE  InternalParse(C, x, b) = y
<1>1. b \o <<>> = b
  BY ConcatEmptySeq
<1>2. <<>> \in Seq(Octets)
  OBVIOUS
<1>3. InternalParse(C, x, b \o <<>>) = InternalParse(C, y, <<>>)
  BY <1>2, Zenon DEF ReadsAs
<1>4. InternalParse(C, y, <<>>) = y
  BY ParseDone, Zenon
<1> QED BY <1>1, <1>3, <1>4, Zenon

\* a field cut short makes the parse fail
LEMMA ReadsCut ==
  ASSUME NEW C, NEW x, NEW b \in Seq(Octets), NEW y, ReadsAs(C, x, b, y), NEW u, IsField(u),
         NEW k \in 1..(Len(FieldBytes(u)) - 1)
  PROVE  InternalParse(C, x, b \o SubSeq(FieldBytes(u), 1, k)) = Refused
<1> DEFINE f == FieldBytes(u)
           c == SubSeq(f, 1, k)
<1>1. f \in Seq(Octets)
  BY FieldBytesAre
<1>2. ReadField(c) = [ok |-> FALSE]
  BY FieldCut
<1>3. c \in Seq(Octets) /\ Len(c) = k
  <2>1. k \in Nat /\ k <= Len(f) /\ 1 <= k
    <3> HIDE DEF f
    <3>1. Len(f) \in Nat
      BY <1>1, LenProperties
    <3>2. k \in 1..(Len(f) - 1)
      BY DEF f
    <3> QED BY <3>1, <3>2
  <2> HIDE DEF f
  <2>2. \A i \in 1..k : f[i] \in Octets
    BY <1>1, <2>1, ElementOfSeq, LenProperties
  <2>3. SubSeq(f, 1, k) \in Seq(Octets) /\ Len(SubSeq(f, 1, k)) = (k - 1) + 1
    BY <2>1, <2>2, SubSeqProperties
  <2> QED BY <2>1, <2>3
<1>4. c # <<>>
  <2>1. Len(<<>>) # k
    OBVIOUS
  <2> HIDE DEF c
  <2> QED BY <1>3, <2>1, Zenon
<1> HIDE DEF c, f
<1>5. ~ReadField(c).ok
  BY <1>2
<1>6. InternalParse(C, y, c) = Refused
  BY <1>3, <1>4, <1>5, ParseStops
<1>7. InternalParse(C, x, b \o c) = Refused
  BY <1>3, <1>6, Zenon DEF ReadsAs
<1> QED BY <1>7 DEF c, f

\* one field of the message m of class K more
Received(C, y, K, m, i) == IF HasField(K, m, i) THEN Take(C, y, FieldOf(K, m, i)) ELSE y

\* one known field more
LEMMA ReadsKnown ==
  ASSUME NEW C, NEW x, NEW K \in Class, NEW m, IsMsg(K, m), NEW i \in DOMAIN Schema[K], NEW y,
         ReadsAs(C, x, KnownTo(K, m, i - 1), y)
  PROVE  ReadsAs(C, x, KnownTo(K, m, i), Received(C, y, K, m, i))
<1> DEFINE b == KnownTo(K, m, i - 1)
           u == FieldOf(K, m, i)
<1>1. b \in Seq(Octets)
  <2>1. i - 1 \in 0..Len(Schema[K])
    BY SchemaIs
  <2> QED BY <2>1, KnownSeq
<1>2. KnownTo(K, m, i) = b \o Piece(K, m, i)
  BY KnownIs
<1>3. IsField(u)
  BY FieldOfIs
<1>4. b \o <<>> = b
  <2> HIDE DEF b
  <2> QED BY <1>1, ConcatEmptySeq
<1>5. ReadsAs(C, x, b, y)
  OBVIOUS
<1> HIDE DEF b, u
<1>6. ReadsAs(C, x, b \o FieldBytes(u), Take(C, y, u))
  BY <1>1, <1>3, <1>5, ReadsMore
<1> QED BY <1>2, <1>4, <1>5, <1>6, Zenon DEF Piece, Received, u

-----------------------------------------------------------------------------
(* Reading what its own class wrote.                                       *)

\* x with the first i fields of m, as far as m has them
Over(C, x, m, i) ==
  [fields  |-> [j \in DOMAIN Schema[C] |->
                  IF j <= i /\ HasField(C, m, j) THEN m.fields[j] ELSE x.fields[j]],
   unknown |-> x.unknown]

\* what a message of a class is
LEMMA MsgIs ==
  ASSUME NEW C, NEW m
  PROVE  IsMsg(C, m) <=>
           /\ m = [fields |-> m.fields, unknown |-> m.unknown]
           /\ m.fields = [i \in DOMAIN Schema[C] |-> m.fields[i]]
           /\ \A i \in DOMAIN Schema[C] : IsVal(Schema[C][i], m.fields[i])
           /\ m.unknown \in Seq(Fields)
BY Zenon DEF IsMsg

\* it is a message with these fields
LEMMA OverIs ==
  ASSUME NEW C \in Class, NEW x, IsMsg(C, x), NEW m, IsMsg(C, m), NEW i
  PROVE  /\ IsMsg(C, Over(C, x, m, i)) /\ Over(C, x, m, i).unknown = x.unknown
         /\ \A j \in DOMAIN Schema[C] :
              Over(C, x, m, i).fields[j] =
                IF j <= i /\ HasField(C, m, j) THEN m.fields[j] ELSE x.fields[j]
<1> DEFINE D == DOMAIN Schema[C]
           h(j) == IF j <= i /\ HasField(C, m, j) THEN m.fields[j] ELSE x.fields[j]
           o == Over(C, x, m, i)
<1>1. o = [fields |-> [j \in D |-> h(j)], unknown |-> x.unknown]
  BY DEF Over
<1>2. \A j \in D : IsVal(Schema[C][j], x.fields[j]) /\ IsVal(Schema[C][j], m.fields[j])
  BY MsgIs, Zenon
<1>3. \A j \in D : IsVal(Schema[C][j], h(j))
  BY <1>2, Zenon
<1>4. x.unknown \in Seq(Fields)
  BY MsgIs, Zenon
<1> HIDE DEF o, h, D
<1>5. o.fields = [j \in D |-> h(j)] /\ o.unknown = x.unknown
  BY <1>1
<1>6. \A j \in D : o.fields[j] = h(j)
  BY <1>5
<1>7. o.fields = [j \in D |-> o.fields[j]]
  BY <1>5
<1>8. o = [fields |-> o.fields, unknown |-> o.unknown]
  BY <1>1, <1>5, Zenon
<1>9. \A j \in D : IsVal(Schema[C][j], o.fields[j])
  BY <1>3, <1>6, Zenon
<1>10. IsMsg(C, o)
  BY <1>4, <1>5, <1>7, <1>8, <1>9, Zenon DEF IsMsg, D
<1> QED BY <1>5, <1>6, <1>10 DEF o, h, D

\* messages of a class are the same when their parts are
LEMMA SameMsg ==
  ASSUME NEW C, NEW x, IsMsg(C, x), NEW y, IsMsg(C, y), x.unknown = y.unknown,
         \A j \in DOMAIN Schema[C] : x.fields[j] = y.fields[j]
  PROVE  x = y
<1> DEFINE D == DOMAIN Schema[C]
           f == x.fields
           g == y.fields
<1>1. f = [j \in D |-> f[j]] /\ g = [j \in D |-> g[j]]
  BY MsgIs, Zenon
<1>2. \A j \in D : f[j] = g[j]
  OBVIOUS
<1>3. x = [fields |-> f, unknown |-> x.unknown] /\ y = [fields |-> g, unknown |-> y.unknown]
  BY MsgIs, Zenon
<1> HIDE DEF D, f, g
<1>4. f = g
  <2>1. [j \in D |-> f[j]] = [j \in D |-> g[j]]
    BY <1>2
  <2> QED BY <1>1, <2>1, Zenon
<1> QED BY <1>3, <1>4, Zenon

\* a message with another value in its field i
Put(m, i, v) == [m EXCEPT !.fields[i] = v]

\* setting a field changes no other
LEMMA PutIs ==
  ASSUME NEW C \in Class, NEW m, IsMsg(C, m), NEW i \in DOMAIN Schema[C], NEW v,
         IsVal(Schema[C][i], v)
  PROVE  /\ IsMsg(C, Put(m, i, v)) /\ Put(m, i, v).unknown = m.unknown
         /\ \A j \in DOMAIN Schema[C] :
              Put(m, i, v).fields[j] = IF j = i THEN v ELSE m.fields[j]
<1> DEFINE D == DOMAIN Schema[C]
           f == m.fields
           us == m.unknown
           g == [f EXCEPT ![i] = v]
           o == Put(m, i, v)
<1>1. f = [j \in D |-> f[j]] /\ m = [fields |-> f, unknown |-> us]
      /\ us \in Seq(Fields) /\ \A j \in D : IsVal(Schema[C][j], f[j])
  BY MsgIs, Zenon
<1>2. o = [fields |-> g, unknown |-> us]
  <2>1. o = [m EXCEPT !.fields = [@ EXCEPT ![i] = v]]
    BY DEF Put
  <2> HIDE DEF o
  <2>2. o = [m EXCEPT !.fields = g]
    BY <2>1
  <2> HIDE DEF g, f, us
  <2> QED BY <1>1, <2>2
<1>3. g = [j \in D |-> IF j = i THEN v ELSE f[j]]
  <2> HIDE DEF D, f
  <2> QED BY <1>1
<1>4. i \in D
  OBVIOUS
<1> HIDE DEF o, D, us
<1>5. o.fields = g /\ o.unknown = us
  <2> HIDE DEF g
  <2> QED BY <1>2
<1>6. \A j \in D : g[j] = IF j = i THEN v ELSE f[j]
  <2> HIDE DEF f
  <2> QED BY <1>3
<1>7. g = [j \in D |-> g[j]]
  <2> HIDE DEF f
  <2> QED BY <1>3
<1> HIDE DEF g
<1>8. \A j \in D : IsVal(Schema[C][j], g[j])
  BY <1>1, <1>6, Zenon
<1>9. IsMsg(C, o)
  BY <1>1, <1>2, <1>5, <1>7, <1>8, Zenon DEF IsMsg, D
<1> QED BY <1>5, <1>6, <1>9, Zenon DEF o, D, us

\* the cases of taking a field
LEMMA TakeIs ==
  ASSUME NEW C, NEW y, NEW u
  PROVE  /\ Take(C, Refused, u) = Refused
         /\ y # Refused /\ ~Knows(C, u) =>
              Take(C, y, u) = [y EXCEPT !.unknown = Append(@, u)]
         /\ y # Refused /\ Knows(C, u) /\ u.type = 2 /\ u.val \in NotUtf8 =>
              Take(C, y, u) = Refused
         /\ y # Refused /\ Knows(C, u) /\ ~(u.type = 2 /\ u.val \in NotUtf8) =>
              Take(C, y, u) = Put(y, u.num, u.val)
<1>1. Take(C, Refused, u) = Refused
  BY Zenon DEF Take
<1>2. y # Refused /\ ~Knows(C, u) => Take(C, y, u) = [y EXCEPT !.unknown = Append(@, u)]
  BY Zenon DEF Take
<1>3. y # Refused /\ Knows(C, u) /\ u.type = 2 /\ u.val \in NotUtf8 => Take(C, y, u) = Refused
  BY Zenon DEF Take
<1>4. y # Refused /\ Knows(C, u) /\ ~(u.type = 2 /\ u.val \in NotUtf8) =>
        Take(C, y, u) = Put(y, u.num, u.val)
  BY Zenon DEF Take, Put
<1> QED BY <1>1, <1>2, <1>3, <1>4

\* one of the first i fields of m is a string that is no UTF-8
Barred(C, m, i) ==
  \E j \in DOMAIN Schema[C] :
    j <= i /\ Schema[C][j] = "string" /\ m.fields[j] \in NotUtf8

\* what x has become after the first i fields of m
Own(C, x, m, i) == IF Barred(C, m, i) THEN Refused ELSE Over(C, x, m, i)

\* a string that is no UTF-8 is not empty: it is written
LEMMA BarredWritten ==
  ASSUME NEW C \in Class, NEW m, NEW j \in DOMAIN Schema[C], Schema[C][j] = "string",
         m.fields[j] \in NotUtf8
  PROVE  HasField(C, m, j)
<1>1. Default[Schema[C][j]] = <<>>
  BY DEF Default
<1>2. <<>> \notin NotUtf8
  BY WireAssumption
<1> QED BY <1>1, <1>2, Zenon DEF HasField

\* no fields change nothing
LEMMA OverNone ==
  ASSUME NEW C \in Class, NEW x, IsMsg(C, x), NEW m, IsMsg(C, m)
  PROVE  Own(C, x, m, 0) = x
<1>1. \A j \in DOMAIN Schema[C] : ~(j <= 0)
  BY SchemaIs
<1>2. ~Barred(C, m, 0)
  BY <1>1, Zenon DEF Barred
<1> DEFINE o == Over(C, x, m, 0)
<1>3. IsMsg(C, o) /\ o.unknown = x.unknown
      /\ \A j \in DOMAIN Schema[C] : o.fields[j] = x.fields[j]
  <2>1. IsMsg(C, o) /\ o.unknown = x.unknown
        /\ \A j \in DOMAIN Schema[C] :
             o.fields[j] = IF j <= 0 /\ HasField(C, m, j) THEN m.fields[j] ELSE x.fields[j]
    BY OverIs
  <2> HIDE DEF o
  <2> QED BY <1>1, <2>1, Zenon
<1> HIDE DEF o
<1>4. o = x
  BY <1>3, SameMsg
<1> QED BY <1>2, <1>4, Zenon DEF Own, o

\* one field more of its own class
LEMMA OwnNext ==
  ASSUME NEW C \in Class, NEW x, IsMsg(C, x), NEW m, IsMsg(C, m), NEW i \in DOMAIN Schema[C]
  PROVE  Received(C, Own(C, x, m, i - 1), C, m, i) = Own(C, x, m, i)
<1> DEFINE D == DOMAIN Schema[C]
           y == Over(C, x, m, i - 1)
           z == Over(C, x, m, i)
           u == FieldOf(C, m, i)
           v == m.fields[i]
<1>1. i \in 1..3 /\ \A j \in D : j \in 1..3
  BY SchemaIs
<1>2. /\ \A j \in D : j <= i <=> j <= i - 1 \/ j = i
      /\ ~(i <= i - 1)
  BY <1>1
<1>3. /\ IsMsg(C, y) /\ y.unknown = x.unknown
      /\ \A j \in D : y.fields[j] =
           IF j <= i - 1 /\ HasField(C, m, j) THEN m.fields[j] ELSE x.fields[j]
      /\ IsMsg(C, z) /\ z.unknown = x.unknown
      /\ \A j \in D : z.fields[j] =
           IF j <= i /\ HasField(C, m, j) THEN m.fields[j] ELSE x.fields[j]
  BY OverIs
<1>4. /\ IsField(u) /\ u.num = i /\ u.val = v /\ u.type = WireType[Schema[C][i]]
      /\ u.type = 2 <=> Schema[C][i] = "string"
  BY FieldOfIs
<1>5. Knows(C, u)
  BY <1>4, Zenon DEF Knows
<1>6. y # Refused
  BY <1>3, NotRefused
<1>7. IsVal(Schema[C][i], v)
  BY MsgIs, Zenon
<1>8. Received(C, Own(C, x, m, i - 1), C, m, i) =
        IF HasField(C, m, i) THEN Take(C, Own(C, x, m, i - 1), u) ELSE Own(C, x, m, i - 1)
  BY Zenon DEF Received
<1> DEFINE b == Barred(C, m, i - 1)
           c == Barred(C, m, i)
<1>9. Own(C, x, m, i - 1) = (IF b THEN Refused ELSE y)
      /\ Own(C, x, m, i) = (IF c THEN Refused ELSE z)
  BY Zenon DEF Own
<1>10. c <=> b \/ (Schema[C][i] = "string" /\ v \in NotUtf8)
  BY <1>2, Zenon DEF Barred
<1>11. Schema[C][i] = "string" /\ v \in NotUtf8 => HasField(C, m, i)
  BY BarredWritten
<1>12. /\ Take(C, Refused, u) = Refused
       /\ Schema[C][i] = "string" /\ v \in NotUtf8 => Take(C, y, u) = Refused
       /\ ~(Schema[C][i] = "string" /\ v \in NotUtf8) => Take(C, y, u) = Put(y, i, v)
  <2>1. Take(C, Refused, u) = Refused
    BY TakeIs
  <2> HIDE DEF y, u, v
  <2>2. u.type = 2 /\ u.val \in NotUtf8 => Take(C, y, u) = Refused
    BY <1>5, <1>6, TakeIs
  <2>3. ~(u.type = 2 /\ u.val \in NotUtf8) => Take(C, y, u) = Put(y, u.num, u.val)
    BY <1>5, <1>6, TakeIs
  <2> QED BY <1>4, <2>1, <2>2, <2>3, Zenon
<1> HIDE DEF y, z, u, v, b, c
<1>13. ASSUME HasField(C, m, i) PROVE Put(y, i, v) = z
  <2> DEFINE p == Put(y, i, v)
  <2>1. /\ IsMsg(C, p) /\ p.unknown = y.unknown
        /\ \A j \in DOMAIN Schema[C] : p.fields[j] = IF j = i THEN v ELSE y.fields[j]
    BY <1>3, <1>7, PutIs
  <2> HIDE DEF p
  <2>2. \A j \in D : p.fields[j] = z.fields[j]
    BY <1>2, <1>3, <1>13, <2>1, Zenon DEF v
  <2>3. p = z
    BY <1>3, <2>1, <2>2, SameMsg
  <2> QED BY <2>3 DEF p
<1>14. ASSUME ~HasField(C, m, i) PROVE y = z
  <2>1. \A j \in D : y.fields[j] = z.fields[j]
    BY <1>2, <1>3, <1>14, Zenon
  <2> QED BY <1>3, <2>1, SameMsg
<1> QED BY <1>8, <1>9, <1>10, <1>11, <1>12, <1>13, <1>14, Zenon

\* what a class reads of the first i fields it wrote
LEMMA OwnReads ==
  ASSUME NEW C \in Class, NEW x, IsMsg(C, x), NEW m, IsMsg(C, m)
  PROVE  \A i \in 0..Len(Schema[C]) : ReadsAs(C, x, KnownTo(C, m, i), Own(C, x, m, i))
<1> DEFINE n == Len(Schema[C])
           S == {i \in 0..n : ReadsAs(C, x, KnownTo(C, m, i), Own(C, x, m, i))}
<1>1. n \in Nat /\ DOMAIN Schema[C] = 1..n
  BY SchemaIs
<1> HIDE DEF n
<1>2. 0 \in S
  <2>1. KnownTo(C, m, 0) = <<>>
    BY KnownIs
  <2>2. Own(C, x, m, 0) = x
    BY OverNone
  <2>3. ReadsAs(C, x, <<>>, x)
    BY ReadsNone, Zenon
  <2>4. 0 \in 0..n
    BY <1>1
  <2> QED BY <2>1, <2>2, <2>3, <2>4, Zenon
<1>3. \A i \in 1..n : i - 1 \in S => i \in S
  <2> TAKE i \in 1..n
  <2> HAVE i - 1 \in S
  <2>1. i \in DOMAIN Schema[C] /\ i \in 0..n
    BY <1>1
  <2> DEFINE y == Own(C, x, m, i - 1)
             z == Own(C, x, m, i)
  <2>2. ReadsAs(C, x, KnownTo(C, m, i - 1), y)
    OBVIOUS
  <2>3. Received(C, y, C, m, i) = z
    BY <2>1, OwnNext
  <2> HIDE DEF y, z
  <2>4. ReadsAs(C, x, KnownTo(C, m, i), Received(C, y, C, m, i))
    BY <2>1, <2>2, ReadsKnown
  <2>5. ReadsAs(C, x, KnownTo(C, m, i), z)
    BY <2>3, <2>4
  <2> QED BY <2>1, <2>5 DEF z
<1> HIDE DEF S
<1>4. \A i \in 0..n : i \in S
  BY <1>1, <1>2, <1>3, InductionUpTo
<1> QED BY <1>4 DEF S, n

\* o is x with the fields and the unknown fields of m
MergeOf(C, x, m, o) ==
  /\ IsMsg(C, o) /\ o.unknown = x.unknown \o m.unknown
  /\ \A j \in DOMAIN Schema[C] :
       o.fields[j] = IF HasField(C, m, j) THEN m.fields[j] ELSE x.fields[j]

\* MergeImpl does so
LEMMA MergeIs ==
  ASSUME NEW C \in Class, NEW x, IsMsg(C, x), NEW m, IsMsg(C, m)
  PROVE  MergeOf(C, x, m, MergeImpl(C, x, m))
<1> DEFINE D == DOMAIN Schema[C]
           h(j) == IF m.fields[j] # Default[Schema[C][j]] THEN m.fields[j] ELSE x.fields[j]
           o == MergeImpl(C, x, m)
           us == x.unknown \o m.unknown
<1>1. o = [fields |-> [j \in D |-> h(j)], unknown |-> us]
  BY DEF MergeImpl
<1>2. \A j \in D : IsVal(Schema[C][j], x.fields[j]) /\ IsVal(Schema[C][j], m.fields[j])
  BY MsgIs, Zenon
<1>3. \A j \in D : IsVal(Schema[C][j], h(j))
  BY <1>2, Zenon
<1>4. us \in Seq(Fields)
  <2>1. x.unknown \in Seq(Fields) /\ m.unknown \in Seq(Fields)
    BY MsgIs, Zenon
  <2> QED BY <2>1, ConcatProperties
<1>5. \A j \in D : h(j) = IF HasField(C, m, j) THEN m.fields[j] ELSE x.fields[j]
  BY Zenon DEF HasField
<1> HIDE DEF o, h, D, us
<1>6. o.fields = [j \in D |-> h(j)] /\ o.unknown = us
  BY <1>1
<1>7. \A j \in D : o.fields[j] = h(j)
  BY <1>6
<1>8. o.fields = [j \in D |-> o.fields[j]]
  BY <1>6
<1>9. o = [fields |-> o.fields, unknown |-> o.unknown]
  BY <1>1, <1>6, Zenon
<1>10. \A j \in D : IsVal(Schema[C][j], o.fields[j])
  BY <1>3, <1>7, Zenon
<1>11. IsMsg(C, o)
  BY <1>4, <1>6, <1>8, <1>9, <1>10, Zenon DEF IsMsg, D
<1>12. MergeOf(C, x, m, o)
  BY <1>5, <1>6, <1>7, <1>11, Zenon DEF D, us, MergeOf
<1> QED BY <1>12 DEF o

\* a copy is the message
LEMMA CopyIs ==
  ASSUME NEW C \in Class, NEW m, IsMsg(C, m)
  PROVE  CopyFrom(C, m) = m
<1> DEFINE x == Clear(C)
           o == MergeImpl(C, x, m)
<1>1. IsMsg(C, x) /\ x.unknown = <<>>
      /\ \A j \in DOMAIN Schema[C] : x.fields[j] = Default[Schema[C][j]]
  BY ClearIs
<1> HIDE DEF x
<1>2. /\ IsMsg(C, o) /\ o.unknown = x.unknown \o m.unknown
      /\ \A j \in DOMAIN Schema[C] : o.fields[j] =
           IF HasField(C, m, j) THEN m.fields[j] ELSE x.fields[j]
  <2>1. MergeOf(C, x, m, o)
    BY <1>1, MergeIs
  <2> HIDE DEF o
  <2> QED BY <2>1, Zenon DEF MergeOf
<1> HIDE DEF o
<1>3. \A j \in DOMAIN Schema[C] : o.fields[j] = m.fields[j]
  BY <1>1, <1>2, Zenon DEF HasField
<1>4. o.unknown = m.unknown
  <2>1. m.unknown \in Seq(Fields)
    BY MsgIs, Zenon
  <2>2. <<>> \o m.unknown = m.unknown
    BY <2>1, ConcatEmptySeq
  <2> QED BY <1>1, <1>2, <2>2
<1>5. o = m
  BY <1>2, <1>3, <1>4, SameMsg
<1> QED BY <1>5, Zenon DEF o, x, CopyFrom

\* all the fields of a message without unknown ones
LEMMA OverWhole ==
  ASSUME NEW C \in Class, NEW x, IsMsg(C, x), NEW m, IsMsg(C, m), m.unknown = <<>>
  PROVE  /\ Over(C, x, m, Len(Schema[C])) = MergeImpl(C, x, m)
         /\ Over(C, Clear(C), m, Len(Schema[C])) = m
<1>1. \A j \in DOMAIN Schema[C] : j <= Len(Schema[C])
  BY SchemaIs
<1>2. ASSUME NEW y, IsMsg(C, y)
      PROVE  Over(C, y, m, Len(Schema[C])) = MergeImpl(C, y, m)
  <2> DEFINE o == Over(C, y, m, Len(Schema[C]))
             g == MergeImpl(C, y, m)
  <2>1. /\ IsMsg(C, o) /\ o.unknown = y.unknown
        /\ \A j \in DOMAIN Schema[C] : o.fields[j] =
             IF j <= Len(Schema[C]) /\ HasField(C, m, j) THEN m.fields[j] ELSE y.fields[j]
    BY <1>2, OverIs
  <2>2. /\ IsMsg(C, g) /\ g.unknown = y.unknown \o m.unknown
        /\ \A j \in DOMAIN Schema[C] : g.fields[j] =
             IF HasField(C, m, j) THEN m.fields[j] ELSE y.fields[j]
    <3>1. MergeOf(C, y, m, g)
      BY <1>2, MergeIs
    <3> HIDE DEF g, o
    <3> QED BY <3>1, Zenon DEF MergeOf
  <2>3. y.unknown \o m.unknown = y.unknown
    <3>1. y.unknown \in Seq(Fields)
      BY <1>2, MsgIs, Zenon
    <3> QED BY <3>1, ConcatEmptySeq
  <2> HIDE DEF o, g
  <2>4. \A j \in DOMAIN Schema[C] : o.fields[j] = g.fields[j]
    BY <1>1, <2>1, <2>2, Zenon
  <2>5. o = g
    BY <2>1, <2>2, <2>3, <2>4, SameMsg
  <2> QED BY <2>5 DEF o, g
<1>3. Over(C, Clear(C), m, Len(Schema[C])) = MergeImpl(C, Clear(C), m)
  BY <1>2, ClearIs
<1>4. MergeImpl(C, Clear(C), m) = m
  BY CopyIs, Zenon DEF CopyFrom
<1> QED BY <1>2, <1>3, <1>4

\* without unknown fields the known ones are all there is
LEMMA WrittenKnown ==
  ASSUME NEW C \in Class, NEW m, IsMsg(C, m), m.unknown = <<>>
  PROVE  InternalSerialize(C, m) = KnownTo(C, m, Len(Schema[C]))
<1> DEFINE k == KnownTo(C, m, Len(Schema[C]))
<1>1. InternalSerialize(C, m) = k \o UnknownBytes(m.unknown)
  BY WrittenIs
<1>2. UnknownBytes(m.unknown) = <<>>
  BY UnknownNone
<1>3. k \in Seq(Octets)
  <2>1. Len(Schema[C]) \in 0..Len(Schema[C])
    BY SchemaIs
  <2> QED BY <2>1, KnownSeq
<1> HIDE DEF k
<1>4. k \o <<>> = k
  BY <1>3, ConcatEmptySeq
<1> QED BY <1>1, <1>2, <1>4 DEF k

\* A class reads back what it wrote, and merges it into what it has.
LEMMA OwnRead ==
  ASSUME NEW C \in Class, NEW x, IsMsg(C, x), NEW m, IsMsg(C, m), m.unknown = <<>>
  PROVE  /\ ReadsAs(C, x, InternalSerialize(C, m),
                    IF Barred(C, m, Len(Schema[C])) THEN Refused ELSE MergeImpl(C, x, m))
         /\ Parse(C, InternalSerialize(C, m)) =
              IF Barred(C, m, Len(Schema[C])) THEN Refused ELSE m
<1> DEFINE n == Len(Schema[C])
           b == KnownTo(C, m, n)
           w == InternalSerialize(C, m)
<1>1. n \in 0..n /\ w = b /\ b \in Seq(Octets)
  <2>1. n \in 0..n
    BY SchemaIs
  <2>2. b \in Seq(Octets)
    BY <2>1, KnownSeq
  <2>3. w = b
    BY WrittenKnown
  <2> QED BY <2>1, <2>2, <2>3
<1>2. ReadsAs(C, x, b, Own(C, x, m, n))
  BY <1>1, OwnReads
<1>3. ReadsAs(C, Clear(C), b, Own(C, Clear(C), m, n))
  BY <1>1, ClearIs, OwnReads
<1>4. Over(C, x, m, n) = MergeImpl(C, x, m) /\ Over(C, Clear(C), m, n) = m
  BY OverWhole
<1>5. Own(C, x, m, n) = IF Barred(C, m, n) THEN Refused ELSE MergeImpl(C, x, m)
  BY <1>4, Zenon DEF Own
<1>6. Own(C, Clear(C), m, n) = IF Barred(C, m, n) THEN Refused ELSE m
  BY <1>4, Zenon DEF Own
<1> HIDE DEF b, n, w
<1>7. InternalParse(C, Clear(C), b) = Own(C, Clear(C), m, n)
  BY <1>1, <1>3, ReadsDone
<1>8. Parse(C, b) = InternalParse(C, Clear(C), b)
  BY Zenon DEF Parse
<1> QED BY <1>1, <1>2, <1>5, <1>6, <1>7, <1>8, Zenon DEF n, w

-----------------------------------------------------------------------------
(* A message cut short.                                                    *)

\* what is left of m is refused, or m without its last fields
CutReads(C, m, b) ==
  Parse(C, b) = Refused \/ \E i \in 0..Len(Schema[C]) : Parse(C, b) = Over(C, Clear(C), m, i)

\* wherever the bytes are cut, whole fields are read and a part of one is refused
LEMMA CutIs ==
  ASSUME NEW C \in Class, NEW m, IsMsg(C, m), ~Barred(C, m, Len(Schema[C]))
  PROVE  \A i \in 0..Len(Schema[C]) : \A k \in 0..Len(KnownTo(C, m, i)) :
           CutReads(C, m, SubSeq(KnownTo(C, m, i), 1, k))
<1> DEFINE n == Len(Schema[C])
           b(i) == KnownTo(C, m, i)
           x == Clear(C)
           S == {i \in 0..n : \A k \in 0..Len(b(i)) : CutReads(C, m, SubSeq(b(i), 1, k))}
<1>1. n \in Nat /\ DOMAIN Schema[C] = 1..n
  BY SchemaIs
<1>2. \A i \in 0..n : b(i) \in Seq(Octets)
  BY KnownSeq
<1>3. \A i \in 0..n : ReadsAs(C, x, b(i), Over(C, x, m, i))
  <2>1. \A i \in 0..n : ~Barred(C, m, i)
    <3>1. \A j \in DOMAIN Schema[C] : j <= n
      BY <1>1
    <3> QED BY <3>1, Zenon DEF Barred
  <2>2. \A i \in 0..n : ReadsAs(C, x, b(i), Own(C, x, m, i))
    BY ClearIs, OwnReads
  <2> HIDE DEF x, b, n
  <2> QED BY <2>1, <2>2, Zenon DEF Own
<1>4. \A i \in 0..n : Parse(C, b(i)) = Over(C, x, m, i)
  <2> TAKE i \in 0..n
  <2>1. InternalParse(C, x, b(i)) = Over(C, x, m, i)
    <3> DEFINE c == b(i)
               y == Over(C, x, m, i)
    <3>1. c \in Seq(Octets) /\ ReadsAs(C, x, c, y)
      BY <1>2, <1>3
    <3> HIDE DEF c, y, x
    <3>2. InternalParse(C, x, c) = y
      BY <3>1, ReadsDone
    <3> QED BY <3>2 DEF c, y
  <2> QED BY <2>1, Zenon DEF Parse
<1>5. \A i \in 0..n : CutReads(C, m, b(i))
  BY <1>4, Zenon DEF CutReads
<1>6. b(0) = <<>>
  BY KnownIs
<1>7. \A i \in 1..n : b(i) = b(i - 1) \o Piece(C, m, i)
  BY <1>1, KnownIs
<1> HIDE DEF b, n, x
<1>8. 0 \in S
  <2>1. 0 \in 0..n
    BY <1>1
  <2>2. ASSUME NEW k \in 0..Len(b(0)) PROVE CutReads(C, m, SubSeq(b(0), 1, k))
    <3>1. Len(b(0)) = 0 /\ k = Len(b(0))
      BY <1>6
    <3>2. SubSeq(b(0), 1, k) = b(0)
      BY <1>2, <2>1, <3>1, SubSeqFull
    <3> QED BY <1>5, <2>1, <3>2
  <2> QED BY <2>1, <2>2
<1>9. \A i \in 1..n : i - 1 \in S => i \in S
  <2> TAKE i \in 1..n
  <2> HAVE i - 1 \in S
  <2>1. i \in 0..n /\ i - 1 \in 0..n /\ i \in DOMAIN Schema[C]
    BY <1>1
  <2> DEFINE c == b(i - 1)
             u == FieldOf(C, m, i)
             f == FieldBytes(u)
  <2>2. c \in Seq(Octets) /\ b(i) \in Seq(Octets) /\ b(i) = c \o Piece(C, m, i)
    BY <1>2, <1>7, <2>1
  <2>3. \A k \in 0..Len(c) : CutReads(C, m, SubSeq(c, 1, k))
    OBVIOUS
  <2>4. IsField(u)
    BY <2>1, FieldOfIs
  <2>5. f \in Seq(Octets)
    BY <2>4, FieldBytesAre
  <2>6. ReadsAs(C, x, c, Over(C, x, m, i - 1))
    BY <1>3, <2>1
  <2> HIDE DEF c
  <2>7. ASSUME NEW k \in 0..Len(b(i)) PROVE CutReads(C, m, SubSeq(b(i), 1, k))
    <3>1. CASE k = Len(b(i))
      <4>1. SubSeq(b(i), 1, k) = b(i)
        BY <2>2, <3>1, SubSeqFull
      <4> QED BY <1>5, <2>1, <4>1
    <3>2. CASE k # Len(b(i)) /\ ~HasField(C, m, i)
      <4>1. b(i) = c
        <5>1. c \o <<>> = c
          BY <2>2, ConcatEmptySeq
        <5> QED BY <2>2, <3>2, <5>1, Zenon DEF Piece
      <4> QED BY <2>3, <4>1
    <3>3. CASE k # Len(b(i)) /\ HasField(C, m, i)
      <4>1. b(i) = c \o f
        BY <2>2, <3>3, Zenon DEF Piece
      <4> HIDE DEF f, u
      <4>2. Len(b(i)) = Len(c) + Len(f)
        BY <2>2, <2>5, <4>1, ConcatProperties
      <4>3. Len(c) \in Nat /\ Len(f) \in Nat
        BY <2>2, <2>5, LenProperties
      <4>4. CASE k <= Len(c)
        <5>1. k \in 0..Len(c)
          BY <4>3, <4>4
        <5>2. SubSeq(c \o f, 1, k) = SubSeq(c, 1, k)
          BY <2>2, <2>5, <5>1, CutInFirst
        <5> QED BY <2>3, <4>1, <5>1, <5>2
      <4>5. CASE k > Len(c)
        <5> DEFINE j == k - Len(c)
        <5>1. j \in 0..Len(f) /\ j \in 1..(Len(f) - 1) /\ Len(c) + j = k
          BY <3>3, <4>2, <4>3, <4>5
        <5> HIDE DEF j
        <5>2. SubSeq(c \o f, 1, Len(c) + j) = c \o SubSeq(f, 1, j)
          BY <2>2, <2>5, <5>1, CutInSecond
        <5>3. InternalParse(C, x, c \o SubSeq(f, 1, j)) = Refused
          BY <2>2, <2>4, <2>6, <5>1, ReadsCut DEF f
        <5>4. Parse(C, SubSeq(b(i), 1, k)) = Refused
          BY <4>1, <5>1, <5>2, <5>3, Zenon DEF Parse, x
        <5> QED BY <5>4, Zenon DEF CutReads
      <4> QED BY <4>3, <4>4, <4>5
    <3> QED BY <3>1, <3>2, <3>3
  <2> QED BY <2>1, <2>7
<1> HIDE DEF S
<1>10. \A i \in 0..n : i \in S
  BY <1>1, <1>8, <1>9, InductionUpTo
<1> QED BY <1>10 DEF S, n, b

-----------------------------------------------------------------------------
(* A peer that takes the message for one of another class.                 *)

Agree(C, K, j) == j \in DOMAIN Schema[C] /\ Schema[C][j] = Schema[K][j]

\* Two classes with a field of the same number and type have those before
\* it in common, too.
LEMMA SchemasNest ==
  ASSUME NEW C \in Class, NEW K \in Class, NEW i \in DOMAIN Schema[K], Agree(C, K, i)
  PROVE  \A j \in DOMAIN Schema[K] : j <= i => Agree(C, K, j)
<1> DEFINE s == Schema[C]
           t == Schema[K]
<1>1. /\ s \in {<<"string">>, <<"int32">>, <<"string", "string", "int32">>}
      /\ t \in {<<"string">>, <<"int32">>, <<"string", "string", "int32">>}
  BY SchemaIs
<1>2. i \in DOMAIN t /\ i \in DOMAIN s /\ s[i] = t[i]
  BY Zenon DEF Agree
<1> HIDE DEF s, t
<1>3. ASSUME NEW j \in DOMAIN t, j <= i PROVE j \in DOMAIN s /\ s[j] = t[j]
  <2>1. CASE s = t
    BY <1>3, <2>1
  <2>2. CASE s = <<"int32">> /\ t # s
    BY <1>1, <1>2, <1>3, <2>2
  <2>3. CASE t = <<"int32">> /\ t # s
    BY <1>1, <1>2, <1>3, <2>3
  <2>4. CASE s = <<"string">> /\ t = <<"string", "string", "int32">>
    BY <1>2, <1>3, <2>4
  <2>5. CASE t = <<"string">> /\ s = <<"string", "string", "int32">>
    BY <1>2, <1>3, <2>5
  <2> QED BY <1>1, <2>1, <2>2, <2>3, <2>4, <2>5
<1> QED BY <1>3, Zenon DEF Agree, s, t

\* a class knows another's field when they agree about its type
LEMMA KnowsIs ==
  ASSUME NEW C \in Class, NEW K \in Class, NEW m, IsMsg(K, m), NEW i \in DOMAIN Schema[K]
  PROVE  Knows(C, FieldOf(K, m, i)) <=> Agree(C, K, i)
<1> DEFINE u == FieldOf(K, m, i)
           s == Schema[C]
           t == Schema[K]
<1>1. u.num = i /\ u.type = WireType[t[i]]
  BY FieldOfIs
<1>2. t[i] \in {"string", "int32"} /\ \A j \in DOMAIN s : s[j] \in {"string", "int32"}
  BY SchemaIs
<1>3. Knows(C, u) <=> i \in DOMAIN s /\ WireType[t[i]] = WireType[s[i]]
  BY <1>1, Zenon DEF Knows
<1>4. WireType["string"] = 2 /\ WireType["int32"] = 0
  BY DEF WireType
<1> HIDE DEF u, s, t
<1>5. ASSUME i \in DOMAIN s PROVE WireType[t[i]] = WireType[s[i]] <=> s[i] = t[i]
  <2>1. s[i] \in {"string", "int32"}
    BY <1>2, <1>5
  <2> QED BY <1>2, <1>4, <2>1
<1>6. Agree(C, K, i) <=> i \in DOMAIN s /\ s[i] = t[i]
  BY Zenon DEF Agree, s, t
<1> QED BY <1>3, <1>5, <1>6 DEF u

\* messages alike in their first fields are written alike
LEMMA KnownSame ==
  ASSUME NEW C \in Class, NEW x, NEW y, NEW i \in 0..Len(Schema[C]),
         \A j \in DOMAIN Schema[C] : j <= i => x.fields[j] = y.fields[j]
  PROVE  KnownTo(C, x, i) = KnownTo(C, y, i)
<1> DEFINE n == Len(Schema[C])
           p == PiecesOf(C, x)
           q == PiecesOf(C, y)
<1>1. n \in Nat /\ DOMAIN Schema[C] = 1..n
  BY SchemaIs
<1>2. \A j \in 1..n : p[j] = Piece(C, x, j) /\ q[j] = Piece(C, y, j)
  BY DEF PiecesOf
<1> HIDE DEF p, q
<1>3. i \in Nat /\ \A j \in 1..i : j \in 1..n /\ j <= i
  BY <1>1
<1> HIDE DEF n
<1>4. \A j \in 1..i : x.fields[j] = y.fields[j]
  BY <1>1, <1>3
<1>5. \A j \in 1..i : Piece(C, x, j) = Piece(C, y, j)
  BY <1>4, Zenon DEF Piece, HasField, FieldOf
<1>6. \A j \in 1..i : p[j] = q[j]
  BY <1>2, <1>3, <1>5, Zenon
<1> DEFINE f == CHOOSE h : CatOut(h, p, i)
<1>7. CatOut(f, p, i)
  BY <1>3, CatExists, Zenon
<1> HIDE DEF f
<1>8. f[i] = Cat(q, i)
  BY <1>3, <1>6, <1>7, CatSame
<1>9. f[i] = Cat(p, i)
  BY <1>3, <1>7, CatSame
<1> QED BY <1>8, <1>9 DEF KnownTo, p, q

\* fields that have their default add nothing
LEMMA KnownTail ==
  ASSUME NEW C \in Class, NEW m, IsMsg(C, m), NEW i \in Nat,
         \A j \in DOMAIN Schema[C] : j > i => ~HasField(C, m, j)
  PROVE  \A k \in 0..Len(Schema[C]) :
           k > i => KnownTo(C, m, k) = KnownTo(C, m, i)
<1> DEFINE n == Len(Schema[C])
           S == {k \in 0..n : k > i => KnownTo(C, m, k) = KnownTo(C, m, i)}
<1>1. n \in Nat /\ DOMAIN Schema[C] = 1..n
  BY SchemaIs
<1>2. \A k \in 0..n : KnownTo(C, m, k) \in Seq(Octets)
  BY KnownSeq
<1>3. \A k \in 1..n : KnownTo(C, m, k) = KnownTo(C, m, k - 1) \o Piece(C, m, k)
  BY <1>1, KnownIs
<1> HIDE DEF n
<1>4. 0 \in S
  BY <1>1
<1>5. \A k \in 1..n : k - 1 \in S => k \in S
  <2> TAKE k \in 1..n
  <2> HAVE k - 1 \in S
  <2>1. k \in 0..n /\ k - 1 \in 0..n /\ k \in DOMAIN Schema[C]
    BY <1>1
  <2>2. ASSUME k > i PROVE KnownTo(C, m, k) = KnownTo(C, m, i)
    <3>1. KnownTo(C, m, k - 1) = KnownTo(C, m, i)
      <4>1. CASE k - 1 > i
        BY <4>1
      <4>2. CASE k - 1 = i
        BY <4>2
      <4> QED BY <1>1, <2>2, <4>1, <4>2
    <3>2. ~HasField(C, m, k)
      BY <2>1, <2>2
    <3>3. Piece(C, m, k) = <<>>
      BY <3>2, Zenon DEF Piece
    <3>4. KnownTo(C, m, k - 1) \o <<>> = KnownTo(C, m, k - 1)
      <4>1. KnownTo(C, m, k - 1) \in Seq(Octets)
        BY <1>2, <2>1
      <4> QED BY <4>1, ConcatEmptySeq
    <3> QED BY <1>3, <3>1, <3>3, <3>4, Zenon
  <2> QED BY <2>1, <2>2
<1> HIDE DEF S
<1>6. \A k \in 0..n : k \in S
  BY <1>1, <1>4, <1>5, InductionUpTo
<1> QED BY <1>6 DEF S, n

\* a message with one unknown field more
Add(m, u) == [m EXCEPT !.unknown = Append(@, u)]

\* an unknown field changes no known one
LEMMA AddIs ==
  ASSUME NEW C \in Class, NEW m, IsMsg(C, m), NEW u, IsField(u)
  PROVE  /\ IsMsg(C, Add(m, u)) /\ Add(m, u).fields = m.fields
         /\ Add(m, u).unknown = Append(m.unknown, u)
<1> DEFINE f == m.fields
           us == m.unknown
           vs == Append(us, u)
           o == Add(m, u)
<1>1. us \in Seq(Fields) /\ m = [fields |-> f, unknown |-> us]
      /\ f = [i \in DOMAIN Schema[C] |-> f[i]]
      /\ \A i \in DOMAIN Schema[C] : IsVal(Schema[C][i], f[i])
  BY MsgIs, Zenon
<1>2. vs \in Seq(Fields)
  <2>1. u \in Fields
    BY FieldsAre, Zenon
  <2> HIDE DEF us
  <2> QED BY <1>1, <2>1, AppendProperties
<1>3. o = [fields |-> f, unknown |-> vs]
  <2>1. o = [m EXCEPT !.unknown = vs]
    BY DEF Add
  <2> HIDE DEF o, vs, f, us
  <2> QED BY <1>1, <2>1
<1> HIDE DEF o, vs, f, us
<1>4. o.fields = f /\ o.unknown = vs
  BY <1>3
<1>5. IsMsg(C, o)
  BY <1>1, <1>2, <1>3, <1>4, Zenon DEF IsMsg
<1> QED BY <1>4, <1>5 DEF o, vs, us, f

\* After the first i fields of m, a message of class K, its peer of class C
\* has refused, or writes the same bytes again; he has kept fields as unknown
\* ones only when he disagrees with K about one of them.
Writes(C, K, m, i, y) ==
  /\ IsMsg(C, y) /\ InternalSerialize(C, y) = KnownTo(K, m, i)
  /\ \A j \in DOMAIN Schema[C] : j > i => ~HasField(C, y, j)
  /\ y.unknown = <<>> \/ \E j \in DOMAIN Schema[K] : j <= i /\ ~Agree(C, K, j)
Carries(C, K, m, i, y) == y = Refused \/ Writes(C, K, m, i, y)

\* a field both know is set, and written in its place
LEMMA WritesKnown ==
  ASSUME NEW C \in Class, NEW K \in Class, NEW m, IsMsg(K, m), NEW i \in DOMAIN Schema[K],
         NEW y, Writes(C, K, m, i - 1, y), HasField(K, m, i), Agree(C, K, i)
  PROVE  Writes(C, K, m, i, Put(y, i, m.fields[i]))
<1> DEFINE n == Len(Schema[C])
           u == FieldOf(K, m, i)
           v == m.fields[i]
           z == Put(y, i, v)
           D == DOMAIN Schema[C]
<1>1. n \in Nat /\ D = 1..n /\ i \in 1..3
  BY SchemaIs
<1>2. i \in D /\ Schema[C][i] = Schema[K][i]
  BY Zenon DEF Agree
<1>3. /\ IsMsg(C, y) /\ InternalSerialize(C, y) = KnownTo(K, m, i - 1)
      /\ \A j \in D : j > i - 1 => ~HasField(C, y, j)
      /\ y.unknown = <<>> \/ \E j \in DOMAIN Schema[K] : j <= i - 1 /\ ~Agree(C, K, j)
  BY Zenon DEF Writes
<1>4. y.unknown = <<>>
  <2>1. \A j \in DOMAIN Schema[K] : j <= i => Agree(C, K, j)
    BY SchemasNest
  <2>2. \A j \in DOMAIN Schema[K] : j <= i - 1 => j <= i
    BY <1>1, SchemaIs
  <2> QED BY <1>3, <2>1, <2>2, Zenon
<1>5. /\ IsMsg(C, z) /\ z.unknown = <<>>
      /\ \A j \in D : z.fields[j] = IF j = i THEN v ELSE y.fields[j]
  <2>1. IsVal(Schema[C][i], v)
    BY <1>2, MsgIs, Zenon
  <2> HIDE DEF v
  <2>2. /\ IsMsg(C, z) /\ z.unknown = y.unknown
        /\ \A j \in D : z.fields[j] = IF j = i THEN v ELSE y.fields[j]
    BY <1>2, <1>3, <2>1, PutIs
  <2> QED BY <1>4, <2>2
<1>6. v # Default[Schema[K][i]]
  BY Zenon DEF HasField
<1> HIDE DEF z
<1>7. z.fields[i] = v
  BY <1>2, <1>5, Zenon
<1>8. HasField(C, z, i) /\ FieldOf(C, z, i) = u
  BY <1>2, <1>6, <1>7, Zenon DEF HasField, FieldOf
<1> HIDE DEF n, D, v, u
<1>9. \A j \in D : j > i => ~HasField(C, z, j)
  <2>1. \A j \in D : j > i => j # i /\ j > i - 1
    BY <1>1
  <2>2. \A j \in D : j > i => z.fields[j] = y.fields[j]
    BY <1>5, <2>1, Zenon
  <2> QED BY <1>3, <2>1, <2>2, Zenon DEF HasField
<1>10. KnownTo(C, z, i - 1) = KnownTo(C, y, i - 1)
  <2>1. i - 1 \in 0..n /\ \A j \in D : j <= i - 1 => j # i
    BY <1>1, <1>2
  <2>2. \A j \in D : j <= i - 1 => z.fields[j] = y.fields[j]
    BY <1>5, <2>1, Zenon
  <2> QED BY <2>1, <2>2, KnownSame DEF n, D
<1>11. InternalSerialize(C, y) = KnownTo(C, y, i - 1)
  <2>1. n \in 0..n /\ n > i - 1 /\ i - 1 \in Nat
    BY <1>1, <1>2
  <2>2. \A k \in 0..n : k > i - 1 => KnownTo(C, y, k) = KnownTo(C, y, i - 1)
    BY <1>3, <2>1, KnownTail DEF n, D
  <2>3. InternalSerialize(C, y) = KnownTo(C, y, n)
    BY <1>3, <1>4, WrittenKnown DEF n
  <2> QED BY <2>1, <2>2, <2>3
<1>12. InternalSerialize(C, z) = KnownTo(C, z, i)
  <2>1. n \in 0..n /\ (n > i \/ n = i) /\ i \in Nat
    BY <1>1, <1>2
  <2>2. \A k \in 0..n : k > i => KnownTo(C, z, k) = KnownTo(C, z, i)
    BY <1>5, <1>9, <2>1, KnownTail DEF n, D
  <2>3. InternalSerialize(C, z) = KnownTo(C, z, n)
    BY <1>5, WrittenKnown DEF n
  <2> QED BY <2>1, <2>2, <2>3
<1>13. KnownTo(C, z, i) = KnownTo(C, z, i - 1) \o FieldBytes(u)
  <2>1. KnownTo(C, z, i) = KnownTo(C, z, i - 1) \o Piece(C, z, i)
    BY <1>2, KnownIs DEF D
  <2>2. Piece(C, z, i) = FieldBytes(u)
    BY <1>8, Zenon DEF Piece
  <2> QED BY <2>1, <2>2
<1>14. KnownTo(K, m, i) = KnownTo(K, m, i - 1) \o FieldBytes(u)
  <2>1. KnownTo(K, m, i) = KnownTo(K, m, i - 1) \o Piece(K, m, i)
    BY KnownIs
  <2>2. Piece(K, m, i) = FieldBytes(u)
    BY Zenon DEF Piece, u
  <2> QED BY <2>1, <2>2
<1>15. InternalSerialize(C, z) = KnownTo(K, m, i)
  BY <1>3, <1>10, <1>11, <1>12, <1>13, <1>14
<1>16. Writes(C, K, m, i, z)
  BY <1>5, <1>9, <1>15, Zenon DEF Writes, D
<1> QED BY <1>16 DEF z, v

\* a field he does not know is kept, and written behind the others
LEMMA WritesUnknown ==
  ASSUME NEW C \in Class, NEW K \in Class, NEW m, IsMsg(K, m), NEW i \in DOMAIN Schema[K],
         NEW y, Writes(C, K, m, i - 1, y), HasField(K, m, i), ~Agree(C, K, i)
  PROVE  Writes(C, K, m, i, Add(y, FieldOf(K, m, i)))
<1> DEFINE n == Len(Schema[C])
           u == FieldOf(K, m, i)
           z == Add(y, u)
           D == DOMAIN Schema[C]
           f == FieldBytes(u)
<1>1. n \in Nat /\ D = 1..n /\ i \in 1..3 /\ n \in 0..n /\ i <= i
  BY SchemaIs
<1>2. /\ IsMsg(C, y) /\ InternalSerialize(C, y) = KnownTo(K, m, i - 1)
      /\ \A j \in D : j > i - 1 => ~HasField(C, y, j)
  BY Zenon DEF Writes
<1>3. IsField(u)
  BY FieldOfIs
<1>4. IsMsg(C, z) /\ z.fields = y.fields /\ z.unknown = Append(y.unknown, u)
  BY <1>2, <1>3, AddIs
<1> HIDE DEF z, u, f
<1>5. \A j \in D : j > i => ~HasField(C, z, j)
  <2>1. \A j \in D : j > i => j > i - 1
    BY <1>1
  <2> QED BY <1>2, <1>4, <2>1, Zenon DEF HasField
<1> DEFINE k == KnownTo(C, y, n)
           w == UnknownBytes(y.unknown)
<1>6. k \in Seq(Octets) /\ w \in Seq(Octets) /\ f \in Seq(Octets)
  <2>1. k \in Seq(Octets)
    BY <1>1, <1>2, KnownSeq
  <2>2. y.unknown \in Seq(Fields)
    BY <1>2, MsgIs, Zenon
  <2>3. w \in Seq(Octets)
    BY <2>2, UnknownIs
  <2>4. f \in Seq(Octets)
    BY <1>3, FieldBytesAre DEF f
  <2> QED BY <2>1, <2>3, <2>4
<1>7. KnownTo(C, z, n) = k
  <2>1. \A j \in D : j <= n => z.fields[j] = y.fields[j]
    BY <1>4
  <2> QED BY <1>1, <2>1, KnownSame
<1>8. UnknownBytes(z.unknown) = w \o f
  <2>1. y.unknown \in Seq(Fields) /\ u \in Fields
    BY <1>2, <1>3, MsgIs, FieldsAre, Zenon
  <2>2. UnknownBytes(Append(y.unknown, u)) = w \o f
    BY <2>1, UnknownMore DEF f
  <2> QED BY <1>4, <2>2
<1>9. InternalSerialize(C, y) = k \o w
  BY <1>2, WrittenIs
<1>10. InternalSerialize(C, z) = k \o (w \o f)
  <2>1. InternalSerialize(C, z) = KnownTo(C, z, n) \o UnknownBytes(z.unknown)
    BY <1>4, WrittenIs
  <2> QED BY <1>7, <1>8, <2>1, Zenon
<1> HIDE DEF k, w
<1>11. (k \o w) \o f = k \o (w \o f)
  BY <1>6, ConcatAssociative
<1>12. KnownTo(K, m, i) = KnownTo(K, m, i - 1) \o f
  <2>1. KnownTo(K, m, i) = KnownTo(K, m, i - 1) \o Piece(K, m, i)
    BY KnownIs
  <2>2. Piece(K, m, i) = f
    BY Zenon DEF Piece, f, u
  <2> QED BY <2>1, <2>2
<1>13. InternalSerialize(C, z) = KnownTo(K, m, i)
  BY <1>2, <1>9, <1>10, <1>11, <1>12, Zenon
<1>14. Writes(C, K, m, i, z)
  BY <1>1, <1>4, <1>5, <1>13, Zenon DEF Writes
<1> QED BY <1>14 DEF z, u

\* one field more
LEMMA CarriesNext ==
  ASSUME NEW C \in Class, NEW K \in Class, NEW m, IsMsg(K, m), NEW i \in DOMAIN Schema[K],
         NEW y, Carries(C, K, m, i - 1, y)
  PROVE  Carries(C, K, m, i, Received(C, y, K, m, i))
<1> DEFINE u == FieldOf(K, m, i)
           z == Received(C, y, K, m, i)
<1>1. z = IF HasField(K, m, i) THEN Take(C, y, u) ELSE y
  BY Zenon DEF Received
<1>2. Take(C, Refused, u) = Refused
  BY TakeIs
<1>3. u.num = i /\ u.val = m.fields[i]
  BY FieldOfIs
<1>4. Knows(C, u) <=> Agree(C, K, i)
  BY KnowsIs
<1> HIDE DEF z
<1>5. CASE y = Refused
  <2>1. z = Refused
    BY <1>1, <1>2, <1>5, Zenon
  <2> QED BY <2>1, Zenon DEF Carries, z
<1>6. CASE y # Refused
  <2>1. Writes(C, K, m, i - 1, y)
    BY <1>6, Zenon DEF Carries
  <2>2. ASSUME ~HasField(K, m, i) PROVE Writes(C, K, m, i, y)
    <3>1. KnownTo(K, m, i) = KnownTo(K, m, i - 1) \o <<>>
      <4>1. KnownTo(K, m, i) = KnownTo(K, m, i - 1) \o Piece(K, m, i)
        BY KnownIs
      <4>2. Piece(K, m, i) = <<>>
        BY <2>2, Zenon DEF Piece
      <4> QED BY <4>1, <4>2
    <3>2. KnownTo(K, m, i - 1) \o <<>> = KnownTo(K, m, i - 1)
      <4>1. i - 1 \in 0..Len(Schema[K])
        BY SchemaIs
      <4>2. KnownTo(K, m, i - 1) \in Seq(Octets)
        BY <4>1, KnownSeq
      <4> QED BY <4>2, ConcatEmptySeq
    <3>3. /\ \A j \in DOMAIN Schema[C] : j > i => j > i - 1
          /\ \A j \in DOMAIN Schema[K] : j <= i - 1 => j <= i
      BY SchemaIs
    <3>4. /\ IsMsg(C, y) /\ InternalSerialize(C, y) = KnownTo(K, m, i - 1)
          /\ \A j \in DOMAIN Schema[C] : j > i - 1 => ~HasField(C, y, j)
          /\ y.unknown = <<>> \/ \E j \in DOMAIN Schema[K] : j <= i - 1 /\ ~Agree(C, K, j)
      BY <2>1, Zenon DEF Writes
    <3>5. InternalSerialize(C, y) = KnownTo(K, m, i)
      BY <3>1, <3>2, <3>4, Zenon
    <3>6. /\ \A j \in DOMAIN Schema[C] : j > i => ~HasField(C, y, j)
          /\ y.unknown = <<>> \/ \E j \in DOMAIN Schema[K] : j <= i /\ ~Agree(C, K, j)
      BY <3>3, <3>4, Zenon
    <3> QED BY <3>4, <3>5, <3>6, Zenon DEF Writes
  <2>3. ASSUME HasField(K, m, i), Agree(C, K, i)
        PROVE  Writes(C, K, m, i, Put(y, i, m.fields[i]))
    BY <2>1, <2>3, WritesKnown
  <2>4. ASSUME HasField(K, m, i), ~Agree(C, K, i)
        PROVE  Writes(C, K, m, i, Add(y, u))
    BY <2>1, <2>4, WritesUnknown
  <2>5. Agree(C, K, i) => Take(C, y, u) = Refused \/ Take(C, y, u) = Put(y, i, m.fields[i])
    <3> HIDE DEF u
    <3>1. /\ y # Refused /\ Knows(C, u) /\ u.type = 2 /\ u.val \in NotUtf8 =>
               Take(C, y, u) = Refused
          /\ y # Refused /\ Knows(C, u) /\ ~(u.type = 2 /\ u.val \in NotUtf8) =>
               Take(C, y, u) = Put(y, u.num, u.val)
      BY TakeIs
    <3> QED BY <1>3, <1>4, <1>6, <3>1, Zenon
  <2>6. ~Agree(C, K, i) => Take(C, y, u) = Add(y, u)
    <3> HIDE DEF u
    <3>1. y # Refused /\ ~Knows(C, u) =>
            Take(C, y, u) = [y EXCEPT !.unknown = Append(@, u)]
      BY TakeIs
    <3> QED BY <1>4, <1>6, <3>1, Zenon DEF Add
  <2> HIDE DEF u
  <2>7. Carries(C, K, m, i, z)
    BY <1>1, <2>2, <2>3, <2>4, <2>5, <2>6, Zenon DEF Carries
  <2> QED BY <2>7 DEF z
<1> QED BY <1>5, <1>6

\* the peer after any number of fields
LEMMA PeerReads ==
  ASSUME NEW C \in Class, NEW K \in Class, NEW m, IsMsg(K, m)
  PROVE  \A i \in 0..Len(Schema[K]) :
           \E y : Carries(C, K, m, i, y) /\ ReadsAs(C, Clear(C), KnownTo(K, m, i), y)
<1> DEFINE n == Len(Schema[K])
           x == Clear(C)
           Good(i, y) == Carries(C, K, m, i, y) /\ ReadsAs(C, x, KnownTo(K, m, i), y)
           S == {i \in 0..n : \E y : Good(i, y)}
<1>1. n \in Nat /\ DOMAIN Schema[K] = 1..n
  BY SchemaIs
<1> HIDE DEF n
<1>2. 0 \in S
  <2>1. KnownTo(K, m, 0) = <<>> /\ 0 \in 0..n
    BY <1>1, KnownIs
  <2>2. ReadsAs(C, x, KnownTo(K, m, 0), x)
    BY <2>1, ReadsNone, Zenon
  <2>3. IsMsg(C, x) /\ x.unknown = <<>>
        /\ \A j \in DOMAIN Schema[C] : x.fields[j] = Default[Schema[C][j]]
    BY ClearIs
  <2> HIDE DEF x
  <2>4. \A j \in DOMAIN Schema[C] : ~HasField(C, x, j)
    BY <2>3, Zenon DEF HasField
  <2>5. InternalSerialize(C, x) = <<>>
    <3>1. InternalSerialize(C, x) = KnownTo(C, x, Len(Schema[C]))
      BY <2>3, WrittenKnown
    <3>2. Len(Schema[C]) \in 0..Len(Schema[C]) /\ Len(Schema[C]) > 0
      BY SchemaIs
    <3>3. KnownTo(C, x, Len(Schema[C])) = KnownTo(C, x, 0)
      <4>1. \A k \in 0..Len(Schema[C]) : k > 0 => KnownTo(C, x, k) = KnownTo(C, x, 0)
        BY <2>3, <2>4, KnownTail
      <4> QED BY <3>2, <4>1
    <3>4. KnownTo(C, x, 0) = <<>>
      BY KnownIs
    <3> QED BY <3>1, <3>3, <3>4
  <2>6. Carries(C, K, m, 0, x)
    BY <2>1, <2>3, <2>4, <2>5, Zenon DEF Carries, Writes
  <2>7. Good(0, x)
    BY <2>2, <2>6
  <2> HIDE DEF Good
  <2> QED BY <2>1, <2>7
<1>3. \A i \in 1..n : i - 1 \in S => i \in S
  <2> TAKE i \in 1..n
  <2> HAVE i - 1 \in S
  <2> PICK y : Good(i - 1, y)
    OBVIOUS
  <2>1. i \in 0..n /\ i \in DOMAIN Schema[K]
    BY <1>1
  <2> DEFINE z == Received(C, y, K, m, i)
  <2>2. Carries(C, K, m, i, z)
    BY <2>1, CarriesNext
  <2>3. ReadsAs(C, x, KnownTo(K, m, i), z)
    BY <2>1, ReadsKnown
  <2>4. Good(i, z)
    BY <2>2, <2>3
  <2> HIDE DEF z, Good
  <2> QED BY <2>1, <2>4
<1> HIDE DEF S
<1>4. \A i \in 0..n : i \in S
  BY <1>1, <1>2, <1>3, InductionUpTo
<1> QED BY <1>4 DEF S, n

\* Nothing is lost with a peer that does not know a field.
LEMMA PeerRead ==
  ASSUME NEW C \in Class, NEW K \in Class, NEW m, IsMsg(K, m), m.unknown = <<>>
  PROVE  LET y == Parse(C, InternalSerialize(K, m)) IN
           y = Refused \/ (IsMsg(C, y) /\ InternalSerialize(C, y) = InternalSerialize(K, m))
<1> DEFINE n == Len(Schema[K])
           b == KnownTo(K, m, n)
           x == Clear(C)
<1>1. n \in 0..n
  BY SchemaIs
<1>2. b \in Seq(Octets) /\ InternalSerialize(K, m) = b
  BY <1>1, KnownSeq, WrittenKnown
<1>3. PICK y : Carries(C, K, m, n, y) /\ ReadsAs(C, x, b, y)
  BY <1>1, PeerReads
<1>4. y = Refused \/ (IsMsg(C, y) /\ InternalSerialize(C, y) = b)
  BY <1>3, Zenon DEF Carries, Writes
<1> HIDE DEF b, x, n
<1>5. InternalParse(C, x, b) = y
  BY <1>2, <1>3, ReadsDone
<1>6. Parse(C, b) = y
  BY <1>5, Zenon DEF Parse, x
<1> QED BY <1>2, <1>4, <1>6, Zenon

-----------------------------------------------------------------------------
(* The messages on their way.                                              *)

\* Whoever holds the message writes the bytes its maker would write.
WireInv ==
  /\ class \in Class /\ as \in Class
  /\ IsMsg(class, made) /\ made.unknown = <<>>
  /\ hops \in Nat /\ (hops = 0 => as = class /\ held = made)
  /\ held = Refused
     \/ (IsMsg(as, held) /\ InternalSerialize(as, held) = InternalSerialize(class, made))

\* a new message is held by its maker
LEMMA WireInitial == WireInit => WireInv
<1> SUFFICES ASSUME WireInit PROVE WireInv
  OBVIOUS
<1>1. class \in Class /\ made = Clear(class) /\ as = class /\ held = made /\ hops = 0
  BY Zenon DEF WireInit
<1>2. IsMsg(class, Clear(class)) /\ Clear(class).unknown = <<>>
  BY <1>1, ClearIs
<1>3. 0 \in Nat
  OBVIOUS
<1> QED BY <1>1, <1>2, <1>3, Zenon DEF WireInv

\* what callers set has the type of the field
LEMMA ValuesAre ==
  ASSUME NEW C \in Class, NEW i \in DOMAIN Schema[C], NEW v \in Values[Schema[C][i]]
  PROVE  IsVal(Schema[C][i], v)
<1> DEFINE t == Schema[C][i]
<1>1. t \in {"string", "int32"}
  BY SchemaIs
<1> HIDE DEF t
<1>2. Values["string"] = Texts /\ Values["int32"] = Ints
  BY DEF Values
<1>3. CASE t = "string"
  <2>1. v \in Texts /\ t # "int32"
    BY <1>2, <1>3 DEF t
  <2>2. v \in Seq(Octets) /\ Len(v) <= MaxInt
    BY <2>1, WireAssumption, Zenon DEF Octets
  <2>3. Len(v) \in 0..MaxInt
    <3>1. Len(v) \in Nat
      BY <2>2, LenProperties
    <3>2. MaxInt \in Nat
      BY FiveGroups
    <3> QED BY <2>2, <3>1, <3>2
  <2> QED BY <2>1, <2>2, <2>3, Zenon DEF IsVal, t
<1>4. CASE t = "int32"
  <2>1. v \in Ints
    BY <1>2, <1>4 DEF t
  <2>2. v \in 0..MaxInt
    BY <2>1, WireAssumption, Zenon
  <2> QED BY <1>4, <2>2, Zenon DEF IsVal, t
<1> QED BY <1>1, <1>3, <1>4

\* setting a field, relaying and copying keep the invariant
LEMMA WireStep == WireInv /\ [WireNext]_wireVars => WireInv'
<1> SUFFICES ASSUME WireInv, [WireNext]_wireVars PROVE WireInv'
  OBVIOUS
<1>1. /\ class \in Class /\ as \in Class
      /\ IsMsg(class, made) /\ made.unknown = <<>>
      /\ hops \in Nat /\ (hops = 0 => as = class /\ held = made)
      /\ held = Refused
         \/ (IsMsg(as, held) /\ InternalSerialize(as, held) = InternalSerialize(class, made))
  BY Zenon DEF WireInv
<1>2. CASE UNCHANGED wireVars
  <2>1. class' = class /\ made' = made /\ as' = as /\ held' = held /\ hops' = hops
    BY <1>2 DEF wireVars
  <2> QED BY <1>1, <2>1, Zenon DEF WireInv
<1>3. ASSUME NEW i \in 1..3, SetField(i) PROVE WireInv'
  <2>1. /\ hops = 0 /\ i \in DOMAIN Schema[class] /\ held' = made'
        /\ class' = class /\ as' = as /\ hops' = hops
    BY <1>3, Zenon DEF SetField
  <2>2. PICK v \in Values[Schema[class][i]] : made' = Put(made, i, v)
    BY <1>3, Zenon DEF SetField, Put
  <2>3. IsVal(Schema[class][i], v)
    BY <1>1, <2>1, ValuesAre
  <2> DEFINE z == Put(made, i, v)
  <2>4. IsMsg(class, z) /\ z.unknown = made.unknown
    BY <1>1, <2>1, <2>3, PutIs
  <2>5. made' = z
    BY <2>2
  <2> HIDE DEF z
  <2> QED BY <1>1, <2>1, <2>4, <2>5, Zenon DEF WireInv
<1>4. ASSUME NEW C \in Class, Relay(C) PROVE WireInv'
  <2> DEFINE b == InternalSerialize(as, held)
             y == Parse(C, b)
  <2>1. /\ held # Refused /\ held' = y /\ as' = C /\ hops' = hops + 1
        /\ class' = class /\ made' = made
    BY <1>4, Zenon DEF Relay
  <2>2. b = InternalSerialize(class, made)
    BY <1>1, <2>1, Zenon
  <2>3. y = Refused \/ (IsMsg(C, y) /\ InternalSerialize(C, y) = InternalSerialize(class, made))
    <3> DEFINE w == InternalSerialize(class, made)
               x == Parse(C, w)
    <3>1. x = Refused \/ (IsMsg(C, x) /\ InternalSerialize(C, x) = w)
      BY <1>1, PeerRead
    <3>2. x = y
      BY <2>2, Zenon
    <3> HIDE DEF x, y, w
    <3> QED BY <3>1, <3>2, Zenon DEF w
  <2>4. hops' \in Nat /\ hops' # 0
    BY <1>1, <2>1
  <2> HIDE DEF y, b
  <2> QED BY <1>1, <2>1, <2>3, <2>4, Zenon DEF WireInv
<1>5. CASE Copy
  <2>1. /\ held # Refused /\ held' = CopyFrom(as, held)
        /\ class' = class /\ made' = made /\ as' = as /\ hops' = hops
    BY <1>5, Zenon DEF Copy
  <2>2. CopyFrom(as, held) = held
    BY <1>1, <2>1, CopyIs
  <2> QED BY <1>1, <2>1, <2>2, Zenon DEF WireInv
<1>6. WireNext \/ UNCHANGED wireVars
  OBVIOUS
<1>7. WireNext => Copy \/ (\E i \in 1..3 : SetField(i)) \/ (\E C \in Class : Relay(C))
  BY Zenon DEF WireNext
<1> QED BY <1>2, <1>3, <1>4, <1>5, <1>6, <1>7, Zenon

\* a readable message has no string that is no UTF-8
LEMMA ReadableIs ==
  ASSUME class \in Class, IsMsg(class, made)
  PROVE  Readable(made) <=> ~Barred(class, made, Len(Schema[class]))
<1> DEFINE D == DOMAIN Schema[class]
           f == made.fields
<1>1. \A j \in D : j <= Len(Schema[class])
  BY SchemaIs
<1>2. DOMAIN f = D
  <2>1. f = [i \in D |-> f[i]]
    BY MsgIs, Zenon
  <2> HIDE DEF f, D
  <2>2. DOMAIN [i \in D |-> f[i]] = D
    OBVIOUS
  <2> QED BY <2>1, <2>2, Zenon
<1> QED BY <1>1, <1>2, Zenon DEF Readable, Barred

\* it arrives as it was made
LEMMA KeptWhole == WireInv => RelayedWhole
<1> SUFFICES ASSUME WireInv, held # Refused
             PROVE  LET b == InternalSerialize(as, held) IN
                      /\ ByteSizeLong(as, held) = Len(b)
                      /\ Parse(class, b) = IF Readable(made) THEN made ELSE Refused
  BY Zenon DEF RelayedWhole
<1>1. /\ class \in Class /\ as \in Class /\ IsMsg(class, made) /\ made.unknown = <<>>
      /\ IsMsg(as, held) /\ InternalSerialize(as, held) = InternalSerialize(class, made)
  BY Zenon DEF WireInv
<1> DEFINE b == InternalSerialize(as, held)
           w == InternalSerialize(class, made)
<1>2. ByteSizeLong(as, held) = Len(b)
  BY <1>1, WrittenIs
<1>3. Parse(class, w) = IF Barred(class, made, Len(Schema[class])) THEN Refused ELSE made
  BY <1>1, OwnRead
<1>4. Readable(made) <=> ~Barred(class, made, Len(Schema[class]))
  BY <1>1, ReadableIs
<1> QED BY <1>1, <1>2, <1>3, <1>4, Zenon

\* every field is there or the last ones are missing
LEMMA CutKept ==
  ASSUME NEW C \in Class, NEW m, IsMsg(C, m), NEW k \in Nat
  PROVE  \A i \in DOMAIN Schema[C] :
           \/ Over(C, Clear(C), m, k).fields[i] = m.fields[i]
           \/ \A j \in DOMAIN Schema[C] :
                j >= i => Over(C, Clear(C), m, k).fields[j] = Default[Schema[C][j]]
<1> DEFINE D == DOMAIN Schema[C]
           x == Clear(C)
           o == Over(C, x, m, k)
<1>1. IsMsg(C, x) /\ \A j \in D : x.fields[j] = Default[Schema[C][j]]
  BY ClearIs
<1> HIDE DEF x
<1>2. \A j \in D : o.fields[j] =
        IF j <= k /\ HasField(C, m, j) THEN m.fields[j] ELSE x.fields[j]
  BY <1>1, OverIs
<1> HIDE DEF o
<1>3. ASSUME NEW i \in D, i <= k PROVE o.fields[i] = m.fields[i]
  BY <1>1, <1>2, <1>3, Zenon DEF HasField
<1>4. ASSUME NEW i \in D, ~(i <= k), NEW j \in D, j >= i PROVE o.fields[j] = Default[Schema[C][j]]
  <2>1. ~(j <= k)
    <3>1. i \in 1..3 /\ j \in 1..3
      BY SchemaIs
    <3> QED BY <1>4, <3>1
  <2> QED BY <1>1, <1>2, <2>1, Zenon
<1> QED BY <1>3, <1>4, Zenon DEF o, x

\* cut short it is refused or has lost its last fields
LEMMA CutLosesLast ==
  ASSUME NEW C \in Class, NEW m, IsMsg(C, m), m.unknown = <<>>,
         ~Barred(C, m, Len(Schema[C])),
         NEW n \in 0..Len(InternalSerialize(C, m)),
         Parse(C, SubSeq(InternalSerialize(C, m), 1, n)) # Refused
  PROVE  LET p == Parse(C, SubSeq(InternalSerialize(C, m), 1, n)) IN
           \A i \in DOMAIN Schema[C] :
             \/ p.fields[i] = m.fields[i]
             \/ \A j \in DOMAIN Schema[C] : j >= i => p.fields[j] = Default[Schema[C][j]]
<1> DEFINE len == Len(Schema[C])
           b == KnownTo(C, m, len)
           p == Parse(C, SubSeq(b, 1, n))
<1>1. len \in 0..len /\ \A k \in 0..len : k \in Nat
  BY SchemaIs
<1>2. InternalSerialize(C, m) = b
  BY WrittenKnown
<1>3. CutReads(C, m, SubSeq(b, 1, n))
  BY <1>1, <1>2, CutIs
<1>4. PICK k \in 0..len : p = Over(C, Clear(C), m, k)
  BY <1>2, <1>3, Zenon DEF CutReads
<1> DEFINE o == Over(C, Clear(C), m, k)
<1>5. k \in Nat
  BY <1>1
<1>6. \A i \in DOMAIN Schema[C] :
        \/ o.fields[i] = m.fields[i]
        \/ \A j \in DOMAIN Schema[C] : j >= i => o.fields[j] = Default[Schema[C][j]]
  BY <1>5, CutKept
<1>7. p = o
  BY <1>4
<1> HIDE DEF p, o
<1>8. \A i \in DOMAIN Schema[C] :
        \/ p.fields[i] = m.fields[i]
        \/ \A j \in DOMAIN Schema[C] : j >= i => p.fields[j] = Default[Schema[C][j]]
  BY <1>6, <1>7, Zenon
<1> QED BY <1>2, <1>8, Zenon DEF p

\* behind another message it is merged into it
LEMMA MergesBehind ==
  ASSUME NEW C \in Class, NEW m, IsMsg(C, m), m.unknown = <<>>,
         ~Barred(C, m, Len(Schema[C])),
         NEW v \in Texts, v \notin NotUtf8, Schema[C][1] = "string"
  PROVE  LET o == [Clear(C) EXCEPT !.fields[1] = v] IN
           Parse(C, InternalSerialize(C, o) \o InternalSerialize(C, m)) = MergeImpl(C, o, m)
<1> DEFINE x == Clear(C)
           o == Put(x, 1, v)
           D == DOMAIN Schema[C]
           a == InternalSerialize(C, o)
           b == InternalSerialize(C, m)
<1>1. 1 \in D
  BY SchemaIs
<1>2. IsMsg(C, x) /\ x.unknown = <<>> /\ \A j \in D : x.fields[j] = Default[Schema[C][j]]
  BY ClearIs
<1>3. IsVal(Schema[C][1], v)
  <2>1. v \in Values[Schema[C][1]]
    BY DEF Values
  <2> QED BY <1>1, <2>1, ValuesAre
<1> HIDE DEF x
<1>4. /\ IsMsg(C, o) /\ o.unknown = <<>>
      /\ \A j \in D : o.fields[j] = IF j = 1 THEN v ELSE x.fields[j]
  <2>1. /\ IsMsg(C, o) /\ o.unknown = x.unknown
        /\ \A j \in D : o.fields[j] = IF j = 1 THEN v ELSE x.fields[j]
    BY <1>1, <1>2, <1>3, PutIs
  <2> QED BY <1>2, <2>1
<1> HIDE DEF o
<1>5. ~Barred(C, o, Len(Schema[C]))
  <2>1. \A j \in D : Schema[C][j] = "string" => Default[Schema[C][j]] = <<>>
    BY DEF Default
  <2>2. <<>> \notin NotUtf8
    BY WireAssumption
  <2>3. \A j \in D : Schema[C][j] = "string" => o.fields[j] \notin NotUtf8
    BY <1>2, <1>4, <2>1, <2>2, ZenonT(40)
  <2> QED BY <2>3, Zenon DEF Barred
<1>6. a \in Seq(Octets) /\ b \in Seq(Octets)
  BY <1>4, WrittenIs
<1>7. Parse(C, a) = o
  BY <1>4, <1>5, OwnRead
<1>8. ReadsAs(C, x, a, o)
  <2>1. ReadsAs(C, x, a, IF Barred(C, o, Len(Schema[C])) THEN Refused ELSE MergeImpl(C, x, o))
    BY <1>2, <1>4, OwnRead
  <2>2. MergeImpl(C, x, o) = o
    BY <1>4, CopyIs, Zenon DEF CopyFrom, x
  <2> HIDE DEF a
  <2> QED BY <1>5, <2>1, <2>2, Zenon
<1>9. ReadsAs(C, o, b, MergeImpl(C, o, m))
  <2>1. ReadsAs(C, o, b, IF Barred(C, m, Len(Schema[C])) THEN Refused ELSE MergeImpl(C, o, m))
    BY <1>4, OwnRead
  <2> HIDE DEF b
  <2> QED BY <2>1, Zenon
<1> HIDE DEF a, b
<1>10. InternalParse(C, x, a \o b) = InternalParse(C, o, b)
  BY <1>6, <1>8, Zenon DEF ReadsAs
<1>11. InternalParse(C, o, b) = MergeImpl(C, o, m)
  BY <1>6, <1>9, ReadsDone
<1>12. Parse(C, a \o b) = MergeImpl(C, o, m)
  BY <1>10, <1>11, Zenon DEF Parse, x
<1>13. o = [Clear(C) EXCEPT !.fields[1] = v]
  BY Zenon DEF o, Put, x
<1> QED BY <1>12, <1>13, Zenon DEF a, b

\* both of any message on its way
LEMMA KeptCutOrMerged == WireInv => CutOrMerged
<1> SUFFICES ASSUME WireInv PROVE CutOrMerged
  OBVIOUS
<1>1. class \in Class /\ IsMsg(class, made) /\ made.unknown = <<>>
  BY Zenon DEF WireInv
<1>2. Readable(made) <=> ~Barred(class, made, Len(Schema[class]))
  BY <1>1, ReadableIs
<1>3. DOMAIN made.fields = DOMAIN Schema[class]
  <2> DEFINE D == DOMAIN Schema[class]
             f == made.fields
  <2>1. f = [i \in D |-> f[i]]
    BY <1>1, MsgIs, Zenon
  <2> HIDE DEF f, D
  <2>2. DOMAIN [i \in D |-> f[i]] = D
    OBVIOUS
  <2>3. DOMAIN f = D
    BY <2>1, <2>2, Zenon
  <2> QED BY <2>3 DEF f, D
<1> DEFINE b == InternalSerialize(class, made)
           p(n) == Parse(class, SubSeq(b, 1, n))
           o(v) == [Clear(class) EXCEPT !.fields[1] = v]
<1>4. ASSUME Readable(made), NEW n \in 0..Len(b), p(n) # Refused, NEW i \in DOMAIN made.fields
      PROVE  \/ p(n).fields[i] = made.fields[i]
             \/ \A j \in DOMAIN made.fields :
                  j >= i => p(n).fields[j] = Default[Schema[class][j]]
  <2>1. LET q == Parse(class, SubSeq(InternalSerialize(class, made), 1, n)) IN
          \A k \in DOMAIN Schema[class] :
            \/ q.fields[k] = made.fields[k]
            \/ \A j \in DOMAIN Schema[class] : j >= k => q.fields[j] = Default[Schema[class][j]]
    BY <1>1, <1>2, <1>4, CutLosesLast
  <2>2. \A k \in DOMAIN Schema[class] :
          \/ p(n).fields[k] = made.fields[k]
          \/ \A j \in DOMAIN Schema[class] :
               j >= k => p(n).fields[j] = Default[Schema[class][j]]
    BY <2>1, Zenon
  <2> HIDE DEF p
  <2> QED BY <1>3, <1>4, <2>2, Zenon
<1>5. ASSUME Readable(made), NEW v \in Texts \ NotUtf8, Schema[class][1] = "string"
      PROVE  Parse(class, InternalSerialize(class, o(v)) \o b) = MergeImpl(class, o(v), made)
  <2>1. v \in Texts /\ v \notin NotUtf8
    BY <1>5
  <2>2. LET q == [Clear(class) EXCEPT !.fields[1] = v] IN
          Parse(class, InternalSerialize(class, q) \o InternalSerialize(class, made))
            = MergeImpl(class, q, made)
    BY <1>1, <1>2, <1>5, <2>1, MergesBehind
  <2> QED BY <2>2, Zenon
<1> QED BY <1>4, <1>5, Zenon DEF CutOrMerged

\* so nothing is lost on the way
LEMMA WireInvImplies == WireInv => MessagesKept
BY KeptWhole, KeptCutOrMerged DEF MessagesKept

-----------------------------------------------------------------------------
(* The helpers as Spec runs them.                                          *)

\* Files that en_de_file.c encodes and decodes again, any number
\* of times one within the other, come back as they were, up to the byte it may
\* leave behind a file that fills its last block.
THEOREM FileComesBack == Spec => []RoundTrip
<1>1. Init => FileInv
  BY OneHelper, FileInitial
<1>2. FileInv /\ [Next]_vars => FileInv'
  BY OneHelper, FileStep
<1>3. FileInv => RoundTrip
  BY FileInvImplies
<1> QED BY <1>1, <1>2, <1>3, PTL DEF Spec

\* A message of helloworld.pb.cc reaches its class as it was made,
\* through peers of any classes, cut short loses its last fields alone, and is
\* merged into one before it.
THEOREM MessagesArrive == Spec => []MessagesKept
<1>1. Init => WireInv
  BY OneHelper, WireInitial
<1>2. WireInv /\ [Next]_vars => WireInv'
  BY OneHelper, WireStep
<1>3. WireInv => MessagesKept
  BY WireInvImplies
<1> QED BY <1>1, <1>2, <1>3, PTL DEF Spec

=============================================================================
