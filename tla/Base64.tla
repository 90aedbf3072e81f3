-------------------------------- MODULE Base64 --------------------------------
(***************************************************************************)
(* The Base64 coders of the repository, as functions on sequences of bytes *)
(* and of ASCII codes: the bit accumulator and the table coder of          *)
(* helloworld/bs64.h (copied into openssl/sign.cpp), the coder by groups   *)
(* of helloworld/test_bs64.cc, and the coder by single bits of             *)
(* test_dir/en_de_file.c; OpenSSL's BIO_f_base64, which the others have to *)
(* agree with, is the reference definition BioEncode.                      *)
(***************************************************************************)
EXTENDS Integers, Sequences, FiniteSets

\* base64_table and reverse_table
Char(v) == CASE v < 26 -> 65 + v [] v \in 26..51 -> 71 + v
             [] v \in 52..61 -> v - 4 [] v = 62 -> 43 [] OTHER -> 47
Index(c) == CASE c \in 65..90 -> c - 65 [] c \in 97..122 -> c - 71
              [] c \in 48..57 -> c + 4 [] c = 43 -> 62 [] c = 47 -> 63
              [] OTHER -> -1
Pad == 61
Newline == 10
Chars(s) == [i \in DOMAIN s |-> Char(s[i])]
Pads(n) == [i \in 1..n |-> Pad]
ToFour(s) == s \o Pads((-Len(s)) % 4)

\* n shifted to the right by k bits
ShiftRight(n, k) == n \div <<1, 2, 4, 8, 16, 32, 64, 128>>[k + 1]

\* the bits of numbers of w bits, the highest first, and numbers from six bits
\* or eight, where those that are missing at the end are zeros
Bits(s, w) == [k \in 1..(w * Len(s)) |->
                 ShiftRight(s[(k - 1) \div w + 1], (w - 1) - ((k - 1) % w)) % 2]
Numbers(b, w) ==
  LET bit(k) == IF k <= Len(b) THEN b[k] ELSE 0
      six(k) == 32 * bit(k + 1) + 16 * bit(k + 2) + 8 * bit(k + 3)
                  + 4 * bit(k + 4) + 2 * bit(k + 5) + bit(k + 6)
  IN [i \in 1..((Len(b) + w - 1) \div w) |->
        IF w = 6 THEN six(6 * (i - 1))
        ELSE 4 * six(8 * (i - 1)) + 2 * bit(8 * i - 1) + bit(8 * i)]

\* the first characters, up to one of those that stop
Until(t, stop) ==
  LET those == {i \in DOMAIN t : t[i] \in stop} IN
  IF those = {} THEN t
  ELSE SubSeq(t, 1, (CHOOSE i \in those : \A j \in those : i <= j) - 1)

\* what a C function takes for the string
UpToNul(s) == Until(s, {0})
InAlphabet(c) == Index(c) # -1
Foreign == {c \in 0..255 : ~InAlphabet(c)}

-----------------------------------------------------------------------------
(* OpenSSL, with and without line breaks (of LineLen characters, here 64), *)
(* and the buffers its callers provide for what it decodes.                *)

BioEncode(m) == ToFour(Chars(Numbers(Bits(m, 8), 6)))

BioLines(m, LineLen) ==
  LET t == BioEncode(m)
      total == Len(t) + (Len(t) + LineLen - 1) \div LineLen
  IN [k \in 1..total |-> IF k % (LineLen + 1) = 0 \/ k = total THEN Newline
                         ELSE t[k - (k - 1) \div (LineLen + 1)]]

\* the buffer of verify.cpp, whose test for padding looks at the last two
DecodeLength(t) ==
  LET at(k) == k > 0 /\ t[k] = Pad
      padding == IF at(Len(t)) /\ at(Len(t) - 1) THEN 2
                 ELSE IF at(Len(t)) THEN 1 ELSE 0
  IN (Len(t) * 3) \div 4 - padding

\* the buffer of test_bs64_2.cc
BioDecodeRoom(t) == (Len(t) \div 4) * 3 + 1

-----------------------------------------------------------------------------
(* b_base64_encode and b_base64_decode.  val keeps 16 of its 32 bits here, *)
(* of which the shifts never reach more than 12.                           *)

\* one byte: val = (val << 8) + c, valb += 8, a character while valb >= 0
BAdd(s, c) ==
  LET v == (s.val * 256 + c) % 65536
      b == s.valb + 8
      n == b \div 6 + 1
  IN [val |-> v, valb |-> b - 6 * n,
      out |-> s.out \o [k \in 1..n |-> ShiftRight(v, b - 6 * (k - 1)) % 64]]

BEncode(m) ==
  LET after[k \in 0..Len(m)] ==
        IF k = 0 THEN [val |-> 0, valb |-> -6, out |-> <<>>] ELSE BAdd(after[k - 1], m[k])
      s == after[Len(m)]
      rest == IF s.valb > -6
                THEN <<ShiftRight(s.val * 256, s.valb + 8) % 64>> ELSE <<>>
  IN ToFour(Chars(s.out \o rest))

\* one character: val = (val << 6) + T[c], a byte once there are eight bits
BTake(s, c) ==
  LET v == (s.val * 64 + Index(c)) % 65536
      b == s.valb + 6
  IN IF b >= 0
       THEN [val |-> v, valb |-> b - 8, out |-> Append(s.out, ShiftRight(v, b) % 256)]
       ELSE [s EXCEPT !.val = v, !.valb = b]

BDecode(t) ==
  LET u == Until(t, Foreign)
      after[k \in 0..Len(u)] ==
        IF k = 0 THEN [val |-> 0, valb |-> -8, out |-> <<>>] ELSE BTake(after[k - 1], u[k])
  IN after[Len(u)].out

-----------------------------------------------------------------------------
(* h_base64_encode and h_base64_decode.                                    *)

\* three bytes as four characters
Group(a, b, c) ==
  <<a \div 4, (a % 4) * 16 + b \div 16, (b % 16) * 4 + c \div 64, c % 64>>
Groups(m) ==
  [k \in 1..(4 * (Len(m) \div 3)) |->
     LET i == 3 * ((k - 1) \div 4) IN
       Char(Group(m[i + 1], m[i + 2], m[i + 3])[((k - 1) % 4) + 1])]
Rest(m) == SubSeq(m, 3 * (Len(m) \div 3) + 1, Len(m))

\* the tail end of things: one or two bytes are left
HTail(r) ==
  CASE Len(r) = 2 -> Chars(<<r[1] \div 4, (r[1] % 4) * 16 + r[2] \div 16,
                             (r[2] % 16) * 4>>) \o Pads(1)
    [] Len(r) = 1 -> Chars(<<r[1] \div 4, (r[1] % 4) * 16>>) \o Pads(2)
    [] OTHER      -> <<>>
HEncode(m) == Groups(m) \o HTail(Rest(m))

\* Faulty variant: the third character overwrites the bits left of the second.
HTakeOver(s, c) ==
  LET v == Index(IF c = 32 THEN 43 ELSE c) IN
  IF v < 0 THEN s
  ELSE CASE s.i = 0 -> [s EXCEPT !.i = 1, !.part = v * 4]
         [] s.i = 1 -> [out |-> Append(s.out, s.part + v \div 16), i |-> 2,
                        part |-> (v % 16) * 16]
         [] s.i = 2 -> [out |-> Append(s.out, v \div 4), i |-> 3, part |-> (v % 4) * 64]
         [] OTHER   -> [out |-> Append(s.out, s.part + v), i |-> 0, part |-> 0]

\* one character; a space stands for a plus, anything else is skipped.  out
\* are the bytes before result[j], part is result[j], i counts modulo 4
HTake(s, c) ==
  LET v == Index(IF c = 32 THEN 43 ELSE c) IN
  IF v < 0 THEN s
  ELSE CASE s.i = 0 -> [s EXCEPT !.i = 1, !.part = v * 4]
         [] s.i = 1 -> [out |-> Append(s.out, s.part + v \div 16), i |-> 2,
                        part |-> (v % 16) * 16]
         [] s.i = 2 -> [out |-> Append(s.out, s.part + v \div 4), i |-> 3,
                        part |-> (v % 4) * 64]
         [] OTHER   -> [out |-> Append(s.out, s.part + v), i |-> 0, part |-> 0]

NULL == <<-1>>

\* up to the terminating zero or the first pad, which is refused after a
\* whole group or a single character; the result is the ret_length first bytes
HDecode(t) ==
  LET u == UpToNul(t)
      h == Until(u, {Pad})
      after[k \in 0..Len(h)] ==
        IF k = 0 THEN [out |-> <<>>, i |-> 0, part |-> 0] ELSE HTake(after[k - 1], h[k])
      s == after[Len(h)]
  IN IF h # u /\ s.i \in {0, 1} THEN NULL ELSE s.out

\* a text whose pluses became spaces on its way in a form
Posted(t) == [i \in DOMAIN t |-> IF t[i] = 43 THEN 32 ELSE t[i]]

-----------------------------------------------------------------------------
(* base64_encode and base64_decode of test_bs64.cc.                        *)

\* a last group is filled with zeros, one character more than it has bytes kept
CEncode(m) ==
  LET r == Rest(m)
      b(k) == IF k <= Len(r) THEN r[k] ELSE 0
  IN Groups(m) \o
     (IF r = <<>> THEN <<>>
      ELSE SubSeq(Chars(Group(b(1), b(2), b(3))), 1, Len(r) + 1) \o Pads(3 - Len(r)))

\* four values as three bytes; find returns npos, 255 in a byte, for the zeros
\* a last group is filled with, and one byte less than it has characters is kept
Triple(a, b, c, d) ==
  <<(a * 4 + (b % 64) \div 16) % 256, ((b % 16) * 16 + (c % 64) \div 4) % 256,
    ((c % 4) * 64 + d) % 256>>
CDecode(t) ==
  LET u == Until(t, Foreign)
      v(k) == IF k <= Len(u) THEN Index(u[k]) ELSE 255
      all == [k \in 1..(3 * ((Len(u) + 3) \div 4)) |->
                LET i == 4 * ((k - 1) \div 3) IN
                  Triple(v(i + 1), v(i + 2), v(i + 3), v(i + 4))[((k - 1) % 3) + 1]]
      left == Len(u) % 4
  IN SubSeq(all, 1, 3 * (Len(u) \div 4) + (IF left > 0 THEN left - 1 ELSE 0))

-----------------------------------------------------------------------------
(* encode and decode of en_de_file.c.                                      *)

\* the bits of the string in groups of six; one or two bytes left over give
\* padding 2 or 4, one character for each two
FEncode(m) ==
  LET s == UpToNul(m)
      padding == (-8 * Len(s)) % 6
  IN Chars(Numbers(Bits(s, 8), 6)) \o Pads(padding \div 2)

\* the whole bytes of decode, and the byte behind them: the bits that are left
\* over or, of whole bytes only, one that malloc left uninitialised; of pads
\* alone the bits are less than none, and from four pads on that byte is the
\* zero that ends the string
PadsIn(s) == Cardinality({i \in DOMAIN s : s[i] = Pad})
FDecodeBits(t) == 6 * Len(UpToNul(t)) - 8 * PadsIn(UpToNul(t))
FDecode(t) ==
  LET s == UpToNul(t)
      value(c) == IF InAlphabet(c) THEN Index(c) ELSE 0
      kept == SubSeq(s, 1, Len(s) - PadsIn(s))
      n == FDecodeBits(t)
      bytes == Numbers(Bits([i \in DOMAIN kept |-> value(kept[i])], 6), 8)
  IN [whole |-> SubSeq(bytes, 1, n \div 8),
      behind |-> IF n <= -8 THEN <<0>>
                 ELSE IF n < 0 \/ n % 8 = 0 THEN <<>> ELSE <<bytes[n \div 8 + 1]>>]

\* of more pads than its text has room for, decode gets no memory and crashes,
\* unless there are only pads, and few of them
Decodable(t) ==
  LET s == UpToNul(t) IN
  FDecodeBits(t) >= 0 \/ (PadsIn(s) = Len(s) /\ Len(s) < 8)

=============================================================================
