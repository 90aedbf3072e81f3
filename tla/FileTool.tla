------------------------------- MODULE FileTool -------------------------------
(***************************************************************************)
(* test_dir/en_de_file.c: each run of the tool encrypts or decrypts one    *)
(* file in place.  The block cipher of OpenSSL is any bijection, chained   *)
(* from block to block; what C leaves undefined is every outcome it has.   *)
(***************************************************************************)
EXTENDS Base64

CONSTANTS
  BlockBytes,  \* AES_BLOCK_SIZE (16)
  Files,       \* contents a file may have before the first run
  MaxRuns,     \* bound: runs of the tool
  MaxDepth,    \* bound: times a file is encrypted again
  Behind       \* values of a byte that nothing was stored in

ASSUME FileToolAssumption ==
  /\ BlockBytes \in Nat /\ BlockBytes > 1 /\ MaxRuns \in Nat /\ MaxDepth \in Nat
  /\ Files \subseteq Seq(0..255) /\ Behind \subseteq 0..255

VARIABLES
  file,   \* the content of the file
  below,  \* what it was encrypted from, the original first
  asked,  \* what the last run that decrypted it had to give back
  runs,
  last    \* how the last run ended
fileVars == <<file, below, asked, runs, last>>

FileInit ==
  file \in Files /\ below = <<>> /\ asked = <<>> /\ runs = 0 /\ last = "none"

\* Faulty variant: only whole blocks are encrypted.
LengthDown(n) == (n \div BlockBytes) * BlockBytes

\* length_enc_out
EncLength(n) ==
  IF (n + BlockBytes) % BlockBytes = 0 THEN n
  ELSE ((n + BlockBytes) \div BlockBytes) * BlockBytes

\* AES_cbc_encrypt with an iv of zeros and its inverse; a last block that is
\* not full is filled with zeros
Cipher(m, n) ==
  LET byte(i) == IF i <= Len(m) THEN m[i] ELSE 0
      c[i \in 1..n] ==
        ((IF i > BlockBytes THEN c[i - BlockBytes] ELSE 0) + byte(i) + 7) % 256
  IN c
Decipher(c) ==
  [i \in DOMAIN c |->
     (c[i] - (IF i > BlockBytes THEN c[i - BlockBytes] ELSE 0) - 7) % 256]

\* "0x%02x "
HexDigit(d) == IF d < 10 THEN 48 + d ELSE 87 + d
HexWord(b) == <<48, 120, HexDigit(b \div 16), HexDigit(b % 16), 32>>
HexText(c) ==
  [k \in 1..(5 * Len(c)) |-> HexWord(c[(k - 1) \div 5 + 1])[((k - 1) % 5) + 1]]

HexValue(c) == IF c \in 48..57 THEN c - 48 ELSE IF c \in 97..102 THEN c - 87 ELSE 0

\* fscanf of "0x%x " until the end of the file: of a character behind a dump,
\* a blank is skipped with the one before, and a '0' read for nothing; NULL when
\* it stops in front of anything else, where the loop goes on storing for ever
Blanks == {9, 10, 11, 12, 13, 32}
HexBytes(t) ==
  LET number == [i \in 1..(Len(t) \div 5) |->
                   16 * HexValue(t[5 * i - 2]) + HexValue(t[5 * i - 1])]
      dump == HexText(number)
      more == IF number = <<>> THEN {48} ELSE {48} \cup Blanks
  IN IF t = dump \/ \E c \in more : t = Append(dump, c) THEN number ELSE NULL

Encrypt ==
  /\ runs < MaxRuns /\ Len(below) < MaxDepth /\ last # "endless"
  /\ file' = FEncode(HexText(Cipher(file, EncLength(Len(file)))))
  /\ below' = Append(below, file)
  /\ runs' = runs + 1 /\ last' = "encrypted" /\ UNCHANGED asked

\* the string decode returns: its bytes up to a zero, with the byte behind
\* them when nothing was stored there
Decoded(t, b) ==
  LET d == FDecode(t) IN
  UpToNul(d.whole \o (IF d.behind = <<>> THEN <<b>> ELSE d.behind))

\* "%s" of dec_out, which ends at the first zero, if there is one in it; of
\* what follows the buffer one byte is looked at
Printed(m, b) == UpToNul(Append(m, b))

\* when nothing is read, the number stored is not set, and when the text is no
\* hex dump the loop never ends; in both cases with the file still closed to
\* writing.  When decode crashes nothing changes
Decrypt ==
  /\ runs < MaxRuns /\ last # "endless" /\ Decodable(file)
  /\ runs' = runs + 1
  /\ \E b, c \in Behind :
       LET read == HexBytes(Decoded(file, b)) IN
       IF read = NULL
         THEN last' = "endless" /\ UNCHANGED <<file, below, asked>>
         ELSE /\ file' = Printed(IF read = <<>> THEN <<b>> ELSE Decipher(read), c)
              /\ last' = IF below = <<>> THEN "other" ELSE "decrypted"
              /\ asked' = IF below = <<>> THEN <<>> ELSE below[Len(below)]
              /\ below' = IF below = <<>> THEN <<>> ELSE SubSeq(below, 1, Len(below) - 1)

FileNext == Encrypt \/ Decrypt

-----------------------------------------------------------------------------
\* What was encrypted, also twice, comes back from as many decryptions, if it
\* is text (no zeros, not empty): exactly, unless it fills its last block, when
\* bytes from behind the buffer may follow.
RoundTrip ==
  last = "decrypted" /\ asked # <<>> /\ UpToNul(asked) = asked =>
    /\ Len(asked) <= Len(file) /\ asked = SubSeq(file, 1, Len(asked))
    /\ Len(asked) % BlockBytes # 0 => file = asked

=============================================================================
