-------------------------------- MODULE Sha256 --------------------------------
(***************************************************************************)
(* hash256_one_by_one of Merkle_Tree/picosha2.h: a message is handed over  *)
(* in pieces, whole blocks are compressed as they fill up, and finish pads *)
(* the rest.  The compression function is taken to be free of collisions:  *)
(* h_ is the sequence of the blocks it was given.                          *)
(***************************************************************************)
EXTENDS Integers, Sequences

CONSTANTS
  BlockSize,   \* bytes of a block (64)
  ByteBase,    \* values of a byte (256); a digit of the length is two bytes
  DataLength,  \* bound: bytes of the message
  Pieces       \* lengths of the pieces it is handed over in

ASSUME Sha256Assumption ==
  /\ BlockSize \in Nat /\ BlockSize > 8
  /\ ByteBase \in Nat \ {0} /\ ByteBase % 4 = 0
  /\ DataLength \in Nat /\ Pieces \subseteq Nat

VARIABLES
  given,                \* bytes handed over so far
  buffer_,              \* those that do not fill a block yet
  data_length_digits_,  \* how many there were, the lowest digit first
  h_,                   \* the blocks compressed
  finished
shaVars == <<given, buffer_, data_length_digits_, h_, finished>>

\* the i-th byte of the message, told apart from every padding byte
Data(i) == 256 + i
Zeros(n) == [i \in 1..n |-> 0]
DigitBase == ByteBase * ByteBase

HashInit ==
  /\ given = 0 /\ buffer_ = <<>> /\ h_ = <<>> /\ finished = FALSE
  /\ data_length_digits_ = <<0, 0, 0, 0>>

\* the lowest digit takes the whole of n; the loop ends where nothing is carried
AddToDataLength(d, n) ==
  LET v1 == d[1] + n
      v2 == d[2] + v1 \div DigitBase
      v3 == d[3] + v2 \div DigitBase
      v4 == d[4] + v3 \div DigitBase
  IN <<v1 % DigitBase, v2 % DigitBase, v3 % DigitBase, v4 % DigitBase>>

\* every full block of the buffer
WholeBlocks(s) ==
  [k \in 1..(Len(s) \div BlockSize) |->
     SubSeq(s, BlockSize * (k - 1) + 1, BlockSize * k)]

Process(n) ==
  LET all == buffer_ \o [i \in 1..n |-> Data(given + i)]
      blocks == WholeBlocks(all)
  IN /\ ~finished /\ given + n <= DataLength
     /\ given' = given + n
     /\ data_length_digits_' = AddToDataLength(data_length_digits_, n)
     /\ h_' = h_ \o blocks
     /\ buffer_' = SubSeq(all, BlockSize * Len(blocks) + 1, Len(all))
     /\ UNCHANGED finished

\* the length in bits, the highest digit first, each as two bytes
DataBitLength(d) ==
  LET carry(i) == IF i = 1 THEN 0 ELSE d[i - 1] \div (DigitBase \div 8)
      shifted(i) == (d[i] * 8 + carry(i)) % DigitBase
  IN [k \in 1..8 |-> LET digit == shifted(4 - ((k - 1) \div 2)) IN
                       IF k % 2 = 1 THEN digit \div ByteBase ELSE digit % ByteBase]

\* Faulty variant: a rest that leaves seven bytes for the length stays in
\* one block.
PaddingTight(rest, length) ==
  LET temp == Append(rest, 128) IN
  IF Len(rest) > BlockSize - 8
    THEN <<temp \o Zeros(BlockSize - Len(temp)), Zeros(BlockSize - 8) \o length>>
    ELSE <<SubSeq(temp \o Zeros(BlockSize), 1, BlockSize - 8) \o length>>

\* the blocks that finish compresses: the rest with 0x80 and the length, in a
\* block of its own where they do not fit (remains > 55)
Padding(rest, length) ==
  LET temp == Append(rest, 128) IN
  IF Len(rest) > BlockSize - 9
    THEN <<temp \o Zeros(BlockSize - Len(temp)), Zeros(BlockSize - 8) \o length>>
    ELSE <<SubSeq(temp \o Zeros(BlockSize), 1, BlockSize - 8) \o length>>

Finish ==
  /\ ~finished
  /\ h_' = h_ \o Padding(buffer_, DataBitLength(data_length_digits_))
  /\ finished' = TRUE
  /\ UNCHANGED <<given, buffer_, data_length_digits_>>

HashNext == Finish \/ \E n \in Pieces : Process(n)

HashSpec == HashInit /\ [][HashNext]_shaVars

-----------------------------------------------------------------------------
\* v, and what is left of it after one to seven bytes
Shifted(v) ==
  LET rest[k \in 0..7] == IF k = 0 THEN v ELSE rest[k - 1] \div ByteBase IN rest

\* v as eight bytes, the highest first
BigEndian(v) == [k \in 1..8 |-> Shifted(v)[8 - k] % ByteBase]

\* the padded message as the standard has it: the message, 0x80, zeros, the
\* number of its bits
Standard(n) ==
  LET blocks == (n + 9 + (BlockSize - 1)) \div BlockSize
      total == BlockSize * blocks
      byte(p) == CASE p <= n -> Data(p)
                   [] p = n + 1 -> 128
                   [] p > total - 8 -> BigEndian(8 * n)[p - (total - 8)]
                   [] OTHER -> 0
  IN [k \in 1..blocks |-> [i \in 1..BlockSize |-> byte(BlockSize * (k - 1) + i)]]

\* However a message is cut into pieces (all at once for a random access
\* iterator, by buffer_size for an input iterator), what is compressed is the
\* message padded as the standard has it; before the end, its whole blocks.
DigestIsStandard ==
  IF finished THEN h_ = Standard(given)
  ELSE /\ h_ = WholeBlocks([i \in 1..given |-> Data(i)])
       /\ Len(buffer_) < BlockSize

=============================================================================
