--------------------------------- MODULE Wire ---------------------------------
(***************************************************************************)
(* The messages of the greeter service as helloworld.pb.cc reads and       *)
(* writes them: fields with their default are left out, fields a class     *)
(* does not know, or knows with another type, are kept and written behind  *)
(* its own.  A class differs from another by its schema alone.             *)
(***************************************************************************)
EXTENDS Integers, Sequences

CONSTANTS
  Texts,    \* strings callers set
  NotUtf8,  \* those of them VerifyUTF8 rejects
  Ints,     \* int32s callers set; lengths and thresholds are not negative
  MaxHops   \* bound: peers a message passes

MaxInt == 2147483647

ASSUME WireAssumption ==
  /\ Texts \subseteq Seq(0..255) /\ \A t \in Texts : Len(t) <= MaxInt
  /\ NotUtf8 \subseteq Texts \ {<<>>} /\ Ints \subseteq 0..MaxInt /\ MaxHops \in Nat

-----------------------------------------------------------------------------
(* The classes: the i-th field has number i.                               *)

HelloRequest      == <<"string">>                     \* name
HelloReply        == <<"string">>                     \* message
OllehRequest      == <<"string">>                     \* name
OllehReply        == <<"string">>                     \* message
ShareRequest      == <<"string">>                     \* name
ShareReply        == <<"string">>                     \* message
VerifyRequest     == <<"string">>                     \* name
VerifyReply       == <<"string">>                     \* message
ThreshholdRequest == <<"string">>                     \* name
ThreshholdReply   == <<"int32">>                      \* message
EncryptRequest    == <<"string", "string", "int32">>  \* cipher, salt, msg_len
EncryptReply      == <<"string">>                     \* message

Schema ==
  [HelloRequest |-> HelloRequest, HelloReply |-> HelloReply,
   OllehRequest |-> OllehRequest, OllehReply |-> OllehReply,
   ShareRequest |-> ShareRequest, ShareReply |-> ShareReply,
   VerifyRequest |-> VerifyRequest, VerifyReply |-> VerifyReply,
   ThreshholdRequest |-> ThreshholdRequest, ThreshholdReply |-> ThreshholdReply,
   EncryptRequest |-> EncryptRequest, EncryptReply |-> EncryptReply]
Class == DOMAIN Schema
Default  == [string |-> <<>>, int32 |-> 0]
WireType == [string |-> 2, int32 |-> 0]

-----------------------------------------------------------------------------
(* Varints and fields, as WireFormatLite has them.                         *)

\* n without its k - 1 lowest groups of seven bits
Above7(n) == n \div 128
Groups7(n, k) ==
  <<n, Above7(n), Above7(Above7(n)), Above7(Above7(Above7(n))),
    Above7(Above7(Above7(Above7(n))))>>[k]

VarintSize(n) ==
  CHOOSE k \in 1..5 : Groups7(n, k) < 128 /\ \A j \in 1..(k - 1) : Groups7(n, j) >= 128

\* seven bits to a byte, the lowest first; all but the last have 128 added
Varint(n) ==
  [k \in 1..VarintSize(n) |-> IF k < VarintSize(n) THEN 128 + (Groups7(n, k) % 128)
                              ELSE Groups7(n, k)]

FieldBytes(u) ==
  Varint(8 * u.num + u.type)
    \o (IF u.type = 0 THEN Varint(u.val) ELSE Varint(Len(u.val)) \o u.val)
FieldSize(u) ==
  VarintSize(8 * u.num + u.type)
    + (IF u.type = 0 THEN VarintSize(u.val) ELSE VarintSize(Len(u.val)) + Len(u.val))

\* The varint b begins with, and what follows it; none here has more than
\* five bytes
ReadVarint(b) ==
  LET ends == {i \in DOMAIN b : i <= 5 /\ b[i] < 128}
      n == CHOOSE i \in ends : \A j \in ends : i <= j
      digit(k) == IF k <= n THEN b[k] % 128 ELSE 0
  IN IF ends = {} THEN [ok |-> FALSE]
     ELSE [ok |-> TRUE, rest |-> SubSeq(b, n + 1, Len(b)),
           val |-> digit(1) + 128 * (digit(2) + 128 * (digit(3)
                     + 128 * (digit(4) + 128 * digit(5))))]

\* ReadTag and the parser of the field: a field with number 0, or one that is
\* neither a varint nor a string, ends the parse, and nothing here writes one
ReadField(b) ==
  LET tag == ReadVarint(b)
      n   == IF tag.ok THEN ReadVarint(tag.rest) ELSE tag
      num == tag.val \div 8
      type == tag.val % 8
  IN IF ~n.ok \/ num = 0 \/ type \notin {0, 2} THEN [ok |-> FALSE]
     ELSE IF type = 0
       THEN [ok |-> TRUE, field |-> [num |-> num, type |-> type, val |-> n.val],
             rest |-> n.rest]
     ELSE IF Len(n.rest) < n.val THEN [ok |-> FALSE]
     ELSE [ok |-> TRUE,
           field |-> [num |-> num, type |-> type, val |-> SubSeq(n.rest, 1, n.val)],
           rest |-> SubSeq(n.rest, n.val + 1, Len(n.rest))]

-----------------------------------------------------------------------------
(* A message: its fields, and those it does not know in the order they     *)
(* came.                                                                   *)

Clear(C) == [fields |-> [i \in DOMAIN Schema[C] |-> Default[Schema[C][i]]],
             unknown |-> <<>>]
Refused == [fields |-> <<>>, unknown |-> <<>>]

\* The i-th field, which is written unless it has its default
FieldOf(C, m, i) == [num |-> i, type |-> WireType[Schema[C][i]], val |-> m.fields[i]]
HasField(C, m, i) == m.fields[i] # Default[Schema[C][i]]

\* The known fields in the order of their numbers
KnownBytes(C, m) ==
  LET out[i \in 0..Len(Schema[C])] ==
        IF i = 0 THEN <<>>
        ELSE out[i - 1] \o (IF HasField(C, m, i) THEN FieldBytes(FieldOf(C, m, i)) ELSE <<>>)
  IN out[Len(Schema[C])]

\* The unknown ones in the order they came
UnknownBytes(us) ==
  LET out[k \in 0..Len(us)] == IF k = 0 THEN <<>> ELSE out[k - 1] \o FieldBytes(us[k])
  IN out[Len(us)]

\* Faulty variant: fields that are not known are dropped.
SerializeKnown(C, m) == KnownBytes(C, m)

InternalSerialize(C, m) == KnownBytes(C, m) \o UnknownBytes(m.unknown)

ByteSizeLong(C, m) ==
  LET known[i \in 0..Len(Schema[C])] ==
        IF i = 0 THEN 0
        ELSE known[i - 1] + (IF HasField(C, m, i) THEN FieldSize(FieldOf(C, m, i)) ELSE 0)
      unknown[k \in 0..Len(m.unknown)] ==
        IF k = 0 THEN 0 ELSE unknown[k - 1] + FieldSize(m.unknown[k])
  IN known[Len(Schema[C])] + unknown[Len(m.unknown)]

Knows(C, u) == u.num \in DOMAIN Schema[C] /\ u.type = WireType[Schema[C][u.num]]

\* One of its fields reaches a message
Take(C, m, u) ==
  IF m = Refused THEN Refused
  ELSE IF ~Knows(C, u) THEN [m EXCEPT !.unknown = Append(@, u)]
  ELSE IF u.type = 2 /\ u.val \in NotUtf8 THEN Refused
  ELSE [m EXCEPT !.fields[u.num] = u.val]

\* A pass of the loop that reads field after field, until nothing is left
ReadNext(C, at) ==
  LET next == ReadField(at.rest) IN
  IF at.rest = <<>> THEN at
  ELSE IF ~next.ok THEN [msg |-> Refused, rest |-> <<>>]
  ELSE [msg |-> Take(C, at.msg, next.field), rest |-> next.rest]

InternalParse(C, m, b) ==
  LET after[k \in 0..Len(b)] ==
        IF k = 0 THEN [msg |-> m, rest |-> b] ELSE ReadNext(C, after[k - 1])
      done == CHOOSE k \in 0..Len(b) : after[k].rest = <<>>
  IN after[done].msg
Parse(C, b) == InternalParse(C, Clear(C), b)

MergeImpl(C, to, from) ==
  [fields |-> [i \in DOMAIN Schema[C] |->
                 IF from.fields[i] # Default[Schema[C][i]] THEN from.fields[i]
                                                           ELSE to.fields[i]],
   unknown |-> to.unknown \o from.unknown]
CopyFrom(C, m) == MergeImpl(C, Clear(C), m)

-----------------------------------------------------------------------------
(* A message on its way through peers that take it for a class of theirs,  *)
(* as when they were built from another helloworld.proto.                  *)

VARIABLES
  class,  \* of the message
  made,   \* the message as its maker set it
  as,     \* the class of who has it now
  held,   \* the message he has
  hops
wireVars == <<class, made, as, held, hops>>

WireInit ==
  /\ class \in Class /\ made = Clear(class)
  /\ as = class /\ held = made
  /\ hops = 0

Values == [string |-> Texts, int32 |-> Ints]
SetField(i) ==
  /\ hops = 0 /\ i \in DOMAIN Schema[class]
  /\ \E v \in Values[Schema[class][i]] : made' = [made EXCEPT !.fields[i] = v]
  /\ held' = made'
  /\ UNCHANGED <<class, as, hops>>

Relay(C) ==
  /\ hops < MaxHops /\ held # Refused
  /\ held' = Parse(C, InternalSerialize(as, held))
  /\ as' = C /\ hops' = hops + 1
  /\ UNCHANGED <<class, made>>

Copy ==
  /\ held # Refused
  /\ held' = CopyFrom(as, held)
  /\ UNCHANGED <<class, made, as, hops>>

WireNext == Copy \/ (\E i \in 1..3 : SetField(i)) \/ (\E C \in Class : Relay(C))

-----------------------------------------------------------------------------
Readable(m) == \A i \in DOMAIN m.fields :
                 Schema[class][i] = "string" => m.fields[i] \notin NotUtf8

\* A message reaches its class as it was made, through any peers, and the
\* buffer sized by ByteSizeLong fits; it is refused if and only if a text in
\* it is no UTF-8 and somebody knew its field.
RelayedWhole ==
  held # Refused =>
    LET b == InternalSerialize(as, held) IN
      /\ ByteSizeLong(as, held) = Len(b)
      /\ Parse(class, b) = IF Readable(made) THEN made ELSE Refused

\* Cut short it is refused or has lost its last fields; behind another one
\* it is merged into it.
CutOrMerged ==
  hops = 0 /\ Readable(made) =>
    LET b == InternalSerialize(class, made) IN
      /\ \A n \in 0..Len(b) : LET p == Parse(class, SubSeq(b, 1, n)) IN
           p # Refused => \A i \in DOMAIN made.fields :
             \/ p.fields[i] = made.fields[i]
             \/ \A j \in DOMAIN made.fields :
                  j >= i => p.fields[j] = Default[Schema[class][j]]
      /\ \A v \in Texts \ NotUtf8 : Schema[class][1] = "string" =>
           LET o == [Clear(class) EXCEPT !.fields[1] = v] IN
             Parse(class, InternalSerialize(class, o) \o b) = MergeImpl(class, o, made)

\* What one peer writes, the class it was written for reads back, whatever
\* classes had it in between: nothing is lost with a field somebody did not
\* know, and sizes are those of the bytes written.
MessagesKept == RelayedWhole /\ CutOrMerged

=============================================================================
