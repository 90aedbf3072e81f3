------------------------------ MODULE Algorithms ------------------------------
(***************************************************************************)
(* The sequential helpers of the repository, one of them at a time: the    *)
(* SHA-256 of the Merkle tree, the tree, the file encoding tool, the       *)
(* messages of the greeter service, and the Base64 coders on a message     *)
(* that grows byte by byte and whose text may arrive cut short.            *)
(***************************************************************************)
EXTENDS Sha256, MerkleTree, FileTool, Wire

CONSTANTS
  MsgBytes,   \* bytes of which messages are made
  MsgLength,  \* bound: their length
  LineLen     \* characters of a line of BIO_f_base64 (64)

ASSUME AlgorithmsAssumption ==
  MsgBytes \subseteq 0..255 /\ MsgLength \in Nat /\ LineLen \in Nat \ {0}

VARIABLES
  helper,  \* the one this behaviour is about
  msg,     \* a message to be coded
  cut      \* characters missing at the end of its text
coderVars == <<msg, cut>>
vars == <<helper, coderVars, shaVars, treeVars, fileVars, wireVars>>

Init ==
  /\ helper \in {"sha256", "tree", "file", "wire", "coders"}
  /\ msg = <<>> /\ cut = 0
  /\ HashInit
  /\ IF helper = "tree" THEN TreeInit ELSE TreeInit /\ leaves = 0
  /\ IF helper = "file" THEN FileInit
     ELSE FileInit /\ file = CHOOSE f \in Files : TRUE
  /\ IF helper = "wire" THEN WireInit ELSE WireInit /\ class = "HelloReply"

Feed(b) ==
  /\ Len(msg) < MsgLength /\ cut = 0
  /\ msg' = Append(msg, b) /\ UNCHANGED cut
CutShort == cut < Len(BioEncode(msg)) /\ cut' = cut + 1 /\ UNCHANGED msg

Next ==
  /\ UNCHANGED helper
  /\ \/ /\ helper = "sha256" /\ HashNext
        /\ UNCHANGED <<coderVars, treeVars, fileVars, wireVars>>
     \/ /\ helper = "tree" /\ TreeNext
        /\ UNCHANGED <<coderVars, shaVars, fileVars, wireVars>>
     \/ /\ helper = "file" /\ FileNext
        /\ UNCHANGED <<coderVars, shaVars, treeVars, wireVars>>
     \/ /\ helper = "wire" /\ WireNext
        /\ UNCHANGED <<coderVars, shaVars, treeVars, fileVars>>
     \/ /\ helper = "coders" /\ (CutShort \/ \E b \in MsgBytes : Feed(b))
        /\ UNCHANGED <<shaVars, treeVars, fileVars, wireVars>>

Spec == Init /\ [][Next]_vars

-----------------------------------------------------------------------------
Arrived(t) == SubSeq(t, 1, Len(t) - cut)

Inverted ==
  /\ \A t \in {BEncode(msg), HEncode(msg), CEncode(msg), BioEncode(msg)} :
       \A out \in {BDecode(Arrived(t)), HDecode(Arrived(t)), CDecode(Arrived(t)),
                   HDecode(Posted(Arrived(t))), FDecode(Arrived(t)).whole} :
         IF cut = 0 THEN out = msg ELSE SubSeq(msg, 1, Len(out)) = out
  /\ LET t == FEncode(msg) IN
       cut = 0 => \A out \in {BDecode(t), HDecode(t), CDecode(t), FDecode(t).whole} :
                    out = UpToNul(msg)
RoomToDecode ==
  \A t \in {BioEncode(msg), BioLines(msg, LineLen)} :
    t # <<>> => DecodeLength(t) >= Len(msg) /\ BioDecodeRoom(t) >= Len(msg)

\* Whatever encoder made a text, every decoder gives back the message: those
\* that handle any bytes any message, encode and decode of the file tool one
\* without zeros.  Of a text cut short, they give back a prefix.  The buffers
\* that verify.cpp and test_bs64_2.cc size before they decode hold the
\* message, with or without line breaks in the text.
CodersInvert == Inverted /\ RoomToDecode

=============================================================================
