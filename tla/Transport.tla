------------------------------ MODULE Transport ------------------------------
(***************************************************************************)
(* One direction of a TCP connection as Server/server.cpp and              *)
(* Client/client.cpp use it: send_binary over __send on one side, recv and *)
(* recv_binary over __recv on the other.  The byte stream is a counter of  *)
(* bytes written, arrived and read; what the sides agree on is where each  *)
(* field (header, CID, hash, ...) starts, so that the k-th field read is   *)
(* the k-th field written exactly when both start it at Offset[k].         *)
(***************************************************************************)
EXTENDS Integers

CONSTANTS
  N,             \* fields the sender hands to send_binary, one after the other
  Offset,        \* Offset[k]: stream offset of field k; Offset[N + 1]: the end
  Hdr,           \* the fields that are HEADERPACKETs
  AsyncBufsize,  \* ASYNC_BUFSIZE: the most one send is asked to take
  RecvMax,       \* the most one recv is asked for (ASYNC_BUFSIZE in Client)
  Window,        \* bytes the two kernel buffers hold
  SelectTries,   \* rounds of the select loop in __send (4)
  Modes          \* the programs the two ends may be: see mode

Field == 1..N

ASSUME TransportAssumption ==
  /\ N \in Nat \ {0}
  /\ Offset \in [1..(N + 1) -> Nat]
  /\ Offset[1] = 0
  /\ \A j, k \in 1..(N + 1) : j <= k => Offset[j] <= Offset[k]
  /\ Hdr \subseteq Field
  /\ \A k \in Hdr : Offset[k] < Offset[k + 1]
  /\ AsyncBufsize \in Nat \ {0}
  /\ RecvMax \in Nat \ {0}
  /\ Window \in Nat \ {0}
  /\ SelectTries \in Nat \ {0}
  /\ Modes \subseteq [noSignal : BOOLEAN, timed : BOOLEAN, service : BOOLEAN]

\* both ends take a field to have one size: the sender's copies of its queues
\* hold exactly the bytes it names in the header, which the reader reads
Size(k) == Offset[k + 1] - Offset[k]
Least(a, b) == IF a <= b THEN a ELSE b

VARIABLES
  mode,     \* noSignal: send is called with MSG_NOSIGNAL (Server), or not;
            \* timed: p->timeout > 0, so that __recv waits in select first;
            \* service: headers are read by a service loop, which selects
            \* before its recv; test_share_req calls recv alone
  link,     \* "up", "sndClosed", "rcvClosed" (peer's close unseen), "reset"
  sent,     \* bytes send took from the sender
  arrived,  \* of those, bytes that reached the receiver's kernel
  rcvd,     \* of those, bytes recv handed to the receiver
  sPc,      \* "call" (before send_binary), "select", "done", "killed"
  si,       \* field being sent
  nSize,    \* nSize of send_binary: bytes of the field still to send
  tries,    \* i of __send
  sRet,     \* what send_binary returned for each field
  rPc,      \* "call" (before recv / recv_binary), "select", "done", or "lost":
            \* its service loop ended or took something else for a header
  ri,       \* field being read
  remain,   \* remainbytes of recv_binary
  rRet      \* what reading each field returned; "SHORT": part of a header

sVars == <<sPc, si, nSize, tries, sRet>>
rVars == <<rPc, ri, remain, rRet>>
transportVars ==
  <<mode, link, sent, arrived, rcvd, sPc, si, nSize, tries, sRet,
    rPc, ri, remain, rRet>>

Room == Window - (sent - rcvd)

TransportInit ==
  /\ mode \in Modes
  /\ link = "up" /\ sent = 0 /\ arrived = 0 /\ rcvd = 0
  /\ sPc = "call" /\ si = 1 /\ nSize = 0 /\ tries = 0
  /\ sRet = [k \in Field |-> "none"]
  /\ rPc = "call" /\ ri = 1 /\ remain = 0
  /\ rRet = [k \in Field |-> "none"]

-----------------------------------------------------------------------------
(* The sender: the loop of send_binary around the loop of __send.          *)

\* send_binary returns r for field si; a header that fails ends the caller's
\* loop, any other failure is only printed
SendReturns(r) ==
  /\ sRet' = [sRet EXCEPT ![si] = r]
  /\ si' = si + 1
  /\ nSize' = 0
  /\ tries' = 0
  /\ sPc' = IF si = N \/ (r = "FALSE" /\ si \in Hdr) THEN "done" ELSE "call"

\* send_binary is entered: nSize is the size of the field
SendCall ==
  /\ sPc = "call"
  /\ sPc' = "select"
  /\ nSize' = Size(si)
  /\ tries' = 0
  /\ UNCHANGED <<link, sent, arrived, rcvd, si, sRet, rVars>>

\* select finds no room for 5 seconds; after SelectTries rounds res is 0
SelectTimesOut ==
  /\ sPc = "select"
  /\ link # "reset"
  /\ Room <= 0
  /\ IF tries + 1 < SelectTries
       THEN tries' = tries + 1 /\ UNCHANGED <<sPc, si, nSize, sRet>>
       ELSE SendReturns("FALSE")
  /\ UNCHANGED <<link, sent, arrived, rcvd, rVars>>

\* Faulty variant: what send was offered is counted, not what it took.
SendCountsOffered ==
  /\ sPc = "select" /\ link # "reset"
  /\ \E n \in 1..Least(Least(AsyncBufsize, nSize), Room) :
       /\ sent' = sent + n
       /\ IF nSize <= AsyncBufsize
            THEN SendReturns("TRUE")
            ELSE /\ nSize' = nSize - AsyncBufsize
                 /\ tries' = 0
                 /\ UNCHANGED <<sPc, si, sRet>>
  /\ UNCHANGED <<link, arrived, rcvd, rVars>>

\* send takes n of the MIN(ASYNC_BUFSIZE, nSize) bytes it was offered
SendChunk ==
  /\ sPc = "select"
  /\ link # "reset"
  /\ \E n \in 1..Least(Least(AsyncBufsize, nSize), Room) :
       /\ sent' = sent + n
       /\ IF n = nSize
            THEN SendReturns("TRUE")
            ELSE /\ nSize' = nSize - n
                 /\ tries' = 0
                 /\ UNCHANGED <<sPc, si, sRet>>
  /\ UNCHANGED <<link, arrived, rcvd, rVars>>

\* an empty field: send is asked for 0 bytes, returns 0, and 0 is an error
SendEmpty ==
  /\ sPc = "select"
  /\ link # "reset"
  /\ Room > 0
  /\ nSize = 0
  /\ SendReturns("FALSE")
  /\ UNCHANGED <<link, sent, arrived, rcvd, rVars>>

\* the peer reset the connection: send fails, and without MSG_NOSIGNAL the
\* SIGPIPE it raises ends the process
SendError ==
  /\ sPc = "select"
  /\ link = "reset"
  /\ IF mode.noSignal
       THEN SendReturns("FALSE")
       ELSE sPc' = "killed" /\ UNCHANGED <<si, nSize, tries, sRet>>
  /\ UNCHANGED <<link, sent, arrived, rcvd, rVars>>

Sender == SendCall \/ SelectTimesOut \/ SendChunk \/ SendEmpty \/ SendError

-----------------------------------------------------------------------------
(* The receiver: one recv for a header, recv_binary for every other field. *)

ReadReturns(r) ==
  /\ rRet' = [rRet EXCEPT ![ri] = r]
  /\ ri' = ri + 1
  /\ remain' = 0
  /\ rPc' = IF ri = N THEN "done" ELSE "call"

\* recv_binary(size 0) never enters its loop; any other read waits for bytes
ReadCall ==
  /\ rPc = "call"
  /\ IF Size(ri) = 0 /\ ri \notin Hdr
       THEN ReadReturns("TRUE")
       ELSE rPc' = "select" /\ remain' = Size(ri) /\ UNCHANGED <<ri, rRet>>
  /\ UNCHANGED <<link, sent, arrived, rcvd, sVars>>

\* the handler named by a header that is not one is another handler, or none
ReadLost(r) ==
  /\ rPc' = "lost"
  /\ rRet' = [rRet EXCEPT ![ri] = r]
  /\ UNCHANGED <<ri, remain>>

\* Faulty variant: one recv is taken for the whole field.
TakeOnce(n) == ri \notin Hdr /\ ReadReturns("TRUE")

\* recv_binary takes n bytes of remainbytes and goes on until none remain
TakePayload(n) ==
  /\ ri \notin Hdr
  /\ IF n = remain
       THEN ReadReturns("TRUE")
       ELSE remain' = remain - n /\ UNCHANGED <<rPc, ri, rRet>>

\* the service loop takes whatever its one recv returned for a HEADERPACKET
TakeHeader(n) ==
  LET r == IF n = remain THEN "TRUE" ELSE "SHORT" IN
  /\ ri \in Hdr
  /\ \/ ReadReturns(r)
     \/ (n # remain \/ rcvd # Offset[ri]) /\ ReadLost(r)

RecvChunk ==
  /\ rPc = "select"
  /\ \E n \in 1..Least(Least(RecvMax, remain), arrived - rcvd) :
       /\ rcvd' = rcvd + n
       /\ TakePayload(n) \/ TakeHeader(n)
  /\ UNCHANGED <<link, sent, arrived, sVars>>

\* select stands before the recv: the service loops wait for a header with
\* one, __recv only when the port has a timeout
Bounded == IF ri \in Hdr THEN mode.service ELSE mode.timed

\* the sender closed and everything it sent was read: recv returns 0
EndOfStream == link = "sndClosed" /\ sent = rcvd

\* Faulty variant: only a negative result of recv is an error, so that the
\* loop spins on a peer that closed.
RecvIgnoresClose ==
  /\ rPc = "select" /\ arrived = rcvd /\ Bounded /\ ~EndOfStream
  /\ IF ri \in Hdr THEN ReadLost("FALSE") ELSE ReadReturns("FALSE")
  /\ UNCHANGED <<link, sent, arrived, rcvd, sVars>>

\* nothing arrives for p->timeout seconds (10 before a header), or the peer
\* closed: recv_binary returns FALSE, which no caller acts on; the service
\* loop instead ends, and test_share_req takes the zeros of its buffer for
\* the header.  Without a select only the close ends the wait
RecvFails ==
  /\ rPc = "select"
  /\ arrived = rcvd
  /\ Bounded \/ EndOfStream
  /\ IF ri \in Hdr
       THEN ReadLost("FALSE")
       ELSE ReadReturns("FALSE")
  /\ UNCHANGED <<link, sent, arrived, rcvd, sVars>>

Receiver == ReadCall \/ RecvChunk \/ RecvFails

-----------------------------------------------------------------------------
(* The network and the ends of the connection.                             *)

Arrive ==
  /\ link \in {"up", "sndClosed"}
  /\ \E n \in (arrived + 1)..sent : arrived' = n
  /\ UNCHANGED <<link, sent, rcvd, sVars, rVars>>

\* the sender's process ends or calls close
SenderCloses ==
  /\ link = "up"
  /\ sPc \in {"done", "killed"}
  /\ link' = "sndClosed"
  /\ UNCHANGED <<sent, arrived, rcvd, sVars, rVars>>

\* the receiver's thread closes its socket (SERVICE_DONE)
ReceiverCloses ==
  /\ link = "up"
  /\ rPc \in {"done", "lost"}
  /\ link' = "rcvClosed"
  /\ UNCHANGED <<sent, arrived, rcvd, sVars, rVars>>

\* the reset that answers data sent after that close reaches the sender
Reset ==
  /\ link = "rcvClosed"
  /\ link' = "reset"
  /\ UNCHANGED <<sent, arrived, rcvd, sVars, rVars>>

TransportNext ==
  /\ UNCHANGED mode
  /\ \/ Sender \/ Receiver
     \/ Arrive \/ SenderCloses \/ ReceiverCloses \/ Reset

TransportSpec ==
  /\ TransportInit /\ [][TransportNext]_transportVars
  /\ WF_transportVars(Sender /\ UNCHANGED mode)
  /\ WF_transportVars(Receiver /\ UNCHANGED mode)
  /\ WF_transportVars(Arrive /\ UNCHANGED mode)

-----------------------------------------------------------------------------
(* Properties.                                                             *)

\* every variable has the type the code gives it; the network neither makes
\* up bytes nor holds more than its buffers
TransportTypeOK ==
  /\ mode \in Modes
  /\ link \in {"up", "sndClosed", "rcvClosed", "reset"}
  /\ sent \in Nat /\ arrived \in Nat /\ rcvd \in Nat
  /\ sPc \in {"call", "select", "done", "killed"}
  /\ si \in 1..(N + 1) /\ nSize \in Nat /\ tries \in 0..(SelectTries - 1)
  /\ sRet \in [Field -> {"none", "TRUE", "FALSE"}]
  /\ rPc \in {"call", "select", "done", "lost"}
  /\ ri \in 1..(N + 1) /\ remain \in Nat
  /\ rRet \in [Field -> {"none", "TRUE", "SHORT", "FALSE"}]

SendFailed == \E k \in Field : sRet[k] = "FALSE"
ReadFailed == \E k \in Field : rRet[k] \in {"SHORT", "FALSE"}

\* stream offsets at which the two sides stand
SendAt ==
  Offset[si] + (IF sPc \in {"select", "killed"} THEN Size(si) - nSize ELSE 0)
ReadAt ==
  Offset[ri] + (IF rPc = "select" THEN Size(ri) - remain ELSE 0)

\* as long as no call failed, each side has moved exactly the bytes of the
\* fields it finished and of the part of the current one it counted: the
\* k-th recv_binary fills its buffer with the bytes of the k-th send_binary
\* (partial sends and receives of send_binary / recv_binary lose nothing)
SendAligned == ~SendFailed => sent = SendAt
ReadAligned == ~ReadFailed => rcvd = ReadAt
StreamAligned == SendAligned /\ ReadAligned

\* once every field, header included, was read successfully, every field
\* that holds anything was sent successfully: no send_binary can have failed
\* on the way and been papered over by the bytes of a later field
AllReadMeansAllSent ==
  (\A k \in Field : rRet[k] = "TRUE") =>
    \A k \in Field : Size(k) > 0 => sRet[k] = "TRUE"

SenderEnded == sPc \in {"done", "killed"}
ReaderEnded == rPc \in {"done", "lost"}

\* a recv with no select before it, at a peer that will send no more and has
\* not closed: it never returns
WaitsForEver ==
  /\ rPc = "select" /\ ~Bounded
  /\ SenderEnded /\ link = "up" /\ sent = rcvd

\* the sending thread comes to an end, for select bounds every wait of __send;
\* so does the reading thread, unless it stands for good in a recv no select
\* precedes (test_share_req's header, or a port whose timeout is 0) while the
\* peer, done sending, keeps the connection open
BothEnd == <>SenderEnded /\ (<>ReaderEnded \/ <>[]WaitsForEver)

\* what the two safety properties rest on.  A side never moved more than its
\* calls account for, a sender that failed a field that holds anything moved
\* less, and no call of either side was decided before it was made
Conserved == rcvd <= arrived /\ arrived <= sent

SenderInv ==
  /\ sPc \in {"call", "select", "killed"} => si <= N
  /\ sPc \in {"select", "killed"} =>
       nSize <= Size(si) /\ (Size(si) > 0 => nSize > 0)
  /\ \A k \in Field : (sRet[k] = "none") <=> (k >= si)
  /\ sent <= SendAt
  /\ (\E k \in Field : sRet[k] = "FALSE" /\ Size(k) > 0) => sent < SendAt
  /\ SendAligned

ReceiverInv ==
  /\ rPc \in {"call", "select", "lost"} => ri <= N
  /\ rPc = "select" => remain > 0 /\ remain <= Size(ri)
  /\ rPc = "select" /\ ri \in Hdr => remain = Size(ri)
  /\ rPc = "lost" => ReadFailed
  /\ rPc # "lost" => \A k \in Field : (rRet[k] = "none") <=> (k >= ri)
  /\ ReadAligned

TransportInv == TransportTypeOK /\ Conserved /\ SenderInv /\ ReceiverInv

\* the abstract stream of whole fields that the two loops implement
FS == INSTANCE FieldStream
        WITH Empty <- {k \in Field : Size(k) = 0},
             put <- si - 1, got <- ri - 1, failed <- (SendFailed \/ ReadFailed)
ImplementsFieldStream == FS!Spec

=============================================================================
