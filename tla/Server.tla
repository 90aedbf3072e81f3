-------------------------------- MODULE Server --------------------------------
(***************************************************************************)
(* The process of Server/server.cpp: listenThd accepts connections and     *)
(* starts a ClientServiceThread for each; the thread reads headers from    *)
(* its own socket and lets cmd_parser run the handler of the command with  *)
(* a copy of the one IO_PORT that listenThd overwrites at every accept.    *)
(* Handlers share one response header, for_res_packet.                     *)
(*                                                                         *)
(* A connection is a pair of streams of units: one unit per HEADERPACKET   *)
(* and per field that recv_binary or send_binary moves (Transport shows    *)
(* what those two do with the bytes).  A read that does not find the unit  *)
(* it is for takes what is there: any number of whole units, and it may    *)
(* stop inside one.  A request is known by its connection, its number      *)
(* there and its command; number 0 marks a header that nobody sent: bytes  *)
(* of something else, or the zeros of an empty buf.                        *)
(***************************************************************************)
EXTENDS Integers, Sequences

CONSTANTS
  Conn,      \* connections clients make, each served by one thread
  NoConn,    \* marks a descriptor that is not open
  Fd,        \* socket descriptors
  Settings,  \* what the clients may be like
  MaxBites,  \* bound: reads that end inside one and the same unit
  RetryCnt   \* retry_cnt: reads of nothing before a thread gives up (5)

\* the codes of parser_desp, and any other value of the byte
Command == {"PUBKEY_REQ", "PUBKEY_RES", "VIDEO_DATA_SND", "VIDEO_DATA_RES",
            "VER_REQ", "VER_RES", "VER_2_PROV", "PROV_RES", "HI_I_M",
            "NICE_2_MEET_U", "GEN_AES", "SHARE_REQ", "SHARE_RES",
            "ANO_SHARE_REQ", "ANO_SHARE_RES", "TEST_CMD", "TEST_GEN_SHARES",
            "GEN_SHARE_RES", "TEST_SHARE_REQ", "TEST_SHARE_RES", "unknown"}

ASSUME ServerAssumption ==
  /\ NoConn \notin Conn
  /\ Fd \subseteq Nat \ {0}
  /\ Settings \subseteq
       [serial  : BOOLEAN,        \* whether clients come one after the other
        script  : [Conn -> Seq(SUBSET (Command \ {"unknown"}))],
                                  \* what each may send, request by request;
                                  \* one with nothing to send stays away
        misread : SUBSET Command, \* what bytes of a payload may look like
        lossy   : BOOLEAN,        \* whether a client's send_binary may fail
        short   : BOOLEAN]        \* whether a header may come in two pieces
  /\ MaxBites \in Nat \ {0}
  /\ RetryCnt \in Nat

Request == [conn : Conn, n : Nat, cmd : Command]
Unit == [kind : {"hdr", "pay", "part"}, req : Request, i : 0..4]
Reply == [kind : {"hdr", "body"}, req : Request, by : Request]

Junk(c, cmd) == [conn |-> c, n |-> 0, cmd |-> cmd]

\* the header of a request, its i-th field, and what is left of either when
\* send_binary fails in the middle
Header(r)   == [kind |-> "hdr", req |-> r, i |-> 0]
FieldOf(r, i) == [kind |-> "pay", req |-> r, i |-> i]
Part(r)     == [kind |-> "part", req |-> r, i |-> 0]

\* fields a client sends after the header of a command: those its handler
\* reads, and for GEN_AES the one client_test sends and generate_aes ignores
Fields(cmd) ==
  CASE cmd \in {"VIDEO_DATA_SND", "ANO_SHARE_RES"} -> 4
    [] cmd \in {"PUBKEY_REQ", "PUBKEY_RES", "GEN_AES", "SHARE_REQ", "SHARE_RES",
                "ANO_SHARE_REQ", "TEST_CMD", "TEST_GEN_SHARES"} -> 1
    [] OTHER -> 0

Message(r) ==
  [k \in 1..(1 + Fields(r.cmd)) |-> IF k = 1 THEN Header(r) ELSE FieldOf(r, k - 1)]

\* Faulty variants: the header is sent before it is made; a video is
\* acknowledged before it is stored; its handler reads a field too many.
HandlerHeadFirst(cmd) ==
  CASE cmd \in {"HI_I_M", "TEST_SHARE_REQ"} -> <<"head", "make">>
    [] cmd = "SHARE_REQ"                   -> <<"read", "db", "head", "make", "body">>
    [] OTHER             -> <<>>

HandlerAckFirst(cmd) ==
  CASE cmd = "VIDEO_DATA_SND" -> <<"skim", "skim", "skim", "skim", "make", "head", "db">>
    [] OTHER                  -> <<>>

HandlerFieldTooMany(cmd) ==
  CASE cmd = "VIDEO_DATA_SND" -> <<"skim", "skim", "skim", "skim", "skim", "make", "head">>
    [] OTHER                  -> <<>>

\* what each callback of parser_desp does, one call after the other:
\*   read  recv_binary, a failure ends the handler with -1
\*   skim  recv_binary, its result unused
\*   db    the calls that change the database, the shares or a file
\*   make  make_res_Packet        head  send_binary of for_res_packet
\*   body  send_binary of what follows it
Handler(cmd) ==
  CASE cmd = "HI_I_M"          -> <<"make", "head">>
    [] cmd \in {"PUBKEY_REQ", "SHARE_REQ", "ANO_SHARE_REQ"} ->
         <<"read", "db", "make", "head", "body">>
    [] cmd = "VIDEO_DATA_SND"  -> <<"skim", "skim", "skim", "skim", "make", "db", "head">>
    [] cmd = "GEN_AES"         -> <<"db">>
    [] cmd \in {"TEST_CMD", "TEST_GEN_SHARES"} -> <<"read", "db">>
    [] cmd \in {"PUBKEY_RES", "SHARE_RES"}     -> <<"read">>
    [] cmd = "ANO_SHARE_RES"   -> <<"read", "read", "read", "read">>
    [] cmd = "TEST_SHARE_REQ"  -> <<"make", "head", "body">>
    [] OTHER                   -> <<>>

Reading == {"read", "skim"}

\* handlers whose statements the database may refuse without a word, those
\* that read a result without asking whether there is one, and those whose
\* function ends without a return
Updating == {"PUBKEY_REQ", "VIDEO_DATA_SND", "GEN_AES", "SHARE_REQ"}
Selecting == {"PUBKEY_REQ", "SHARE_REQ", "ANO_SHARE_REQ"}
Returnless == {"TEST_SHARE_REQ", "TEST_SHARE_RES"}

VARIABLES
  setting,  \* the clients of this run, one of Settings
  up,       \* the process is alive
  sock,     \* the connection behind each open descriptor
  portS,    \* thisThd->port.s, shared by listenThd and every thread
  res,      \* for_res_packet: the request it answers
  cl,       \* a client's end: "new", "queued", "open", "closed", "reset"
  nreq,     \* requests a client has begun
  pend,     \* units a client has still to send
  in,       \* units on their way to the server
  bites,    \* reads that ended inside the unit the stream begins with
  out,      \* units the client was sent
  pc,       \* a thread: "none", "start", "select", "recv", "dispatch",
            \* "handler", "done"
  fd,       \* fd_socket of the thread
  retry,    \* retry_cnt of the thread
  hdr,      \* the header in the thread's buf, as the request it names
  hport,    \* s of the IO_PORT copied into cmd_parser
  ip,       \* call of the handler the thread is at
  got,      \* requests whose units the handler took for its payload
  handled,  \* requests dispatched
  stored,   \* requests whose database calls were made and taken
  refused,  \* requests of which the database refused a statement
  torn      \* requests of which a unit was not sent whole, or a field not read

clientVars == <<cl, nreq, pend>>
threadVars == <<pc, fd, retry, hdr, hport, ip, got>>
dbVars == <<stored, refused>>
vars == <<setting, up, sock, portS, res, cl, nreq, pend, in, bites, out,
          pc, fd, retry, hdr, hport, ip, got, handled, stored, refused, torn>>

NoFd == 0
Program(c) == Handler(hdr[c].cmd)
Live(c) == pc[c] \notin {"none", "done"}
Attached(c) == \E f \in Fd : sock[f] = c
Busy(c) == cl[c] = "queued" \/ Live(c) \/ Attached(c)

\* what the descriptor f leads to; descriptors are not reused while open
Peer(f) == IF f \in Fd THEN sock[f] ELSE NoConn

Init ==
  /\ setting \in Settings
  /\ up = TRUE
  /\ sock = [f \in Fd |-> NoConn]
  /\ portS = NoFd
  /\ res \in {Junk(c, "unknown") : c \in Conn}
  /\ cl = [c \in Conn |-> "new"]
  /\ nreq = [c \in Conn |-> 0]
  /\ pend = [c \in Conn |-> <<>>]
  /\ in = [c \in Conn |-> <<>>]
  /\ bites = [c \in Conn |-> 0]
  /\ out = [c \in Conn |-> <<>>]
  /\ pc = [c \in Conn |-> "none"]
  /\ fd = [c \in Conn |-> NoFd]
  /\ retry = [c \in Conn |-> RetryCnt]
  /\ hdr = [c \in Conn |-> Junk(c, "unknown")]
  /\ hport = [c \in Conn |-> NoFd]
  /\ ip = [c \in Conn |-> 1]
  /\ got = [c \in Conn |-> {}]
  /\ handled = {}
  /\ stored = {}
  /\ refused = {}
  /\ torn = {}

-----------------------------------------------------------------------------
(* Clients and the network.                                                *)

\* a client connects; in serial order, only once the one before it is gone
Connect(c) ==
  /\ cl[c] = "new" /\ setting.script[c] # <<>>
  /\ setting.serial => \A d \in Conn : ~Busy(d)
  /\ cl' = [cl EXCEPT ![c] = "queued"]
  /\ UNCHANGED <<up, sock, portS, res, nreq, pend, in, bites, out, threadVars,
                 handled, dbVars, torn>>

\* a client begins a request; its units leave one by one
Issue(c) ==
  /\ cl[c] = "open" /\ pend[c] = <<>> /\ nreq[c] < Len(setting.script[c])
  /\ \E cmd \in setting.script[c][nreq[c] + 1] :
       pend' = [pend EXCEPT ![c] =
                  Message([conn |-> c, n |-> nreq[c] + 1, cmd |-> cmd])]
  /\ nreq' = [nreq EXCEPT ![c] = @ + 1]
  /\ UNCHANGED <<up, sock, portS, res, cl, in, bites, out, threadVars,
                 handled, dbVars, torn>>

Deliver(c) ==
  /\ cl[c] = "open" /\ pend[c] # <<>>
  /\ in' = [in EXCEPT ![c] = Append(@, Head(pend[c]))]
  /\ pend' = [pend EXCEPT ![c] = Tail(@)]
  /\ UNCHANGED <<up, sock, portS, res, cl, nreq, bites, out, threadVars,
                 handled, dbVars, torn>>

\* send_binary fails: nothing of the unit has left, or a part of it.  The
\* client says so and goes on with the next field; only a video whose header
\* fails is given up
LoseField(c) ==
  /\ setting.lossy /\ cl[c] = "open" /\ pend[c] # <<>>
  /\ LET u == Head(pend[c]) IN
       /\ \/ UNCHANGED in
          \/ in' = [in EXCEPT ![c] = Append(@, Part(u.req))]
       /\ pend' = [pend EXCEPT ![c] =
                     IF u.kind = "hdr" /\ u.req.cmd = "VIDEO_DATA_SND"
                       THEN <<>> ELSE Tail(@)]
       /\ torn' = torn \cup {u.req}
  /\ UNCHANGED <<up, sock, portS, res, cl, nreq, bites, out, threadVars,
                 handled, dbVars>>

\* the client closes, or its end is cut off: what was under way is discarded
Leave(c) ==
  /\ cl[c] = "open"
  /\ \/ cl' = [cl EXCEPT ![c] = "closed"] /\ UNCHANGED <<in, bites>>
     \/ /\ cl' = [cl EXCEPT ![c] = "reset"]
        /\ in' = [in EXCEPT ![c] = <<>>]
        /\ bites' = [bites EXCEPT ![c] = 0]
  /\ UNCHANGED <<up, sock, portS, res, nreq, pend, out, threadVars,
                 handled, dbVars, torn>>

-----------------------------------------------------------------------------
(* listenThd.                                                              *)

\* accept, the stores to thisThd->port and pthread_create.  They are one step
\* because what other threads do between them they could as well do before
\* or after.  If the thread cannot be created, the port stays overwritten
Accept(c) ==
  /\ up /\ cl[c] = "queued"
  /\ \E f \in Fd :
       /\ sock[f] = NoConn
       /\ \A g \in Fd : sock[g] = NoConn => f <= g
       /\ portS' = f
       /\ \/ /\ sock' = [sock EXCEPT ![f] = c]
             /\ cl' = [cl EXCEPT ![c] = "open"]
             /\ pc' = [pc EXCEPT ![c] = "start"]
          \/ /\ cl' = [cl EXCEPT ![c] = "closed"]
             /\ UNCHANGED <<sock, pc>>
  /\ UNCHANGED <<up, res, nreq, pend, in, bites, out, fd, retry, hdr, hport, ip,
                 got, handled, dbVars, torn>>

-----------------------------------------------------------------------------
(* ClientServiceThread of connection c.                                    *)

\* Faulty variant: the thread ends without closing its socket.
ServiceDoneLeaks(c) ==
  pc' = [pc EXCEPT ![c] = "done"] /\ UNCHANGED <<sock, cl>>

\* closesocket(fd_socket), whatever the descriptor stands for by now
ServiceDone(c) ==
  /\ pc' = [pc EXCEPT ![c] = "done"]
  /\ sock' = [f \in Fd |-> IF f = fd[c] THEN NoConn ELSE sock[f]]
  /\ cl' = [d \in Conn |-> IF d = Peer(fd[c]) THEN "closed" ELSE cl[d]]

\* the loop begins again: buf is zeroed, and what the handler had is gone
Loop(c) ==
  /\ pc' = [pc EXCEPT ![c] = "select"]
  /\ hdr' = [hdr EXCEPT ![c] = Junk(c, "unknown")]
  /\ hport' = [hport EXCEPT ![c] = NoFd]
  /\ ip' = [ip EXCEPT ![c] = 1]
  /\ got' = [got EXCEPT ![c] = {}]

\* clientThd->timeout = 30; fd_socket = clientThd->s
Start(c) ==
  /\ up /\ pc[c] = "start"
  /\ fd' = [fd EXCEPT ![c] = portS]
  /\ pc' = [pc EXCEPT ![c] = "select"]
  /\ UNCHANGED <<up, sock, portS, res, clientVars, in, bites, out, retry, hdr,
                 hport, ip, got, handled, dbVars, torn>>

\* Faulty variant: an idle connection is kept.
SelectTimeoutIgnored(c) == FALSE /\ UNCHANGED vars

\* nothing to read for 10 seconds
SelectTimeout(c) ==
  /\ up /\ pc[c] = "select"
  /\ \E d \in Conn : d = Peer(fd[c]) /\ in[d] = <<>> /\ cl[d] = "open"
  /\ ServiceDone(c)
  /\ UNCHANGED <<up, portS, res, nreq, pend, in, bites, out, fd, retry, hdr,
                 hport, ip, got, handled, dbVars, torn>>

\* something to read, the end of the stream or an error: the -1 of select is
\* 255 in a uint8_t and goes the same way
SelectReady(c) ==
  /\ up /\ pc[c] = "select"
  /\ \/ Peer(fd[c]) = NoConn
     \/ \E d \in Conn : d = Peer(fd[c]) /\ (in[d] # <<>> \/ cl[d] # "open")
  /\ pc' = [pc EXCEPT ![c] = "recv"]
  /\ UNCHANGED <<up, sock, portS, res, clientVars, in, bites, out, fd, retry,
                 hdr, hport, ip, got, handled, dbVars, torn>>

\* recv of a header; any result but 0 leaves the loop with retry_cnt = 5
Received(c, r) ==
  /\ hdr' = [hdr EXCEPT ![c] = r]
  /\ retry' = [retry EXCEPT ![c] = RetryCnt]
  /\ pc' = [pc EXCEPT ![c] = "dispatch"]

\* -1 is 255 in a uint8_t: the zeroed buf is taken for a header
RecvError(c) ==
  /\ up /\ pc[c] = "recv"
  /\ \/ Peer(fd[c]) = NoConn /\ UNCHANGED cl
     \/ \E d \in Conn : /\ d = Peer(fd[c]) /\ cl[d] = "reset"
                        /\ cl' = [cl EXCEPT ![d] = "closed"]
  /\ Received(c, Junk(c, "unknown"))
  /\ UNCHANGED <<up, sock, portS, res, nreq, pend, in, bites, out, fd, hport,
                 ip, got, handled, dbVars, torn>>

\* a read takes the bytes of k units and, if b is not 0, some of the next,
\* which b reads have then ended in
Bite(d, k, b) ==
  /\ IF k = 0 THEN b = bites[d] + 1 ELSE b = 0 \/ (b = 1 /\ k < Len(in[d]))
  /\ in' = [in EXCEPT ![d] = SubSeq(@, k + 1, Len(@))]
  /\ bites' = [bites EXCEPT ![d] = b]

Bitten(d, k, b) == {in[d][i].req : i \in 1..(IF b = 0 THEN k ELSE k + 1)}

WholeHeader(d) == bites[d] = 0 /\ Head(in[d]).kind = "hdr"

\* the commands the bytes that were read may be taken for: a header that is
\* cut short has its command or not
Guess(d) ==
  IF WholeHeader(d) THEN {Head(in[d]).req.cmd, "unknown"} ELSE setting.misread

\* the whole header; or less of it, or bytes of something else, which are
\* taken for a header all the same
RecvHeader(c) ==
  /\ up /\ pc[c] = "recv"
  /\ \E d \in Conn :
       /\ d = Peer(fd[c]) /\ in[d] # <<>>
       /\ \/ /\ WholeHeader(d)
             /\ Received(c, Head(in[d]).req)
             /\ in' = [in EXCEPT ![d] = Tail(@)]
             /\ UNCHANGED bites
          \/ \E k \in 0..Len(in[d]), b \in 0..MaxBites :
               /\ WholeHeader(d) => setting.short /\ k = 0
               /\ Bite(d, k, b)
               /\ \E cmd \in Guess(d) : Received(c, Junk(d, cmd))
  /\ UNCHANGED <<up, sock, portS, res, clientVars, out, fd, hport, ip, got,
                 handled, dbVars, torn>>

\* recv returns 0: the peer closed and everything it sent was read
RecvNothing(c) ==
  /\ up /\ pc[c] = "recv"
  /\ \E d \in Conn : d = Peer(fd[c]) /\ in[d] = <<>> /\ cl[d] = "closed"
  /\ IF retry[c] = 0
       THEN ServiceDone(c) /\ UNCHANGED retry
       ELSE /\ retry' = [retry EXCEPT ![c] = @ - 1]
            /\ UNCHANGED <<pc, sock, cl>>
  /\ UNCHANGED <<up, portS, res, nreq, pend, in, bites, out, fd, hdr, hport, ip,
                 got, handled, dbVars, torn>>

\* cmd_parser finds no callback and returns -1; the message that reports it
\* prints the descriptor with %s, which may end the process
DispatchUnknown(c) ==
  /\ up /\ pc[c] = "dispatch" /\ hdr[c].cmd = "unknown"
  /\ \/ up' = FALSE /\ UNCHANGED <<pc, hdr, hport, ip, got>>
     \/ Loop(c) /\ UNCHANGED up
  /\ UNCHANGED <<sock, portS, res, clientVars, in, bites, out, fd, retry,
                 handled, dbVars, torn>>

\* cmd_parser(*clientThd, buf): the shared port is copied now
Dispatch(c) ==
  /\ up /\ pc[c] = "dispatch" /\ hdr[c].cmd # "unknown"
  /\ hport' = [hport EXCEPT ![c] = portS]
  /\ ip' = [ip EXCEPT ![c] = 1]
  /\ got' = [got EXCEPT ![c] = {}]
  /\ pc' = [pc EXCEPT ![c] = "handler"]
  /\ handled' = handled \cup {hdr[c]}
  /\ UNCHANGED <<up, sock, portS, res, clientVars, in, bites, out, fd, retry,
                 hdr, dbVars, torn>>

\* the callback returned; usleep, and back to select
Return(c) ==
  /\ up /\ pc[c] = "handler" /\ ip[c] > Len(Program(c))
  /\ Loop(c)
  /\ UNCHANGED <<up, sock, portS, res, clientVars, in, bites, out, fd, retry,
                 handled, dbVars, torn>>

-----------------------------------------------------------------------------
(* The calls of a handler.                                                 *)

At(c, call) ==
  up /\ pc[c] = "handler" /\ ip[c] <= Len(Program(c)) /\ Program(c)[ip[c]] \in call

Advance(c) == ip' = [ip EXCEPT ![c] = @ + 1] /\ UNCHANGED pc

\* recv_binary returned FALSE, after it took units of the requests g.  Only
\* "read" looks at it, and ends with -1; for "skim" the fields still to come
\* are out of step with those to be read
Fail(c, g) ==
  \/ /\ Program(c)[ip[c]] = "skim"
     /\ Advance(c)
     /\ got' = [got EXCEPT ![c] = @ \cup g]
     /\ torn' = torn \cup {hdr[c]}
     /\ UNCHANGED <<hdr, hport>>
  \/ /\ Program(c)[ip[c]] = "read"
     /\ Loop(c)
     /\ UNCHANGED torn

\* ... or TRUE
Succeed(c, g) ==
  /\ Advance(c)
  /\ got' = [got EXCEPT ![c] = @ \cup g]
  /\ UNCHANGED <<hdr, hport, torn>>

\* the field the handler is about to read is the next in the stream
Fits(c, d) == bites[d] = 0 /\ in[d] # <<>> /\ Head(in[d]) = FieldOf(hdr[c], ip[c])

\* recv_binary on the connection behind the copied port: the field, if it is
\* there; otherwise its size in bytes of something else, or fewer than that
ReadField(c) ==
  /\ At(c, Reading)
  /\ \E d \in Conn :
       /\ d = Peer(hport[c]) /\ in[d] # <<>>
       /\ \/ /\ Fits(c, d)
             /\ in' = [in EXCEPT ![d] = Tail(@)]
             /\ Succeed(c, {hdr[c]})
             /\ UNCHANGED bites
          \/ /\ ~Fits(c, d)
             /\ \E k \in 0..Len(in[d]), b \in 0..MaxBites :
                  /\ Bite(d, k, b)
                  /\ \/ Succeed(c, Bitten(d, k, b))
                     \/ k = Len(in[d]) /\ Fail(c, Bitten(d, k, b))
  /\ UNCHANGED <<up, sock, portS, res, clientVars, out, fd, retry, handled, dbVars>>

\* a header nobody sent may name the size 0
ReadNothing(c) ==
  /\ At(c, Reading) /\ hdr[c].n = 0
  /\ Succeed(c, {})
  /\ UNCHANGED <<up, sock, portS, res, clientVars, in, bites, out, fd, retry,
                 handled, dbVars>>

\* Faulty variant: recv_binary waits without a timeout.
ReadBlocks(c) ==
  /\ At(c, Reading)
  /\ \E d \in Conn : d = Peer(hport[c]) /\ in[d] = <<>> /\ cl[d] = "closed"
  /\ Loop(c)
  /\ UNCHANGED <<up, sock, portS, res, clientVars, in, bites, out, fd, retry,
                 handled, dbVars, torn>>

\* nothing is read: no descriptor, the end of the stream, or 30 seconds
\* without data
ReadFails(c) ==
  /\ At(c, Reading)
  /\ \/ Peer(hport[c]) = NoConn /\ UNCHANGED cl
     \/ \E d \in Conn :
          /\ d = Peer(hport[c]) /\ in[d] = <<>>
          /\ cl' = [cl EXCEPT ![d] = IF @ = "reset" THEN "closed" ELSE @]
  /\ Fail(c, {})
  /\ UNCHANGED <<up, sock, portS, res, nreq, pend, in, bites, out, fd, retry,
                 handled, dbVars>>

\* the process ends, in some builds, where what is done is undefined
Abort == up' = FALSE /\ UNCHANGED <<sock, portS, res, clientVars, in, bites, out,
                                   threadVars, handled, dbVars, torn>>

\* a video whose name did not come: the file cannot be opened, fwrite to NULL
NoFile(c) ==
  /\ At(c, {"skim"}) /\ ip[c] = 1
  /\ \A d \in Conn : d = Peer(hport[c]) => ~Fits(c, d)
  /\ Abort

\* a header nobody sent names any size: malloc returns NULL, or too little
NoBuffer(c) == At(c, Reading) /\ hdr[c].n = 0 /\ Abort

\* share[0] when get_ano_shares returned no share
NoShare(c) == At(c, {"make"}) /\ hdr[c].cmd = "ANO_SHARE_REQ" /\ Abort

\* test_share_req and test_share_res return nothing: cmd_parser may take what
\* it finds for -3, and the message then ends the process
NoResult(c) ==
  /\ up /\ pc[c] = "handler" /\ ip[c] > Len(Program(c))
  /\ hdr[c].cmd \in Returnless
  /\ Abort

\* insert_public_key, insert_video_data, generate_shares, get_share, ...: a
\* statement that the database refuses is printed, and the handler goes on
CallDb(c) ==
  /\ At(c, {"db"})
  /\ \/ stored' = stored \cup {hdr[c]} /\ UNCHANGED refused
     \/ /\ hdr[c].cmd \in Updating
        /\ refused' = refused \cup {hdr[c]} /\ UNCHANGED stored
  /\ Advance(c)
  /\ UNCHANGED <<up, sock, portS, res, clientVars, in, bites, out, fd, retry,
                 hdr, hport, got, handled, torn>>

\* a select that is refused has no result, and mysql_fetch_row is given NULL
NoRows(c) == At(c, {"db"}) /\ hdr[c].cmd \in Selecting /\ Abort

\* Faulty variant: a for_res_packet that is filled already is used again.
MakeResOnce(c) ==
  /\ At(c, {"make"})
  /\ res' = IF res.n = 0 THEN hdr[c] ELSE res
  /\ Advance(c)
  /\ UNCHANGED <<up, sock, portS, clientVars, in, bites, out, fd, retry, hdr,
                 hport, got, handled, dbVars, torn>>

\* make_res_Packet fills the one for_res_packet
MakeRes(c) ==
  /\ At(c, {"make"})
  /\ res' = hdr[c]
  /\ Advance(c)
  /\ UNCHANGED <<up, sock, portS, clientVars, in, bites, out, fd, retry, hdr,
                 hport, got, handled, dbVars, torn>>

\* send_binary to the connection behind the copied port; a failure is printed
Send(c, u) ==
  /\ out' = [d \in Conn |-> IF d = Peer(hport[c]) /\ cl[d] = "open"
                              THEN Append(out[d], u) ELSE out[d]]
  /\ Advance(c)
  /\ UNCHANGED <<up, sock, portS, res, clientVars, in, bites, fd, retry, hdr,
                 hport, got, handled, dbVars, torn>>

SendHead(c) ==
  /\ At(c, {"head"})
  /\ Send(c, [kind |-> "hdr", req |-> res, by |-> hdr[c]])

SendBody(c) ==
  /\ At(c, {"body"})
  /\ Send(c, [kind |-> "body", req |-> hdr[c], by |-> hdr[c]])

-----------------------------------------------------------------------------
Client(c) == Connect(c) \/ Issue(c) \/ Deliver(c) \/ LoseField(c) \/ Leave(c)

Ends(c) == NoFile(c) \/ NoBuffer(c) \/ NoShare(c) \/ NoRows(c) \/ NoResult(c)

Handle(c) == \/ ReadField(c) \/ ReadNothing(c) \/ ReadFails(c) \/ CallDb(c)
             \/ MakeRes(c) \/ SendHead(c) \/ SendBody(c) \/ Return(c) \/ Ends(c)

Thread(c) == \/ Start(c) \/ SelectTimeout(c) \/ SelectReady(c)
             \/ RecvError(c) \/ RecvHeader(c) \/ RecvNothing(c)
             \/ DispatchUnknown(c) \/ Dispatch(c) \/ Handle(c)

Next == UNCHANGED setting /\ \E c \in Conn : Client(c) \/ Accept(c) \/ Thread(c)

Spec == Init /\ [][Next]_vars
FairSpec == Spec /\ \A c \in Conn : WF_vars(Thread(c) /\ UNCHANGED setting)

-----------------------------------------------------------------------------
(* Properties.                                                             *)

TypeOK ==
  /\ setting \in Settings
  /\ up \in BOOLEAN
  /\ sock \in [Fd -> Conn \cup {NoConn}]
  /\ portS \in Fd \cup {NoFd}
  /\ res \in Request
  /\ cl \in [Conn -> {"new", "queued", "open", "closed", "reset"}]
  /\ nreq \in [Conn -> Nat]
  /\ pend \in [Conn -> Seq(Unit)]
  /\ in \in [Conn -> Seq(Unit)]
  /\ bites \in [Conn -> 0..MaxBites]
  /\ out \in [Conn -> Seq(Reply)]
  /\ pc \in [Conn -> {"none", "start", "select", "recv", "dispatch",
                      "handler", "done"}]
  /\ fd \in [Conn -> Fd \cup {NoFd}]
  /\ retry \in [Conn -> 0..RetryCnt]
  /\ hdr \in [Conn -> Request]
  /\ hport \in [Conn -> Fd \cup {NoFd}]
  /\ ip \in [Conn -> 1..8]
  /\ got \in [Conn -> SUBSET Request]
  /\ handled \subseteq Request
  /\ stored \subseteq Request
  /\ refused \subseteq Request
  /\ torn \subseteq Request

\* what a client is sent belongs to its own connection: handlers answer on
\* the connection the request came from (cmd_parser is given a port that
\* need not be the one the header was read from)
RepliesReachRequester ==
  \A c \in Conn : \A i \in 1..Len(out[c]) :
    out[c][i].req.conn = c /\ out[c][i].by.conn = c

\* so it is when clients come one after the other
RepliesWhenSerial == setting.serial => RepliesReachRequester

\* the header of an answer is the one its handler made, although every
\* handler makes it in the same for_res_packet: when clients come one after
\* the other
HeadersMatch ==
  setting.serial =>
    \A c \in Conn : \A i \in 1..Len(out[c]) : out[c][i].req = out[c][i].by

\* commands whose handler stores something and answers
Storing == {"PUBKEY_REQ", "VIDEO_DATA_SND", "SHARE_REQ", "ANO_SHARE_REQ"}

\* a command that stores something is answered only after the database took
\* or refused what it stores (the answer does not say which: insert_video_data
\* and the others return nothing of a refusal), when clients come one after
\* the other
AnsweredAfterDb ==
  setting.serial =>
    \A c \in Conn : \A i \in 1..Len(out[c]) :
      out[c][i].req.cmd \in Storing => out[c][i].req \in stored \cup refused

\* why, when clients come one after the other: at most one connection is
\* anywhere between its accept queue and the end of its thread
OneAtATime == \A c, d \in Conn : Busy(c) /\ Busy(d) => c = d

\* ... so that the shared port, the thread's socket and the handler's port are
\* the one open descriptor
Slots ==
  /\ \A f \in Fd : sock[f] # NoConn => Live(sock[f])
  /\ \A f, g \in Fd : sock[f] # NoConn /\ sock[f] = sock[g] => f = g
  /\ \A c \in Conn : Live(c) => portS \in Fd /\ sock[portS] = c
  /\ \A c \in Conn : Live(c) /\ pc[c] # "start" => fd[c] = portS
  /\ \A c \in Conn : pc[c] = "handler" => hport[c] = portS
  /\ \A c \in Conn : cl[c] \in {"new", "queued"} => pc[c] = "none"

\* ... and what is read from it, or taken for it, is the connection's own
Streams ==
  /\ \A c \in Conn : \A i \in 1..Len(in[c]) : in[c][i].req.conn = c
  /\ \A c \in Conn : \A i \in 1..Len(pend[c]) : pend[c][i].req.conn = c
  /\ \A c \in Conn : hdr[c].conn = c

\* ... nobody else touches for_res_packet between a handler's calls
Past(c, call) ==
  \E j \in 1..Len(Program(c)) : j < ip[c] /\ Program(c)[j] = call
Progress ==
  \A c \in Conn : pc[c] = "handler" =>
    /\ Past(c, "make") => res = hdr[c]
    /\ Past(c, "db") => hdr[c] \in stored \cup refused

\* ... and every answer is right when it is sent
Answers ==
  \A c \in Conn : \A i \in 1..Len(out[c]) :
    /\ out[c][i].by.conn = c
    /\ out[c][i].req = out[c][i].by
    /\ out[c][i].by.cmd \in Storing => out[c][i].by \in stored \cup refused

\* the inductive invariant of a server whose clients do not overlap
SerialInv == OneAtATime /\ Slots /\ Streams /\ Progress /\ Answers

\* nobody is answered who did not ask: every answer names a request that was
\* dispatched, however handlers race for for_res_packet
RepliesToDispatched ==
  \A c \in Conn : \A i \in 1..Len(out[c]) :
    out[c][i].req \in handled /\ out[c][i].by \in handled

\* the inductive invariant behind RepliesToDispatched, for any clients
DispatchInv ==
  /\ \A c \in Conn : pc[c] = "handler" =>
       hdr[c] \in handled /\ (Past(c, "make") => res \in handled)
  /\ RepliesToDispatched

\* a handler never takes bytes of another request for the payload of a request
\* that was sent whole, whatever of the requests before it was lost, left
\* unread or taken for headers, when clients come one after the other.  A
\* handler that nobody asked for (n = 0) reads what comes
PayloadIsOwn ==
  setting.serial =>
    \A c \in Conn :
      pc[c] = "handler" /\ hdr[c].n # 0 /\ hdr[c] \notin torn => got[c] \subseteq {hdr[c]}

\* the threads and the open descriptors are one to one: a thread works on the
\* descriptor of its own connection, and no connection is left without one,
\* when clients come one after the other
ThreadOwnsSocket ==
  setting.serial =>
    /\ \A c \in Conn : Live(c) /\ pc[c] # "start" => Peer(fd[c]) = c
    /\ \A f \in Fd : sock[f] # NoConn => Live(sock[f])

\* no handler blocks for ever: every read and send in it is bounded
HandlersReturn ==
  \A c \in Conn : pc[c] = "handler" ~> (pc[c] # "handler" \/ ~up)

\* the server closes every connection it accepted, sooner or later, when
\* clients come one after the other
ConnectionsEnd ==
  \A c \in Conn : (setting.serial /\ Attached(c)) ~> (~Attached(c) \/ ~up)

=============================================================================
