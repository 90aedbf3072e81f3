---------------------------- MODULE ServerProofs ----------------------------
(***************************************************************************)
(* The invariants of Server: its types, the answers to dispatched requests *)
(* and the order of what is read for any clients, and what holds when      *)
(* clients do not overlap; and those of Transport, whose loops carry what  *)
(* a handler of Server reads and writes.                                   *)
(***************************************************************************)
EXTENDS Server, Transport, SequenceTheorems, TLAPS

ClStates == {"new", "queued", "open", "closed", "reset"}
PcStates == {"none", "start", "select", "recv", "dispatch", "handler", "done"}
Calls == {"read", "skim", "db", "make", "head", "body"}

\* The calls of a handler: at most 7; it fills for_res_packet before it sends
\* it, and stores what a storing command brings before it answers.
LEMMA HandlerTable ==
  ASSUME NEW cmd \in Command
  PROVE  /\ Handler(cmd) \in Seq(Calls)
         /\ Len(Handler(cmd)) <= 7
         /\ \A i \in 1..Len(Handler(cmd)) : Handler(cmd)[i] \in {"head", "body"} =>
              /\ \E j \in 1..Len(Handler(cmd)) : j < i /\ Handler(cmd)[j] = "make"
              /\ cmd \in Storing =>
                   \E j \in 1..Len(Handler(cmd)) : j < i /\ Handler(cmd)[j] = "db"
<1> USE DEF Calls, Storing
<1>1. CASE cmd = "HI_I_M"
  <2>1. Handler(cmd) = <<"make", "head">>
    BY <1>1 DEF Handler
  <2> QED
    BY <2>1, <1>1
<1>2. CASE cmd \in {"PUBKEY_REQ", "SHARE_REQ", "ANO_SHARE_REQ"}
  <2>1. Handler(cmd) = <<"read", "db", "make", "head", "body">>
    BY <1>2 DEF Handler
  <2> QED
    BY <2>1
<1>3. CASE cmd = "VIDEO_DATA_SND"
  <2>1. Handler(cmd) = <<"skim", "skim", "skim", "skim", "make", "db", "head">>
    BY <1>3 DEF Handler
  <2> QED
    BY <2>1
<1>4. CASE cmd = "GEN_AES"
  BY <1>4 DEF Handler
<1>5. CASE cmd \in {"TEST_CMD", "TEST_GEN_SHARES"}
  <2>1. Handler(cmd) = <<"read", "db">>
    BY <1>5 DEF Handler
  <2> QED
    BY <2>1
<1>6. CASE cmd \in {"PUBKEY_RES", "SHARE_RES"}
  <2>1. Handler(cmd) = <<"read">>
    BY <1>6 DEF Handler
  <2> QED
    BY <2>1
<1>7. CASE cmd = "ANO_SHARE_RES"
  <2>1. Handler(cmd) = <<"read", "read", "read", "read">>
    BY <1>7 DEF Handler
  <2> QED
    BY <2>1
<1>8. CASE cmd = "TEST_SHARE_REQ"
  <2>1. Handler(cmd) = <<"make", "head", "body">>
    BY <1>8 DEF Handler
  <2> QED
    BY <2>1, <1>8
<1>9. CASE cmd \in {"VIDEO_DATA_RES", "VER_REQ", "VER_RES", "VER_2_PROV", "PROV_RES",
                   "NICE_2_MEET_U", "GEN_SHARE_RES", "TEST_SHARE_RES", "unknown"}
  <2>1. Handler(cmd) = <<>>
    BY <1>9 DEF Handler
  <2> QED
    BY <2>1
<1> QED
  BY <1>1, <1>2, <1>3, <1>4, <1>5, <1>6, <1>7, <1>8, <1>9 DEF Command

-----------------------------------------------------------------------------
(* Types.                                                                  *)

\* initServer leaves every variable well typed.
LEMMA InitTypeOK == Init => TypeOK
<1> SUFFICES ASSUME Init PROVE TypeOK
  OBVIOUS
<1> QED
  BY ServerAssumption DEF Init, TypeOK, Junk, Request, Command, NoFd

\* A message is a sequence of units of its request: its header, then its fields.
LEMMA MessageType ==
  ASSUME NEW r \in Request
  PROVE  /\ Message(r) \in Seq(Unit)
         /\ Len(Message(r)) = 1 + Fields(r.cmd) /\ Fields(r.cmd) \in 0..4
         /\ Message(r)[1] = Header(r)
         /\ \A k \in 1..Fields(r.cmd) : Message(r)[k + 1] = FieldOf(r, k)
         /\ \A k \in 1..Len(Message(r)) :
              Message(r)[k].req = r /\ (k # 1 => Message(r)[k].kind = "pay")
<1>1. Fields(r.cmd) \in 0..4
  BY DEF Fields
<1>2. \A k \in 1..(1 + Fields(r.cmd)) :
        (IF k = 1 THEN Header(r) ELSE FieldOf(r, k - 1)) \in Unit
  BY <1>1 DEF Unit, Header, FieldOf
<1>3. /\ Message(r) \in Seq(Unit) /\ Len(Message(r)) = 1 + Fields(r.cmd)
      /\ \A k \in 1..(1 + Fields(r.cmd)) :
           Message(r)[k] = IF k = 1 THEN Header(r) ELSE FieldOf(r, k - 1)
  BY <1>1, <1>2 DEF Message
<1>4. \A k \in 1..Fields(r.cmd) :
        k + 1 \in 1..(1 + Fields(r.cmd)) /\ k + 1 # 1 /\ (k + 1) - 1 = k
  BY <1>1
<1> QED
  BY <1>1, <1>3, <1>4 DEF Header, FieldOf

\* What the next read of a stream returns.
LEMMA HeadType ==
  ASSUME TypeOK, NEW d \in Conn, in[d] # <<>>
  PROVE  /\ Head(in[d]) \in Unit
         /\ Head(in[d]).req \in Request
         /\ Tail(in[d]) \in Seq(Unit)
<1>1. in[d] \in Seq(Unit)
  BY DEF TypeOK
<1>2. Head(in[d]) \in Unit /\ Tail(in[d]) \in Seq(Unit)
  BY <1>1
<1> QED
  BY <1>2 DEF Unit

\* What a read of other bytes leaves of a stream, and what it took.
LEMMA BiteType ==
  ASSUME TypeOK, NEW d \in Conn, NEW k \in 0..Len(in[d]), NEW b \in 0..MaxBites,
         in[d] # <<>>, Bite(d, k, b)
  PROVE  /\ in' \in [Conn -> Seq(Unit)] /\ bites' \in [Conn -> 0..MaxBites]
         /\ in'[d] = SubSeq(in[d], k + 1, Len(in[d]))
         /\ \A e \in Conn \ {d} : in'[e] = in[e] /\ bites'[e] = bites[e]
         /\ Bitten(d, k, b) \subseteq Request
<1>1. in[d] \in Seq(Unit) /\ Len(in[d]) \in Nat \ {0}
  BY DEF TypeOK
<1>2. SubSeq(in[d], k + 1, Len(in[d])) \in Seq(Unit)
  BY <1>1
<1>3. /\ in' \in [Conn -> Seq(Unit)] /\ bites' \in [Conn -> 0..MaxBites]
      /\ in'[d] = SubSeq(in[d], k + 1, Len(in[d]))
      /\ \A e \in Conn \ {d} : in'[e] = in[e] /\ bites'[e] = bites[e]
  BY <1>2 DEF Bite, TypeOK
<1>4. ASSUME NEW i \in 1..(IF b = 0 THEN k ELSE k + 1) PROVE in[d][i].req \in Request
  <2>1. b # 0 => k < Len(in[d])
    BY <1>1 DEF Bite
  <2>2. i \in 1..Len(in[d])
    BY <1>1, <2>1
  <2>3. in[d][i] \in Unit
    BY <1>1, <2>2
  <2> QED
    BY <2>3 DEF Unit
<1> QED
  BY <1>3, <1>4 DEF Bitten

\* Where a handler is when it makes a call, and where it goes.
LEMMA AtType ==
  ASSUME TypeOK, NEW c \in Conn, NEW S, At(c, S)
  PROVE  /\ ip[c] \in 1..Len(Program(c)) /\ ip[c] + 1 \in 1..8
         /\ Program(c) = Handler(hdr[c].cmd) /\ hdr[c].cmd \in Command
         /\ up = TRUE /\ pc[c] = "handler" /\ Program(c)[ip[c]] \in S
<1>1. hdr[c].cmd \in Command /\ ip[c] \in 1..8 /\ up \in BOOLEAN
  BY DEF TypeOK, Request
<1>2. Len(Handler(hdr[c].cmd)) \in Nat /\ Len(Handler(hdr[c].cmd)) <= 7
  BY <1>1, HandlerTable
<1> QED
  BY <1>1, <1>2 DEF At, Program

\* SERVICE_DONE closes a descriptor that is the server's, whichever it is by now.
LEMMA ServiceDoneType ==
  ASSUME TypeOK, NEW c \in Conn, ServiceDone(c)
  PROVE  /\ pc' \in [Conn -> PcStates]
         /\ sock' \in [Fd -> Conn \cup {NoConn}]
         /\ cl' \in [Conn -> ClStates]
  BY DEF TypeOK, ServiceDone, ClStates, PcStates

\* Back at the top of the loop.
LEMMA LoopType ==
  ASSUME TypeOK, NEW c \in Conn, Loop(c)
  PROVE  /\ pc' \in [Conn -> PcStates] /\ hdr' \in [Conn -> Request]
         /\ hport' \in [Conn -> Fd \cup {NoFd}] /\ ip' \in [Conn -> 1..8]
         /\ got' \in [Conn -> SUBSET Request]
         /\ pc'[c] = "select" /\ hdr'[c] = Junk(c, "unknown")
         /\ \A d \in Conn \ {c} :
              /\ pc'[d] = pc[d] /\ hdr'[d] = hdr[d] /\ hport'[d] = hport[d]
              /\ ip'[d] = ip[d] /\ got'[d] = got[d]
<1>1. Junk(c, "unknown") \in Request
  BY DEF Junk, Request, Command
<1> QED
  BY <1>1 DEF Loop, TypeOK, PcStates

\* A call that returned: the next call of the handler is made.
LEMMA AdvanceType ==
  ASSUME TypeOK, NEW c \in Conn, NEW S, At(c, S), Advance(c)
  PROVE  /\ ip' \in [Conn -> 1..8] /\ ip'[c] = ip[c] + 1 /\ pc' = pc
         /\ \A d \in Conn \ {c} : ip'[d] = ip[d]
<1>1. ip[c] + 1 \in 1..8
  BY AtType
<1> QED
  BY <1>1 DEF Advance, TypeOK

\* A recv_binary that returned, one way or the other, after it took units of
\* the requests g.
LEMMA ReadReturn ==
  ASSUME TypeOK, NEW c \in Conn, At(c, Reading), NEW g \in SUBSET Request,
         Succeed(c, g) \/ Fail(c, g)
  PROVE  /\ pc' \in [Conn -> PcStates] /\ hdr' \in [Conn -> Request]
         /\ hport' \in [Conn -> Fd \cup {NoFd}] /\ ip' \in [Conn -> 1..8]
         /\ got' \in [Conn -> SUBSET Request]
         /\ torn' \in SUBSET Request /\ torn \subseteq torn'
         /\ \A d \in Conn \ {c} :
              /\ pc'[d] = pc[d] /\ hdr'[d] = hdr[d] /\ hport'[d] = hport[d]
              /\ ip'[d] = ip[d] /\ got'[d] = got[d]
         /\ \/ /\ Advance(c) /\ UNCHANGED <<hdr, hport>>
               /\ got'[c] = got[c] \cup g
               /\ torn' = torn \/ hdr[c] \in torn'
            \/ Loop(c) /\ torn' = torn
<1>1. hdr[c] \in Request /\ got[c] \in SUBSET Request
  BY DEF TypeOK
<1>2. CASE Advance(c) /\ UNCHANGED <<hdr, hport>> /\ got' = [got EXCEPT ![c] = @ \cup g]
           /\ torn' \in {torn, torn \cup {hdr[c]}}
  <2>1. got' \in [Conn -> SUBSET Request] /\ got'[c] = got[c] \cup g
        /\ \A d \in Conn \ {c} : got'[d] = got[d]
    BY <1>1, <1>2 DEF TypeOK
  <2>2. torn' \in SUBSET Request /\ torn \subseteq torn' /\ (torn' = torn \/ hdr[c] \in torn')
    BY <1>1, <1>2 DEF TypeOK
  <2> QED
    BY <1>2, <2>1, <2>2, AdvanceType DEF TypeOK, PcStates
<1>3. CASE Loop(c) /\ torn' = torn
  BY <1>3, LoopType DEF TypeOK
<1> QED
  BY <1>2, <1>3 DEF Succeed, Fail


\* What a read of a header takes from the stream behind its descriptor, and
\* what the thread has then: the header, or one that nobody sent.
LEMMA RecvTakes ==
  ASSUME TypeOK, NEW c \in Conn, RecvHeader(c)
  PROVE  \E d \in Conn :
           /\ d = Peer(fd[c]) /\ in[d] # <<>>
           /\ in' \in [Conn -> Seq(Unit)] /\ bites' \in [Conn -> 0..MaxBites]
           /\ \A e \in Conn \ {d} : in'[e] = in[e] /\ bites'[e] = bites[e]
           /\ \/ /\ WholeHeader(d) /\ bites' = bites
                 /\ Received(c, Head(in[d]).req) /\ Head(in[d]).req \in Request
                 /\ in'[d] = Tail(in[d])
              \/ \E k \in 0..Len(in[d]), cmd \in Command :
                   /\ in'[d] = SubSeq(in[d], k + 1, Len(in[d]))
                   /\ Received(c, Junk(d, cmd)) /\ Junk(d, cmd) \in Request
<1>1. PICK d \in Conn :
        /\ d = Peer(fd[c]) /\ in[d] # <<>>
        /\ \/ /\ WholeHeader(d)
              /\ Received(c, Head(in[d]).req)
              /\ in' = [in EXCEPT ![d] = Tail(@)]
              /\ UNCHANGED bites
           \/ \E k \in 0..Len(in[d]), b \in 0..MaxBites :
                /\ Bite(d, k, b)
                /\ \E cmd \in Guess(d) : Received(c, Junk(d, cmd))
  BY DEF RecvHeader
<1>2. CASE /\ WholeHeader(d)
           /\ Received(c, Head(in[d]).req)
           /\ in' = [in EXCEPT ![d] = Tail(@)]
           /\ UNCHANGED bites
  <2>1. Head(in[d]).req \in Request /\ Tail(in[d]) \in Seq(Unit)
    BY <1>1, HeadType
  <2>2. /\ in' \in [Conn -> Seq(Unit)] /\ bites' \in [Conn -> 0..MaxBites]
        /\ in'[d] = Tail(in[d]) /\ \A e \in Conn \ {d} : in'[e] = in[e] /\ bites'[e] = bites[e]
    BY <1>2, <2>1 DEF TypeOK
  <2> QED
    BY <1>1, <1>2, <2>1, <2>2
<1>3. CASE \E k \in 0..Len(in[d]), b \in 0..MaxBites :
             /\ Bite(d, k, b)
             /\ \E cmd \in Guess(d) : Received(c, Junk(d, cmd))
  <2>1. PICK k \in 0..Len(in[d]), b \in 0..MaxBites :
          /\ Bite(d, k, b)
          /\ \E cmd \in Guess(d) : Received(c, Junk(d, cmd))
    BY <1>3
  <2>2. Guess(d) \subseteq Command
    <3>1. Head(in[d]).req.cmd \in Command
      BY <1>1, HeadType DEF Request
    <3>2. setting.misread \subseteq Command
      BY ServerAssumption DEF TypeOK
    <3>3. "unknown" \in Command
      BY DEF Command
    <3> QED
      BY <3>1, <3>2, <3>3 DEF Guess
  <2>3. PICK cmd \in Command : Received(c, Junk(d, cmd))
    BY <2>1, <2>2
  <2>4. Junk(d, cmd) \in Request
    BY DEF Junk, Request
  <2>5. /\ in' \in [Conn -> Seq(Unit)] /\ bites' \in [Conn -> 0..MaxBites]
        /\ in'[d] = SubSeq(in[d], k + 1, Len(in[d]))
        /\ \A e \in Conn \ {d} : in'[e] = in[e] /\ bites'[e] = bites[e]
    BY <1>1, <2>1, BiteType
  <2> QED
    BY <1>1, <2>3, <2>4, <2>5
<1> QED
  BY <1>1, <1>2, <1>3

\* What a recv_binary takes from the stream behind the port it is given, and
\* what it then returns.
LEMMA ReadTakes ==
  ASSUME TypeOK, NEW c \in Conn, ReadField(c)
  PROVE  \E d \in Conn :
           /\ d = Peer(hport[c]) /\ in[d] # <<>>
           /\ in' \in [Conn -> Seq(Unit)] /\ bites' \in [Conn -> 0..MaxBites]
           /\ \A e \in Conn \ {d} : in'[e] = in[e] /\ bites'[e] = bites[e]
           /\ \/ /\ Fits(c, d) /\ bites' = bites /\ hdr[c] \in Request
                 /\ in'[d] = Tail(in[d]) /\ Succeed(c, {hdr[c]})
              \/ /\ ~Fits(c, d)
                 /\ \E k \in 0..Len(in[d]) :
                      /\ in'[d] = SubSeq(in[d], k + 1, Len(in[d]))
                      /\ \E g \in SUBSET Request :
                           Succeed(c, g) \/ (k = Len(in[d]) /\ Fail(c, g))
<1>1. PICK d \in Conn :
        /\ d = Peer(hport[c]) /\ in[d] # <<>>
        /\ \/ /\ Fits(c, d)
              /\ in' = [in EXCEPT ![d] = Tail(@)]
              /\ Succeed(c, {hdr[c]})
              /\ UNCHANGED bites
           \/ /\ ~Fits(c, d)
              /\ \E k \in 0..Len(in[d]), b \in 0..MaxBites :
                   /\ Bite(d, k, b)
                   /\ \/ Succeed(c, Bitten(d, k, b))
                      \/ k = Len(in[d]) /\ Fail(c, Bitten(d, k, b))
  BY DEF ReadField
<1>2. CASE /\ Fits(c, d)
           /\ in' = [in EXCEPT ![d] = Tail(@)]
           /\ Succeed(c, {hdr[c]})
           /\ UNCHANGED bites
  <2>1. Tail(in[d]) \in Seq(Unit) /\ hdr[c] \in Request
    BY <1>1, HeadType DEF TypeOK
  <2>2. /\ in' \in [Conn -> Seq(Unit)] /\ bites' \in [Conn -> 0..MaxBites]
        /\ in'[d] = Tail(in[d]) /\ \A e \in Conn \ {d} : in'[e] = in[e] /\ bites'[e] = bites[e]
    BY <1>2, <2>1 DEF TypeOK
  <2> QED
    BY <1>1, <1>2, <2>1, <2>2
<1>3. CASE /\ ~Fits(c, d)
           /\ \E k \in 0..Len(in[d]), b \in 0..MaxBites :
                /\ Bite(d, k, b)
                /\ \/ Succeed(c, Bitten(d, k, b))
                   \/ k = Len(in[d]) /\ Fail(c, Bitten(d, k, b))
  <2>1. PICK k \in 0..Len(in[d]), b \in 0..MaxBites :
          /\ Bite(d, k, b)
          /\ \/ Succeed(c, Bitten(d, k, b))
             \/ k = Len(in[d]) /\ Fail(c, Bitten(d, k, b))
    BY <1>3
  <2>2. /\ in' \in [Conn -> Seq(Unit)] /\ bites' \in [Conn -> 0..MaxBites]
        /\ in'[d] = SubSeq(in[d], k + 1, Len(in[d]))
        /\ \A e \in Conn \ {d} : in'[e] = in[e] /\ bites'[e] = bites[e]
        /\ Bitten(d, k, b) \in SUBSET Request
    BY <1>1, <2>1, BiteType
  <2> QED
    BY <1>1, <1>3, <2>1, <2>2
<1> QED
  BY <1>1, <1>2, <1>3

\* Whatever a recv_binary does, it returns, or ends the handler.
LEMMA CallReads ==
  ASSUME TypeOK, NEW c \in Conn, ReadField(c) \/ ReadNothing(c) \/ ReadFails(c)
  PROVE  At(c, Reading) /\ \E g \in SUBSET Request : Succeed(c, g) \/ Fail(c, g)
<1>1. At(c, Reading)
  BY DEF ReadField, ReadNothing, ReadFails
<1>2. CASE ReadField(c)
  <2>1. \/ hdr[c] \in Request /\ Succeed(c, {hdr[c]})
        \/ \E g \in SUBSET Request : Succeed(c, g) \/ Fail(c, g)
    BY <1>2, ReadTakes
  <2>2. hdr[c] \in Request => {hdr[c]} \in SUBSET Request
    OBVIOUS
  <2> QED
    BY <1>1, <2>1, <2>2
<1>3. CASE ReadNothing(c) \/ ReadFails(c)
  <2>1. Succeed(c, {}) \/ Fail(c, {})
    BY <1>3 DEF ReadNothing, ReadFails
  <2>2. {} \in SUBSET Request
    OBVIOUS
  <2> QED
    BY <1>1, <2>1, <2>2
<1> QED
  BY <1>2, <1>3

\* Every step of the clients, of listenThd and of the threads keeps the types.
LEMMA TypeOKStep == TypeOK /\ [Next]_vars => TypeOK'
<1> SUFFICES ASSUME TypeOK, [Next]_vars PROVE TypeOK'
  OBVIOUS
<1> USE ServerAssumption DEF clientVars, threadVars, dbVars, ClStates, PcStates
<1>0. setting' = setting /\ setting' \in Settings
  BY DEF Next, vars, TypeOK
<1>1. ASSUME NEW c \in Conn, Connect(c) PROVE TypeOK'
  BY <1>0, <1>1 DEF Connect, TypeOK
<1>2. ASSUME NEW c \in Conn, Issue(c) PROVE TypeOK'
  <2>1. /\ setting.script \in [Conn -> Seq(SUBSET (Command \ {"unknown"}))]
        /\ nreq[c] \in Nat /\ nreq[c] < Len(setting.script[c])
    BY <1>2 DEF Issue, TypeOK
  <2>2. nreq[c] + 1 \in 1..Len(setting.script[c])
        /\ setting.script[c] \in Seq(SUBSET (Command \ {"unknown"}))
    BY <2>1
  <2>3. setting.script[c][nreq[c] + 1] \in SUBSET (Command \ {"unknown"})
    BY <2>2
  <2>4. PICK cmd \in setting.script[c][nreq[c] + 1] :
          pend' = [pend EXCEPT ![c] =
                     Message([conn |-> c, n |-> nreq[c] + 1, cmd |-> cmd])]
    BY <1>2 DEF Issue
  <2>5. [conn |-> c, n |-> nreq[c] + 1, cmd |-> cmd] \in Request
    BY <2>1, <2>3 DEF Request
  <2>6. pend' \in [Conn -> Seq(Unit)]
    BY <2>4, <2>5, MessageType DEF TypeOK
  <2>7. nreq' \in [Conn -> Nat]
    BY <1>2, <2>1 DEF Issue, TypeOK
  <2> QED
    BY <1>0, <1>2, <2>6, <2>7 DEF Issue, TypeOK
<1>3. ASSUME NEW c \in Conn, Deliver(c) \/ LoseField(c) PROVE TypeOK'
  <2>1. /\ pend[c] \in Seq(Unit) /\ pend[c] # <<>>
    BY <1>3 DEF Deliver, LoseField, TypeOK
  <2>2. Head(pend[c]) \in Unit /\ Tail(pend[c]) \in Seq(Unit) /\ <<>> \in Seq(Unit)
    BY <2>1
  <2>3. Head(pend[c]).req \in Request
    BY <2>2 DEF Unit
  <2>4. Part(Head(pend[c]).req) \in Unit
    BY <2>3 DEF Part, Unit
  <2>5. in' \in [Conn -> Seq(Unit)]
    <3>1. in' = in \/ \E u \in Unit : in' = [in EXCEPT ![c] = Append(@, u)]
      BY <1>3, <2>2, <2>4 DEF Deliver, LoseField
    <3>2. in \in [Conn -> Seq(Unit)] /\ \A u \in Unit : Append(in[c], u) \in Seq(Unit)
      BY DEF TypeOK
    <3> QED
      BY <3>1, <3>2
  <2>6. pend' \in [Conn -> Seq(Unit)]
    <3>1. \E s \in Seq(Unit) : pend' = [pend EXCEPT ![c] = s]
      BY <1>3, <2>2 DEF Deliver, LoseField
    <3> QED
      BY <3>1 DEF TypeOK
  <2>7. torn' \subseteq Request
    BY <1>3, <2>3 DEF Deliver, LoseField, TypeOK
  <2> QED
    BY <1>0, <1>3, <2>5, <2>6, <2>7 DEF Deliver, LoseField, TypeOK
<1>4. ASSUME NEW c \in Conn, Leave(c) PROVE TypeOK'
  <2>1. in' \in [Conn -> Seq(Unit)] /\ bites' \in [Conn -> 0..MaxBites]
    <3>1. \/ in' = in /\ bites' = bites
          \/ in' = [in EXCEPT ![c] = <<>>] /\ bites' = [bites EXCEPT ![c] = 0]
      BY <1>4 DEF Leave
    <3>2. <<>> \in Seq(Unit) /\ in \in [Conn -> Seq(Unit)] /\ bites \in [Conn -> 0..MaxBites]
      BY DEF TypeOK
    <3>3. CASE in' = in /\ bites' = bites
      BY <3>2, <3>3
    <3>4. CASE in' = [in EXCEPT ![c] = <<>>] /\ bites' = [bites EXCEPT ![c] = 0]
      BY <3>2, <3>4
    <3> QED
      BY <3>1, <3>3, <3>4
  <2>2. PICK v \in {"closed", "reset"} : cl' = [cl EXCEPT ![c] = v]
    BY <1>4 DEF Leave
  <2> QED
    BY <1>0, <1>4, <2>1, <2>2 DEF Leave, TypeOK
<1>5. ASSUME NEW c \in Conn, Accept(c) PROVE TypeOK'
  <2>1. PICK f \in Fd :
          /\ portS' = f
          /\ \/ /\ sock' = [sock EXCEPT ![f] = c]
                /\ cl' = [cl EXCEPT ![c] = "open"]
                /\ pc' = [pc EXCEPT ![c] = "start"]
             \/ cl' = [cl EXCEPT ![c] = "closed"] /\ UNCHANGED <<sock, pc>>
    BY <1>5 DEF Accept
  <2>2. /\ sock' \in [Fd -> Conn \cup {NoConn}]
        /\ portS' \in Fd \cup {NoFd}
    BY <2>1 DEF TypeOK
  <2>3. /\ cl' \in [Conn -> ClStates]
        /\ pc' \in [Conn -> PcStates]
    BY <2>1 DEF TypeOK
  <2> QED
    BY <1>0, <1>5, <2>2, <2>3 DEF Accept, TypeOK
<1>6. ASSUME NEW c \in Conn, Start(c) PROVE TypeOK'
  BY <1>0, <1>6 DEF Start, TypeOK
<1>7. ASSUME NEW c \in Conn, SelectTimeout(c) PROVE TypeOK'
  BY <1>0, <1>7, ServiceDoneType DEF SelectTimeout, TypeOK
<1>8. ASSUME NEW c \in Conn, SelectReady(c) PROVE TypeOK'
  BY <1>0, <1>8 DEF SelectReady, TypeOK
<1>9. ASSUME NEW c \in Conn, RecvError(c) PROVE TypeOK'
  <2>1. hdr' \in [Conn -> Request]
    BY <1>9 DEF RecvError, Received, Junk, Request, Command, TypeOK
  <2>2. /\ retry' \in [Conn -> 0..RetryCnt]
        /\ pc' \in [Conn -> PcStates]
    BY <1>9 DEF RecvError, Received, TypeOK
  <2>3. cl' = cl \/ \E d \in Conn : cl' = [cl EXCEPT ![d] = "closed"]
    BY <1>9 DEF RecvError
  <2>4. cl' \in [Conn -> ClStates]
    BY <2>3 DEF TypeOK
  <2> QED
    BY <1>0, <1>9, <2>1, <2>2, <2>4 DEF RecvError, TypeOK
<1>10. ASSUME NEW c \in Conn, RecvHeader(c) PROVE TypeOK'
  <2>1. /\ in' \in [Conn -> Seq(Unit)] /\ bites' \in [Conn -> 0..MaxBites]
        /\ \E r \in Request : Received(c, r)
    BY <1>10, RecvTakes
  <2>2. PICK r \in Request : Received(c, r)
    BY <2>1
  <2>3. /\ hdr' \in [Conn -> Request]
        /\ retry' \in [Conn -> 0..RetryCnt]
        /\ pc' \in [Conn -> PcStates]
    BY <2>2 DEF Received, TypeOK
  <2> QED
    BY <1>0, <1>10, <2>1, <2>3 DEF RecvHeader, TypeOK
<1>11. ASSUME NEW c \in Conn, RecvNothing(c) PROVE TypeOK'
  <2>1. CASE retry[c] = 0
    BY <1>0, <1>11, <2>1, ServiceDoneType DEF RecvNothing, TypeOK
  <2>2. CASE retry[c] # 0
    <3>1. retry' = [retry EXCEPT ![c] = @ - 1]
      BY <1>11, <2>2 DEF RecvNothing
    <3>2. retry \in [Conn -> 0..RetryCnt] /\ RetryCnt \in Nat
      BY DEF TypeOK
    <3>3. retry' \in [Conn -> 0..RetryCnt]
      BY <2>2, <3>1, <3>2
    <3> QED
      BY <1>0, <1>11, <2>2, <3>3 DEF RecvNothing, TypeOK
  <2> QED
    BY <2>1, <2>2
<1>12. ASSUME NEW c \in Conn, DispatchUnknown(c) PROVE TypeOK'
  BY <1>0, <1>12, LoopType DEF DispatchUnknown, TypeOK
<1>13. ASSUME NEW c \in Conn, Dispatch(c) PROVE TypeOK'
  <2>1. got' \in [Conn -> SUBSET Request] /\ handled' \subseteq Request
    BY <1>13 DEF Dispatch, TypeOK
  <2> QED
    BY <1>0, <1>13, <2>1 DEF Dispatch, TypeOK
<1>14. ASSUME NEW c \in Conn, Return(c) PROVE TypeOK'
  BY <1>0, <1>14, LoopType DEF Return, TypeOK
<1>15. ASSUME NEW c \in Conn, ReadField(c) \/ ReadNothing(c) \/ ReadFails(c) PROVE TypeOK'
  <2>1. At(c, Reading) /\ \E g \in SUBSET Request : Succeed(c, g) \/ Fail(c, g)
    BY <1>15, CallReads
  <2>2. /\ pc' \in [Conn -> PcStates] /\ hdr' \in [Conn -> Request]
        /\ hport' \in [Conn -> Fd \cup {NoFd}] /\ ip' \in [Conn -> 1..8]
        /\ got' \in [Conn -> SUBSET Request] /\ torn' \in SUBSET Request
    BY <2>1, ReadReturn
  <2>3. in' \in [Conn -> Seq(Unit)] /\ bites' \in [Conn -> 0..MaxBites]
    BY <1>15, ReadTakes DEF ReadNothing, ReadFails, TypeOK
  <2>4. cl' \in [Conn -> ClStates]
    <3>1. \/ cl' = cl
          \/ \E d \in Conn :
               cl' = [cl EXCEPT ![d] = IF @ = "reset" THEN "closed" ELSE @]
      BY <1>15 DEF ReadField, ReadNothing, ReadFails
    <3> QED
      BY <3>1 DEF TypeOK
  <2> QED
    BY <1>0, <1>15, <2>2, <2>3, <2>4 DEF ReadField, ReadNothing, ReadFails, TypeOK
<1>16. ASSUME NEW c \in Conn, Ends(c) PROVE TypeOK'
  BY <1>0, <1>16 DEF Ends, NoFile, NoBuffer, NoShare, NoRows, NoResult, Abort, TypeOK
<1>17. ASSUME NEW c \in Conn, CallDb(c) PROVE TypeOK'
  <2>1. ip' \in [Conn -> 1..8] /\ pc' = pc
    BY <1>17, AdvanceType DEF CallDb
  <2>2. stored' \subseteq Request /\ refused' \subseteq Request
    BY <1>17 DEF CallDb, TypeOK
  <2> QED
    BY <1>0, <1>17, <2>1, <2>2 DEF CallDb, TypeOK
<1>18. ASSUME NEW c \in Conn, MakeRes(c) PROVE TypeOK'
  <2>1. ip' \in [Conn -> 1..8] /\ pc' = pc
    BY <1>18, AdvanceType DEF MakeRes
  <2> QED
    BY <1>0, <1>18, <2>1 DEF MakeRes, TypeOK
<1>19. ASSUME NEW c \in Conn, SendHead(c) \/ SendBody(c) PROVE TypeOK'
  <2>1. PICK u \in Reply : Send(c, u)
    BY <1>19 DEF SendHead, SendBody, TypeOK, Reply
  <2>2. ip' \in [Conn -> 1..8] /\ pc' = pc
    BY <1>19, <2>1, AdvanceType DEF SendHead, SendBody, Send
  <2>3. out' \in [Conn -> Seq(Reply)]
    BY <2>1 DEF Send, TypeOK
  <2> QED
    BY <1>0, <2>1, <2>2, <2>3 DEF Send, TypeOK
<1>20. CASE UNCHANGED vars
  BY <1>20 DEF vars, TypeOK
<1> QED
  BY <1>1, <1>2, <1>3, <1>4, <1>5, <1>6, <1>7, <1>8, <1>9, <1>10, <1>11, <1>12,
     <1>13, <1>14, <1>15, <1>16, <1>17, <1>18, <1>19, <1>20
     DEF Next, Client, Thread, Handle

\* The variables of the server keep their types, whatever its clients do.
THEOREM TypeCorrect == Spec => []TypeOK
<1>1. Init => TypeOK
  BY InitTypeOK
<1>2. TypeOK /\ [Next]_vars => TypeOK'
  BY TypeOKStep
<1> QED
  BY <1>1, <1>2, PTL DEF Spec

-----------------------------------------------------------------------------
(* Answers to dispatched requests, whatever handlers run at once.          *)

\* A call made becomes one of the calls that were made; other handlers stay
\* where they are.
LEMMA PastAdvance ==
  ASSUME TypeOK, NEW c \in Conn, NEW S, At(c, S), Advance(c), hdr' = hdr
  PROVE  /\ \A x : Past(c, x)' => Past(c, x) \/ Program(c)[ip[c]] = x
         /\ \A d \in Conn \ {c} : \A x : Past(d, x)' => Past(d, x)
<1>1. /\ ip[c] \in Nat
      /\ ip'[c] = ip[c] + 1
      /\ \A d \in Conn \ {c} : ip'[d] = ip[d]
  <2>1. ip \in [Conn -> 1..8] /\ ip' = [ip EXCEPT ![c] = @ + 1]
    BY DEF Advance, TypeOK
  <2>2. ip[c] \in 1..8
    BY <2>1
  <2> QED
    BY <2>1, <2>2
<1>2. \A d \in Conn : Program(d)' = Program(d) /\ Len(Program(d)) \in Nat
  <2> TAKE d \in Conn
  <2>1. hdr[d].cmd \in Command
    BY DEF TypeOK, Request
  <2> QED
    BY <2>1, HandlerTable DEF Program
<1>3. ASSUME NEW x, Past(c, x)' PROVE Past(c, x) \/ Program(c)[ip[c]] = x
  <2>1. PICK j \in 1..Len(Program(c)) : j < ip[c] + 1 /\ Program(c)[j] = x
    BY <1>1, <1>2, <1>3 DEF Past
  <2> QED
    BY <1>1, <1>2, <2>1 DEF Past
<1>4. ASSUME NEW d \in Conn \ {c}, NEW x, Past(d, x)' PROVE Past(d, x)
  BY <1>1, <1>2, <1>4 DEF Past
<1> QED
  BY <1>3, <1>4

\* A handler that sends has filled for_res_packet, and stored what it answers.
LEMMA SendsPast ==
  ASSUME TypeOK, NEW c \in Conn, At(c, {"head", "body"})
  PROVE  /\ Past(c, "make")
         /\ hdr[c].cmd \in Storing => Past(c, "db")
<1>1. /\ ip[c] \in 1..Len(Program(c)) /\ hdr[c].cmd \in Command
      /\ Program(c) = Handler(hdr[c].cmd)
      /\ Program(c)[ip[c]] \in {"head", "body"}
  BY AtType
<1> QED
  BY <1>1, HandlerTable DEF Past

\* What keeps the handlers and the answers keeps the invariant.
LEMMA DispatchFrame ==
  ASSUME DispatchInv, UNCHANGED <<res, handled, out>>,
         \A c \in Conn : pc'[c] = "handler" =>
           pc[c] = "handler" /\ hdr'[c] = hdr[c] /\ ip'[c] = ip[c]
  PROVE  DispatchInv'
<1>1. \A c \in Conn : pc'[c] = "handler" => Past(c, "make")' = Past(c, "make")
  BY DEF Past, Program
<1> QED
  BY <1>1 DEF DispatchInv, RepliesToDispatched

\* A handler's call other than make_res_Packet and the sends.
LEMMA DispatchCall ==
  ASSUME TypeOK, DispatchInv, NEW c \in Conn, At(c, {"read", "skim", "db"}), Advance(c),
         UNCHANGED <<hdr, res, handled, out>>
  PROVE  DispatchInv'
<1>1. Program(c)[ip[c]] # "make" /\ pc' = pc
  BY DEF At, Advance
<1>2. \A d \in Conn : Past(d, "make")' => Past(d, "make")
  BY <1>1, PastAdvance
<1> QED
  BY <1>1, <1>2 DEF DispatchInv, RepliesToDispatched

\* Every step keeps DispatchInv: for_res_packet is filled with a dispatched request only.
LEMMA DispatchStep == TypeOK /\ DispatchInv /\ [Next]_vars => DispatchInv'
<1> SUFFICES ASSUME TypeOK, DispatchInv, [Next]_vars PROVE DispatchInv'
  OBVIOUS
<1> USE DEF clientVars, threadVars, dbVars
<1>1. ASSUME NEW c \in Conn, Client(c) PROVE DispatchInv'
  <2>1. UNCHANGED <<hdr, ip, res, handled, out, pc>>
    BY <1>1 DEF Client, Connect, Issue, Deliver, LoseField, Leave
  <2> QED
    BY <2>1, DispatchFrame
<1>2. ASSUME NEW c \in Conn, Accept(c) PROVE DispatchInv'
  <2>1. UNCHANGED <<hdr, ip, res, handled, out>>
        /\ (pc' = pc \/ pc' = [pc EXCEPT ![c] = "start"])
    BY <1>2 DEF Accept
  <2>2. \A d \in Conn : pc'[d] = "handler" => pc[d] = "handler"
    BY <2>1 DEF TypeOK
  <2> QED
    BY <2>1, <2>2, DispatchFrame
<1>3. ASSUME NEW c \in Conn,
             \/ Start(c) \/ SelectTimeout(c) \/ SelectReady(c) \/ RecvNothing(c) \/ Ends(c)
      PROVE  DispatchInv'
  <2>1. UNCHANGED <<hdr, ip, res, handled, out>>
    BY <1>3 DEF Start, SelectTimeout, SelectReady, RecvNothing, Ends, NoFile,
                NoBuffer, NoShare, NoRows, NoResult, Abort
  <2>2. \/ pc' = pc
        \/ \E p \in {"select", "recv", "done"} : pc' = [pc EXCEPT ![c] = p]
    BY <1>3 DEF Start, SelectTimeout, SelectReady, RecvNothing, ServiceDone, Ends,
                NoFile, NoBuffer, NoShare, NoRows, NoResult, Abort
  <2>3. \A d \in Conn : pc'[d] = "handler" => pc[d] = "handler"
    BY <2>2 DEF TypeOK
  <2> QED
    BY <2>1, <2>3, DispatchFrame
<1>4. ASSUME NEW c \in Conn, RecvError(c) \/ RecvHeader(c) PROVE DispatchInv'
  <2>1. PICK r : Received(c, r)
    BY <1>4 DEF RecvError, RecvHeader
  <2>2. UNCHANGED <<ip, res, handled, out>>
    BY <1>4 DEF RecvError, RecvHeader
  <2>3. \A d \in Conn : pc'[d] = "handler" =>
          pc[d] = "handler" /\ hdr'[d] = hdr[d] /\ ip'[d] = ip[d]
    BY <2>1, <2>2 DEF Received, TypeOK
  <2> QED
    BY <2>2, <2>3, DispatchFrame
<1>5. ASSUME NEW c \in Conn, Dispatch(c) PROVE DispatchInv'
  <2>1. /\ hdr' = hdr /\ res' = res /\ out' = out
        /\ handled' = handled \cup {hdr[c]}
        /\ ip'[c] = 1
        /\ \A d \in Conn \ {c} : ip'[d] = ip[d] /\ pc'[d] = pc[d]
    BY <1>5 DEF Dispatch, TypeOK
  <2>2. ~Past(c, "make")'
    BY <2>1 DEF Past
  <2>3. \A d \in Conn \ {c} : Past(d, "make")' = Past(d, "make")
    BY <2>1 DEF Past, Program
  <2>4. \A d \in Conn : pc'[d] = "handler" =>
          hdr'[d] \in handled' /\ (Past(d, "make")' => res' \in handled')
    BY <2>1, <2>2, <2>3 DEF DispatchInv
  <2>5. RepliesToDispatched'
    BY <2>1 DEF DispatchInv, RepliesToDispatched
  <2> QED
    BY <2>4, <2>5 DEF DispatchInv
<1>6. ASSUME NEW c \in Conn,
             \/ ReadField(c) \/ ReadNothing(c) \/ ReadFails(c) \/ CallDb(c)
             \/ DispatchUnknown(c) \/ Return(c)
      PROVE  DispatchInv'
  <2>1. UNCHANGED <<res, handled, out>>
    BY <1>6 DEF ReadField, ReadNothing, ReadFails, CallDb, DispatchUnknown, Return
  <2>2. \/ At(c, {"read", "skim", "db"}) /\ Advance(c) /\ hdr' = hdr
        \/ Loop(c)
        \/ UNCHANGED <<pc, hdr, ip>>
    BY <1>6 DEF ReadField, ReadNothing, ReadFails, Succeed, Fail, CallDb,
                DispatchUnknown, Return, At, Reading
  <2>3. CASE At(c, {"read", "skim", "db"}) /\ Advance(c) /\ hdr' = hdr
    BY <2>1, <2>3, DispatchCall
  <2>4. CASE Loop(c)
    <3>1. \A d \in Conn : pc'[d] = "handler" =>
            pc[d] = "handler" /\ hdr'[d] = hdr[d] /\ ip'[d] = ip[d]
      BY <2>4, LoopType
    <3> QED
      BY <2>1, <3>1, DispatchFrame
  <2>5. CASE UNCHANGED <<pc, hdr, ip>>
    BY <2>1, <2>5, DispatchFrame
  <2> QED
    BY <2>2, <2>3, <2>4, <2>5
<1>7. ASSUME NEW c \in Conn, MakeRes(c) PROVE DispatchInv'
  <2>1. /\ pc' = pc /\ hdr' = hdr /\ handled' = handled /\ out' = out
        /\ res' = hdr[c] /\ pc[c] = "handler"
    BY <1>7, AtType DEF MakeRes, Advance
  <2> QED
    BY <2>1 DEF DispatchInv, RepliesToDispatched
<1>8. ASSUME NEW c \in Conn, SendHead(c) \/ SendBody(c) PROVE DispatchInv'
  <2>1. PICK u \in {[kind |-> "hdr", req |-> res, by |-> hdr[c]],
                    [kind |-> "body", req |-> hdr[c], by |-> hdr[c]]} :
          Send(c, u)
    BY <1>8 DEF SendHead, SendBody
  <2>2. At(c, {"head", "body"})
    BY <1>8 DEF SendHead, SendBody, At
  <2>3. res \in handled /\ hdr[c] \in handled
    BY <2>2, SendsPast, AtType DEF DispatchInv
  <2>4. u.req \in handled /\ u.by \in handled
    BY <2>1, <2>3
  <2>5. RepliesToDispatched'
    <3> SUFFICES ASSUME NEW d \in Conn, NEW i \in 1..Len(out'[d])
                 PROVE  out'[d][i].req \in handled /\ out'[d][i].by \in handled
      BY <2>1 DEF RepliesToDispatched, Send
    <3>1. out[d] \in Seq(Reply)
      BY DEF TypeOK
    <3>2. CASE out'[d] = out[d]
      BY <3>2 DEF DispatchInv, RepliesToDispatched
    <3>3. CASE out'[d] = Append(out[d], u)
      <4>1. CASE i = Len(out[d]) + 1
        BY <2>4, <3>1, <3>3, <4>1
      <4>2. CASE i # Len(out[d]) + 1
        <5>1. i \in 1..Len(out[d]) /\ out'[d][i] = out[d][i]
          BY <3>1, <3>3, <4>2
        <5> QED
          BY <5>1 DEF DispatchInv, RepliesToDispatched
      <4> QED
        BY <4>1, <4>2
    <3> QED
      BY <2>1, <3>2, <3>3 DEF Send
  <2>6. /\ pc' = pc /\ UNCHANGED <<hdr, res, handled>>
        /\ Advance(c) /\ Program(c)[ip[c]] # "make"
    <3>1. Program(c)[ip[c]] \in {"head", "body"}
      BY <2>2, AtType
    <3> QED
      BY <2>1, <3>1 DEF Send, Advance
  <2>7. \A d \in Conn : Past(d, "make")' => Past(d, "make")
    BY <2>2, <2>6, PastAdvance
  <2> QED
    BY <2>5, <2>6, <2>7 DEF DispatchInv
<1>9. CASE UNCHANGED vars
  BY <1>9, DispatchFrame DEF vars
<1> QED
  BY <1>1, <1>2, <1>3, <1>4, <1>5, <1>6, <1>7, <1>8, <1>9 DEF Next, Thread, Handle

\* Nothing is dispatched and nobody is answered at first.
LEMMA InitDispatchInv == Init => DispatchInv
<1> SUFFICES ASSUME Init PROVE DispatchInv
  OBVIOUS
<1>1. \A c \in Conn : pc[c] = "none" /\ out[c] = <<>>
  BY DEF Init
<1> QED
  BY <1>1 DEF DispatchInv, RepliesToDispatched

\* Whatever the clients do, for_res_packet holds the header of a dispatched
\* request from the first make_res_Packet of a handler to its return.
THEOREM Dispatched == Spec => []DispatchInv
<1>1. Init => TypeOK /\ DispatchInv
  BY InitTypeOK, InitDispatchInv
<1>2. (TypeOK /\ DispatchInv) /\ [Next]_vars => (TypeOK /\ DispatchInv)'
  BY TypeOKStep, DispatchStep
<1> QED
  BY <1>1, <1>2, PTL DEF Spec

\* Every answer names a request that was dispatched: handlers that race for
\* for_res_packet and for the port never send a header that no handler made.
THEOREM DispatchedAnswers == Spec => []RepliesToDispatched
<1>1. DispatchInv => RepliesToDispatched
  BY DEF DispatchInv
<1> QED
  BY <1>1, Dispatched, PTL

-----------------------------------------------------------------------------
(* Clients that come one after the other.                                  *)

\* A thread past its start reads from its own connection, and its handler
\* answers there.
LEMMA OwnSocket ==
  ASSUME TypeOK, SerialInv, NEW c \in Conn, Live(c)
  PROVE  /\ portS \in Fd /\ Peer(portS) = c
         /\ pc[c] # "start" => Peer(fd[c]) = c /\ fd[c] = portS
         /\ pc[c] = "handler" => Peer(hport[c]) = c
         /\ \A d \in Conn \ {c} : ~Live(d) /\ cl[d] # "queued"
  BY DEF SerialInv, OneAtATime, Slots, Busy, Peer

\* Steps that neither open nor close a descriptor.
LEMMA SlotsFrame ==
  ASSUME TypeOK, OneAtATime, Slots, UNCHANGED <<sock, portS, fd>>,
         \A d \in Conn : pc'[d] = "handler" => hport'[d] = hport[d],
         \A d \in Conn : cl'[d] \in {"new", "queued"} => cl'[d] = cl[d],
         \A d \in Conn : \/ pc'[d] = pc[d]
                         \/ /\ Live(d) /\ pc[d] # "start"
                            /\ pc'[d] \in {"select", "recv", "dispatch"}
  PROVE  OneAtATime' /\ Slots'
<1>1. \A d \in Conn : (Live(d)' <=> Live(d)) /\ (Attached(d)' <=> Attached(d))
  BY DEF Live, Attached
<1>2. \A d \in Conn : Busy(d)' => Busy(d)
  BY <1>1 DEF Busy
<1>3. OneAtATime'
  BY <1>2 DEF OneAtATime
<1>4. \A f \in Fd : sock'[f] # NoConn => Live(sock[f])'
  <2> TAKE f \in Fd
  <2>1. sock[f] # NoConn => sock[f] \in Conn
    BY DEF TypeOK
  <2> QED
    BY <1>1, <2>1 DEF Slots
<1>5. \A d \in Conn : Live(d)' => portS' \in Fd /\ sock'[portS'] = d
  BY <1>1 DEF Slots
<1>6. \A d \in Conn : Live(d)' /\ pc'[d] # "start" => fd'[d] = portS'
  BY <1>1 DEF Slots
<1>7. \A d \in Conn : pc'[d] = "handler" => hport'[d] = portS'
  BY DEF Slots
<1>8. \A d \in Conn : cl'[d] \in {"new", "queued"} => pc'[d] = "none"
  BY DEF Slots, Live
<1> QED
  BY <1>3, <1>4, <1>5, <1>6, <1>7, <1>8 DEF Slots

\* A thread that ends closes the one open descriptor.
LEMMA SlotsDone ==
  ASSUME TypeOK, SerialInv, NEW c \in Conn, Live(c), pc[c] # "start",
         ServiceDone(c), UNCHANGED <<portS, fd, hport>>
  PROVE  OneAtATime' /\ Slots'
<1>1. /\ fd[c] = portS /\ portS \in Fd /\ sock[portS] = c
      /\ \A d \in Conn \ {c} : ~Live(d) /\ cl[d] # "queued"
  BY OwnSocket DEF Peer
<1>2. /\ pc'[c] = "done" /\ \A d \in Conn \ {c} : pc'[d] = pc[d]
      /\ cl'[c] = "closed"
      /\ \A d \in Conn \ {c} : cl'[d] = cl[d]
  BY <1>1 DEF ServiceDone, Peer, TypeOK
<1>3. \A f \in Fd : sock'[f] = NoConn
  <2> SUFFICES ASSUME NEW f \in Fd, sock'[f] # NoConn PROVE FALSE
    OBVIOUS
  <2>1. f # portS /\ sock[f] = sock'[f] /\ sock[f] \in Conn
    BY <1>1 DEF ServiceDone, TypeOK
  <2>2. Live(sock[f])
    BY <2>1 DEF SerialInv, Slots
  <2>3. sock[f] = sock[portS]
    BY <1>1, <2>1, <2>2
  <2> QED
    BY <1>1, <2>1, <2>3 DEF SerialInv, Slots
<1>4. NoConn \notin Conn
  BY ServerAssumption
<1>5. \A d \in Conn : ~Live(d)' /\ ~Attached(d)'
  BY <1>1, <1>2, <1>3, <1>4 DEF Live, Attached
<1>6. \A d \in Conn : ~Busy(d)'
  BY <1>1, <1>2, <1>5 DEF Busy
<1>7. \A d \in Conn : cl'[d] \in {"new", "queued"} => pc'[d] = "none"
  BY <1>2 DEF SerialInv, Slots
<1>8. \A d \in Conn : pc'[d] # "handler"
  BY <1>5 DEF Live
<1> QED
  BY <1>3, <1>5, <1>6, <1>7, <1>8 DEF OneAtATime, Slots

\* With one connection at a time, the shared port, the thread's socket and the handler's
\* port stay the one open descriptor.
LEMMA SlotsStep ==
  ASSUME setting.serial, TypeOK, SerialInv, [Next]_vars
  PROVE  OneAtATime' /\ Slots'
<1> USE DEF clientVars, threadVars
<1>0. OneAtATime /\ Slots
  BY DEF SerialInv
<1>1. ASSUME NEW c \in Conn, Connect(c) PROVE OneAtATime' /\ Slots'
  <2>1. \A d \in Conn : ~Busy(d)
    BY <1>1 DEF Connect
  <2>2. UNCHANGED <<sock, portS, pc, fd, hport>> /\ cl[c] = "new"
        /\ cl'[c] = "queued" /\ \A d \in Conn \ {c} : cl'[d] = cl[d]
    BY <1>1 DEF Connect, TypeOK
  <2>3. \A d \in Conn : Live(d)' = Live(d) /\ Attached(d)' = Attached(d)
    BY <2>2 DEF Live, Attached
  <2>4. \A d \in Conn : Busy(d)' => d = c
    BY <2>1, <2>2, <2>3 DEF Busy
  <2>5. OneAtATime'
    BY <2>4 DEF OneAtATime
  <2>6. \A f \in Fd : sock'[f] = NoConn
    <3> TAKE f \in Fd
    <3>1. sock[f] # NoConn => sock[f] \in Conn /\ Attached(sock[f])
      BY DEF TypeOK, Attached
    <3> QED
      BY <2>1, <2>2, <3>1 DEF Busy
  <2>7. \A d \in Conn : ~Live(d)' /\ pc'[d] # "handler"
    BY <2>1, <2>2, <2>3 DEF Busy, Live
  <2>8. \A d \in Conn : cl'[d] \in {"new", "queued"} => pc'[d] = "none"
    BY <2>2 DEF SerialInv, Slots
  <2> QED
    BY <2>5, <2>6, <2>7, <2>8 DEF Slots
<1>2. ASSUME NEW c \in Conn, Issue(c) \/ Deliver(c) \/ LoseField(c) \/ Leave(c)
      PROVE  OneAtATime' /\ Slots'
  <2>1. UNCHANGED <<sock, portS, fd, hport, pc>>
    BY <1>2 DEF Issue, Deliver, LoseField, Leave
  <2>2. cl' = cl \/ cl' = [cl EXCEPT ![c] = "closed"] \/ cl' = [cl EXCEPT ![c] = "reset"]
    BY <1>2 DEF Issue, Deliver, LoseField, Leave
  <2>3. \A d \in Conn : cl'[d] \in {"new", "queued"} => cl'[d] = cl[d]
    BY <2>2 DEF TypeOK
  <2> QED
    BY <1>0, <2>1, <2>3, SlotsFrame
<1>3. ASSUME NEW c \in Conn, Accept(c) PROVE OneAtATime' /\ Slots'
  <2>1. PICK f \in Fd :
          /\ portS' = f
          /\ \/ /\ sock' = [sock EXCEPT ![f] = c]
                /\ cl' = [cl EXCEPT ![c] = "open"]
                /\ pc' = [pc EXCEPT ![c] = "start"]
             \/ cl' = [cl EXCEPT ![c] = "closed"] /\ UNCHANGED <<sock, pc>>
    BY <1>3 DEF Accept
  <2>2. cl[c] = "queued" /\ pc[c] = "none" /\ UNCHANGED <<fd, hport>>
    BY <1>0, <1>3 DEF Accept, Slots
  <2>3. \A d \in Conn : ~Live(d) /\ (cl[d] = "queued" => d = c)
    BY <1>0, <2>2 DEF OneAtATime, Busy, Live
  <2>4. \A g \in Fd : sock[g] = NoConn
    <3> TAKE g \in Fd
    <3>1. sock[g] # NoConn => sock[g] \in Conn
      BY DEF TypeOK
    <3> QED
      BY <1>0, <2>3, <3>1 DEF Slots
  <2>5. /\ \A d \in Conn : Live(d)' => d = c /\ pc'[d] = "start" /\ sock'[f] = c
        /\ \A g \in Fd : sock'[g] # NoConn => g = f /\ sock'[g] = c /\ Live(c)'
        /\ \A d \in Conn : cl'[d] \in {"new", "queued"} =>
             cl'[d] = cl[d] /\ d # c /\ pc'[d] = pc[d]
        /\ \A d \in Conn : pc'[d] # "handler"
    <3>1. CASE /\ sock' = [sock EXCEPT ![f] = c]
               /\ cl' = [cl EXCEPT ![c] = "open"]
               /\ pc' = [pc EXCEPT ![c] = "start"]
      BY <2>3, <2>4, <3>1 DEF TypeOK, Live
    <3>2. CASE cl' = [cl EXCEPT ![c] = "closed"] /\ UNCHANGED <<sock, pc>>
      BY <2>3, <2>4, <3>2 DEF TypeOK, Live
    <3> QED
      BY <2>1, <3>1, <3>2
  <2>6. \A d \in Conn : Busy(d)' => d = c
    <3>1. NoConn \notin Conn
      BY ServerAssumption
    <3> QED
      BY <2>3, <2>5, <3>1 DEF Busy, Attached
  <2>7. OneAtATime'
    BY <2>6 DEF OneAtATime
  <2>8. \A d \in Conn : cl'[d] \in {"new", "queued"} => pc'[d] = "none"
    BY <1>0, <2>5 DEF Slots
  <2> QED
    BY <2>1, <2>5, <2>7, <2>8 DEF Slots
<1>4. ASSUME NEW c \in Conn, Start(c) PROVE OneAtATime' /\ Slots'
  <2>1. /\ UNCHANGED <<sock, portS, hport, cl>> /\ pc[c] = "start"
        /\ pc'[c] = "select" /\ \A d \in Conn \ {c} : pc'[d] = pc[d]
        /\ fd'[c] = portS /\ \A d \in Conn \ {c} : fd'[d] = fd[d]
    BY <1>4 DEF Start, TypeOK
  <2>2. \A d \in Conn : (Live(d)' <=> Live(d)) /\ (Attached(d)' <=> Attached(d))
    BY <2>1 DEF Live, Attached
  <2>3. OneAtATime'
    BY <1>0, <2>1, <2>2 DEF OneAtATime, Busy
  <2>4. \A f \in Fd : sock'[f] # NoConn => Live(sock[f])'
    <3> TAKE f \in Fd
    <3>1. sock[f] # NoConn => sock[f] \in Conn
      BY DEF TypeOK
    <3> QED
      BY <1>0, <2>1, <2>2, <3>1 DEF Slots
  <2>5. \A d \in Conn : Live(d)' => portS' \in Fd /\ sock'[portS'] = d
    BY <1>0, <2>1, <2>2 DEF Slots
  <2>6. \A d \in Conn : Live(d)' /\ pc'[d] # "start" => fd'[d] = portS'
    BY <1>0, <2>1, <2>2 DEF Slots
  <2>7. \A d \in Conn : pc'[d] = "handler" => hport'[d] = portS'
    BY <1>0, <2>1 DEF Slots
  <2>8. \A d \in Conn : cl'[d] \in {"new", "queued"} => pc'[d] = "none"
    BY <1>0, <2>1 DEF Slots
  <2> QED
    BY <1>0, <2>1, <2>3, <2>4, <2>5, <2>6, <2>7, <2>8 DEF Slots
<1>5. ASSUME NEW c \in Conn, Dispatch(c) PROVE OneAtATime' /\ Slots'
  <2>1. /\ UNCHANGED <<sock, portS, fd, cl>> /\ pc[c] = "dispatch"
        /\ pc'[c] = "handler" /\ \A d \in Conn \ {c} : pc'[d] = pc[d]
        /\ hport'[c] = portS /\ \A d \in Conn \ {c} : hport'[d] = hport[d]
    BY <1>5 DEF Dispatch, TypeOK
  <2>2. \A d \in Conn : (Live(d)' <=> Live(d)) /\ (Attached(d)' <=> Attached(d))
    BY <2>1 DEF Live, Attached
  <2>3. OneAtATime'
    BY <1>0, <2>1, <2>2 DEF OneAtATime, Busy
  <2>4. \A f \in Fd : sock'[f] # NoConn => Live(sock[f])'
    <3> TAKE f \in Fd
    <3>1. sock[f] # NoConn => sock[f] \in Conn
      BY DEF TypeOK
    <3> QED
      BY <1>0, <2>1, <2>2, <3>1 DEF Slots
  <2>5. \A d \in Conn : Live(d)' => portS' \in Fd /\ sock'[portS'] = d
    BY <1>0, <2>1, <2>2 DEF Slots
  <2>6. \A d \in Conn : Live(d)' /\ pc'[d] # "start" => fd'[d] = portS'
    BY <1>0, <2>1, <2>2 DEF Slots
  <2>7. \A d \in Conn : pc'[d] = "handler" => hport'[d] = portS'
    BY <1>0, <2>1 DEF Slots
  <2>8. \A d \in Conn : cl'[d] \in {"new", "queued"} => pc'[d] = "none"
    BY <1>0, <2>1 DEF Slots
  <2> QED
    BY <1>0, <2>1, <2>3, <2>4, <2>5, <2>6, <2>7, <2>8 DEF Slots
<1>6. ASSUME NEW c \in Conn, SelectTimeout(c) \/ RecvNothing(c)
      PROVE  OneAtATime' /\ Slots'
  <2>1. Live(c) /\ pc[c] # "start" /\ UNCHANGED <<portS, fd, hport>>
    BY <1>6 DEF SelectTimeout, RecvNothing, Live
  <2>2. CASE ServiceDone(c)
    BY <2>1, <2>2, SlotsDone
  <2>3. CASE UNCHANGED <<pc, sock, cl>>
    BY <1>0, <2>1, <2>3, SlotsFrame
  <2> QED
    BY <1>6, <2>2, <2>3 DEF SelectTimeout, RecvNothing
<1>7. ASSUME NEW c \in Conn,
             \/ SelectReady(c) \/ RecvError(c) \/ RecvHeader(c)
             \/ DispatchUnknown(c) \/ Handle(c)
      PROVE  OneAtATime' /\ Slots'
  <2>1. UNCHANGED <<sock, portS, fd>>
    BY <1>7 DEF SelectReady, RecvError, RecvHeader, DispatchUnknown, Handle,
                ReadField, ReadNothing, ReadFails, CallDb, MakeRes, SendHead,
                SendBody, Send, Return, Ends, NoFile, NoBuffer, NoShare, NoRows,
                NoResult, Abort
  <2>2. /\ pc[c] \in {"select", "recv", "dispatch", "handler"}
        /\ \/ UNCHANGED <<pc, hport>>
           \/ \E p \in {"recv", "dispatch"} : pc' = [pc EXCEPT ![c] = p] /\ hport' = hport
           \/ Loop(c)
    BY <1>7 DEF SelectReady, RecvError, RecvHeader, Received, DispatchUnknown,
                Handle, ReadField, ReadNothing, ReadFails, Succeed, Fail, CallDb,
                MakeRes, SendHead, SendBody, Send, Advance, At, Return, Ends,
                NoFile, NoBuffer, NoShare, NoRows, NoResult, Abort
  <2>3. \A d \in Conn :
          /\ \/ pc'[d] = pc[d]
             \/ /\ Live(d) /\ pc[d] # "start"
                /\ pc'[d] \in {"select", "recv", "dispatch"}
          /\ pc'[d] = "handler" => hport'[d] = hport[d]
    <3>1. CASE UNCHANGED <<pc, hport>>
      BY <3>1
    <3>2. CASE \E p \in {"recv", "dispatch"} : pc' = [pc EXCEPT ![c] = p] /\ hport' = hport
      BY <2>2, <3>2 DEF TypeOK, Live
    <3>3. CASE Loop(c)
      BY <2>2, <3>3, LoopType DEF Live
    <3> QED
      BY <2>2, <3>1, <3>2, <3>3
  <2>4. \/ cl' = cl
        \/ \E d \in Conn : cl[d] = "reset" /\ cl' = [cl EXCEPT ![d] = "closed"]
        \/ \E d \in Conn : cl' = [cl EXCEPT ![d] = IF @ = "reset" THEN "closed" ELSE @]
    BY <1>7 DEF SelectReady, RecvError, RecvHeader, DispatchUnknown, Handle,
                ReadField, ReadNothing, ReadFails, CallDb, MakeRes, SendHead,
                SendBody, Send, Return, Ends, NoFile, NoBuffer, NoShare, NoRows,
                NoResult, Abort
  <2>5. \A d \in Conn : cl'[d] \in {"new", "queued"} => cl'[d] = cl[d]
    BY <2>4 DEF TypeOK
  <2> QED
    BY <1>0, <2>1, <2>3, <2>5, SlotsFrame
<1>8. CASE UNCHANGED vars
  BY <1>0, <1>8, SlotsFrame DEF vars
<1> QED
  BY <1>1, <1>2, <1>3, <1>4, <1>5, <1>6, <1>7, <1>8 DEF Next, Client, Thread

\* What is left of a stream once units of it were taken.
LEMMA SuffixOf ==
  ASSUME NEW s \in Seq(Unit), NEW k \in 0..Len(s),
         NEW t, t = SubSeq(s, k + 1, Len(s)) \/ (t = Tail(s) /\ k = 1)
  PROVE  /\ t \in Seq(Unit) /\ Len(t) = Len(s) - k
         /\ \A i \in 1..Len(t) : i + k \in 1..Len(s) /\ t[i] = s[i + k]
<1>1. CASE t = SubSeq(s, k + 1, Len(s))
  BY <1>1
<1>2. CASE t = Tail(s) /\ k = 1
  BY <1>2
<1> QED
  BY <1>1, <1>2

\* Whatever is read from a connection, or sent on it, belongs to it.
LEMMA StreamsStep ==
  ASSUME TypeOK, SerialInv, [Next]_vars
  PROVE  Streams'
<1> USE DEF clientVars, threadVars, dbVars
<1>0. Streams /\ pend \in [Conn -> Seq(Unit)] /\ in \in [Conn -> Seq(Unit)]
      /\ hdr \in [Conn -> Request]
  BY DEF SerialInv, TypeOK
<1>1. ASSUME UNCHANGED <<in, pend, hdr>> PROVE Streams'
  BY <1>0, <1>1 DEF Streams
<1>2. ASSUME NEW c \in Conn, Issue(c) PROVE Streams'
  <2>1. PICK cmd : pend' = [pend EXCEPT ![c] =
                              Message([conn |-> c, n |-> nreq[c] + 1, cmd |-> cmd])]
    BY <1>2 DEF Issue
  <2>2. pend'[c] = Message([conn |-> c, n |-> nreq[c] + 1, cmd |-> cmd])
        /\ \A d \in Conn \ {c} : pend'[d] = pend[d]
    BY <1>0, <2>1
  <2>3. Fields(cmd) \in 0..4
    BY DEF Fields
  <2>4. \A i \in 1..Len(pend'[c]) : pend'[c][i].req.conn = c
    BY <2>2, <2>3 DEF Message, Header, FieldOf
  <2>5. in' = in /\ hdr' = hdr
    BY <1>2 DEF Issue
  <2> QED
    BY <1>0, <2>2, <2>4, <2>5 DEF Streams
<1>3. ASSUME NEW c \in Conn, Deliver(c) \/ LoseField(c) PROVE Streams'
  <2>1. /\ pend[c] # <<>> /\ hdr' = hdr /\ pend[c] \in Seq(Unit) /\ in[c] \in Seq(Unit)
    BY <1>0, <1>3 DEF Deliver, LoseField
  <2>2. \/ in' = in
        \/ \E u : in' = [in EXCEPT ![c] = Append(@, u)] /\ u.req = Head(pend[c]).req
    BY <1>3 DEF Deliver, LoseField, Part
  <2>3. Head(pend[c]).req.conn = c
        /\ \A i \in 1..Len(Tail(pend[c])) : Tail(pend[c])[i].req.conn = c
    <3>1. Head(pend[c]) = pend[c][1] /\ 1 \in 1..Len(pend[c])
      BY <2>1
    <3>2. \A i \in 1..Len(Tail(pend[c])) :
            i + 1 \in 1..Len(pend[c]) /\ Tail(pend[c])[i] = pend[c][i + 1]
      BY <2>1
    <3> QED
      BY <1>0, <3>1, <3>2 DEF Streams
  <2>4. \A i \in 1..Len(in'[c]) : in'[c][i].req.conn = c
    <3>1. CASE in' = in
      BY <1>0, <3>1 DEF Streams
    <3>2. ASSUME NEW u, in' = [in EXCEPT ![c] = Append(@, u)], u.req = Head(pend[c]).req,
                 NEW i \in 1..Len(in'[c])
          PROVE  in'[c][i].req.conn = c
      <4>1. in'[c] = Append(in[c], u)
        BY <1>0, <3>2
      <4>2. \/ i = Len(in[c]) + 1 /\ in'[c][i] = u
            \/ i \in 1..Len(in[c]) /\ in'[c][i] = in[c][i]
        BY <2>1, <4>1
      <4> QED
        BY <1>0, <2>3, <3>2, <4>2 DEF Streams
    <3> QED
      BY <2>2, <3>1, <3>2
  <2>5. /\ \A d \in Conn \ {c} : pend'[d] = pend[d] /\ in'[d] = in[d]
        /\ pend'[c] = Tail(pend[c]) \/ pend'[c] = <<>>
    BY <1>0, <1>3 DEF Deliver, LoseField
  <2>6. \A i \in 1..Len(pend'[c]) : pend'[c][i].req.conn = c
    <3>1. CASE pend'[c] = Tail(pend[c])
      BY <2>3, <3>1
    <3>2. CASE pend'[c] = <<>>
      BY <3>2
    <3> QED
      BY <2>5, <3>1, <3>2
  <2> QED
    BY <1>0, <2>1, <2>4, <2>5, <2>6 DEF Streams
<1>4. ASSUME NEW c \in Conn, Leave(c) PROVE Streams'
  <2>1. UNCHANGED <<pend, hdr>> /\ (in' = in \/ in' = [in EXCEPT ![c] = <<>>])
    BY <1>4 DEF Leave
  <2>2. \A d \in Conn : in'[d] = in[d] \/ in'[d] = <<>>
    BY <1>0, <2>1
  <2> QED
    BY <1>0, <2>1, <2>2 DEF Streams
<1>5. ASSUME NEW d \in Conn, NEW k \in 0..Len(in[d]),
             \/ in'[d] = SubSeq(in[d], k + 1, Len(in[d]))
             \/ in'[d] = Tail(in[d]) /\ k = 1,
             \A e \in Conn \ {d} : in'[e] = in[e]
      PROVE  \A e \in Conn : \A i \in 1..Len(in'[e]) : in'[e][i].req.conn = e
  <2>1. \A i \in 1..Len(in'[d]) : i + k \in 1..Len(in[d]) /\ in'[d][i] = in[d][i + k]
    <3> DEFINE s == in[d]
               t == in'[d]
    <3>1. s \in Seq(Unit) /\ k \in 0..Len(s)
          /\ (t = SubSeq(s, k + 1, Len(s)) \/ (t = Tail(s) /\ k = 1))
      BY <1>0, <1>5
    <3> HIDE DEF s, t
    <3>2. \A i \in 1..Len(t) : i + k \in 1..Len(s) /\ t[i] = s[i + k]
      BY <3>1, SuffixOf
    <3> QED
      BY <3>2 DEF s, t
  <2>2. ASSUME NEW i \in 1..Len(in'[d]) PROVE in'[d][i].req.conn = d
    <3>1. in'[d][i] = in[d][i + k] /\ i + k \in 1..Len(in[d])
      BY <2>1
    <3>2. in[d][i + k].req.conn = d
      BY <1>0, <3>1 DEF Streams
    <3> QED
      BY <3>1, <3>2
  <2>3. \A e \in Conn \ {d} : \A i \in 1..Len(in'[e]) : in'[e][i].req.conn = e
    BY <1>0, <1>5 DEF Streams
  <2> QED
    BY <2>2, <2>3
<1>6. ASSUME NEW c \in Conn, RecvError(c) PROVE Streams'
  <2>1. UNCHANGED <<in, pend>> /\ hdr' = [hdr EXCEPT ![c] = Junk(c, "unknown")]
    BY <1>6 DEF RecvError, Received
  <2>2. \A d \in Conn : hdr'[d] = hdr[d] \/ (d = c /\ hdr'[d].conn = c)
    BY <1>0, <2>1 DEF Junk
  <2> QED
    BY <1>0, <2>1, <2>2 DEF Streams
<1>7. ASSUME NEW c \in Conn, RecvHeader(c) PROVE Streams'
  <2>1. PICK d \in Conn :
          /\ d = Peer(fd[c]) /\ in[d] # <<>>
          /\ \A e \in Conn \ {d} : in'[e] = in[e]
          /\ \/ Received(c, Head(in[d]).req) /\ in'[d] = Tail(in[d])
             \/ \E k \in 0..Len(in[d]), cmd \in Command :
                  /\ in'[d] = SubSeq(in[d], k + 1, Len(in[d]))
                  /\ Received(c, Junk(d, cmd))
    BY <1>7, RecvTakes
  <2>2. d = c /\ in[d] \in Seq(Unit) /\ 1 \in 1..Len(in[d])
    <3>1. pc[c] = "recv"
      BY <1>7 DEF RecvHeader
    <3>2. Peer(fd[c]) = c
      BY <3>1, OwnSocket DEF Live
    <3>3. in[d] \in Seq(Unit)
      BY <1>0
    <3> QED
      BY <2>1, <3>2, <3>3
  <2>3. PICK r : Received(c, r) /\ r.conn = c
    <3>1. Head(in[d]).req.conn = c
      <4>1. Head(in[d]) = in[d][1]
        BY <2>1, <2>2
      <4> QED
        BY <1>0, <2>2, <4>1 DEF Streams
    <3>2. \A cmd : Junk(d, cmd).conn = c
      BY <2>2 DEF Junk
    <3> QED
      BY <2>1, <3>1, <3>2
  <2>4. \A e \in Conn : hdr'[e] = hdr[e] \/ (e = c /\ hdr'[e].conn = c)
    BY <1>0, <2>3 DEF Received
  <2>5. pend' = pend
    BY <1>7 DEF RecvHeader, clientVars
  <2>6. \A e \in Conn : \A i \in 1..Len(in'[e]) : in'[e][i].req.conn = e
    <3>1. 1 \in 0..Len(in[d])
      BY <2>2
    <3> QED
      BY <1>5, <2>1, <3>1
  <2> QED
    BY <1>0, <2>4, <2>5, <2>6 DEF Streams
<1>8. ASSUME NEW c \in Conn, hdr' = hdr \/ Loop(c) PROVE \A e \in Conn : hdr'[e].conn = e
  <2>1. CASE hdr' = hdr
    BY <1>0, <2>1 DEF Streams
  <2>2. CASE Loop(c)
    <3>1. hdr'[c] = Junk(c, "unknown") /\ \A d \in Conn \ {c} : hdr'[d] = hdr[d]
      BY <2>2, LoopType
    <3>2. hdr'[c].conn = c
      BY <3>1 DEF Junk
    <3>3. \A d \in Conn \ {c} : hdr'[d].conn = d
      BY <1>0, <3>1 DEF Streams
    <3> QED
      BY <3>2, <3>3
  <2> QED
    BY <1>8, <2>1, <2>2
<1>9. ASSUME NEW c \in Conn, ReadField(c) PROVE Streams'
  <2>1. PICK d \in Conn :
          /\ in[d] # <<>>
          /\ \A e \in Conn \ {d} : in'[e] = in[e]
          /\ \/ in'[d] = Tail(in[d])
             \/ \E k \in 0..Len(in[d]) : in'[d] = SubSeq(in[d], k + 1, Len(in[d]))
    BY <1>9, ReadTakes
  <2>2. 1 \in 0..Len(in[d])
    <3>1. in[d] \in Seq(Unit)
      BY <1>0
    <3> QED
      BY <2>1, <3>1
  <2>3. \A e \in Conn : \A i \in 1..Len(in'[e]) : in'[e][i].req.conn = e
    BY <1>5, <2>1, <2>2
  <2>4. pend' = pend /\ (hdr' = hdr \/ Loop(c))
    BY <1>9 DEF ReadField, Succeed, Fail
  <2> QED
    BY <1>0, <1>8, <2>3, <2>4 DEF Streams
<1>10. ASSUME NEW c \in Conn,
              DispatchUnknown(c) \/ ReadNothing(c) \/ ReadFails(c) \/ Return(c)
       PROVE  Streams'
  <2>1. UNCHANGED <<in, pend>> /\ (hdr' = hdr \/ Loop(c))
    BY <1>10 DEF DispatchUnknown, ReadNothing, ReadFails, Succeed, Fail, Return
  <2> QED
    BY <1>0, <1>8, <2>1 DEF Streams
<1>11. ASSUME NEW c \in Conn,
             \/ Connect(c) \/ Accept(c) \/ Start(c) \/ SelectTimeout(c)
             \/ SelectReady(c) \/ RecvNothing(c) \/ Dispatch(c) \/ CallDb(c)
             \/ MakeRes(c) \/ SendHead(c) \/ SendBody(c) \/ Ends(c)
      PROVE  Streams'
  <2>1. UNCHANGED <<in, pend, hdr>>
    BY <1>11 DEF Connect, Accept, Start, SelectTimeout, SelectReady, RecvNothing,
       Dispatch, CallDb, MakeRes, SendHead, SendBody, Send, Ends, NoFile, NoBuffer,
       NoShare, NoRows, NoResult, Abort
  <2> QED
    BY <1>1, <2>1
<1>12. CASE UNCHANGED vars
  BY <1>1, <1>12 DEF vars
<1> QED
  BY <1>2, <1>3, <1>4, <1>6, <1>7, <1>9, <1>10, <1>11, <1>12 DEF Next, Client, Thread, Handle

\* A handler that has filled for_res_packet still finds its own header there.
LEMMA ProgressStep ==
  ASSUME TypeOK, SerialInv, [Next]_vars
  PROVE  Progress'
<1> USE DEF clientVars, threadVars, dbVars
<1>0. Progress
  BY DEF SerialInv
<1>1. ASSUME res' = res, stored \cup refused \subseteq stored' \cup refused',
             \A c \in Conn : pc'[c] = "handler" =>
               pc[c] = "handler" /\ hdr'[c] = hdr[c] /\ ip'[c] = ip[c]
      PROVE  Progress'
  <2>1. \A c \in Conn : pc'[c] = "handler" => \A x : Past(c, x)' = Past(c, x)
    BY <1>1 DEF Past, Program
  <2> QED
    BY <1>0, <1>1, <2>1 DEF Progress
<1>2. ASSUME NEW c \in Conn, Client(c) \/ Accept(c) \/ Start(c) \/ SelectTimeout(c)
                \/ SelectReady(c) \/ RecvNothing(c) \/ Ends(c)
      PROVE  Progress'
  <2>1. UNCHANGED <<hdr, ip, res, stored, refused>>
    BY <1>2 DEF Client, Connect, Issue, Deliver, LoseField, Leave, Accept, Start,
       SelectTimeout, SelectReady, RecvNothing, Ends, NoFile, NoBuffer, NoShare,
       NoRows, NoResult, Abort
  <2>2. \/ pc' = pc
        \/ \E p \in {"start", "select", "recv", "done"} : pc' = [pc EXCEPT ![c] = p]
    BY <1>2 DEF Client, Connect, Issue, Deliver, LoseField, Leave, Accept, Start,
       ServiceDone, SelectTimeout, SelectReady, RecvNothing, Ends, NoFile, NoBuffer,
       NoShare, NoRows, NoResult, Abort
  <2>3. \A d \in Conn : pc'[d] = "handler" => pc[d] = "handler"
    BY <2>2 DEF TypeOK
  <2> QED
    BY <1>1, <2>1, <2>3
<1>3. ASSUME NEW c \in Conn, RecvError(c) \/ RecvHeader(c) PROVE Progress'
  <2>1. PICK r : Received(c, r)
    BY <1>3 DEF RecvError, RecvHeader
  <2>2. UNCHANGED <<ip, res, stored, refused>>
    BY <1>3 DEF RecvError, RecvHeader
  <2>3. \A d \in Conn : pc'[d] = "handler" =>
          pc[d] = "handler" /\ hdr'[d] = hdr[d] /\ ip'[d] = ip[d]
    BY <2>1, <2>2 DEF Received, TypeOK
  <2> QED
    BY <1>1, <2>2, <2>3
<1>4. ASSUME NEW c \in Conn, Dispatch(c) PROVE Progress'
  <2>1. /\ hdr' = hdr /\ res' = res /\ stored' = stored /\ refused' = refused
        /\ ip'[c] = 1
        /\ \A d \in Conn \ {c} : ip'[d] = ip[d] /\ pc'[d] = pc[d]
    BY <1>4 DEF Dispatch, TypeOK
  <2>2. \A x : ~Past(c, x)'
    BY <2>1 DEF Past
  <2>3. \A d \in Conn \ {c} : \A x : Past(d, x)' = Past(d, x)
    BY <2>1 DEF Past, Program
  <2> QED
    BY <1>0, <2>1, <2>2, <2>3 DEF Progress
<1>5. ASSUME NEW c \in Conn, NEW S, At(c, S), Advance(c), hdr' = hdr,
             res' = res \/ res' = hdr[c],
             Program(c)[ip[c]] = "make" => res' = hdr[c],
             stored \cup refused \subseteq stored' \cup refused',
             Program(c)[ip[c]] = "db" => hdr[c] \in stored' \cup refused'
      PROVE  Progress'
  <2>1. pc' = pc /\ pc[c] = "handler"
    BY <1>5 DEF Advance, At
  <2>2. \A d \in Conn \ {c} : pc[d] # "handler"
    <3>1. \A d \in Conn \ {c} : ~Live(d)
      BY <2>1, OwnSocket DEF Live
    <3> QED
      BY <3>1 DEF Live
  <2>3. \A x : Past(c, x)' => Past(c, x) \/ Program(c)[ip[c]] = x
    BY <1>5, PastAdvance
  <2>4. Past(c, "make")' => res' = hdr'[c]
    BY <1>0, <1>5, <2>1, <2>3 DEF Progress
  <2>5. Past(c, "db")' => hdr'[c] \in stored' \cup refused'
    BY <1>0, <1>5, <2>1, <2>3 DEF Progress
  <2> QED
    BY <2>1, <2>2, <2>4, <2>5 DEF Progress
<1>6. ASSUME NEW c \in Conn,
             \/ ReadField(c) \/ ReadNothing(c) \/ ReadFails(c)
             \/ DispatchUnknown(c) \/ Return(c)
      PROVE  Progress'
  <2>1. UNCHANGED <<res, stored, refused>>
    BY <1>6 DEF ReadField, ReadNothing, ReadFails, DispatchUnknown, Return
  <2>2. \/ At(c, {"read", "skim"}) /\ Advance(c) /\ hdr' = hdr
        \/ Loop(c)
        \/ UNCHANGED <<pc, hdr, ip>>
    BY <1>6 DEF ReadField, ReadNothing, ReadFails, Succeed, Fail, DispatchUnknown,
                Return, Reading
  <2>3. CASE At(c, {"read", "skim"}) /\ Advance(c) /\ hdr' = hdr
    <3>1. Program(c)[ip[c]] \in {"read", "skim"}
      BY <2>3, AtType
    <3> QED
      BY <1>5, <2>1, <2>3, <3>1
  <2>4. CASE Loop(c)
    <3>1. \A d \in Conn : pc'[d] = "handler" =>
            pc[d] = "handler" /\ hdr'[d] = hdr[d] /\ ip'[d] = ip[d]
      BY <2>4, LoopType
    <3> QED
      BY <1>1, <2>1, <3>1
  <2>5. CASE UNCHANGED <<pc, hdr, ip>>
    BY <1>1, <2>1, <2>5
  <2> QED
    BY <2>2, <2>3, <2>4, <2>5
<1>7. ASSUME NEW c \in Conn, CallDb(c) PROVE Progress'
  <2>1. At(c, {"db"}) /\ Advance(c) /\ hdr' = hdr /\ res' = res
        /\ stored' \cup refused' = stored \cup refused \cup {hdr[c]}
    BY <1>7 DEF CallDb
  <2>2. Program(c)[ip[c]] = "db"
    <3>1. Program(c)[ip[c]] \in {"db"}
      BY <2>1, AtType
    <3> QED
      BY <3>1
  <2> QED
    BY <1>5, <2>1, <2>2
<1>8. ASSUME NEW c \in Conn, MakeRes(c) PROVE Progress'
  <2>1. At(c, {"make"}) /\ Advance(c) /\ hdr' = hdr /\ res' = hdr[c]
        /\ stored' = stored /\ refused' = refused
    BY <1>8 DEF MakeRes
  <2>2. Program(c)[ip[c]] = "make"
    <3>1. Program(c)[ip[c]] \in {"make"}
      BY <2>1, AtType
    <3> QED
      BY <3>1
  <2> QED
    BY <1>5, <2>1, <2>2
<1>9. ASSUME NEW c \in Conn, SendHead(c) \/ SendBody(c) PROVE Progress'
  <2>1. At(c, {"head", "body"}) /\ Advance(c) /\ UNCHANGED <<hdr, res, stored, refused>>
    BY <1>9 DEF SendHead, SendBody, Send, At
  <2>2. Program(c)[ip[c]] \in {"head", "body"}
    BY <2>1, AtType
  <2> QED
    BY <1>5, <2>1, <2>2
<1>10. CASE UNCHANGED vars
  BY <1>1, <1>10 DEF vars
<1> QED
  BY <1>2, <1>3, <1>4, <1>6, <1>7, <1>8, <1>9, <1>10 DEF Next, Thread, Handle

\* Every answer is sent on the connection of its request, under the header its
\* handler made, and after what it acknowledges was stored.
LEMMA AnswersStep ==
  ASSUME TypeOK, SerialInv, [Next]_vars
  PROVE  Answers'
<1> USE DEF clientVars, threadVars, dbVars
<1>0. Answers
  BY DEF SerialInv
<1>1. ASSUME NEW c \in Conn, SendHead(c) \/ SendBody(c) PROVE Answers'
  <2>1. PICK u \in {[kind |-> "hdr", req |-> res, by |-> hdr[c]],
                    [kind |-> "body", req |-> hdr[c], by |-> hdr[c]]} :
          Send(c, u)
    BY <1>1 DEF SendHead, SendBody
  <2>2. At(c, {"head", "body"}) /\ pc[c] = "handler"
    BY <1>1 DEF SendHead, SendBody, At
  <2>3. /\ Peer(hport[c]) = c
        /\ res = hdr[c] /\ hdr[c].conn = c
        /\ hdr[c].cmd \in Storing => hdr[c] \in stored \cup refused
    BY <2>2, OwnSocket, SendsPast DEF Live, SerialInv, Streams, Progress
  <2>4. u.by = hdr[c] /\ u.req = hdr[c]
    BY <2>1, <2>3
  <2>5. stored' = stored /\ refused' = refused
    BY <2>1 DEF Send
  <2> SUFFICES ASSUME NEW d \in Conn, NEW i \in 1..Len(out'[d])
               PROVE  /\ out'[d][i].by.conn = d
                      /\ out'[d][i].req = out'[d][i].by
                      /\ out'[d][i].by.cmd \in Storing => out'[d][i].by \in stored' \cup refused'
    BY DEF Answers
  <2>6. CASE out'[d] = out[d]
    BY <1>0, <2>5, <2>6 DEF Answers
  <2>7. CASE d = c /\ out'[d] = Append(out[d], u)
    <3>1. out[d] \in Seq(Reply)
      BY DEF TypeOK
    <3>2. CASE i = Len(out[d]) + 1
      <4>1. out'[d][i] = u
        BY <2>7, <3>1, <3>2
      <4> QED
        BY <2>3, <2>4, <2>5, <2>7, <4>1
    <3>3. CASE i # Len(out[d]) + 1
      <4>1. i \in 1..Len(out[d]) /\ out'[d][i] = out[d][i]
        BY <2>7, <3>1, <3>3
      <4> QED
        BY <1>0, <2>5, <4>1 DEF Answers
    <3> QED
      BY <3>2, <3>3
  <2> QED
    BY <2>1, <2>3, <2>6, <2>7 DEF Send
<1>2. ASSUME UNCHANGED out, stored \cup refused \subseteq stored' \cup refused'
      PROVE  Answers'
  BY <1>0, <1>2 DEF Answers
<1>3. ASSUME NEW c \in Conn, Client(c) \/ Accept(c) PROVE Answers'
  <2>1. UNCHANGED <<out, stored, refused>>
    BY <1>3 DEF Client, Connect, Issue, Deliver, LoseField, Leave, Accept
  <2> QED
    BY <1>2, <2>1
<1>4. ASSUME NEW c \in Conn, Start(c) \/ SelectTimeout(c) \/ SelectReady(c)
             \/ RecvError(c) \/ RecvHeader(c) \/ RecvNothing(c)
             \/ DispatchUnknown(c) \/ Dispatch(c) \/ ReadField(c) \/ ReadNothing(c)
             \/ ReadFails(c) \/ MakeRes(c) \/ Return(c) \/ Ends(c)
      PROVE  Answers'
  <2>1. UNCHANGED <<out, stored, refused>>
    BY <1>4 DEF Start, SelectTimeout, SelectReady, RecvError, RecvHeader,
       RecvNothing, DispatchUnknown, Dispatch, ReadField, ReadNothing, ReadFails,
       MakeRes, Return, Ends, NoFile, NoBuffer, NoShare, NoRows, NoResult, Abort
  <2> QED
    BY <1>2, <2>1
<1>5. ASSUME NEW c \in Conn, CallDb(c) PROVE Answers'
  BY <1>2, <1>5 DEF CallDb
<1>6. CASE UNCHANGED vars
  BY <1>2, <1>6 DEF vars
<1> QED
  BY <1>1, <1>3, <1>4, <1>5, <1>6 DEF Next, Thread, Handle

\* A server without connections satisfies SerialInv.
LEMMA InitSerialInv == Init => SerialInv
<1> SUFFICES ASSUME Init PROVE SerialInv
  OBVIOUS
<1>1. /\ \A c \in Conn : /\ pc[c] = "none" /\ cl[c] = "new" /\ out[c] = <<>>
                         /\ in[c] = <<>> /\ pend[c] = <<>>
                         /\ hdr[c].conn = c
      /\ \A f \in Fd : sock[f] = NoConn
      /\ NoConn \notin Conn
  BY ServerAssumption DEF Init, Junk
<1>2. \A c \in Conn : ~Live(c) /\ ~Busy(c)
  <2>1. ASSUME NEW c \in Conn PROVE ~Live(c)
    BY <1>1 DEF Live
  <2>2. ASSUME NEW c \in Conn PROVE ~Attached(c)
    BY <1>1 DEF Attached
  <2>3. ASSUME NEW c \in Conn PROVE cl[c] # "queued"
    BY <1>1
  <2> QED
    BY <2>1, <2>2, <2>3 DEF Busy
<1>3. OneAtATime
  BY <1>2 DEF OneAtATime
<1>4. Slots
  BY <1>1, <1>2 DEF Slots
<1>5. Streams
  BY <1>1 DEF Streams
<1>6. Progress /\ Answers
  BY <1>1 DEF Progress, Answers
<1> QED
  BY <1>3, <1>4, <1>5, <1>6 DEF SerialInv

\* When clients come one after the other, at most one connection is being
\* served, the shared port and for_res_packet are its own.
THEOREM Serially == Spec => [](setting.serial => SerialInv)
<1>1. Init => TypeOK /\ (setting.serial => SerialInv)
  BY InitTypeOK, InitSerialInv
<1>2. /\ TypeOK /\ (setting.serial => SerialInv)
      /\ [Next]_vars
      => TypeOK' /\ (setting.serial => SerialInv)'
  <2> SUFFICES ASSUME TypeOK, setting.serial => SerialInv, [Next]_vars
               PROVE  TypeOK' /\ (setting.serial => SerialInv)'
    OBVIOUS
  <2>1. TypeOK' /\ setting' = setting
    BY TypeOKStep DEF Next, vars
  <2>2. ASSUME setting.serial PROVE SerialInv'
    BY <2>2, SlotsStep, StreamsStep, ProgressStep, AnswersStep DEF SerialInv
  <2> QED
    BY <2>1, <2>2
<1> QED
  BY <1>1, <1>2, PTL DEF Spec

\* Then every answer reaches the client that asked.
THEOREM SerialReplies == Spec => []RepliesWhenSerial
<1>1. (setting.serial => SerialInv) => RepliesWhenSerial
  BY DEF SerialInv, Answers, RepliesWhenSerial, RepliesReachRequester
<1> QED
  BY <1>1, Serially, PTL

\* Then the header of an answer is the one its handler made.
THEOREM SerialHeaders == Spec => []HeadersMatch
<1>1. (setting.serial => SerialInv) => HeadersMatch
  BY DEF SerialInv, Answers, HeadersMatch
<1> QED
  BY <1>1, Serially, PTL

\* Then what a storing command brings has been taken or refused by the
\* database before it is acknowledged.
THEOREM SerialStores == Spec => []AnsweredAfterDb
<1>1. (setting.serial => SerialInv) => AnsweredAfterDb
  BY DEF SerialInv, Answers, AnsweredAfterDb
<1> QED
  BY <1>1, Serially, PTL

\* Then no descriptor is left without its thread, and no thread without its own.
THEOREM SerialSockets == Spec => []ThreadOwnsSocket
<1>1. TypeOK /\ (setting.serial => SerialInv) => ThreadOwnsSocket
  BY OwnSocket DEF ThreadOwnsSocket, SerialInv, Slots
<1> QED
  BY <1>1, Serially, TypeCorrect, PTL

-----------------------------------------------------------------------------
(* Payloads.  What a client sends stays in order, so that the fields a      *)
(* handler reads are those behind its header; what is lost of a message     *)
(* tears that one message, and no other.                                   *)

\* a client that may still send
Growing(c) == cl[c] \in {"new", "queued", "open"}

\* what will be read from a connection, if anybody reads on
Reach(c) == IF Growing(c) THEN in[c] \o pend[c] ELSE in[c]

\* a header, unless its request is in T, is followed by its fields, one after
\* the other, as far as the stream goes
Followed(s, T) ==
  \A i \in 1..Len(s) : s[i].kind = "hdr" /\ s[i].req \notin T =>
    \A j \in 1..Fields(s[i].req.cmd) : i + j <= Len(s) => s[i + j] = FieldOf(s[i].req, j)

\* ... and it goes as far as the last of them
Complete(s, T) ==
  \A i \in 1..Len(s) : s[i].kind = "hdr" /\ s[i].req \notin T =>
    i + Fields(s[i].req.cmd) <= Len(s)

\* what a client has still to send is of one request
OneMessage == \A c \in Conn : \A i \in 1..Len(pend[c]) : pend[c][i].req = pend[c][1].req

Framed ==
  /\ OneMessage
  /\ \A c \in Conn : /\ Followed(Reach(c), torn)
                     /\ Growing(c) => Complete(Reach(c), torn)

\* A handler reads first of all, and no more fields than its client sends.
LEMMA ReadsTable ==
  ASSUME NEW cmd \in Command
  PROVE  /\ Fields(cmd) \in Nat
         /\ Len(Handler(cmd)) \in Nat
         /\ \A i \in 1..Len(Handler(cmd)) : Handler(cmd)[i] \in Reading =>
              i <= Fields(cmd) /\ \A k \in 1..i : Handler(cmd)[k] \in Reading
<1> USE DEF Reading
<1>1. CASE cmd = "HI_I_M"
  <2>1. Handler(cmd) = <<"make", "head">> /\ Fields(cmd) = 0
    BY <1>1 DEF Handler, Fields
  <2> QED
    BY <2>1
<1>2. CASE cmd \in {"PUBKEY_REQ", "SHARE_REQ", "ANO_SHARE_REQ"}
  <2>1. Handler(cmd) = <<"read", "db", "make", "head", "body">> /\ Fields(cmd) = 1
    BY <1>2 DEF Handler, Fields
  <2> QED
    BY <2>1
<1>3. CASE cmd = "VIDEO_DATA_SND"
  <2>1. /\ Handler(cmd) = <<"skim", "skim", "skim", "skim", "make", "db", "head">>
        /\ Fields(cmd) = 4
    BY <1>3 DEF Handler, Fields
  <2> QED
    BY <2>1
<1>4. CASE cmd = "GEN_AES"
  <2>1. Handler(cmd) = <<"db">> /\ Fields(cmd) = 1
    BY <1>4 DEF Handler, Fields
  <2> QED
    BY <2>1
<1>5. CASE cmd \in {"TEST_CMD", "TEST_GEN_SHARES"}
  <2>1. Handler(cmd) = <<"read", "db">> /\ Fields(cmd) = 1
    BY <1>5 DEF Handler, Fields
  <2> QED
    BY <2>1
<1>6. CASE cmd \in {"PUBKEY_RES", "SHARE_RES"}
  <2>1. Handler(cmd) = <<"read">> /\ Fields(cmd) = 1
    BY <1>6 DEF Handler, Fields
  <2> QED
    BY <2>1
<1>7. CASE cmd = "ANO_SHARE_RES"
  <2>1. Handler(cmd) = <<"read", "read", "read", "read">> /\ Fields(cmd) = 4
    BY <1>7 DEF Handler, Fields
  <2> QED
    BY <2>1
<1>8. CASE cmd = "TEST_SHARE_REQ"
  <2>1. Handler(cmd) = <<"make", "head", "body">> /\ Fields(cmd) = 0
    BY <1>8 DEF Handler, Fields
  <2> QED
    BY <2>1
<1>9. CASE cmd \in {"VIDEO_DATA_RES", "VER_REQ", "VER_RES", "VER_2_PROV", "PROV_RES",
                   "NICE_2_MEET_U", "GEN_SHARE_RES", "TEST_SHARE_RES", "unknown"}
  <2>1. Handler(cmd) = <<>> /\ Fields(cmd) = 0
    BY <1>9 DEF Handler, Fields
  <2> QED
    BY <2>1
<1> QED
  BY <1>1, <1>2, <1>3, <1>4, <1>5, <1>6, <1>7, <1>8, <1>9 DEF Command

\* The elements of a concatenation.
LEMMA ConcatAt ==
  ASSUME NEW s \in Seq(Unit), NEW t \in Seq(Unit)
  PROVE  /\ s \o t \in Seq(Unit) /\ Len(s \o t) = Len(s) + Len(t)
         /\ Len(s) \in Nat /\ Len(t) \in Nat
         /\ \A i \in 1..Len(s) : (s \o t)[i] = s[i]
         /\ \A i \in (Len(s) + 1)..(Len(s) + Len(t)) :
              (s \o t)[i] = t[i - Len(s)] /\ i - Len(s) \in 1..Len(t)
  OBVIOUS

\* The first element behind which everything else is.
LEMMA TailSuffix ==
  ASSUME NEW s \in Seq(Unit), s # <<>>
  PROVE  /\ Tail(s) = SubSeq(s, 2, Len(s)) /\ 1 \in 0..Len(s)
         /\ Head(s) = s[1] /\ 1 \in 1..Len(s)
<1> DEFINE a == Tail(s)
           b == SubSeq(s, 2, Len(s))
<1>1. /\ a \in Seq(Unit) /\ Len(a) = Len(s) - 1 /\ Len(s) \in Nat \ {0}
      /\ \A i \in 1..Len(a) : a[i] = s[i + 1]
  OBVIOUS
<1>2. /\ b \in Seq(Unit) /\ Len(b) = Len(s) - 1
      /\ \A i \in 1..Len(b) : b[i] = s[i + 1]
  BY <1>1
<1> HIDE DEF a, b
<1>3. a = b
  BY <1>1, <1>2, SeqEqual
<1> QED
  BY <1>1, <1>3 DEF a, b

\* The rest of a concatenation whose first part is cut.
LEMMA SuffixConcat ==
  ASSUME NEW s \in Seq(Unit), NEW t \in Seq(Unit), NEW k \in 0..Len(s)
  PROVE  /\ k \in 0..Len(s \o t)
         /\ SubSeq(s \o t, k + 1, Len(s \o t)) = SubSeq(s, k + 1, Len(s)) \o t
<1> DEFINE u == s \o t
           a == SubSeq(u, k + 1, Len(u))
           v == SubSeq(s, k + 1, Len(s))
           b == v \o t
<1>1. /\ u \in Seq(Unit) /\ Len(u) = Len(s) + Len(t) /\ Len(s) \in Nat /\ Len(t) \in Nat
      /\ \A i \in 1..Len(s) : u[i] = s[i]
      /\ \A i \in (Len(s) + 1)..(Len(s) + Len(t)) : u[i] = t[i - Len(s)]
  BY ConcatAt
<1>2. v \in Seq(Unit) /\ Len(v) = Len(s) - k /\ \A i \in 1..Len(v) : v[i] = s[i + k]
  BY SuffixOf
<1> HIDE DEF u
<1>3. k \in 0..Len(u)
  BY <1>1
<1>4. a \in Seq(Unit) /\ Len(a) = Len(u) - k /\ \A i \in 1..Len(a) : a[i] = u[i + k]
  BY <1>1, <1>3, SuffixOf
<1> HIDE DEF a, v
<1>5. /\ b \in Seq(Unit) /\ Len(b) = Len(v) + Len(t)
      /\ \A i \in 1..Len(v) : b[i] = v[i]
      /\ \A i \in (Len(v) + 1)..(Len(v) + Len(t)) : b[i] = t[i - Len(v)]
  BY <1>1, <1>2, ConcatAt
<1> HIDE DEF b
<1>6. Len(a) = Len(b)
  BY <1>1, <1>2, <1>4, <1>5
<1>7. ASSUME NEW i \in 1..Len(a) PROVE a[i] = b[i]
  <2>1. CASE i <= Len(v)
    <3>1. i \in 1..Len(v) /\ i + k \in 1..Len(s)
      BY <1>1, <1>2, <2>1
    <3> QED
      BY <1>1, <1>2, <1>4, <1>5, <3>1
  <2>2. CASE i > Len(v)
    <3>1. /\ i \in (Len(v) + 1)..(Len(v) + Len(t))
          /\ i + k \in (Len(s) + 1)..(Len(s) + Len(t)) /\ (i + k) - Len(s) = i - Len(v)
      BY <1>1, <1>2, <1>4, <2>2
    <3> QED
      BY <1>1, <1>4, <1>5, <3>1
  <2> QED
    BY <1>1, <1>2, <1>4, <2>1, <2>2
<1>8. a = b
  BY <1>4, <1>5, <1>6, <1>7, SeqEqual
<1> QED
  BY <1>3, <1>8 DEF a, b, u, v

\* Units know requests, and requests commands.
LEMMA UnitFields ==
  ASSUME NEW s \in Seq(Unit), NEW i \in 1..Len(s)
  PROVE  s[i] \in Unit /\ s[i].req \in Request /\ Fields(s[i].req.cmd) \in Nat
<1>1. s[i] \in Unit
  OBVIOUS
<1>2. s[i].req \in Request /\ s[i].req.cmd \in Command
  BY <1>1 DEF Unit, Request
<1> QED
  BY <1>1, <1>2, ReadsTable

\* A stream stays in order when more requests are torn.
LEMMA FramedMore ==
  ASSUME NEW s, NEW T, NEW T2, T \subseteq T2
  PROVE  (Followed(s, T) => Followed(s, T2)) /\ (Complete(s, T) => Complete(s, T2))
  BY DEF Followed, Complete

\* What is behind any unit is in order like the whole.
LEMMA FramedSuffix ==
  ASSUME NEW s \in Seq(Unit), NEW T, Followed(s, T), NEW k \in 0..Len(s)
  PROVE  /\ Followed(SubSeq(s, k + 1, Len(s)), T)
         /\ Complete(s, T) => Complete(SubSeq(s, k + 1, Len(s)), T)
<1> DEFINE t == SubSeq(s, k + 1, Len(s))
<1>1. /\ Len(s) \in Nat /\ Len(t) = Len(s) - k
      /\ \A i \in 1..Len(t) : i + k \in 1..Len(s) /\ t[i] = s[i + k]
  BY SuffixOf
<1> HIDE DEF t
<1>2. ASSUME NEW i \in 1..Len(t), t[i].kind = "hdr", t[i].req \notin T,
             NEW j \in 1..Fields(t[i].req.cmd), i + j <= Len(t)
      PROVE  t[i + j] = FieldOf(t[i].req, j)
  <2>1. i + k \in 1..Len(s) /\ t[i] = s[i + k]
    BY <1>1
  <2>2. Fields(s[i + k].req.cmd) \in Nat
    BY <2>1, UnitFields
  <2>3. j \in 1..Fields(s[i + k].req.cmd) /\ j \in Nat /\ (i + k) + j <= Len(s)
    BY <1>1, <1>2, <2>1, <2>2
  <2>4. s[(i + k) + j] = FieldOf(s[i + k].req, j)
    BY <1>2, <2>1, <2>3 DEF Followed
  <2>5. i + j \in 1..Len(t) /\ (i + j) + k = (i + k) + j
    BY <1>1, <1>2, <2>3
  <2>6. t[i + j] = s[(i + j) + k]
    BY <1>1, <2>5
  <2> QED
    BY <2>1, <2>4, <2>5, <2>6
<1>3. ASSUME Complete(s, T), NEW i \in 1..Len(t), t[i].kind = "hdr", t[i].req \notin T
      PROVE  i + Fields(t[i].req.cmd) <= Len(t)
  <2>1. i + k \in 1..Len(s) /\ t[i] = s[i + k]
    BY <1>1
  <2>2. (i + k) + Fields(s[i + k].req.cmd) <= Len(s)
    BY <1>3, <2>1 DEF Complete
  <2>3. Fields(s[i + k].req.cmd) \in Nat
    BY <2>1, UnitFields
  <2> QED
    BY <1>1, <2>1, <2>2, <2>3
<1>4. Followed(t, T) /\ (Complete(s, T) => Complete(t, T))
  BY <1>2, <1>3 DEF Followed, Complete
<1> QED
  BY <1>4 DEF t

\* So is the beginning of a stream that is cut off,
LEMMA FramedPrefix ==
  ASSUME NEW s \in Seq(Unit), NEW b \in Seq(Unit), NEW T, Followed(s \o b, T)
  PROVE  Followed(s, T)
<1>1. /\ Len(s) \in Nat /\ Len(b) \in Nat /\ Len(s \o b) = Len(s) + Len(b)
      /\ \A i \in 1..Len(s) : i \in 1..Len(s \o b) /\ (s \o b)[i] = s[i]
  BY ConcatAt
<1> SUFFICES ASSUME NEW i \in 1..Len(s), s[i].kind = "hdr", s[i].req \notin T,
                    NEW j \in 1..Fields(s[i].req.cmd), i + j <= Len(s)
             PROVE  s[i + j] = FieldOf(s[i].req, j)
  BY DEF Followed
<1>2. Fields(s[i].req.cmd) \in Nat
  BY UnitFields
<1>3. i + j \in 1..Len(s)
  BY <1>1, <1>2
<1>4. i + j <= Len(s \o b)
  BY <1>1, <1>3
<1>5. (s \o b)[i + j] = FieldOf((s \o b)[i].req, j)
  BY <1>1, <1>4 DEF Followed
<1> QED
  BY <1>1, <1>3, <1>5

\* so is one of which only units of torn requests change,
LEMMA FramedCut ==
  ASSUME NEW s \in Seq(Unit), NEW s2 \in Seq(Unit), NEW T, NEW T2, T \subseteq T2,
         Followed(s, T), Complete(s, T),
         NEW n \in Nat, n <= Len(s), n <= Len(s2),
         \A i \in 1..n : s2[i] = s[i],
         \A i \in (n + 1)..Len(s) : s[i].req \in T2,
         \A i \in (n + 1)..Len(s2) : s2[i].req \in T2
  PROVE  Followed(s2, T2) /\ Complete(s2, T2)
<1>1. Len(s) \in Nat /\ Len(s2) \in Nat
  OBVIOUS
<1>2. ASSUME NEW i \in 1..Len(s2), s2[i].kind = "hdr", s2[i].req \notin T2
      PROVE  /\ i + Fields(s2[i].req.cmd) <= n
             /\ \A j \in 1..Fields(s2[i].req.cmd) : s2[i + j] = FieldOf(s2[i].req, j)
  <2>1. i \in 1..n /\ i \in 1..Len(s) /\ s2[i] = s[i]
    BY <1>1, <1>2
  <2>2. Fields(s[i].req.cmd) \in Nat /\ i + Fields(s[i].req.cmd) <= Len(s)
    BY <1>2, <2>1, UnitFields DEF Complete
  <2>3. ASSUME NEW j \in 1..Fields(s[i].req.cmd)
        PROVE  i + j \in 1..n /\ s[i + j] = FieldOf(s[i].req, j)
    <3>1. i + j \in 1..Len(s)
      BY <2>1, <2>2
    <3>2. s[i + j] = FieldOf(s[i].req, j)
      BY <1>2, <2>1, <3>1 DEF Followed
    <3>3. s[i + j].req \notin T2
      BY <1>2, <2>1, <3>2 DEF FieldOf
    <3> QED
      BY <1>1, <3>1, <3>2, <3>3
  <2>4. i + Fields(s[i].req.cmd) <= n
    <3>1. CASE Fields(s[i].req.cmd) = 0
      BY <2>1, <3>1
    <3>2. CASE Fields(s[i].req.cmd) # 0
      <4>1. Fields(s[i].req.cmd) \in 1..Fields(s[i].req.cmd)
        BY <2>2, <3>2
      <4>2. i + Fields(s[i].req.cmd) \in 1..n
        BY <2>3, <4>1
      <4> QED
        BY <4>2
    <3> QED
      BY <3>1, <3>2
  <2> QED
    BY <2>1, <2>3, <2>4
<1>3. Followed(s2, T2)
  BY <1>2 DEF Followed
<1>4. Complete(s2, T2)
  <2> SUFFICES ASSUME NEW i \in 1..Len(s2), s2[i].kind = "hdr", s2[i].req \notin T2
               PROVE  i + Fields(s2[i].req.cmd) <= Len(s2)
    BY DEF Complete
  <2>1. i + Fields(s2[i].req.cmd) <= n /\ Fields(s2[i].req.cmd) \in Nat
    BY <1>2, UnitFields
  <2> QED
    BY <1>1, <2>1
<1> QED
  BY <1>3, <1>4

\* and one that is whole stays so when another message is put behind it.
LEMMA FramedMessage ==
  ASSUME NEW s \in Seq(Unit), NEW r \in Request, NEW T, Followed(s, T), Complete(s, T)
  PROVE  Followed(s \o Message(r), T) /\ Complete(s \o Message(r), T)
<1> DEFINE m == Message(r)
           t == s \o m
<1>0. Fields(r.cmd) \in Nat
  BY ReadsTable DEF Request
<1>1. /\ m \in Seq(Unit) /\ Len(m) = 1 + Fields(r.cmd)
      /\ \A k \in 1..Len(m) : m[k].req = r /\ (m[k].kind = "hdr" => k = 1)
      /\ \A k \in 1..Fields(r.cmd) : m[k + 1] = FieldOf(r, k)
  BY <1>0, MessageType
<1> HIDE DEF m
<1>2. /\ Len(s) \in Nat /\ Len(m) \in Nat /\ Len(t) = Len(s) + Len(m) /\ t \in Seq(Unit)
      /\ \A i \in 1..Len(s) : t[i] = s[i]
      /\ \A i \in (Len(s) + 1)..(Len(s) + Len(m)) :
           i - Len(s) \in 1..Len(m) /\ t[i] = m[i - Len(s)]
  BY <1>1, ConcatAt
<1> HIDE DEF t
<1>3. ASSUME NEW i \in 1..Len(t), t[i].kind = "hdr", t[i].req \notin T
      PROVE  /\ i + Fields(t[i].req.cmd) <= Len(t)
             /\ \A j \in 1..Fields(t[i].req.cmd) : i + j <= Len(t) =>
                  t[i + j] = FieldOf(t[i].req, j)
  <2>0. Fields(t[i].req.cmd) \in Nat
    BY <1>2, UnitFields
  <2>1. CASE i <= Len(s)
    <3>1. i \in 1..Len(s) /\ t[i] = s[i]
      BY <1>2, <2>1
    <3>2. i + Fields(s[i].req.cmd) <= Len(s)
      BY <1>3, <3>1 DEF Complete
    <3>3. ASSUME NEW j \in 1..Fields(t[i].req.cmd) PROVE t[i + j] = FieldOf(t[i].req, j)
      <4>1. i + j \in 1..Len(s)
        BY <2>0, <3>1, <3>2
      <4>2. s[i + j] = FieldOf(s[i].req, j)
        BY <1>3, <3>1, <4>1 DEF Followed
      <4> QED
        BY <1>2, <3>1, <4>1, <4>2
    <3> QED
      BY <1>2, <2>0, <3>1, <3>2, <3>3
  <2>2. CASE i > Len(s)
    <3>1. i \in (Len(s) + 1)..(Len(s) + Len(m))
      BY <1>2, <2>2
    <3>2. t[i] = m[i - Len(s)] /\ i - Len(s) \in 1..Len(m)
      BY <1>2, <3>1
    <3>3. t[i].req = r /\ i - Len(s) = 1
      BY <1>1, <1>3, <3>2
    <3>4. ASSUME NEW j \in 1..Fields(t[i].req.cmd) PROVE t[i + j] = FieldOf(t[i].req, j)
      <4>1. i + j \in (Len(s) + 1)..(Len(s) + Len(m)) /\ j \in 1..Fields(r.cmd)
            /\ (i + j) - Len(s) = j + 1
        BY <1>1, <1>2, <2>0, <3>3
      <4>2. t[i + j] = m[j + 1]
        BY <1>2, <4>1
      <4> QED
        BY <1>1, <3>3, <4>1, <4>2
    <3>5. i + Fields(r.cmd) <= Len(t)
      BY <1>0, <1>1, <1>2, <3>3
    <3> QED
      BY <3>3, <3>4, <3>5
  <2> QED
    BY <1>2, <2>1, <2>2
<1>4. Followed(t, T) /\ Complete(t, T)
  BY <1>3 DEF Followed, Complete
<1> QED
  BY <1>4 DEF t, m

\* What a step does to it: nothing, a message more, an end before what was not sent yet, ...
Kept(c) == Reach(c)' = Reach(c)
Extended(c) ==
  Growing(c) /\ \E r \in Request : Reach(c)' = Reach(c) \o Message(r)
CutOff(c) ==
  ~Growing(c)' /\ \E b \in Seq(Unit) : Reach(c) = Reach(c)' \o b
\* ... other units of torn requests at its end, ...
Torn(c) ==
  /\ Growing(c)
  /\ \E n \in Nat : /\ n <= Len(Reach(c)) /\ n <= Len(Reach(c)')
                    /\ \A i \in 1..n : Reach(c)'[i] = Reach(c)[i]
                    /\ \A i \in (n + 1)..Len(Reach(c)) : Reach(c)[i].req \in torn'
                    /\ \A i \in (n + 1)..Len(Reach(c)') : Reach(c)'[i].req \in torn'
\* ... or k units less at its beginning
Taken(c, k) ==
  /\ k \in 0..Len(Reach(c))
  /\ Reach(c)' = SubSeq(Reach(c), k + 1, Len(Reach(c)))

\* The stream is a sequence of units, and begins with what has arrived.
LEMMA ReachType ==
  ASSUME TypeOK, NEW c \in Conn
  PROVE  /\ Reach(c) \in Seq(Unit)
         /\ in[c] \in Seq(Unit) /\ pend[c] \in Seq(Unit)
         /\ in[c] # <<>> => /\ Reach(c)[1] = Head(in[c]) /\ in[c][1] = Head(in[c])
                            /\ 1 \in 1..Len(Reach(c))
<1>1. in[c] \in Seq(Unit) /\ pend[c] \in Seq(Unit)
  BY DEF TypeOK
<1>2. in[c] # <<>> => in[c][1] = Head(in[c]) /\ 1 \in 1..Len(in[c])
  BY <1>1
<1>3. CASE Growing(c)
  <2>1. Reach(c) = in[c] \o pend[c]
    BY <1>3 DEF Reach
  <2>2. /\ in[c] \o pend[c] \in Seq(Unit) /\ Len(in[c] \o pend[c]) = Len(in[c]) + Len(pend[c])
        /\ Len(in[c]) \in Nat /\ Len(pend[c]) \in Nat
        /\ \A i \in 1..Len(in[c]) : (in[c] \o pend[c])[i] = in[c][i]
    BY <1>1, ConcatAt
  <2>3. ASSUME in[c] # <<>>
        PROVE  /\ (in[c] \o pend[c])[1] = Head(in[c]) /\ 1 \in 1..Len(in[c] \o pend[c])
    <3>1. (in[c] \o pend[c])[1] = in[c][1]
      BY <1>2, <2>2, <2>3
    <3>2. Len(in[c]) >= 1 /\ Len(in[c]) \in Nat /\ Len(pend[c]) \in Nat
      BY <1>2, <2>2, <2>3
    <3>3. 1 \in 1..(Len(in[c]) + Len(pend[c]))
      <4> DEFINE a == Len(in[c])
                 b == Len(pend[c])
      <4>1. a \in Nat /\ b \in Nat /\ a >= 1
        BY <3>2
      <4> HIDE DEF a, b
      <4>2. 1 \in 1..(a + b)
        BY <4>1
      <4> QED
        BY <4>2 DEF a, b
    <3> QED
      BY <1>2, <2>2, <2>3, <3>1, <3>3
  <2> QED
    BY <1>1, <1>2, <2>1, <2>2, <2>3
<1>4. CASE ~Growing(c)
  <2>1. Reach(c) = in[c]
    BY <1>4 DEF Reach
  <2> QED
    BY <1>1, <1>2, <2>1
<1> QED
  BY <1>3, <1>4

\* A connection that is only closed, or left alone.
LEMMA ReachUnread ==
  ASSUME TypeOK, NEW c \in Conn, in'[c] = in[c], pend'[c] = pend[c],
         Growing(c)' => Growing(c)
  PROVE  Kept(c) \/ CutOff(c)
<1>1. in[c] \in Seq(Unit) /\ pend[c] \in Seq(Unit)
  BY ReachType
<1>2. CASE Growing(c)' <=> Growing(c)
  BY <1>2 DEF Kept, Reach
<1>3. CASE ~Growing(c)' /\ Growing(c)
  <2>1. Reach(c) = in[c] \o pend[c] /\ Reach(c)' = in[c]
    BY <1>3 DEF Reach
  <2> QED
    BY <1>1, <1>3, <2>1 DEF CutOff
<1> QED
  BY <1>2, <1>3

\* Units of a connection are read.
LEMMA ReachTaken ==
  ASSUME TypeOK, NEW c \in Conn, NEW k \in 0..Len(in[c]),
         in'[c] = SubSeq(in[c], k + 1, Len(in[c])), pend'[c] = pend[c], cl'[c] = cl[c]
  PROVE  Taken(c, k)
<1>1. in[c] \in Seq(Unit) /\ pend[c] \in Seq(Unit)
  BY ReachType
<1>2. CASE Growing(c)
  <2>1. Growing(c)'
    BY <1>2 DEF Growing
  <2>2. Reach(c) = in[c] \o pend[c]
        /\ Reach(c)' = SubSeq(in[c], k + 1, Len(in[c])) \o pend[c]
    BY <1>2, <2>1 DEF Reach
  <2> QED
    BY <1>1, <2>2, SuffixConcat DEF Taken
<1>3. CASE ~Growing(c)
  <2>1. ~Growing(c)'
    BY <1>3 DEF Growing
  <2>2. Reach(c) = in[c] /\ Reach(c)' = SubSeq(in[c], k + 1, Len(in[c]))
    BY <1>3, <2>1 DEF Reach
  <2> QED
    BY <2>2 DEF Taken
<1> QED
  BY <1>2, <1>3

\* A field, or all that is left of a video, is lost.
LEMMA ReachLost ==
  ASSUME TypeOK, TypeOK', OneMessage, NEW c \in Conn, LoseField(c)
  PROVE  Growing(c)' /\ Torn(c)
<1>1. /\ cl[c] = "open" /\ cl' = cl /\ pend[c] # <<>>
      /\ \/ in' = in
         \/ in' = [in EXCEPT ![c] = Append(@, Part(Head(pend[c]).req))]
      /\ pend' = [pend EXCEPT ![c] = Tail(@)] \/ pend' = [pend EXCEPT ![c] = <<>>]
      /\ Head(pend[c]).req \in torn'
  BY DEF LoseField
<1>2. /\ in[c] \in Seq(Unit) /\ pend[c] \in Seq(Unit)
      /\ in'[c] \in Seq(Unit) /\ pend'[c] \in Seq(Unit)
  BY DEF TypeOK
<1>3. Growing(c) /\ Growing(c)'
  BY <1>1 DEF Growing
<1>4. Reach(c) = in[c] \o pend[c] /\ Reach(c)' = in'[c] \o pend'[c]
  BY <1>3 DEF Reach
<1>5. \A i \in 1..Len(pend[c]) : pend[c][i].req \in torn'
  <2>1. Head(pend[c]) = pend[c][1]
    BY <1>1, <1>2
  <2> QED
    BY <1>1, <2>1 DEF OneMessage
<1>6. \A i \in 1..Len(pend'[c]) : pend'[c][i].req \in torn'
  <2>1. pend'[c] = Tail(pend[c]) \/ pend'[c] = <<>>
    BY <1>1 DEF TypeOK
  <2>2. CASE pend'[c] = <<>>
    BY <2>2
  <2>3. CASE pend'[c] = Tail(pend[c])
    <3>1. \A i \in 1..Len(pend'[c]) : i + 1 \in 1..Len(pend[c]) /\ pend'[c][i] = pend[c][i + 1]
      BY <1>1, <1>2, <2>3
    <3> QED
      BY <1>5, <3>1
  <2> QED
    BY <2>1, <2>2, <2>3
<1>7. /\ Len(in[c]) <= Len(in'[c]) /\ Len(in[c]) \in Nat
      /\ \A i \in 1..Len(in[c]) : in'[c][i] = in[c][i]
      /\ \A i \in (Len(in[c]) + 1)..Len(in'[c]) : in'[c][i].req \in torn'
  <2>1. in'[c] = in[c] \/ in'[c] = Append(in[c], Part(Head(pend[c]).req))
    BY <1>1 DEF TypeOK
  <2>2. CASE in'[c] = in[c]
    BY <1>2, <2>2
  <2>3. CASE in'[c] = Append(in[c], Part(Head(pend[c]).req))
    <3>1. /\ Len(in[c]) \in Nat /\ Len(in'[c]) = Len(in[c]) + 1
          /\ \A i \in 1..Len(in[c]) : in'[c][i] = in[c][i]
          /\ in'[c][Len(in[c]) + 1] = Part(Head(pend[c]).req)
      BY <1>2, <2>3
    <3>2. Part(Head(pend[c]).req).req \in torn'
      BY <1>1 DEF Part
    <3>3. \A i \in (Len(in[c]) + 1)..Len(in'[c]) : i = Len(in[c]) + 1
      BY <3>1
    <3> QED
      BY <3>1, <3>2, <3>3
  <2> QED
    BY <2>1, <2>2, <2>3
<1> DEFINE n == Len(in[c])
           s == Reach(c)
           t == Reach(c)'
           a == in'[c]
           b == pend'[c]
<1>8. /\ Len(s) = n + Len(pend[c]) /\ Len(pend[c]) \in Nat
      /\ \A i \in 1..n : s[i] = in[c][i]
      /\ \A i \in (n + 1)..Len(s) : s[i] = pend[c][i - n] /\ i - n \in 1..Len(pend[c])
  <2>1. /\ in[c] \o pend[c] \in Seq(Unit)
        /\ Len(in[c] \o pend[c]) = Len(in[c]) + Len(pend[c]) /\ Len(pend[c]) \in Nat
        /\ \A i \in 1..Len(in[c]) : (in[c] \o pend[c])[i] = in[c][i]
        /\ \A i \in (Len(in[c]) + 1)..(Len(in[c]) + Len(pend[c])) :
             /\ (in[c] \o pend[c])[i] = pend[c][i - Len(in[c])]
             /\ i - Len(in[c]) \in 1..Len(pend[c])
    BY <1>2, ConcatAt
  <2>2. s = in[c] \o pend[c]
    BY <1>4
  <2> HIDE DEF s
  <2> QED
    BY <2>1, <2>2
<1> HIDE DEF a, b
<1>9. /\ a \o b \in Seq(Unit) /\ Len(a \o b) = Len(a) + Len(b) /\ Len(a) \in Nat /\ Len(b) \in Nat
      /\ \A i \in 1..Len(a) : (a \o b)[i] = a[i]
      /\ \A i \in (Len(a) + 1)..Len(a \o b) :
           (a \o b)[i] = b[i - Len(a)] /\ i - Len(a) \in 1..Len(b)
  <2>1. a \in Seq(Unit) /\ b \in Seq(Unit)
    BY <1>2 DEF a, b
  <2> QED
    BY <2>1, ConcatAt
<1>10. t = a \o b
  BY <1>4 DEF a, b
<1>11. /\ n \in Nat /\ n <= Len(a)
       /\ \A i \in 1..n : a[i] = in[c][i]
       /\ \A i \in (n + 1)..Len(a) : a[i].req \in torn'
       /\ \A i \in 1..Len(b) : b[i].req \in torn'
  BY <1>6, <1>7 DEF a, b
<1> HIDE DEF n, s, t
<1>12. n <= Len(s) /\ n <= Len(t)
  BY <1>8, <1>9, <1>10, <1>11
<1>13. \A i \in 1..n : t[i] = s[i]
  <2> TAKE i \in 1..n
  <2>1. i \in 1..Len(a)
    BY <1>9, <1>11
  <2> QED
    BY <1>8, <1>9, <1>10, <1>11, <2>1
<1>14. \A i \in (n + 1)..Len(s) : s[i].req \in torn'
  BY <1>5, <1>8
<1>15. \A i \in (n + 1)..Len(t) : t[i].req \in torn'
  <2> TAKE i \in (n + 1)..Len(t)
  <2>1. CASE i <= Len(a)
    <3>1. i \in (n + 1)..Len(a) /\ i \in 1..Len(a)
      BY <1>11, <1>9, <2>1
    <3> QED
      BY <1>9, <1>10, <1>11, <3>1
  <2>2. CASE i > Len(a)
    <3>1. i \in (Len(a) + 1)..Len(a \o b)
      BY <1>9, <1>10, <1>11, <2>2
    <3> QED
      BY <1>9, <1>10, <1>11, <3>1
  <2> QED
    BY <1>9, <1>11, <2>1, <2>2
<1> QED
  BY <1>3, <1>11, <1>12, <1>13, <1>14, <1>15 DEF Torn, s, t

\* What the steps that read nothing do to the stream of any connection.
LEMMA ReachUntaken ==
  ASSUME TypeOK, TypeOK', OneMessage, NEW d \in Conn,
         \/ UNCHANGED vars
         \/ \E c \in Conn :
              \/ Client(c) \/ Accept(c)
              \/ Start(c) \/ SelectTimeout(c) \/ SelectReady(c) \/ RecvError(c)
              \/ RecvNothing(c) \/ DispatchUnknown(c) \/ Dispatch(c)
              \/ ReadNothing(c) \/ ReadFails(c) \/ CallDb(c) \/ MakeRes(c)
              \/ SendHead(c) \/ SendBody(c) \/ Return(c) \/ Ends(c)
  PROVE  /\ Growing(d)' => Growing(d)
         /\ Kept(d) \/ Extended(d) \/ CutOff(d) \/ Torn(d)
         /\ bites'[d] \in {bites[d], 0}
<1> USE DEF clientVars, threadVars
<1>0. /\ in[d] \in Seq(Unit) /\ pend[d] \in Seq(Unit)
      /\ cl \in [Conn -> ClStates] /\ in \in [Conn -> Seq(Unit)]
      /\ pend \in [Conn -> Seq(Unit)] /\ bites \in [Conn -> 0..MaxBites]
  BY DEF TypeOK, ClStates
<1>1. ASSUME UNCHANGED <<in, pend>>,
             \/ cl' = cl
             \/ \E c \in Conn : cl' = [cl EXCEPT ![c] = "closed"]
             \/ \E c \in Conn : cl' = [cl EXCEPT ![c] = IF @ = "reset" THEN "closed" ELSE @]
             \/ \E c \in Conn : cl[c] \in {"new", "queued"}
                                /\ \E s \in ClStates : cl' = [cl EXCEPT ![c] = s]
             \/ \E f : cl' = [e \in Conn |-> IF e = Peer(f) THEN "closed" ELSE cl[e]]
      PROVE  (Growing(d)' => Growing(d)) /\ (Kept(d) \/ CutOff(d))
  <2>1. Growing(d)' => Growing(d)
    BY <1>0, <1>1 DEF Growing
  <2> QED
    BY <1>1, <2>1, ReachUnread
<1>2. ASSUME NEW c \in Conn, Connect(c) \/ Accept(c)
      PROVE  /\ (Growing(d)' => Growing(d)) /\ (Kept(d) \/ CutOff(d))
             /\ bites' = bites
  <2>1. UNCHANGED <<in, pend, bites>>
    BY <1>2 DEF Connect, Accept
  <2>2. cl[c] \in {"new", "queued"} /\ \E s \in ClStates : cl' = [cl EXCEPT ![c] = s]
    BY <1>2 DEF Connect, Accept, ClStates
  <2> QED
    BY <1>1, <2>1, <2>2
<1>3. ASSUME NEW c \in Conn, Issue(c)
      PROVE  /\ (Growing(d)' => Growing(d)) /\ (Kept(d) \/ Extended(d))
             /\ bites' = bites
  <2>1. PICK cmd \in setting.script[c][nreq[c] + 1] :
          pend' = [pend EXCEPT ![c] =
                     Message([conn |-> c, n |-> nreq[c] + 1, cmd |-> cmd])]
    BY <1>3 DEF Issue
  <2> DEFINE r == [conn |-> c, n |-> nreq[c] + 1, cmd |-> cmd]
  <2>2. r \in Request
    <3>1. /\ setting.script \in [Conn -> Seq(SUBSET (Command \ {"unknown"}))]
          /\ nreq[c] \in Nat /\ nreq[c] < Len(setting.script[c])
      BY <1>3, ServerAssumption DEF Issue, TypeOK
    <3>2. nreq[c] + 1 \in 1..Len(setting.script[c])
          /\ setting.script[c] \in Seq(SUBSET (Command \ {"unknown"}))
      BY <3>1
    <3>3. setting.script[c][nreq[c] + 1] \in SUBSET (Command \ {"unknown"})
      BY <3>2
    <3> QED
      BY <2>1, <3>1, <3>3 DEF Request
  <2> HIDE DEF r
  <2>3. UNCHANGED <<in, cl, bites>> /\ cl[c] = "open" /\ pend[c] = <<>>
    BY <1>3 DEF Issue
  <2>4. CASE d = c
    <3>1. Growing(d) /\ Growing(d)'
      BY <2>3, <2>4 DEF Growing
    <3>2. pend'[d] = Message(r)
      BY <1>0, <2>1, <2>4 DEF r
    <3>3. Reach(d)' = in[d] \o Message(r) /\ Reach(d) = in[d]
      BY <1>0, <2>3, <2>4, <3>1, <3>2 DEF Reach
    <3> QED
      BY <2>2, <2>3, <3>1, <3>3 DEF Extended
  <2>5. CASE d # c
    <3>1. pend'[d] = pend[d]
      BY <1>0, <2>1, <2>5
    <3> QED
      BY <2>3, <3>1 DEF Kept, Reach, Growing
  <2> QED
    BY <2>4, <2>5
<1>4. ASSUME NEW c \in Conn, Deliver(c)
      PROVE  (Growing(d)' => Growing(d)) /\ Kept(d) /\ bites' = bites
  <2>1. /\ cl' = cl /\ cl[c] = "open" /\ pend[c] # <<>> /\ bites' = bites
        /\ in' = [in EXCEPT ![c] = Append(@, Head(pend[c]))]
        /\ pend' = [pend EXCEPT ![c] = Tail(@)]
    BY <1>4 DEF Deliver
  <2>2. CASE d = c
    <3>1. in'[d] = Append(in[d], Head(pend[d])) /\ pend'[d] = Tail(pend[d])
      BY <1>0, <2>1, <2>2
    <3>2. Append(in[d], Head(pend[d])) \o Tail(pend[d]) = in[d] \o pend[d]
      <4> DEFINE a == Append(in[d], Head(pend[d])) \o Tail(pend[d])
                 b == in[d] \o pend[d]
      <4>0. Head(pend[d]) \in Unit /\ Tail(pend[d]) \in Seq(Unit) /\ Len(pend[d]) > 0
        BY <1>0, <2>1, <2>2
      <4>1. a \in Seq(Unit) /\ b \in Seq(Unit) /\ Len(a) = Len(b)
        BY <1>0, <4>0
      <4>2. \A i \in 1..Len(a) : a[i] = b[i]
        BY <1>0, <4>0
      <4> QED
        BY <4>1, <4>2, SeqEqual
    <3>3. Growing(d) /\ Growing(d)'
      BY <2>1, <2>2 DEF Growing
    <3> QED
      BY <2>1, <3>1, <3>2, <3>3 DEF Kept, Reach
  <2>3. CASE d # c
    <3>1. in'[d] = in[d] /\ pend'[d] = pend[d]
      BY <1>0, <2>1, <2>3
    <3> QED
      BY <2>1, <3>1 DEF Kept, Reach, Growing
  <2> QED
    BY <2>2, <2>3
<1>5. ASSUME NEW c \in Conn, LoseField(c)
      PROVE  /\ (Growing(d)' => Growing(d)) /\ (Kept(d) \/ Torn(d))
             /\ bites' = bites
  <2>1. CASE d = c
    BY <1>5, <2>1, ReachLost DEF LoseField, Torn
  <2>2. CASE d # c
    <3>1. in'[d] = in[d] /\ pend'[d] = pend[d] /\ cl' = cl /\ bites' = bites
      BY <1>0, <1>5, <2>2 DEF LoseField
    <3> QED
      BY <3>1 DEF Kept, Reach, Growing
  <2> QED
    BY <2>1, <2>2
<1>6. ASSUME NEW c \in Conn, Leave(c)
      PROVE  /\ (Growing(d)' => Growing(d)) /\ (Kept(d) \/ CutOff(d))
             /\ bites'[d] \in {bites[d], 0}
  <2>1. CASE cl' = [cl EXCEPT ![c] = "closed"] /\ UNCHANGED <<in, bites>>
    <3>1. pend' = pend
      BY <1>6 DEF Leave
    <3> QED
      BY <1>1, <2>1, <3>1
  <2>2. CASE /\ cl' = [cl EXCEPT ![c] = "reset"] /\ in' = [in EXCEPT ![c] = <<>>]
             /\ bites' = [bites EXCEPT ![c] = 0]
    <3>1. pend' = pend
      BY <1>6 DEF Leave
    <3>2. CASE d = c
      <4>1. ~Growing(d)' /\ in'[d] = <<>> /\ bites'[d] = 0
        BY <1>0, <2>2, <3>2 DEF Growing
      <4>2. Reach(d)' = <<>> /\ Reach(d) \in Seq(Unit)
        BY <4>1, ReachType DEF Reach
      <4>3. Reach(d) = Reach(d)' \o Reach(d)
        BY <4>2
      <4> QED
        BY <4>1, <4>2, <4>3 DEF CutOff
    <3>3. CASE d # c
      <4>1. in'[d] = in[d] /\ cl'[d] = cl[d] /\ bites'[d] = bites[d]
        BY <1>0, <2>2, <3>3
      <4> QED
        BY <3>1, <4>1 DEF Kept, Reach, Growing
    <3> QED
      BY <3>2, <3>3
  <2> QED
    BY <1>6, <2>1, <2>2 DEF Leave
<1>7. ASSUME NEW c \in Conn,
             \/ Start(c) \/ SelectTimeout(c) \/ SelectReady(c) \/ RecvError(c)
             \/ RecvNothing(c) \/ DispatchUnknown(c) \/ Dispatch(c)
             \/ ReadNothing(c) \/ ReadFails(c) \/ CallDb(c) \/ MakeRes(c)
             \/ SendHead(c) \/ SendBody(c) \/ Return(c) \/ Ends(c)
      PROVE  /\ (Growing(d)' => Growing(d)) /\ (Kept(d) \/ CutOff(d))
             /\ bites' = bites
  <2>1. UNCHANGED <<in, pend, bites>>
    BY <1>7 DEF Start, SelectTimeout, SelectReady, RecvError, RecvNothing,
       DispatchUnknown, Dispatch, ReadNothing, ReadFails, CallDb, MakeRes, SendHead,
       SendBody, Send, Return, Ends, NoFile, NoBuffer, NoShare, NoRows, NoResult, Abort
  <2>2. \/ cl' = cl
        \/ \E e \in Conn : cl' = [cl EXCEPT ![e] = "closed"]
        \/ \E e \in Conn : cl' = [cl EXCEPT ![e] = IF @ = "reset" THEN "closed" ELSE @]
        \/ \E f : cl' = [e \in Conn |-> IF e = Peer(f) THEN "closed" ELSE cl[e]]
    BY <1>7 DEF Start, SelectTimeout, SelectReady, RecvError, RecvNothing, ServiceDone,
       DispatchUnknown, Dispatch, ReadNothing, ReadFails, CallDb, MakeRes, SendHead,
       SendBody, Send, Return, Ends, NoFile, NoBuffer, NoShare, NoRows, NoResult, Abort
  <2> QED
    BY <1>1, <2>1, <2>2
<1>8. CASE UNCHANGED vars
  BY <1>1, <1>8 DEF vars
<1> QED
  BY <1>2, <1>3, <1>4, <1>5, <1>6, <1>7, <1>8 DEF Client

\* What a read does to the stream of any connection.
LEMMA ReachRead ==
  ASSUME TypeOK, NEW d \in Conn, NEW e \in Conn, NEW k \in 0..Len(in[e]),
         in'[e] = SubSeq(in[e], k + 1, Len(in[e])),
         \A f \in Conn \ {e} : in'[f] = in[f], UNCHANGED <<pend, cl>>
  PROVE  /\ Growing(d)' => Growing(d)
         /\ d = e => Taken(d, k)
         /\ d # e => Kept(d)
<1>1. CASE d = e
  BY <1>1, ReachTaken DEF Growing
<1>2. CASE d # e
  <2>1. in'[d] = in[d]
    BY <1>2
  <2> QED
    BY <1>2, <2>1 DEF Kept, Reach, Growing
<1> QED
  BY <1>1, <1>2

\* What any step does to the stream of any connection: nobody reopens it.
LEMMA ReachStep ==
  ASSUME TypeOK, OneMessage, [Next]_vars, NEW d \in Conn
  PROVE  /\ Growing(d)' => Growing(d)
         /\ Kept(d) \/ Extended(d) \/ CutOff(d) \/ Torn(d) \/ \E k \in Nat : Taken(d, k)
<1>1. ASSUME NEW c \in Conn, RecvHeader(c) \/ ReadField(c)
      PROVE  /\ Growing(d)' => Growing(d)
             /\ Kept(d) \/ \E k \in Nat : Taken(d, k)
  <2>1. PICK e \in Conn :
          /\ in[e] # <<>> /\ \A f \in Conn \ {e} : in'[f] = in[f]
          /\ \/ in'[e] = Tail(in[e])
             \/ \E k \in 0..Len(in[e]) : in'[e] = SubSeq(in[e], k + 1, Len(in[e]))
    <3>1. CASE RecvHeader(c)
      BY <3>1, RecvTakes
    <3>2. CASE ReadField(c)
      BY <3>2, ReadTakes
    <3> QED
      BY <1>1, <3>1, <3>2
  <2>2. PICK k \in 0..Len(in[e]) : in'[e] = SubSeq(in[e], k + 1, Len(in[e]))
    <3>1. in[e] \in Seq(Unit)
      BY ReachType
    <3>2. Tail(in[e]) = SubSeq(in[e], 1 + 1, Len(in[e])) /\ 1 \in 0..Len(in[e])
      BY <2>1, <3>1, TailSuffix
    <3> QED
      BY <2>1, <3>2
  <2>3. UNCHANGED <<pend, cl>>
    BY <1>1 DEF RecvHeader, ReadField, clientVars
  <2>4. k \in Nat
    OBVIOUS
  <2> QED
    BY <2>1, <2>2, <2>3, <2>4, ReachRead
<1>2. TypeOK'
  BY TypeOKStep
<1> QED
  BY <1>1, <1>2, ReachUntaken DEF Next, Thread, Handle

\* Requests that were torn stay so.
LEMMA TornGrows == TypeOK /\ [Next]_vars => torn \subseteq torn'
<1> SUFFICES ASSUME TypeOK, [Next]_vars PROVE torn \subseteq torn'
  OBVIOUS
<1>1. ASSUME NEW c \in Conn, ReadField(c) \/ ReadNothing(c) \/ ReadFails(c)
      PROVE  torn \subseteq torn'
  BY <1>1, CallReads, ReadReturn
<1>2. ASSUME NEW c \in Conn, LoseField(c) PROVE torn \subseteq torn'
  BY <1>2 DEF LoseField
<1>3. ASSUME NEW c \in Conn,
             \/ Connect(c) \/ Issue(c) \/ Deliver(c) \/ Leave(c) \/ Accept(c)
             \/ Start(c) \/ SelectTimeout(c) \/ SelectReady(c) \/ RecvError(c)
             \/ RecvHeader(c) \/ RecvNothing(c) \/ DispatchUnknown(c) \/ Dispatch(c)
             \/ CallDb(c) \/ MakeRes(c) \/ SendHead(c) \/ SendBody(c) \/ Return(c)
             \/ Ends(c)
      PROVE  torn' = torn
  BY <1>3 DEF Connect, Issue, Deliver, Leave, Accept, Start, SelectTimeout,
       SelectReady, RecvError, RecvHeader, RecvNothing, DispatchUnknown, Dispatch,
       CallDb, MakeRes, SendHead, SendBody, Send, Return, Ends, NoFile, NoBuffer,
       NoShare, NoRows, NoResult, Abort
<1>4. CASE UNCHANGED vars
  BY <1>4 DEF vars
<1> QED
  BY <1>1, <1>2, <1>3, <1>4 DEF Next, Client, Thread, Handle

\* A client sends one message after the other.
LEMMA OneMessageStep == TypeOK /\ OneMessage /\ [Next]_vars => OneMessage'
<1> SUFFICES ASSUME TypeOK, OneMessage, [Next]_vars PROVE OneMessage'
  OBVIOUS
<1> USE DEF clientVars, threadVars, dbVars
<1>0. pend \in [Conn -> Seq(Unit)]
  BY DEF TypeOK
<1>1. ASSUME NEW c \in Conn, \A d \in Conn \ {c} : pend'[d] = pend[d],
             \A i \in 1..Len(pend'[c]) : pend'[c][i].req = pend'[c][1].req
      PROVE  OneMessage'
  <2>1. \A d \in Conn \ {c} : \A i \in 1..Len(pend'[d]) : pend'[d][i].req = pend'[d][1].req
    BY <1>1 DEF OneMessage
  <2> QED
    BY <1>1, <2>1 DEF OneMessage
<1>2. ASSUME NEW c \in Conn, Issue(c) PROVE OneMessage'
  <2>1. PICK cmd : pend' = [pend EXCEPT ![c] =
                              Message([conn |-> c, n |-> nreq[c] + 1, cmd |-> cmd])]
    BY <1>2 DEF Issue
  <2>2. pend'[c] = Message([conn |-> c, n |-> nreq[c] + 1, cmd |-> cmd])
        /\ \A d \in Conn \ {c} : pend'[d] = pend[d]
    BY <1>0, <2>1
  <2>3. Fields(cmd) \in 0..4
    BY DEF Fields
  <2>4. \A i \in 1..Len(pend'[c]) : pend'[c][i].req = pend'[c][1].req
    BY <2>2, <2>3 DEF Message, Header, FieldOf
  <2> QED
    BY <1>1, <2>2, <2>4
<1>3. ASSUME NEW c \in Conn, Deliver(c) \/ LoseField(c) PROVE OneMessage'
  <2>1. /\ pend[c] # <<>> /\ pend[c] \in Seq(Unit)
        /\ pend'[c] = Tail(pend[c]) \/ pend'[c] = <<>>
        /\ \A d \in Conn \ {c} : pend'[d] = pend[d]
    BY <1>0, <1>3 DEF Deliver, LoseField
  <2>2. CASE pend'[c] = Tail(pend[c])
    <3>1. \A i \in 1..Len(pend'[c]) :
            /\ i + 1 \in 1..Len(pend[c]) /\ pend'[c][i] = pend[c][i + 1]
            /\ 1 + 1 \in 1..Len(pend[c]) /\ pend'[c][1] = pend[c][1 + 1]
      BY <2>1, <2>2
    <3>2. \A i \in 1..Len(pend'[c]) : pend'[c][i].req = pend'[c][1].req
      BY <3>1 DEF OneMessage
    <3> QED
      BY <1>1, <2>1, <3>2
  <2>3. CASE pend'[c] = <<>>
    <3>1. \A i \in 1..Len(pend'[c]) : pend'[c][i].req = pend'[c][1].req
      BY <2>3
    <3> QED
      BY <1>1, <2>1, <3>1
  <2> QED
    BY <2>1, <2>2, <2>3
<1>4. ASSUME UNCHANGED pend PROVE OneMessage'
  BY <1>4 DEF OneMessage
<1>5. ASSUME NEW c \in Conn, Connect(c) \/ Leave(c) \/ Accept(c) \/ Thread(c)
      PROVE  UNCHANGED pend
  BY <1>5 DEF Connect, Leave, Accept, Thread, Start, SelectTimeout,
       SelectReady, RecvError, RecvHeader, RecvNothing, DispatchUnknown, Dispatch,
       Handle, ReadField, ReadNothing, ReadFails, CallDb, MakeRes, SendHead,
       SendBody, Send, Return, Ends, NoFile, NoBuffer, NoShare, NoRows, NoResult, Abort
<1>6. CASE UNCHANGED vars
  BY <1>4, <1>6 DEF vars
<1> QED
  BY <1>2, <1>3, <1>4, <1>5, <1>6 DEF Next, Client

\* Headers stay in front of their fields, whatever the clients do and lose.
LEMMA FramedStep == TypeOK /\ Framed /\ [Next]_vars => Framed'
<1> SUFFICES ASSUME TypeOK, Framed, [Next]_vars PROVE Framed'
  OBVIOUS
<1>o. OneMessage /\ OneMessage' /\ TypeOK' /\ torn \subseteq torn'
  BY TypeOKStep, OneMessageStep, TornGrows DEF Framed
<1> SUFFICES ASSUME NEW c \in Conn
             PROVE  /\ Followed(Reach(c), torn)'
                    /\ Growing(c)' => Complete(Reach(c), torn)'
  BY <1>o DEF Framed
<1>1. /\ Followed(Reach(c), torn) /\ (Growing(c) => Complete(Reach(c), torn))
      /\ Reach(c) \in Seq(Unit) /\ Reach(c)' \in Seq(Unit)
      /\ Growing(c)' => Growing(c)
  <2>1. Reach(c)' \in Seq(Unit)
    <3>1. in'[c] \in Seq(Unit) /\ pend'[c] \in Seq(Unit)
      BY <1>o DEF TypeOK
    <3> QED
      BY <3>1 DEF Reach
  <2> QED
    BY <1>o, <2>1, ReachType, ReachStep DEF Framed
<1>a. /\ (Followed(Reach(c), torn))' = Followed(Reach(c)', torn')
      /\ (Complete(Reach(c), torn))' = Complete(Reach(c)', torn')
  BY DEF Followed, Complete
<1>m. ASSUME Followed(Reach(c)', torn), Growing(c)' => Complete(Reach(c)', torn)
      PROVE  /\ Followed(Reach(c), torn)'
             /\ Growing(c)' => Complete(Reach(c), torn)'
  BY <1>o, <1>a, <1>m, FramedMore
<1>2. CASE Kept(c)
  BY <1>1, <1>m, <1>2 DEF Kept
<1>3. CASE Extended(c)
  <2>1. PICK r \in Request : Reach(c)' = Reach(c) \o Message(r)
    BY <1>3 DEF Extended
  <2>2. Complete(Reach(c), torn)
    BY <1>1, <1>3 DEF Extended
  <2> QED
    BY <1>1, <1>m, <2>1, <2>2, FramedMessage
<1>4. CASE CutOff(c)
  <2>1. PICK b \in Seq(Unit) : Reach(c) = Reach(c)' \o b
    BY <1>4 DEF CutOff
  <2>2. Followed(Reach(c)', torn)
    BY <1>1, <2>1, FramedPrefix
  <2> QED
    BY <1>m, <1>4, <2>2 DEF CutOff
<1>5. CASE Torn(c)
  <2>1. Followed(Reach(c)', torn') /\ Complete(Reach(c)', torn')
    BY <1>o, <1>1, <1>5, FramedCut DEF Torn
  <2> QED
    BY <1>a, <2>1
<1>6. ASSUME NEW k \in Nat, Taken(c, k)
      PROVE  /\ Followed(Reach(c), torn)'
             /\ Growing(c)' => Complete(Reach(c), torn)'
  BY <1>1, <1>m, <1>6, FramedSuffix DEF Taken
<1> QED
  BY <1>o, <1>2, <1>3, <1>4, <1>5, <1>6, ReachStep

\* the fields that the thread will read for the header it has
ToRead(c) ==
  CASE pc[c] = "dispatch" -> 1..Fields(hdr[c].cmd)
    [] pc[c] = "handler"  -> {i \in ip[c]..Len(Program(c)) : Program(c)[i] \in Reading}
    [] OTHER              -> {}

\* the one that should come next
Here(c) == IF pc[c] = "handler" THEN ip[c] ELSE 1

\* they are the next in the stream, those of the header's own request, and its
\* client sends all of them
OwnAhead(c) ==
  hdr[c].n # 0 /\ hdr[c] \notin torn => \A i \in ToRead(c) :
    /\ bites[c] = 0
    /\ i - Here(c) + 1 <= Len(Reach(c)) => Reach(c)[i - Here(c) + 1] = FieldOf(hdr[c], i)
    /\ Growing(c) => i - Here(c) + 1 <= Len(Reach(c))

\* the inductive invariant behind PayloadIsOwn, for clients that do not overlap
PayloadInv == SerialInv /\ (\A c \in Conn : OwnAhead(c)) /\ PayloadIsOwn

\* The fields to be read when a handler makes a call: one less, or no more.
LEMMA ToReadAdvance ==
  ASSUME TypeOK, NEW c \in Conn, NEW S, At(c, S), Advance(c), hdr'[c] = hdr[c]
  PROVE  /\ ToRead(c)' \subseteq ToRead(c)
         /\ Here(c) = ip[c] /\ Here(c)' = ip[c] + 1 /\ ip[c] \in Nat
         /\ \A i \in ToRead(c)' : i >= ip[c] + 1
         /\ Program(c)[ip[c]] \notin Reading => ToRead(c)' = {}
<1>1. /\ ip[c] \in 1..Len(Program(c)) /\ Program(c) = Handler(hdr[c].cmd)
      /\ hdr[c].cmd \in Command /\ pc[c] = "handler"
  BY AtType
<1>2. pc'[c] = "handler" /\ ip'[c] = ip[c] + 1 /\ Program(c)' = Program(c)
  BY <1>1 DEF Advance, TypeOK, Program
<1>3. Len(Program(c)) \in Nat
  BY <1>1, ReadsTable
<1>4. /\ ToRead(c) = {i \in ip[c]..Len(Program(c)) : Program(c)[i] \in Reading}
      /\ ToRead(c)' = {i \in (ip[c] + 1)..Len(Program(c)) : Program(c)[i] \in Reading}
  BY <1>1, <1>2 DEF ToRead
<1>5. ASSUME NEW i \in ToRead(c)'
      PROVE  i \in ToRead(c) /\ i >= ip[c] + 1 /\ Program(c)[ip[c]] \in Reading
  <2>1. i \in (ip[c] + 1)..Len(Program(c)) /\ Program(c)[i] \in Reading
    BY <1>4
  <2>2. i \in 1..Len(Program(c)) /\ ip[c] \in 1..i /\ i \in ip[c]..Len(Program(c))
    BY <1>1, <1>3, <2>1
  <2>3. Program(c)[ip[c]] \in Reading
    BY <1>1, <2>1, <2>2, ReadsTable
  <2> QED
    BY <1>4, <2>1, <2>2, <2>3
<1>6. Here(c) = ip[c] /\ Here(c)' = ip[c] + 1 /\ ip[c] \in Nat
  BY <1>1, <1>2, <1>3 DEF Here
<1> QED
  BY <1>5, <1>6

\* A thread that makes a reading call reads the field next to come.
LEMMA ToReadFirst ==
  ASSUME TypeOK, NEW c \in Conn, At(c, Reading)
  PROVE  ip[c] \in ToRead(c) /\ Here(c) = ip[c] /\ ip[c] - Here(c) + 1 = 1
<1>1. /\ ip[c] \in 1..Len(Program(c)) /\ Program(c) = Handler(hdr[c].cmd)
      /\ hdr[c].cmd \in Command /\ pc[c] = "handler" /\ Program(c)[ip[c]] \in Reading
  BY AtType
<1>2. Len(Program(c)) \in Nat
  BY <1>1, ReadsTable
<1>3. ip[c] \in ip[c]..Len(Program(c)) /\ ip[c] - ip[c] + 1 = 1
  BY <1>1, <1>2
<1> QED
  BY <1>1, <1>3 DEF ToRead, Here

\* Fields to be read are counted from the one that should come next.
LEMMA ToReadType ==
  ASSUME TypeOK, NEW c \in Conn
  PROVE  Here(c) \in Nat /\ \A i \in ToRead(c) : i \in Nat /\ i >= Here(c)
<1>0. ip[c] \in Nat /\ hdr[c].cmd \in Command
  <2>1. hdr[c] \in Request
    BY DEF TypeOK
  <2>2. ip[c] \in 1..8
    BY DEF TypeOK
  <2> QED
    BY <2>1, <2>2 DEF Request
<1>1. CASE pc[c] = "dispatch"
  BY <1>1, <1>0, ReadsTable DEF ToRead, Here
<1>2. CASE pc[c] = "handler"
  <2>1. Len(Program(c)) \in Nat
    BY <1>0, ReadsTable DEF Program
  <2> QED
    BY <1>2, <1>0, <2>1 DEF ToRead, Here
<1>3. CASE pc[c] \notin {"dispatch", "handler"}
  BY <1>3 DEF ToRead, Here
<1> QED
  BY <1>1, <1>2, <1>3

\* The callback that is called reads no more than its client sends.
LEMMA ToReadDispatch ==
  ASSUME TypeOK, NEW c \in Conn, Dispatch(c)
  PROVE  ToRead(c)' \subseteq ToRead(c) /\ Here(c)' = Here(c)
<1>1. /\ pc[c] = "dispatch" /\ pc'[c] = "handler" /\ ip'[c] = 1 /\ hdr' = hdr
      /\ hdr[c].cmd \in Command
  <2>1. hdr[c] \in Request
    BY DEF TypeOK
  <2>2. hdr[c].cmd \in Command
    BY <2>1 DEF Request
  <2>3. pc'[c] = "handler" /\ ip'[c] = 1
    BY DEF Dispatch, TypeOK
  <2> QED
    BY <2>2, <2>3 DEF Dispatch
<1>2. Program(c)' = Handler(hdr[c].cmd) /\ Len(Handler(hdr[c].cmd)) \in Nat
  BY <1>1, ReadsTable DEF Program
<1>3. ASSUME NEW i \in ToRead(c)' PROVE i \in ToRead(c)
  <2>1. i \in 1..Len(Handler(hdr[c].cmd)) /\ Handler(hdr[c].cmd)[i] \in Reading
    BY <1>1, <1>2 DEF ToRead
  <2>2. i <= Fields(hdr[c].cmd) /\ Fields(hdr[c].cmd) \in Nat
    BY <1>1, <2>1, ReadsTable
  <2>3. i \in 1..Fields(hdr[c].cmd)
    BY <2>1, <2>2
  <2> QED
    BY <1>1, <2>3 DEF ToRead
<1> QED
  BY <1>1, <1>3 DEF Here

\* What is to be read depends on the thread alone.
LEMMA ToReadSame ==
  ASSUME NEW d \in Conn, pc'[d] = pc[d], hdr'[d] = hdr[d], ip'[d] = ip[d]
  PROVE  ToRead(d)' = ToRead(d) /\ Here(d)' = Here(d)
  BY DEF ToRead, Here, Program

\* A thread before its next header, one nobody asked, or one whose request was
\* torn has nothing to find.
LEMMA OwnNone ==
  ASSUME NEW d \in Conn,
         \/ pc'[d] \notin {"dispatch", "handler"} \/ ToRead(d)' = {}
         \/ hdr'[d].n = 0 \/ hdr'[d] \in torn'
  PROVE  OwnAhead(d)'
<1>1. CASE pc'[d] \notin {"dispatch", "handler"}
  <2>1. ToRead(d)' = {}
    BY <1>1 DEF ToRead
  <2> QED
    BY <2>1 DEF OwnAhead
<1>2. CASE hdr'[d].n = 0 \/ hdr'[d] \in torn' \/ ToRead(d)' = {}
  BY <1>2 DEF OwnAhead
<1> QED
  BY <1>1, <1>2

\* Nothing is read, and no field more is to be read.
LEMMA OwnKept ==
  ASSUME TypeOK, TypeOK', NEW d \in Conn, OwnAhead(d), hdr'[d] = hdr[d],
         torn \subseteq torn', bites'[d] \in {bites[d], 0},
         ToRead(d)' \subseteq ToRead(d), Here(d)' = Here(d),
         Growing(d)' => Growing(d), Kept(d) \/ Extended(d) \/ CutOff(d) \/ Torn(d)
  PROVE  OwnAhead(d)'
<1> SUFFICES ASSUME hdr[d].n # 0, hdr[d] \notin torn', NEW i \in ToRead(d)'
             PROVE  /\ bites'[d] = 0
                    /\ i - Here(d) + 1 <= Len(Reach(d)') =>
                         Reach(d)'[i - Here(d) + 1] = FieldOf(hdr[d], i)
                    /\ Growing(d)' => i - Here(d) + 1 <= Len(Reach(d)')
  BY DEF OwnAhead
<1> DEFINE j == i - Here(d) + 1
           s == Reach(d)
           t == Reach(d)'
<1>1. /\ bites'[d] = 0
      /\ j <= Len(s) => s[j] = FieldOf(hdr[d], i)
      /\ Growing(d) => j <= Len(s)
  BY DEF OwnAhead
<1>2. j \in Nat \ {0}
  <2>1. i \in Nat /\ Here(d) \in Nat /\ i >= Here(d)
    BY ToReadType
  <2> QED
    BY <2>1
<1>3. s \in Seq(Unit) /\ t \in Seq(Unit)
  <2>1. in'[d] \in Seq(Unit) /\ pend'[d] \in Seq(Unit)
    BY DEF TypeOK
  <2>2. t \in Seq(Unit)
    BY <2>1 DEF Reach
  <2> QED
    BY <2>2, ReachType
<1>4. \/ t = s
      \/ Growing(d) /\ \E m \in Seq(Unit) : t = s \o m
      \/ ~Growing(d)' /\ \E b \in Seq(Unit) : s = t \o b
      \/ /\ Growing(d)
         /\ \E n \in Nat : /\ n <= Len(s) /\ n <= Len(t)
                           /\ \A k \in 1..n : t[k] = s[k]
                           /\ \A k \in (n + 1)..Len(s) : s[k].req \in torn'
  BY MessageType DEF Kept, Extended, CutOff, Torn
<1>5. (j <= Len(t) => t[j] = FieldOf(hdr[d], i)) /\ (Growing(d)' => j <= Len(t))
  <2> HIDE DEF s, t, j
  <2>1. CASE t = s
    BY <1>1, <2>1
  <2>2. ASSUME Growing(d), NEW m \in Seq(Unit), t = s \o m
        PROVE  j <= Len(t) /\ t[j] = FieldOf(hdr[d], i)
    <3>1. Len(s) \in Nat /\ Len(m) \in Nat /\ Len(t) = Len(s) + Len(m)
          /\ \A k \in 1..Len(s) : t[k] = s[k]
      BY <1>3, <2>2, ConcatAt
    <3>2. j \in 1..Len(s)
      BY <1>1, <1>2, <2>2, <3>1
    <3> QED
      BY <1>1, <2>2, <3>1, <3>2
  <2>3. ASSUME ~Growing(d)', NEW b \in Seq(Unit), s = t \o b, j <= Len(t)
        PROVE  t[j] = FieldOf(hdr[d], i)
    <3>1. Len(t) \in Nat /\ Len(b) \in Nat /\ Len(s) = Len(t) + Len(b)
          /\ \A k \in 1..Len(t) : s[k] = t[k]
      BY <1>3, <2>3, ConcatAt
    <3>2. j \in 1..Len(t) /\ j <= Len(s)
      BY <1>2, <2>3, <3>1
    <3> QED
      BY <1>1, <3>1, <3>2
  <2>4. ASSUME Growing(d), NEW n \in Nat, n <= Len(s), n <= Len(t),
               \A k \in 1..n : t[k] = s[k], \A k \in (n + 1)..Len(s) : s[k].req \in torn'
        PROVE  j <= Len(t) /\ t[j] = FieldOf(hdr[d], i)
    <3>1. Len(s) \in Nat /\ Len(t) \in Nat
      BY <1>3
    <3>2. j \in 1..Len(s) /\ s[j] = FieldOf(hdr[d], i)
      BY <1>1, <1>2, <2>4, <3>1
    <3>3. s[j].req \notin torn'
      BY <3>2 DEF FieldOf
    <3>4. j \in 1..n
      BY <2>4, <3>1, <3>2, <3>3
    <3> QED
      BY <2>4, <3>1, <3>2, <3>4
  <2> QED
    BY <1>4, <2>1, <2>2, <2>3, <2>4
<1> QED
  BY <1>1, <1>5

\* A field is read, and the others come one unit nearer.
LEMMA OwnTaken ==
  ASSUME TypeOK, TypeOK', NEW d \in Conn, OwnAhead(d), hdr'[d] = hdr[d],
         torn \subseteq torn', bites'[d] = bites[d],
         NEW S, At(d, S), Advance(d),
         Growing(d)' => Growing(d), Taken(d, 1)
  PROVE  OwnAhead(d)'
<1>1. /\ ToRead(d)' \subseteq ToRead(d)
      /\ Here(d) = ip[d] /\ Here(d)' = ip[d] + 1 /\ ip[d] \in Nat
      /\ \A i \in ToRead(d)' : i >= ip[d] + 1
  BY ToReadAdvance
<1> SUFFICES ASSUME hdr[d].n # 0, hdr[d] \notin torn', NEW i \in ToRead(d)'
             PROVE  /\ bites[d] = 0
                    /\ i - (ip[d] + 1) + 1 <= Len(Reach(d)') =>
                         Reach(d)'[i - (ip[d] + 1) + 1] = FieldOf(hdr[d], i)
                    /\ Growing(d)' => i - (ip[d] + 1) + 1 <= Len(Reach(d)')
  BY <1>1 DEF OwnAhead
<1> DEFINE j == i - (ip[d] + 1) + 1
<1>2. /\ bites[d] = 0
      /\ i - ip[d] + 1 <= Len(Reach(d)) => Reach(d)[i - ip[d] + 1] = FieldOf(hdr[d], i)
      /\ Growing(d) => i - ip[d] + 1 <= Len(Reach(d))
  BY <1>1 DEF OwnAhead
<1>3. j \in Nat \ {0} /\ i - ip[d] + 1 = j + 1
  <2>1. i \in Nat /\ i >= ip[d] + 1
    BY <1>1, ToReadType
  <2> QED
    BY <1>1, <2>1
<1>4. /\ Len(Reach(d)') = Len(Reach(d)) - 1 /\ Len(Reach(d)) \in Nat
      /\ \A k \in 1..Len(Reach(d)') : Reach(d)'[k] = Reach(d)[k + 1]
  <2> DEFINE s == Reach(d)
             t == Reach(d)'
  <2>1. s \in Seq(Unit) /\ 1 \in 0..Len(s) /\ t = SubSeq(s, 1 + 1, Len(s))
    BY ReachType DEF Taken
  <2> HIDE DEF s, t
  <2>2. Len(t) = Len(s) - 1 /\ \A k \in 1..Len(t) : t[k] = s[k + 1]
    <3> DEFINE one == 1
    <3>1. s \in Seq(Unit) /\ one \in 0..Len(s) /\ t = SubSeq(s, one + 1, Len(s))
      BY <2>1
    <3> HIDE DEF one
    <3>2. Len(t) = Len(s) - one /\ \A k \in 1..Len(t) : t[k] = s[k + one]
      BY <3>1, SuffixOf
    <3> QED
      BY <3>2 DEF one
  <2>3. Len(s) \in Nat
    BY <2>1
  <2> QED
    BY <2>2, <2>3 DEF s, t
<1> HIDE DEF j
<1>5. (j <= Len(Reach(d)') => Reach(d)'[j] = FieldOf(hdr[d], i))
      /\ (Growing(d)' => j <= Len(Reach(d)'))
  BY <1>2, <1>3, <1>4
<1> QED
  BY <1>2, <1>5 DEF j

\* A whole header is read: its fields are next.
LEMMA OwnHeader ==
  ASSUME TypeOK, TypeOK', Framed, torn \subseteq torn', NEW c \in Conn, in[c] # <<>>,
         WholeHeader(c), hdr'[c] = Head(in[c]).req, pc'[c] = "dispatch",
         bites'[c] = bites[c], Growing(c)' => Growing(c), Taken(c, 1)
  PROVE  OwnAhead(c)'
<1> DEFINE s == Reach(c)
           t == Reach(c)'
           h == hdr'[c]
<1>1. /\ s \in Seq(Unit) /\ s[1] = Head(in[c]) /\ 1 \in 1..Len(s)
      /\ 1 \in 0..Len(s) /\ t = SubSeq(s, 1 + 1, Len(s))
  BY ReachType DEF Taken
<1>2. s[1].kind = "hdr" /\ s[1].req = h /\ bites'[c] = 0
  BY <1>1 DEF WholeHeader
<1>3. Followed(s, torn) /\ (Growing(c) => Complete(s, torn))
  BY DEF Framed
<1>4. ToRead(c)' = 1..Fields(h.cmd) /\ Here(c)' = 1
  BY DEF ToRead, Here
<1> SUFFICES ASSUME h \notin torn, NEW i \in 1..Fields(h.cmd)
             PROVE  /\ i - 1 + 1 <= Len(t) => t[i - 1 + 1] = FieldOf(h, i)
                    /\ Growing(c)' => i - 1 + 1 <= Len(t)
  BY <1>2, <1>4 DEF OwnAhead
<1> HIDE DEF s, t, h
<1>5. Len(t) = Len(s) - 1 /\ Len(s) \in Nat /\ \A k \in 1..Len(t) : t[k] = s[k + 1]
  <2>1. Len(t) = Len(s) - 1 /\ \A k \in 1..Len(t) : t[k] = s[k + 1]
    <3> DEFINE one == 1
    <3>1. s \in Seq(Unit) /\ one \in 0..Len(s) /\ t = SubSeq(s, one + 1, Len(s))
      BY <1>1
    <3> HIDE DEF one
    <3>2. Len(t) = Len(s) - one /\ \A k \in 1..Len(t) : t[k] = s[k + one]
      BY <3>1, SuffixOf
    <3> QED
      BY <3>2 DEF one
  <2>2. Len(s) \in Nat
    BY <1>1
  <2> QED
    BY <2>1, <2>2
<1>6. /\ 1 + i <= Len(s) => s[1 + i] = FieldOf(h, i)
      /\ Growing(c) => 1 + Fields(h.cmd) <= Len(s)
  BY <1>1, <1>2, <1>3 DEF Followed, Complete
<1>7. i \in Nat \ {0} /\ i - 1 + 1 = i /\ i <= Fields(h.cmd) /\ Fields(h.cmd) \in Nat
  <2>1. Fields(h.cmd) \in Nat
    BY <1>1, <1>2, UnitFields
  <2> QED
    BY <2>1
<1> QED
  BY <1>5, <1>6, <1>7

\* No step that reads nothing comes between a header and its fields.
LEMMA OwnUntaken ==
  ASSUME TypeOK, TypeOK', OneMessage, torn \subseteq torn', NEW d \in Conn, OwnAhead(d),
         \/ UNCHANGED vars
         \/ \E c \in Conn :
              \/ Client(c) \/ Accept(c)
              \/ Start(c) \/ SelectTimeout(c) \/ SelectReady(c) \/ RecvError(c)
              \/ RecvNothing(c) \/ DispatchUnknown(c) \/ Dispatch(c)
              \/ ReadNothing(c) \/ ReadFails(c) \/ CallDb(c) \/ MakeRes(c)
              \/ SendHead(c) \/ SendBody(c) \/ Return(c) \/ Ends(c)
  PROVE  OwnAhead(d)'
<1> USE DEF clientVars, threadVars
<1>1. /\ Growing(d)' => Growing(d)
      /\ Kept(d) \/ Extended(d) \/ CutOff(d) \/ Torn(d)
      /\ bites'[d] \in {bites[d], 0}
  BY ReachUntaken
<1>2. ASSUME pc'[d] = pc[d], hdr'[d] = hdr[d], ip'[d] = ip[d] PROVE OwnAhead(d)'
  <2>1. ToRead(d)' = ToRead(d) /\ Here(d)' = Here(d)
    BY <1>2, ToReadSame
  <2> QED
    BY <1>1, <1>2, <2>1, OwnKept
<1>3. ASSUME NEW c \in Conn, Client(c) \/ Ends(c) PROVE OwnAhead(d)'
  <2>1. UNCHANGED <<pc, hdr, ip>>
    BY <1>3 DEF Client, Connect, Issue, Deliver, LoseField, Leave, Ends, NoFile,
                NoBuffer, NoShare, NoRows, NoResult, Abort
  <2> QED
    BY <1>2, <2>1
<1>4. ASSUME NEW c \in Conn,
             Accept(c) \/ Start(c) \/ SelectTimeout(c) \/ SelectReady(c) \/ RecvNothing(c)
      PROVE  OwnAhead(d)'
  <2>1. UNCHANGED <<hdr, ip>>
    BY <1>4 DEF Accept, Start, SelectTimeout, SelectReady, RecvNothing
  <2>2. \/ pc' = pc
        \/ \E p \in {"start", "select", "recv", "done"} : pc' = [pc EXCEPT ![c] = p]
    BY <1>4 DEF Accept, Start, SelectTimeout, SelectReady, RecvNothing, ServiceDone
  <2>3. pc'[d] = pc[d] \/ pc'[d] \notin {"dispatch", "handler"}
    BY <2>2 DEF TypeOK
  <2> QED
    BY <1>2, <2>1, <2>3, OwnNone
<1>5. ASSUME NEW c \in Conn, RecvError(c) PROVE OwnAhead(d)'
  <2>1. Received(c, Junk(c, "unknown")) /\ UNCHANGED ip
    BY <1>5 DEF RecvError
  <2>2. CASE d = c
    <3>1. hdr'[d].n = 0
      BY <2>1, <2>2 DEF Received, TypeOK, Junk
    <3> QED
      BY <3>1, OwnNone
  <2>3. CASE d # c
    <3>1. pc'[d] = pc[d] /\ hdr'[d] = hdr[d] /\ ip'[d] = ip[d]
      BY <2>1, <2>3 DEF Received, TypeOK
    <3> QED
      BY <1>2, <3>1
  <2> QED
    BY <2>2, <2>3
<1>6. ASSUME NEW c \in Conn, Loop(c) PROVE OwnAhead(d)'
  <2>1. CASE d = c
    <3>1. pc'[d] = "select"
      BY <1>6, <2>1, LoopType
    <3> QED
      BY <3>1, OwnNone
  <2>2. CASE d # c
    <3>1. pc'[d] = pc[d] /\ hdr'[d] = hdr[d] /\ ip'[d] = ip[d]
      BY <1>6, <2>2, LoopType
    <3> QED
      BY <1>2, <3>1
  <2> QED
    BY <2>1, <2>2
<1>7. ASSUME NEW c \in Conn, DispatchUnknown(c) \/ Return(c) PROVE OwnAhead(d)'
  BY <1>2, <1>6, <1>7 DEF DispatchUnknown, Return
<1>8. ASSUME NEW c \in Conn, Dispatch(c) PROVE OwnAhead(d)'
  <2>1. hdr' = hdr
    BY <1>8 DEF Dispatch
  <2>2. CASE d = c
    <3>1. ToRead(d)' \subseteq ToRead(d) /\ Here(d)' = Here(d)
      BY <1>8, <2>2, ToReadDispatch
    <3> QED
      BY <1>1, <2>1, <3>1, OwnKept
  <2>3. CASE d # c
    <3>1. pc'[d] = pc[d] /\ ip'[d] = ip[d]
      BY <1>8, <2>3 DEF Dispatch, TypeOK
    <3> QED
      BY <1>2, <2>1, <3>1
  <2> QED
    BY <2>2, <2>3
<1>9. ASSUME NEW c \in Conn, CallDb(c) \/ MakeRes(c) \/ SendHead(c) \/ SendBody(c)
      PROVE  OwnAhead(d)'
  <2>1. /\ At(c, {"db", "make", "head", "body"}) /\ Advance(c) /\ UNCHANGED hdr
        /\ Program(c)[ip[c]] \notin Reading
    BY <1>9 DEF CallDb, MakeRes, SendHead, SendBody, Send, At, Reading
  <2>2. CASE d = c
    <3>1. ToRead(d)' = {}
      BY <2>1, <2>2, ToReadAdvance
    <3> QED
      BY <3>1, OwnNone
  <2>3. CASE d # c
    <3>1. pc'[d] = pc[d] /\ ip'[d] = ip[d]
      BY <2>1, <2>3, AdvanceType
    <3> QED
      BY <1>2, <2>1, <3>1
  <2> QED
    BY <2>2, <2>3
<1>10. ASSUME NEW c \in Conn, ReadNothing(c) \/ ReadFails(c) PROVE OwnAhead(d)'
  <2>1. At(c, Reading) /\ (Succeed(c, {}) \/ Fail(c, {}))
        /\ (ReadNothing(c) => hdr[c].n = 0 /\ Succeed(c, {})) /\ (ReadFails(c) => Fail(c, {}))
    BY <1>10 DEF ReadNothing, ReadFails
  <2>2. CASE d = c
    <3>1. CASE ReadNothing(c)
      <4>1. hdr'[d].n = 0
        BY <2>1, <2>2, <3>1 DEF Succeed
      <4> QED
        BY <4>1, OwnNone
    <3>2. CASE ReadFails(c)
      <4>1. Loop(c) \/ hdr'[d] \in torn'
        <5>1. hdr[c] \in Request
          BY DEF TypeOK
        <5> QED
          BY <2>1, <2>2, <3>2, <5>1 DEF Fail
      <4> QED
        BY <1>6, <4>1, OwnNone
    <3> QED
      BY <1>10, <3>1, <3>2
  <2>3. CASE d # c
    <3>1. pc'[d] = pc[d] /\ hdr'[d] = hdr[d] /\ ip'[d] = ip[d]
      <4>1. {} \in SUBSET Request
        OBVIOUS
      <4> QED
        BY <2>1, <2>3, <4>1, ReadReturn
    <3> QED
      BY <1>2, <3>1
  <2> QED
    BY <2>2, <2>3
<1>11. CASE UNCHANGED vars
  BY <1>2, <1>11 DEF vars
<1> QED
  BY <1>3, <1>4, <1>5, <1>7, <1>8, <1>9, <1>10, <1>11

\* A header is read by the thread of its connection, or something is read for one.
LEMMA OwnRecv ==
  ASSUME TypeOK, TypeOK', SerialInv, Framed, torn \subseteq torn',
         \A d \in Conn : OwnAhead(d), NEW c \in Conn, RecvHeader(c), NEW d \in Conn
  PROVE  OwnAhead(d)'
<1>1. Peer(fd[c]) = c /\ UNCHANGED <<pend, cl, ip>>
  <2>1. Live(c) /\ pc[c] # "start"
    BY DEF RecvHeader, Live
  <2> QED
    BY <2>1, OwnSocket DEF RecvHeader, clientVars
<1>2. /\ in[c] # <<>>
      /\ \A e \in Conn \ {c} : in'[e] = in[e] /\ bites'[e] = bites[e]
      /\ \/ /\ WholeHeader(c) /\ bites' = bites
            /\ Received(c, Head(in[c]).req)
            /\ in'[c] = Tail(in[c])
         \/ \E k \in 0..Len(in[c]), cmd \in Command : Received(c, Junk(c, cmd))
  BY <1>1, RecvTakes
<1>3. \A e \in Conn \ {c} : pc'[e] = pc[e] /\ hdr'[e] = hdr[e]
  BY <1>2 DEF Received, TypeOK
<1>4. CASE d = c
  <2>1. CASE \E k \in 0..Len(in[c]), cmd \in Command : Received(c, Junk(c, cmd))
    <3>1. hdr'[c].n = 0
      BY <2>1 DEF Received, TypeOK, Junk
    <3> QED
      BY <1>4, <3>1, OwnNone
  <2>2. CASE WholeHeader(c) /\ bites' = bites /\ Received(c, Head(in[c]).req)
             /\ in'[c] = Tail(in[c])
    <3>1. hdr'[c] = Head(in[c]).req /\ pc'[c] = "dispatch"
      BY <2>2 DEF Received, TypeOK
    <3>2. in'[c] = SubSeq(in[c], 1 + 1, Len(in[c])) /\ 1 \in 0..Len(in[c])
      <4>1. in[c] \in Seq(Unit)
        BY ReachType
      <4> QED
        BY <1>2, <2>2, <4>1, TailSuffix
    <3>3. Taken(c, 1)
      BY <1>1, <3>2, ReachTaken
    <3>4. Growing(c)' => Growing(c)
      BY <1>1 DEF Growing
    <3> QED
      BY <1>2, <1>4, <2>2, <3>1, <3>3, <3>4, OwnHeader
  <2> QED
    BY <1>2, <2>1, <2>2
<1>5. CASE d # c
  <2>1. Kept(d) /\ (Growing(d)' => Growing(d)) /\ bites'[d] = bites[d]
    BY <1>1, <1>2, <1>5 DEF Kept, Reach, Growing
  <2>2. /\ pc'[d] = pc[d] /\ hdr'[d] = hdr[d] /\ ip'[d] = ip[d]
        /\ ToRead(d)' = ToRead(d) /\ Here(d)' = Here(d)
    BY <1>1, <1>3, <1>5, ToReadSame
  <2> QED
    BY <2>1, <2>2, OwnKept
<1> QED
  BY <1>4, <1>5

\* The handler of a request that was sent whole finds its field.
LEMMA OwnFits ==
  ASSUME TypeOK, NEW c \in Conn, OwnAhead(c), At(c, Reading), in[c] # <<>>,
         hdr[c].n # 0, hdr[c] \notin torn
  PROVE  Fits(c, c)
<1>1. ip[c] \in ToRead(c) /\ ip[c] - Here(c) + 1 = 1
  BY ToReadFirst
<1>2. /\ Reach(c) \in Seq(Unit) /\ Reach(c)[1] = Head(in[c])
      /\ 1 \in 1..Len(Reach(c))
  BY ReachType
<1>3. bites[c] = 0 /\ (1 <= Len(Reach(c)) => Reach(c)[1] = FieldOf(hdr[c], ip[c]))
  BY <1>1 DEF OwnAhead
<1>4. 1 <= Len(Reach(c))
  BY <1>2
<1> QED
  BY <1>2, <1>3, <1>4 DEF Fits

\* What a handler reads, it reads from its own connection: its field, or the
\* request was torn.
LEMMA OwnRead ==
  ASSUME TypeOK, SerialInv, \A d \in Conn : OwnAhead(d), NEW c \in Conn, ReadField(c)
  PROVE  /\ At(c, Reading) /\ in[c] # <<>> /\ UNCHANGED <<pend, cl>>
         /\ \A e \in Conn \ {c} : in'[e] = in[e] /\ bites'[e] = bites[e]
         /\ \/ /\ bites' = bites /\ in'[c] = Tail(in[c])
               /\ Succeed(c, {hdr[c]}) /\ hdr[c] \in Request
            \/ /\ hdr[c].n = 0 \/ hdr[c] \in torn
               /\ \E g \in SUBSET Request : Succeed(c, g) \/ Fail(c, g)
<1>1. At(c, Reading) /\ UNCHANGED <<pend, cl>>
  BY DEF ReadField, clientVars
<1>2. Peer(hport[c]) = c
  <2>1. pc[c] = "handler" /\ Live(c)
    BY <1>1, AtType DEF Live
  <2> QED
    BY <2>1, OwnSocket
<1>3. /\ in[c] # <<>>
      /\ \A e \in Conn \ {c} : in'[e] = in[e] /\ bites'[e] = bites[e]
      /\ \/ /\ Fits(c, c) /\ bites' = bites /\ hdr[c] \in Request
            /\ in'[c] = Tail(in[c]) /\ Succeed(c, {hdr[c]})
         \/ /\ ~Fits(c, c)
            /\ \E g \in SUBSET Request : Succeed(c, g) \/ Fail(c, g)
  <2>1. PICK d \in Conn :
          /\ d = Peer(hport[c]) /\ in[d] # <<>>
          /\ \A e \in Conn \ {d} : in'[e] = in[e] /\ bites'[e] = bites[e]
          /\ \/ /\ Fits(c, d) /\ bites' = bites /\ hdr[c] \in Request
                /\ in'[d] = Tail(in[d]) /\ Succeed(c, {hdr[c]})
             \/ /\ ~Fits(c, d)
                /\ \E g \in SUBSET Request : Succeed(c, g) \/ Fail(c, g)
    BY ReadTakes
  <2>2. d = c
    BY <1>2, <2>1
  <2> QED
    BY <2>1, <2>2
<1>4. ~Fits(c, c) => hdr[c].n = 0 \/ hdr[c] \in torn
  BY <1>1, <1>3, OwnFits
<1> QED
  BY <1>1, <1>3, <1>4

\* So the fields that are left are next after it.
LEMMA OwnField ==
  ASSUME TypeOK, TypeOK', SerialInv, torn \subseteq torn',
         \A d \in Conn : OwnAhead(d), NEW c \in Conn, ReadField(c), NEW d \in Conn
  PROVE  OwnAhead(d)'
<1>1. /\ At(c, Reading) /\ in[c] # <<>> /\ UNCHANGED <<pend, cl>>
      /\ \A e \in Conn \ {c} : in'[e] = in[e] /\ bites'[e] = bites[e]
      /\ \/ /\ bites' = bites /\ in'[c] = Tail(in[c])
            /\ Succeed(c, {hdr[c]}) /\ hdr[c] \in Request
         \/ /\ hdr[c].n = 0 \/ hdr[c] \in torn
            /\ \E g \in SUBSET Request : Succeed(c, g) \/ Fail(c, g)
  BY OwnRead
<1>2. /\ \A e \in Conn \ {c} : pc'[e] = pc[e] /\ hdr'[e] = hdr[e] /\ ip'[e] = ip[e]
      /\ Loop(c) \/ (Advance(c) /\ UNCHANGED hdr)
  <2>1. PICK g \in SUBSET Request : Succeed(c, g) \/ Fail(c, g)
    <3>1. hdr[c] \in Request => {hdr[c]} \in SUBSET Request
      OBVIOUS
    <3> QED
      BY <1>1, <3>1
  <2> QED
    BY <1>1, <2>1, ReadReturn
<1>3. CASE d # c
  <2>1. Kept(d) /\ (Growing(d)' => Growing(d)) /\ bites'[d] = bites[d]
    BY <1>1, <1>3 DEF Kept, Reach, Growing
  <2>2. /\ pc'[d] = pc[d] /\ hdr'[d] = hdr[d] /\ ip'[d] = ip[d]
        /\ ToRead(d)' = ToRead(d) /\ Here(d)' = Here(d)
    BY <1>2, <1>3, ToReadSame
  <2> QED
    BY <2>1, <2>2, OwnKept
<1>4. CASE d = c /\ (hdr[c].n = 0 \/ hdr[c] \in torn)
  <2>1. CASE Loop(c)
    <3>1. pc'[c] = "select"
      BY <2>1, LoopType
    <3> QED
      BY <1>4, <3>1, OwnNone
  <2>2. CASE UNCHANGED hdr
    BY <1>4, <2>2, OwnNone
  <2> QED
    BY <1>2, <2>1, <2>2
<1>5. CASE d = c /\ bites' = bites /\ in'[c] = Tail(in[c]) /\ Succeed(c, {hdr[c]})
  <2>1. Advance(c) /\ hdr' = hdr
    BY <1>5 DEF Succeed
  <2>2. in'[c] = SubSeq(in[c], 1 + 1, Len(in[c])) /\ 1 \in 0..Len(in[c])
    <3>1. in[c] \in Seq(Unit)
      BY ReachType
    <3> QED
      BY <1>1, <1>5, <3>1, TailSuffix
  <2>3. Taken(c, 1)
    BY <1>1, <2>2, ReachTaken
  <2>4. Growing(c)' => Growing(c)
    BY <1>1 DEF Growing
  <2> QED
    BY <1>1, <1>5, <2>1, <2>3, <2>4, OwnTaken
<1> QED
  BY <1>1, <1>3, <1>4, <1>5

\* The fields of a request that was sent whole are where its handler looks,
\* whatever happens.
LEMMA OwnStep ==
  ASSUME TypeOK, SerialInv, Framed, \A d \in Conn : OwnAhead(d), [Next]_vars
  PROVE  \A d \in Conn : OwnAhead(d)'
<1>1. TypeOK' /\ torn \subseteq torn' /\ OneMessage
  BY TypeOKStep, TornGrows DEF Framed
<1> TAKE d \in Conn
<1>2. ASSUME NEW c \in Conn, RecvHeader(c) PROVE OwnAhead(d)'
  BY <1>1, <1>2, OwnRecv
<1>3. ASSUME NEW c \in Conn, ReadField(c) PROVE OwnAhead(d)'
  BY <1>1, <1>3, OwnField
<1> QED
  BY <1>1, <1>2, <1>3, OwnUntaken DEF Next, Thread, Handle

\* What a handler took for its payload is its request's, or the request was torn.
LEMMA GotStep ==
  ASSUME TypeOK, SerialInv, \A d \in Conn : OwnAhead(d), setting.serial,
         PayloadIsOwn, [Next]_vars
  PROVE  PayloadIsOwn'
<1> USE DEF clientVars, threadVars
<1>0. torn \subseteq torn'
  BY TornGrows
<1> SUFFICES ASSUME NEW d \in Conn, pc'[d] = "handler", hdr'[d].n # 0, hdr'[d] \notin torn'
             PROVE  got'[d] \subseteq {hdr'[d]}
  BY DEF PayloadIsOwn
<1>1. ASSUME pc[d] = "handler", hdr'[d] = hdr[d], got'[d] = got[d]
      PROVE  got'[d] \subseteq {hdr'[d]}
  BY <1>0, <1>1 DEF PayloadIsOwn
<1>2. ASSUME NEW c \in Conn, \/ Client(c) \/ Ends(c) \/ CallDb(c) \/ MakeRes(c)
                             \/ SendHead(c) \/ SendBody(c)
      PROVE  got'[d] \subseteq {hdr'[d]}
  <2>1. UNCHANGED <<pc, hdr, got>>
    BY <1>2 DEF Client, Connect, Issue, Deliver, LoseField, Leave, Ends, NoFile,
                NoBuffer, NoShare, NoRows, NoResult, Abort, CallDb, MakeRes,
                SendHead, SendBody, Send, Advance
  <2> QED
    BY <1>1, <2>1
<1>3. ASSUME NEW c \in Conn,
             \/ Accept(c) \/ Start(c) \/ SelectTimeout(c) \/ SelectReady(c)
             \/ RecvNothing(c)
      PROVE  got'[d] \subseteq {hdr'[d]}
  <2>1. UNCHANGED <<hdr, got>>
    BY <1>3 DEF Accept, Start, SelectTimeout, SelectReady, RecvNothing
  <2>2. \/ pc' = pc
        \/ \E p \in {"start", "select", "recv", "done"} : pc' = [pc EXCEPT ![c] = p]
    BY <1>3 DEF Accept, Start, SelectTimeout, SelectReady, RecvNothing, ServiceDone
  <2>3. pc[d] = "handler"
    BY <2>2 DEF TypeOK
  <2> QED
    BY <1>1, <2>1, <2>3
<1>4. ASSUME NEW c \in Conn, RecvHeader(c) \/ RecvError(c)
      PROVE  got'[d] \subseteq {hdr'[d]}
  <2>1. PICK r : Received(c, r)
    BY <1>4 DEF RecvHeader, RecvError
  <2>2. UNCHANGED got
    BY <1>4 DEF RecvHeader, RecvError
  <2>3. d # c /\ pc[d] = "handler" /\ hdr'[d] = hdr[d]
    BY <2>1 DEF Received, TypeOK
  <2> QED
    BY <1>1, <2>2, <2>3
<1>5. ASSUME NEW c \in Conn, Loop(c) PROVE got'[d] \subseteq {hdr'[d]}
  <2>1. d # c
    BY <1>5, LoopType
  <2>2. pc[d] = "handler" /\ hdr'[d] = hdr[d] /\ got'[d] = got[d]
    BY <1>5, <2>1, LoopType
  <2> QED
    BY <1>1, <2>2
<1>6. ASSUME NEW c \in Conn, DispatchUnknown(c) \/ Return(c)
      PROVE  got'[d] \subseteq {hdr'[d]}
  BY <1>1, <1>5, <1>6 DEF DispatchUnknown, Return
<1>7. ASSUME NEW c \in Conn, Dispatch(c) PROVE got'[d] \subseteq {hdr'[d]}
  <2>1. UNCHANGED hdr /\ got' = [got EXCEPT ![c] = {}] /\ pc' = [pc EXCEPT ![c] = "handler"]
    BY <1>7 DEF Dispatch
  <2>2. CASE d = c
    <3>1. got'[d] = {}
      BY <2>1, <2>2 DEF TypeOK
    <3> QED
      BY <3>1
  <2>3. CASE d # c
    <3>1. pc[d] = "handler" /\ got'[d] = got[d]
      BY <2>1, <2>3 DEF TypeOK
    <3> QED
      BY <1>1, <2>1, <3>1
  <2> QED
    BY <2>2, <2>3
<1>8. ASSUME NEW c \in Conn, At(c, Reading), NEW g \in SUBSET Request,
             Succeed(c, g) \/ Fail(c, g),
             \/ g \subseteq {hdr[c]}
             \/ hdr[c].n = 0 \/ hdr[c] \in torn
      PROVE  got'[d] \subseteq {hdr'[d]}
  <2>1. /\ \A e \in Conn \ {c} : pc'[e] = pc[e] /\ hdr'[e] = hdr[e] /\ got'[e] = got[e]
        /\ \/ UNCHANGED hdr /\ got'[c] = got[c] \cup g
           \/ Loop(c)
    BY <1>8, ReadReturn
  <2>2. CASE d # c
    BY <1>1, <2>1, <2>2
  <2>3. CASE d = c /\ UNCHANGED hdr /\ got'[c] = got[c] \cup g
    <3>1. pc[c] = "handler" /\ hdr[c].n # 0 /\ hdr[c] \notin torn
      BY <1>0, <1>8, <2>3, AtType
    <3>2. got[c] \subseteq {hdr[c]} /\ g \subseteq {hdr[c]}
      BY <1>8, <3>1 DEF PayloadIsOwn
    <3> QED
      BY <2>3, <3>2
  <2> QED
    BY <1>5, <2>1, <2>2, <2>3
<1>9. ASSUME NEW c \in Conn, ReadField(c) PROVE got'[d] \subseteq {hdr'[d]}
  <2>1. /\ At(c, Reading)
        /\ \/ Succeed(c, {hdr[c]}) /\ hdr[c] \in Request
           \/ /\ hdr[c].n = 0 \/ hdr[c] \in torn
              /\ \E g \in SUBSET Request : Succeed(c, g) \/ Fail(c, g)
    BY <1>9, OwnRead
  <2>2. hdr[c] \in Request => {hdr[c]} \in SUBSET Request
    OBVIOUS
  <2> QED
    BY <1>8, <2>1, <2>2
<1>10. ASSUME NEW c \in Conn, ReadNothing(c) \/ ReadFails(c)
       PROVE  got'[d] \subseteq {hdr'[d]}
  <2>1. At(c, Reading) /\ (Succeed(c, {}) \/ Fail(c, {}))
    BY <1>10 DEF ReadNothing, ReadFails
  <2>2. {} \in SUBSET Request /\ {} \subseteq {hdr[c]}
    OBVIOUS
  <2> QED
    BY <1>8, <2>1, <2>2
<1>11. CASE UNCHANGED vars
  BY <1>1, <1>11 DEF vars
<1> QED
  BY <1>2, <1>3, <1>4, <1>6, <1>7, <1>9, <1>10, <1>11 DEF Next, Thread, Handle

LEMMA InitPayloadInv == Init => Framed /\ PayloadInv
<1> SUFFICES ASSUME Init PROVE Framed /\ PayloadInv
  OBVIOUS
<1>1. \A c \in Conn : /\ Reach(c) = <<>> /\ ToRead(c) = {} /\ pend[c] = <<>>
                      /\ pc[c] # "handler"
  <2> TAKE c \in Conn
  <2>1. pend[c] = <<>> /\ in[c] = <<>> /\ pc[c] = "none"
    BY DEF Init
  <2>2. <<>> \o <<>> = <<>>
    OBVIOUS
  <2> QED
    BY <2>1, <2>2 DEF Reach, ToRead
<1>2. Followed(<<>>, torn) /\ Complete(<<>>, torn)
  BY DEF Followed, Complete
<1>3. OneMessage
  BY <1>1 DEF OneMessage
<1>4. Framed
  BY <1>1, <1>2, <1>3 DEF Framed
<1>5. \A c \in Conn : OwnAhead(c)
  BY <1>1 DEF OwnAhead
<1>6. PayloadIsOwn
  BY <1>1 DEF PayloadIsOwn
<1> QED
  BY <1>4, <1>5, <1>6, InitSerialInv DEF PayloadInv

\* Headers are in front of their fields in every stream, and what was lost of
\* a message is missing in that message alone, for any clients.
THEOREM Framing == Spec => []Framed
<1>1. Init => TypeOK /\ Framed
  BY InitTypeOK, InitPayloadInv
<1>2. TypeOK /\ Framed /\ [Next]_vars => TypeOK' /\ Framed'
  BY TypeOKStep, FramedStep
<1> QED
  BY <1>1, <1>2, PTL DEF Spec

\* When clients come one after the other, the handler of a request that was
\* sent whole takes nothing for its payload but the request's own fields.
THEOREM SerialPayloads == Spec => []PayloadIsOwn
<1>1. Init => TypeOK /\ Framed /\ (setting.serial => PayloadInv)
  BY InitTypeOK, InitPayloadInv
<1>2. /\ TypeOK /\ Framed /\ (setting.serial => PayloadInv)
      /\ [Next]_vars
      => TypeOK' /\ Framed' /\ (setting.serial => PayloadInv)'
  <2> SUFFICES ASSUME TypeOK, Framed, setting.serial => PayloadInv, [Next]_vars
               PROVE  TypeOK' /\ Framed' /\ (setting.serial => PayloadInv)'
    OBVIOUS
  <2>1. TypeOK' /\ Framed' /\ setting' = setting
    BY TypeOKStep, FramedStep DEF Next, vars
  <2>2. ASSUME setting.serial PROVE PayloadInv'
    <3>1. SerialInv /\ (\A c \in Conn : OwnAhead(c)) /\ PayloadIsOwn
      BY <2>2 DEF PayloadInv
    <3>2. SerialInv'
      BY <2>2, <3>1, SlotsStep, StreamsStep, ProgressStep, AnswersStep DEF SerialInv
    <3>3. \A c \in Conn : OwnAhead(c)'
      BY <3>1, OwnStep
    <3>4. PayloadIsOwn'
      BY <2>2, <3>1, GotStep
    <3> QED
      BY <3>2, <3>3, <3>4 DEF PayloadInv
  <2> QED
    BY <2>1, <2>2
<1>3. (setting.serial => PayloadInv) => PayloadIsOwn
  BY DEF PayloadInv, PayloadIsOwn
<1> QED
  BY <1>1, <1>2, <1>3, PTL DEF Spec

-----------------------------------------------------------------------------
(* Transport: the connection under a thread's reads and writes, for every   *)
(* layout of fields, buffer size and number of select rounds.              *)

\* Size is a number, and a field ends where the next one starts.
LEMMA SizeFacts ==
  ASSUME NEW k \in Field
  PROVE  /\ Size(k) \in Nat
         /\ Offset[k] \in Nat /\ Offset[k + 1] \in Nat
         /\ Offset[k] + Size(k) = Offset[k + 1]
         /\ k \in Hdr => Size(k) > 0
  BY TransportAssumption DEF Field, Size

\* The initial state satisfies the invariant.
LEMMA TransportInitial == TransportInit => TransportInv
<1> SUFFICES ASSUME TransportInit PROVE TransportInv
  OBVIOUS
<1> USE TransportAssumption DEF TransportInit, Field
<1>1. TransportTypeOK
  BY DEF TransportTypeOK
<1>2. Conserved
  BY DEF Conserved
<1>3. ~SendFailed /\ ~ReadFailed
  BY DEF SendFailed, ReadFailed
<1>4. SendAt = 0 /\ ReadAt = 0
  BY DEF SendAt, ReadAt
<1>5. SenderInv
  BY <1>3, <1>4 DEF SenderInv, SendAligned, SendFailed
<1>6. ReceiverInv
  BY <1>3, <1>4 DEF ReceiverInv, ReadAligned, ReadFailed
<1> QED
  BY <1>1, <1>2, <1>5, <1>6 DEF TransportInv

\* send_binary returning TRUE with the field complete in the stream, or
\* FALSE, moves the sender to the next field and keeps its invariant.
LEMMA SendReturnsInv ==
  ASSUME TransportInv, sPc = "select", NEW r \in {"TRUE", "FALSE"}, SendReturns(r),
         NEW d \in Nat, sent' = sent + d, d <= nSize,
         r = "TRUE" => d = nSize,
         r = "FALSE" => d = 0
  PROVE  SenderInv' /\ sPc' \in {"call", "done"} /\ si' \in 1..(N + 1)
         /\ nSize' = 0 /\ tries' = 0
         /\ sRet' \in [Field -> {"none", "TRUE", "FALSE"}]
<1> USE TransportAssumption DEF TransportInv, TransportTypeOK, SendReturns, Field
<1>1. /\ si \in Field /\ si' = si + 1 /\ nSize' = 0 /\ tries' = 0
      /\ sPc' \in {"call", "done"} /\ (sPc' = "call" => si' <= N)
      /\ si' \in 1..(N + 1)
      /\ sRet' \in [Field -> {"none", "TRUE", "FALSE"}]
  BY DEF SenderInv
<1>2. /\ sRet'[si] = r
      /\ \A k \in Field : k # si => sRet'[k] = sRet[k]
  BY <1>1
<1>3. Offset[si] + Size(si) = Offset[si + 1] /\ Size(si) \in Nat /\ Offset[si] \in Nat
  BY <1>1, SizeFacts
<1>4. SendAt = Offset[si] + (Size(si) - nSize) /\ nSize <= Size(si)
      /\ (Size(si) > 0 => nSize > 0)
  BY DEF SendAt, SenderInv
<1>5. SendAt' = Offset[si + 1]
  BY <1>1 DEF SendAt
<1>6. \A k \in Field : (sRet'[k] = "none") <=> (k >= si')
  BY <1>1, <1>2 DEF SenderInv
<1>7. sent' <= SendAt'
  BY <1>3, <1>4, <1>5 DEF SenderInv
<1>8. (\E k \in Field : sRet'[k] = "FALSE" /\ Size(k) > 0) => sent' < SendAt'
  <2> SUFFICES ASSUME NEW k \in Field, sRet'[k] = "FALSE", Size(k) > 0
               PROVE  sent' < Offset[si + 1]
    BY <1>5
  <2>1. CASE k = si
    <3>1. d = 0 /\ nSize > 0
      BY <1>2, <1>4, <2>1
    <3> QED
      BY <1>3, <1>4, <3>1 DEF SenderInv
  <2>2. CASE k # si
    <3>1. sent < SendAt
      BY <1>2, <2>2 DEF SenderInv
    <3> QED
      BY <1>3, <1>4, <3>1
  <2> QED
    BY <2>1, <2>2
<1>9. SendAligned'
  <2>1. SUFFICES ASSUME ~SendFailed' PROVE sent' = SendAt'
    BY DEF SendAligned
  <2>2. r = "TRUE" /\ ~SendFailed
    BY <1>1, <1>2, <2>1 DEF SendFailed, SenderInv
  <2> QED
    BY <2>2, <1>3, <1>4, <1>5 DEF SenderInv, SendAligned
<1>10. SenderInv'
  BY <1>1, <1>6, <1>7, <1>8, <1>9 DEF SenderInv, Size
<1> QED
  BY <1>1, <1>10

\* Nothing the receiver or the network does disturbs the sender's invariant.
LEMMA SenderUndisturbed ==
  ASSUME SenderInv, UNCHANGED <<sent, sVars>>
  PROVE  SenderInv'
  BY DEF SenderInv, SendAligned, SendFailed, SendAt, Size, sVars

\* Nothing the sender or the network does disturbs the receiver's invariant.
LEMMA ReceiverUndisturbed ==
  ASSUME ReceiverInv, UNCHANGED <<rcvd, rVars>>
  PROVE  ReceiverInv'
  BY DEF ReceiverInv, ReadAligned, ReadFailed, ReadAt, Size, rVars

\* Every step of send_binary and __send keeps the invariant.
LEMMA SenderStep == TransportInv /\ mode' = mode /\ Sender => TransportInv'
<1> SUFFICES ASSUME TransportInv, mode' = mode, Sender PROVE TransportInv'
  OBVIOUS
<1> USE TransportAssumption
<1>0. TransportTypeOK /\ Conserved /\ SenderInv /\ ReceiverInv
  BY DEF TransportInv
<1>1. CASE SendCall
  <2>1. si \in Field /\ Size(si) \in Nat
    BY <1>0, <1>1, SizeFacts DEF SendCall, SenderInv, TransportTypeOK, Field
  <2>2. TransportTypeOK' /\ Conserved'
    BY <1>0, <1>1, <2>1 DEF SendCall, TransportTypeOK, Conserved, rVars
  <2>3. SenderInv'
    <3>1. sPc = "call" /\ sPc' = "select" /\ nSize' = Size(si)
          /\ UNCHANGED <<sent, si, sRet>> /\ Size(si)' = Size(si) /\ Offset[si] \in Nat
      BY <1>1, <2>1, SizeFacts DEF SendCall, Size
    <3>2. SendAt' = SendAt
      BY <2>1, <3>1 DEF SendAt
    <3>3. SendFailed' <=> SendFailed
      BY <3>1 DEF SendFailed
    <3>4. SendAligned'
      BY <1>0, <3>1, <3>2, <3>3 DEF SenderInv, SendAligned
    <3>5. (\E k \in Field : sRet'[k] = "FALSE" /\ Size(k)' > 0) => sent' < SendAt'
      BY <1>0, <3>1, <3>2 DEF SenderInv, Size
    <3> QED
      BY <1>0, <2>1, <3>1, <3>2, <3>4, <3>5 DEF SenderInv, Field
  <2>4. ReceiverInv'
    BY <1>0, <1>1, ReceiverUndisturbed DEF SendCall
  <2> QED
    BY <2>2, <2>3, <2>4 DEF TransportInv
<1>2. CASE SelectTimesOut
  <2>1. ReceiverInv' /\ Conserved' /\ UNCHANGED <<link, sent, arrived, rcvd, rVars>>
    BY <1>0, <1>2, ReceiverUndisturbed DEF SelectTimesOut, Conserved
  <2>2. CASE tries + 1 < SelectTries
    <3>1. TransportTypeOK'
      BY <1>0, <1>2, <2>1, <2>2 DEF SelectTimesOut, TransportTypeOK, rVars
    <3>2. SenderInv'
      BY <1>0, <1>2, <2>2
      DEF SelectTimesOut, SenderInv, SendAligned, SendFailed, SendAt, Size
    <3> QED
      BY <2>1, <3>1, <3>2 DEF TransportInv
  <2>3. CASE ~(tries + 1 < SelectTries)
    <3>1. SendReturns("FALSE") /\ sPc = "select" /\ sent' = sent + 0
      BY <1>0, <1>2, <2>3 DEF SelectTimesOut, TransportTypeOK
    <3>2. 0 <= nSize
      BY <1>0 DEF TransportTypeOK
    <3>3. SenderInv' /\ sPc' \in {"call", "done"} /\ si' \in 1..(N + 1)
         /\ nSize' = 0 /\ tries' = 0
         /\ sRet' \in [Field -> {"none", "TRUE", "FALSE"}]
      BY <3>1, <3>2, SendReturnsInv
    <3>4. TransportTypeOK'
      BY <1>0, <2>1, <3>3 DEF TransportTypeOK, rVars
    <3> QED
      BY <2>1, <3>3, <3>4 DEF TransportInv
  <2> QED
    BY <2>2, <2>3
<1>3. CASE SendChunk
  <2>1. PICK n \in 1..Least(Least(AsyncBufsize, nSize), Room) :
          /\ sent' = sent + n
          /\ IF n = nSize
               THEN SendReturns("TRUE")
               ELSE nSize' = nSize - n /\ tries' = 0 /\ UNCHANGED <<sPc, si, sRet>>
    BY <1>3 DEF SendChunk
  <2>2. n \in Nat /\ n <= nSize /\ n > 0
    BY <1>0, <2>1 DEF TransportTypeOK, Least, Room
  <2>3. ReceiverInv' /\ Conserved' /\ sent' \in Nat
        /\ UNCHANGED <<link, arrived, rcvd, rVars>>
    BY <1>0, <1>3, <2>1, <2>2, ReceiverUndisturbed DEF SendChunk, Conserved, TransportTypeOK
  <2>4. CASE n = nSize
    <3>1. SendReturns("TRUE") /\ sPc = "select"
      BY <1>3, <2>1, <2>4 DEF SendChunk
    <3>2. SenderInv' /\ sPc' \in {"call", "done"} /\ si' \in 1..(N + 1)
         /\ nSize' = 0 /\ tries' = 0
         /\ sRet' \in [Field -> {"none", "TRUE", "FALSE"}]
      BY <3>1, <2>1, <2>2, <2>4, SendReturnsInv
    <3>3. TransportTypeOK'
      BY <1>0, <2>3, <3>2 DEF TransportTypeOK, rVars
    <3> QED
      BY <2>3, <3>2, <3>3 DEF TransportInv
  <2>5. CASE n # nSize
    <3>1. /\ nSize' = nSize - n /\ tries' = 0 /\ nSize' \in Nat /\ nSize' > 0
          /\ UNCHANGED <<sPc, si, sRet>> /\ sPc = "select"
      BY <1>0, <1>3, <2>1, <2>2, <2>5 DEF SendChunk, TransportTypeOK
    <3>2. si \in Field /\ Size(si) \in Nat /\ Offset[si] \in Nat /\ nSize <= Size(si)
      BY <1>0, <3>1, SizeFacts DEF SenderInv, TransportTypeOK, Field
    <3>3. SendAt' = SendAt + n /\ SendAt \in Nat
      <4>1. SendAt = Offset[si] + (Size(si) - nSize)
        BY <3>1 DEF SendAt
      <4>2. SendAt' = Offset[si] + (Size(si) - nSize')
        BY <3>1 DEF SendAt, Size
      <4> QED
        BY <1>0, <2>2, <3>1, <3>2, <4>1, <4>2 DEF TransportTypeOK
    <3>4. SenderInv'
      <4>1. (sent <= SendAt => sent' <= SendAt') /\ (sent < SendAt => sent' < SendAt')
            /\ (sent = SendAt => sent' = SendAt')
        BY <1>0, <2>1, <2>2, <3>3 DEF TransportTypeOK
      <4>2. SendFailed' <=> SendFailed
        BY <3>1 DEF SendFailed
      <4>3. SendAligned'
        BY <1>0, <4>1, <4>2 DEF SenderInv, SendAligned
      <4>4. (\E k \in Field : sRet'[k] = "FALSE" /\ Size(k)' > 0) => sent' < SendAt'
        BY <1>0, <3>1, <4>1 DEF SenderInv, Size
      <4>5. nSize' <= Size(si)'
        BY <1>0, <2>2, <3>1, <3>2 DEF TransportTypeOK, Size
      <4>6. \A k \in Field : (sRet'[k] = "none") <=> (k >= si')
        BY <1>0, <3>1 DEF SenderInv
      <4>7. sPc' \in {"call", "select", "killed"} => si' <= N
        BY <1>0, <3>1 DEF SenderInv
      <4>8. sent' <= SendAt'
        BY <1>0, <4>1 DEF SenderInv
      <4> QED
        BY <3>1, <4>3, <4>4, <4>5, <4>6, <4>7, <4>8 DEF SenderInv
    <3>5. TransportTypeOK'
      BY <1>0, <2>3, <3>1 DEF TransportTypeOK, rVars
    <3> QED
      BY <2>3, <3>4, <3>5 DEF TransportInv
  <2> QED
    BY <2>4, <2>5
<1>4. CASE SendEmpty
  <2>1. ReceiverInv' /\ Conserved' /\ UNCHANGED <<link, sent, arrived, rcvd, rVars>>
    BY <1>0, <1>4, ReceiverUndisturbed DEF SendEmpty, Conserved
  <2>2. SendReturns("FALSE") /\ sPc = "select" /\ sent' = sent + 0 /\ 0 <= nSize
    BY <1>0, <1>4 DEF SendEmpty, TransportTypeOK
  <2>3. SenderInv' /\ sPc' \in {"call", "done"} /\ si' \in 1..(N + 1)
       /\ nSize' = 0 /\ tries' = 0
       /\ sRet' \in [Field -> {"none", "TRUE", "FALSE"}]
    BY <2>2, SendReturnsInv
  <2>4. TransportTypeOK'
    BY <1>0, <2>1, <2>3 DEF TransportTypeOK, rVars
  <2> QED
    BY <2>1, <2>3, <2>4 DEF TransportInv
<1>5. CASE SendError
  <2>1. ReceiverInv' /\ Conserved' /\ UNCHANGED <<link, sent, arrived, rcvd, rVars>>
    BY <1>0, <1>5, ReceiverUndisturbed DEF SendError, Conserved
  <2>2. CASE mode.noSignal
    <3>1. SendReturns("FALSE") /\ sPc = "select" /\ sent' = sent + 0 /\ 0 <= nSize
      BY <1>0, <1>5, <2>2 DEF SendError, TransportTypeOK
    <3>2. SenderInv' /\ sPc' \in {"call", "done"} /\ si' \in 1..(N + 1)
         /\ nSize' = 0 /\ tries' = 0
         /\ sRet' \in [Field -> {"none", "TRUE", "FALSE"}]
      BY <3>1, SendReturnsInv
    <3>3. TransportTypeOK'
      BY <1>0, <2>1, <3>2 DEF TransportTypeOK, rVars
    <3> QED
      BY <2>1, <3>2, <3>3 DEF TransportInv
  <2>3. CASE ~mode.noSignal
    <3>1. SenderInv'
      BY <1>0, <1>5, <2>3
      DEF SendError, SenderInv, SendAligned, SendFailed, SendAt, Size
    <3>2. TransportTypeOK'
      BY <1>0, <1>5, <2>1, <2>3 DEF SendError, TransportTypeOK, rVars
    <3> QED
      BY <2>1, <3>1, <3>2 DEF TransportInv
  <2> QED
    BY <2>2, <2>3
<1> QED
  BY <1>1, <1>2, <1>3, <1>4, <1>5 DEF Sender

\* Reading one field to an end r moves the receiver to the next field and
\* keeps its invariant, if the bytes it took are counted.
LEMMA ReadReturnsInv ==
  ASSUME TransportInv, NEW r \in {"TRUE", "SHORT", "FALSE"}, ReadReturns(r),
         rPc \in {"call", "select"},
         NEW d \in Nat, rcvd' = rcvd + d,
         r = "TRUE" => d = (IF rPc = "select" THEN remain ELSE Size(ri))
  PROVE  ReceiverInv' /\ rPc' \in {"call", "done"} /\ ri' \in 1..(N + 1)
         /\ remain' = 0
         /\ rRet' \in [Field -> {"none", "TRUE", "SHORT", "FALSE"}]
<1> USE TransportAssumption DEF TransportInv, TransportTypeOK, ReadReturns, Field
<1>1. /\ ri \in Field /\ ri' = ri + 1 /\ remain' = 0
      /\ rPc' \in {"call", "done"} /\ (rPc' = "call" => ri' <= N)
      /\ ri' \in 1..(N + 1)
      /\ rRet' \in [Field -> {"none", "TRUE", "SHORT", "FALSE"}]
  BY DEF ReceiverInv
<1>2. /\ rRet'[ri] = r
      /\ \A k \in Field : k # ri => rRet'[k] = rRet[k]
  BY <1>1
<1>3. Offset[ri] + Size(ri) = Offset[ri + 1] /\ Size(ri) \in Nat /\ Offset[ri] \in Nat
  BY <1>1, SizeFacts
<1>4. ReadAt' = Offset[ri + 1]
  BY <1>1 DEF ReadAt
<1>5. \A k \in Field : (rRet'[k] = "none") <=> (k >= ri')
  BY <1>1, <1>2 DEF ReceiverInv
<1>6. ReadAligned'
  <2>1. SUFFICES ASSUME ~ReadFailed' PROVE rcvd' = ReadAt'
    BY DEF ReadAligned
  <2>2. r = "TRUE" /\ ~ReadFailed
    BY <1>1, <1>2, <1>5, <2>1 DEF ReadFailed, ReceiverInv
  <2>3. rcvd = ReadAt /\ (rPc = "select" => remain <= Size(ri))
    BY <2>2 DEF ReceiverInv, ReadAligned
  <2> QED
    BY <2>2, <2>3, <1>3, <1>4 DEF ReadAt
<1>7. ReceiverInv'
  BY <1>1, <1>5, <1>6 DEF ReceiverInv
<1> QED
  BY <1>1, <1>7

\* A receiver that gives a header up leaves some read failed.
LEMMA ReadLostInv ==
  ASSUME TransportInv, NEW r \in {"TRUE", "SHORT", "FALSE"}, ReadLost(r),
         rPc = "select", r = "TRUE" => rcvd # Offset[ri] /\ remain = Size(ri)
  PROVE  ReceiverInv' /\ rPc' = "lost" /\ ri' = ri /\ remain' = remain
         /\ rRet' \in [Field -> {"none", "TRUE", "SHORT", "FALSE"}]
<1> USE TransportAssumption DEF TransportInv, TransportTypeOK, ReadLost, Field
<1>1. /\ ri \in Field /\ rPc' = "lost" /\ ri' = ri /\ remain' = remain
      /\ rRet' \in [Field -> {"none", "TRUE", "SHORT", "FALSE"}]
      /\ rRet'[ri] = r
      /\ \A k \in Field : k # ri => rRet'[k] = rRet[k]
  BY DEF ReceiverInv
<1>2. ReadFailed'
  <2>1. CASE r # "TRUE"
    BY <1>1, <2>1 DEF ReadFailed
  <2>2. CASE r = "TRUE"
    <3>1. Size(ri) \in Nat /\ Offset[ri] \in Nat
      BY <1>1, SizeFacts
    <3>2. ReadFailed
      BY <2>2, <3>1 DEF ReceiverInv, ReadAligned, ReadAt
    <3>3. rRet[ri] = "none"
      BY <1>1 DEF ReceiverInv
    <3> QED
      BY <1>1, <3>2, <3>3 DEF ReadFailed
  <2> QED
    BY <2>1, <2>2
<1> QED
  BY <1>1, <1>2 DEF ReceiverInv, ReadAligned

\* Every step of recv_binary, __recv and the service loop keeps the invariant.
LEMMA ReceiverStep == TransportInv /\ mode' = mode /\ Receiver => TransportInv'
<1> SUFFICES ASSUME TransportInv, mode' = mode, Receiver PROVE TransportInv'
  OBVIOUS
<1> USE TransportAssumption
<1>0. TransportTypeOK /\ Conserved /\ SenderInv /\ ReceiverInv
  BY DEF TransportInv
<1>1. CASE ReadCall
  <2>1. SenderInv' /\ Conserved' /\ UNCHANGED <<link, sent, arrived, rcvd, sVars>>
    BY <1>0, <1>1, SenderUndisturbed DEF ReadCall, Conserved
  <2>2. ri \in Field /\ Size(ri) \in Nat /\ Offset[ri] \in Nat /\ rPc = "call"
        /\ (ri \in Hdr => Size(ri) > 0)
    BY <1>0, <1>1, SizeFacts DEF ReadCall, ReceiverInv, TransportTypeOK, Field
  <2>3. CASE Size(ri) = 0 /\ ri \notin Hdr
    <3>1. ReadReturns("TRUE") /\ rcvd' = rcvd + 0
      BY <1>0, <1>1, <2>3 DEF ReadCall, TransportTypeOK
    <3>2. ReceiverInv' /\ rPc' \in {"call", "done"} /\ ri' \in 1..(N + 1)
         /\ remain' = 0
         /\ rRet' \in [Field -> {"none", "TRUE", "SHORT", "FALSE"}]
      BY <2>2, <2>3, <3>1, ReadReturnsInv
    <3>3. TransportTypeOK'
      BY <1>0, <2>1, <3>2 DEF TransportTypeOK, sVars
    <3> QED
      BY <2>1, <3>2, <3>3 DEF TransportInv
  <2>4. CASE ~(Size(ri) = 0 /\ ri \notin Hdr)
    <3>1. rPc' = "select" /\ remain' = Size(ri) /\ UNCHANGED <<ri, rRet, rcvd>>
          /\ remain' > 0 /\ Size(ri)' = Size(ri)
      BY <1>1, <2>2, <2>4 DEF ReadCall, Size
    <3>2. ReadAt' = ReadAt
      BY <2>2, <3>1 DEF ReadAt
    <3>3. ReadFailed' <=> ReadFailed
      BY <3>1 DEF ReadFailed
    <3>4. ReceiverInv'
      BY <1>0, <2>2, <3>1, <3>2, <3>3 DEF ReceiverInv, ReadAligned, Field
    <3>5. TransportTypeOK'
      BY <1>0, <2>1, <2>2, <3>1 DEF TransportTypeOK, sVars
    <3> QED
      BY <2>1, <3>4, <3>5 DEF TransportInv
  <2> QED
    BY <2>3, <2>4
<1>2. CASE RecvChunk
  <2>1. PICK n \in 1..Least(Least(RecvMax, remain), arrived - rcvd) :
          rcvd' = rcvd + n /\ (TakePayload(n) \/ TakeHeader(n))
    BY <1>2 DEF RecvChunk
  <2>2. n \in Nat /\ n > 0 /\ n <= remain /\ n <= arrived - rcvd
    BY <1>0, <2>1 DEF TransportTypeOK, Conserved, Least
  <2>3. SenderInv' /\ Conserved' /\ rcvd' \in Nat /\ rPc = "select"
        /\ UNCHANGED <<link, sent, arrived, sVars>>
    BY <1>0, <1>2, <2>1, <2>2, SenderUndisturbed DEF RecvChunk, Conserved, TransportTypeOK
  <2>4. ASSUME NEW r \in {"TRUE", "SHORT"}, r = "TRUE" => n = remain, ReadReturns(r)
        PROVE  TransportInv'
    <3>1. ReceiverInv' /\ rPc' \in {"call", "done"} /\ ri' \in 1..(N + 1)
         /\ remain' = 0
         /\ rRet' \in [Field -> {"none", "TRUE", "SHORT", "FALSE"}]
      BY <2>1, <2>2, <2>3, <2>4, ReadReturnsInv
    <3>2. TransportTypeOK'
      BY <1>0, <2>3, <3>1 DEF TransportTypeOK, sVars
    <3> QED
      BY <2>3, <3>1, <3>2 DEF TransportInv
  <2>5. CASE TakePayload(n)
    <3>1. CASE n = remain
      BY <2>4, <2>5, <3>1 DEF TakePayload
    <3>2. CASE n # remain
      <4>1. remain' = remain - n /\ remain' \in Nat /\ remain' > 0
            /\ UNCHANGED <<rPc, ri, rRet>>
        BY <1>0, <2>2, <2>5, <3>2 DEF TakePayload, TransportTypeOK
      <4>2. ri \in Field /\ Size(ri) \in Nat /\ Offset[ri] \in Nat /\ remain <= Size(ri)
        BY <1>0, <2>3, SizeFacts DEF ReceiverInv, TransportTypeOK, Field
      <4>3. ReadAt' = ReadAt + n
        BY <1>0, <2>2, <2>3, <4>1, <4>2 DEF ReadAt, Size, TransportTypeOK
      <4>4. (ReadFailed' <=> ReadFailed) /\ ReadAligned'
        BY <1>0, <2>1, <4>1, <4>3 DEF ReadFailed, ReceiverInv, ReadAligned
      <4>5. remain' <= Size(ri)'
        BY <1>0, <2>2, <4>1, <4>2 DEF Size, TransportTypeOK
      <4>6. ReceiverInv'
        BY <1>0, <2>3, <2>5, <4>1, <4>4, <4>5 DEF ReceiverInv, TakePayload
      <4>7. TransportTypeOK'
        BY <1>0, <2>3, <4>1 DEF TransportTypeOK, sVars
      <4> QED
        BY <2>3, <4>6, <4>7 DEF TransportInv
    <3> QED
      BY <3>1, <3>2
  <2>6. CASE TakeHeader(n)
    <3>1. PICK r \in {"TRUE", "SHORT"} :
            /\ (r = "TRUE") <=> (n = remain)
            /\ \/ ReadReturns(r)
               \/ (n # remain \/ rcvd # Offset[ri]) /\ ReadLost(r)
      BY <2>6 DEF TakeHeader
    <3>2. CASE ReadReturns(r)
      BY <2>4, <3>1, <3>2
    <3>3. CASE (n # remain \/ rcvd # Offset[ri]) /\ ReadLost(r)
      <4>1. CASE r = "SHORT" \/ remain = Size(ri)
        <5>1. ReceiverInv' /\ rPc' = "lost" /\ ri' = ri /\ remain' = remain
              /\ rRet' \in [Field -> {"none", "TRUE", "SHORT", "FALSE"}]
          BY <2>3, <3>1, <3>3, <4>1, ReadLostInv
        <5>2. TransportTypeOK'
          BY <1>0, <2>3, <5>1 DEF TransportTypeOK, sVars
        <5> QED
          BY <2>3, <5>1, <5>2 DEF TransportInv
      <4>2. ri \in Hdr
        BY <2>6 DEF TakeHeader
      <4>3. remain = Size(ri)
        BY <1>0, <2>3, <4>2 DEF ReceiverInv
      <4> QED
        BY <4>1, <4>3
    <3> QED
      BY <3>1, <3>2, <3>3
  <2> QED
    BY <2>1, <2>5, <2>6
<1>3. CASE RecvFails
  <2>1. SenderInv' /\ Conserved' /\ UNCHANGED <<link, sent, arrived, rcvd, sVars>>
        /\ rPc = "select"
    BY <1>0, <1>3, SenderUndisturbed DEF RecvFails, Conserved
  <2>2. CASE ri \in Hdr
    <3>1. ReceiverInv' /\ rPc' = "lost" /\ ri' = ri /\ remain' = remain
          /\ rRet' \in [Field -> {"none", "TRUE", "SHORT", "FALSE"}]
      BY <1>3, <2>1, <2>2, ReadLostInv DEF RecvFails
    <3>2. TransportTypeOK'
      BY <1>0, <2>1, <3>1 DEF TransportTypeOK, sVars
    <3> QED
      BY <2>1, <3>1, <3>2 DEF TransportInv
  <2>3. CASE ri \notin Hdr
    <3>1. ReadReturns("FALSE") /\ rcvd' = rcvd + 0
      BY <1>0, <1>3, <2>3 DEF RecvFails, TransportTypeOK
    <3>2. ReceiverInv' /\ rPc' \in {"call", "done"} /\ ri' \in 1..(N + 1)
         /\ remain' = 0
         /\ rRet' \in [Field -> {"none", "TRUE", "SHORT", "FALSE"}]
      BY <2>1, <3>1, ReadReturnsInv
    <3>3. TransportTypeOK'
      BY <1>0, <2>1, <3>2 DEF TransportTypeOK, sVars
    <3> QED
      BY <2>1, <3>2, <3>3 DEF TransportInv
  <2> QED
    BY <2>2, <2>3
<1> QED
  BY <1>1, <1>2, <1>3 DEF Receiver

\* What the network does, and the closing of either end, keeps the invariant.
LEMMA NetworkStep ==
  TransportInv /\ mode' = mode /\ (Arrive \/ SenderCloses \/ ReceiverCloses \/ Reset) => TransportInv'
<1> SUFFICES ASSUME TransportInv, mode' = mode, Arrive \/ SenderCloses \/ ReceiverCloses \/ Reset
             PROVE  TransportInv'
  OBVIOUS
<1>1. /\ UNCHANGED <<sent, rcvd, sVars, rVars>>
      /\ TransportTypeOK' /\ Conserved'
  BY DEF TransportInv, TransportTypeOK, Conserved, Arrive, SenderCloses, ReceiverCloses, Reset,
         sVars, rVars
<1> QED
  BY <1>1, SenderUndisturbed, ReceiverUndisturbed DEF TransportInv

\* TransportInv is an inductive invariant of the specification.
THEOREM TransportInvariance == TransportSpec => []TransportInv
<1>1. TransportInv /\ [TransportNext]_transportVars => TransportInv'
  <2> SUFFICES ASSUME TransportInv, [TransportNext]_transportVars PROVE TransportInv'
    OBVIOUS
  <2>1. CASE TransportNext
    BY <2>1, SenderStep, ReceiverStep, NetworkStep DEF TransportNext
  <2>2. CASE UNCHANGED transportVars
    <3>1. UNCHANGED <<mode, link, sent, arrived, rcvd>> /\ UNCHANGED sVars /\ UNCHANGED rVars
      BY <2>2 DEF transportVars, sVars, rVars
    <3>2. TransportTypeOK' /\ Conserved'
      BY <3>1 DEF TransportInv, TransportTypeOK, Conserved, sVars, rVars
    <3> QED
      BY <3>1, <3>2, SenderUndisturbed, ReceiverUndisturbed DEF TransportInv
  <2> QED
    BY <2>1, <2>2
<1> QED
  BY TransportInitial, <1>1, PTL DEF TransportSpec

\* Every variable keeps its type.
THEOREM TransportTypeCorrect == TransportSpec => []TransportTypeOK
<1>1. TransportInv => TransportTypeOK
  BY DEF TransportInv
<1> QED
  BY <1>1, TransportInvariance, PTL

\* While no call failed, the sides stand at the offsets their calls say: what
\* the k-th recv_binary stores is what the k-th send_binary was given.
THEOREM Alignment == TransportSpec => []StreamAligned
<1>1. TransportInv => StreamAligned
  BY DEF TransportInv, StreamAligned, SenderInv, ReceiverInv
<1> QED
  BY <1>1, TransportInvariance, PTL

\* A stream read to its end without a failure was sent without one.
THEOREM AllSentIfAllRead == TransportSpec => []AllReadMeansAllSent
<1>1. TransportInv => AllReadMeansAllSent
  <2> SUFFICES ASSUME TransportInv, \A k \in Field : rRet[k] = "TRUE",
                      NEW k \in Field, Size(k) > 0
               PROVE  sRet[k] = "TRUE"
    BY DEF AllReadMeansAllSent
  <2> USE TransportAssumption
  <2>0. TransportTypeOK /\ Conserved /\ SenderInv /\ ReceiverInv
    BY DEF TransportInv
  <2>1. ~ReadFailed /\ N \in Field
    BY DEF ReadFailed, Field
  <2>2. ri = N + 1 /\ rPc \notin {"lost", "select"}
    BY <2>0, <2>1 DEF ReceiverInv, TransportTypeOK, Field
  <2>3. rcvd = Offset[N + 1]
    BY <2>0, <2>1, <2>2 DEF ReceiverInv, ReadAligned, ReadAt, Field
  <2>4. Offset[N + 1] <= sent /\ sent <= SendAt /\ Offset[N + 1] \in Nat
    BY <2>0, <2>3 DEF Conserved, SenderInv, TransportTypeOK
  <2>5. Offset[k] < Offset[k + 1] /\ Offset[k] \in Nat /\ Offset[k + 1] \in Nat
        /\ Offset[k + 1] <= Offset[N + 1] /\ k \in 1..N
    BY SizeFacts DEF Field
  <2>6. k < si
    <3> SUFFICES ASSUME k >= si PROVE FALSE
      BY <2>0, <2>5 DEF TransportTypeOK
    <3>1. si \in Field /\ Size(si) \in Nat /\ Offset[si] \in Nat
          /\ Offset[si] + Size(si) = Offset[si + 1]
      BY <2>0, <2>5, SizeFacts DEF TransportTypeOK, Field
    <3>2. CASE si = k
      <4>1. SendAt < Offset[k + 1] /\ SendAt \in Int
        BY <2>0, <2>5, <3>1, <3>2 DEF SendAt, SenderInv, TransportTypeOK
      <4> QED
        BY <2>0, <2>4, <2>5, <4>1 DEF TransportTypeOK
    <3>3. CASE si < k
      <4>1. SendAt <= Offset[si + 1] /\ SendAt \in Int
        BY <2>0, <3>1 DEF SendAt, SenderInv, TransportTypeOK
      <4>2. Offset[si + 1] <= Offset[k] /\ Offset[si + 1] \in Nat
        BY <2>0, <2>5, <3>3 DEF TransportTypeOK
      <4> QED
        BY <2>0, <2>4, <2>5, <4>1, <4>2, <3>1 DEF TransportTypeOK
    <3> QED
      BY <2>0, <2>5, <3>2, <3>3 DEF TransportTypeOK
  <2>7. sRet[k] # "none"
    BY <2>0, <2>5, <2>6 DEF SenderInv, TransportTypeOK
  <2>8. sRet[k] # "FALSE"
    <3> SUFFICES ASSUME sRet[k] = "FALSE" PROVE FALSE
      OBVIOUS
    <3>1. sent < SendAt
      BY <2>0 DEF SenderInv
    <3>2. SendAt <= Offset[N + 1] /\ SendAt \in Int
      <4>1. CASE si = N + 1
        BY <2>0, <2>4, <4>1 DEF SendAt, SenderInv
      <4>2. CASE si # N + 1
        <5>1. si \in Field /\ Size(si) \in Nat /\ Offset[si] \in Nat
              /\ Offset[si] + Size(si) = Offset[si + 1]
          BY <2>0, <4>2, SizeFacts DEF TransportTypeOK, Field
        <5>2. SendAt <= Offset[si + 1] /\ SendAt \in Int
          BY <2>0, <5>1 DEF SendAt, SenderInv, TransportTypeOK
        <5>3. Offset[si + 1] <= Offset[N + 1] /\ Offset[si + 1] \in Nat
          BY <5>1 DEF Field
        <5> QED
          BY <2>4, <5>1, <5>2, <5>3
      <4> QED
        BY <4>1, <4>2
    <3> QED
      BY <2>0, <2>4, <3>1, <3>2 DEF TransportTypeOK
  <2> QED
    BY <2>0, <2>7, <2>8 DEF TransportTypeOK
<1> QED
  BY <1>1, TransportInvariance, PTL

\* A step of the sender decides at most the field it is at.
LEMMA SenderProgress ==
  ASSUME TransportInv, Sender
  PROVE  /\ UNCHANGED <<ri, rRet>>
         /\ \/ UNCHANGED <<si, sRet>>
            \/ /\ si <= N /\ si' = si + 1
               /\ \E r \in {"TRUE", "FALSE"} : sRet' = [sRet EXCEPT ![si] = r]
<1>1. sPc = "select" => si <= N
  BY DEF TransportInv, SenderInv
<1> QED
  BY <1>1 DEF Sender, SendCall, SelectTimesOut, SendChunk, SendEmpty, SendError,
              SendReturns, rVars

\* A step of the receiver decides at most the field it is at, and reads a
\* field to a successful end only when it is empty or all its bytes were sent.
LEMMA ReceiverProgress ==
  ASSUME TransportInv, Receiver
  PROVE  /\ UNCHANGED <<si, sRet>>
         /\ \/ UNCHANGED <<ri, rRet>>
            \/ /\ ri <= N /\ ri' \in {ri, ri + 1}
               /\ \E r \in {"SHORT", "FALSE"} : rRet' = [rRet EXCEPT ![ri] = r]
            \/ ri <= N /\ ri' \in {ri, ri + 1} /\ ReadFailed /\ rRet[ri] = "none"
                  /\ rRet' = [rRet EXCEPT ![ri] = "TRUE"]
            \/ /\ ri <= N /\ ri' = ri + 1 /\ rRet' = [rRet EXCEPT ![ri] = "TRUE"]
               /\ rRet[ri] = "none"
               /\ Size(ri) = 0 \/ (rPc = "select" /\ rcvd + remain <= arrived)
<1> USE TransportAssumption
<1>0. TransportTypeOK /\ Conserved /\ ReceiverInv
  BY DEF TransportInv
<1>1. rPc \in {"call", "select"} => ri \in Field /\ ri <= N /\ rRet[ri] = "none"
  BY <1>0 DEF ReceiverInv, TransportTypeOK, Field
<1>2. CASE ReadCall
  BY <1>1, <1>2 DEF ReadCall, ReadReturns, sVars
<1>3. CASE RecvFails
  BY <1>1, <1>3 DEF RecvFails, ReadReturns, ReadLost, sVars
<1>4. CASE RecvChunk
  <2>1. PICK n \in 1..Least(Least(RecvMax, remain), arrived - rcvd) :
          rcvd' = rcvd + n /\ (TakePayload(n) \/ TakeHeader(n))
    BY <1>4 DEF RecvChunk
  <2>2. n \in Nat /\ n > 0 /\ n <= remain /\ n <= arrived - rcvd
    BY <1>0, <2>1 DEF TransportTypeOK, Conserved, Least
  <2>3. rPc = "select" /\ UNCHANGED <<si, sRet>>
    BY <1>4 DEF RecvChunk, sVars
  <2>4. n = remain => rcvd + remain <= arrived
    BY <1>0, <2>2 DEF TransportTypeOK
  <2>5. CASE TakePayload(n)
    BY <1>1, <2>3, <2>4, <2>5 DEF TakePayload, ReadReturns
  <2>6. CASE TakeHeader(n)
    <3>1. CASE n # remain
      BY <1>1, <2>3, <2>6, <3>1 DEF TakeHeader, ReadReturns, ReadLost
    <3>2. CASE n = remain
      <4>1. rcvd # Offset[ri] => ReadFailed
        <5>1. remain = Size(ri) /\ Size(ri) \in Nat /\ Offset[ri] \in Nat
          BY <1>0, <1>1, <2>3, <2>6, SizeFacts DEF TakeHeader, ReceiverInv
        <5> QED
          BY <1>0, <2>3, <5>1 DEF ReceiverInv, ReadAligned, ReadAt
      <4> QED
        BY <1>1, <2>3, <2>4, <2>6, <3>2, <4>1 DEF TakeHeader, ReadReturns, ReadLost
    <3> QED
      BY <3>1, <3>2
  <2> QED
    BY <2>1, <2>5, <2>6
<1> QED
  BY <1>2, <1>3, <1>4 DEF Receiver

\* Nothing was read that is not in the stream: without failures, the bytes of
\* field ri are all there only when the sender is past it.
LEMMA ReadAfterSent ==
  ASSUME TransportInv, ~SendFailed, ~ReadFailed, ri \in Field, Size(ri) > 0,
         rPc = "select", rcvd + remain <= arrived
  PROVE  ri < si
<1> USE TransportAssumption
<1>0. TransportTypeOK /\ Conserved /\ SenderInv /\ ReceiverInv
  BY DEF TransportInv
<1>1. Size(ri) \in Nat /\ Offset[ri] \in Nat /\ Offset[ri] + Size(ri) = Offset[ri + 1]
      /\ Offset[ri + 1] \in Nat
  BY SizeFacts
<1>2. rcvd = Offset[ri] + (Size(ri) - remain)
  BY <1>0 DEF ReceiverInv, ReadAligned, ReadAt
<1>3. Offset[ri + 1] <= sent
  BY <1>0, <1>1, <1>2 DEF Conserved, TransportTypeOK
<1>4. sent = SendAt
  BY <1>0 DEF SenderInv, SendAligned
<1> SUFFICES ASSUME si <= ri PROVE FALSE
  BY <1>0 DEF TransportTypeOK, Field
<1>5. si \in Field /\ Size(si) \in Nat /\ Offset[si] \in Nat
      /\ Offset[si] + Size(si) = Offset[si + 1] /\ Offset[si + 1] \in Nat
  BY <1>0, SizeFacts DEF TransportTypeOK, Field
<1>6. CASE si = ri
  BY <1>0, <1>3, <1>4, <1>5, <1>6 DEF SendAt, SenderInv, TransportTypeOK
<1>7. CASE si < ri
  <2>1. sent <= Offset[si + 1]
    BY <1>0, <1>4, <1>5 DEF SendAt, SenderInv, TransportTypeOK
  <2>2. Offset[si + 1] <= Offset[ri]
    BY <1>0, <1>5, <1>7 DEF TransportTypeOK, Field
  <2> QED
    BY <1>0, <1>1, <1>3, <1>5, <2>1, <2>2 DEF TransportTypeOK
<1> QED
  BY <1>0, <1>6, <1>7 DEF TransportTypeOK, Field

\* The two loops implement the stream of whole fields.  An empty field may be
\* read before it is sent, and its sending fails.
THEOREM StreamRefinement == TransportSpec => ImplementsFieldStream
<1> USE TransportAssumption
<1> DEFINE failed == SendFailed \/ ReadFailed
<1>1. TransportInit => FS!Init
  BY DEF TransportInit, FS!Init, SendFailed, ReadFailed, Field
<1>2. TransportInv /\ [TransportNext]_transportVars => [FS!Next]_<<si - 1, ri - 1, failed>>
  <2> SUFFICES ASSUME TransportInv, [TransportNext]_transportVars
               PROVE  FS!Next \/ UNCHANGED <<si - 1, ri - 1, failed>>
    OBVIOUS
  <2>0. TransportTypeOK /\ SenderInv /\ ReceiverInv
    BY DEF TransportInv
  <2>1. CASE UNCHANGED <<si, sRet, ri, rRet>>
    BY <2>1 DEF SendFailed, ReadFailed
  <2>2. CASE Sender
    <3>1. UNCHANGED <<ri, rRet>> /\ (ReadFailed' <=> ReadFailed)
      BY <2>2, SenderProgress DEF ReadFailed
    <3>2. PICK r \in {"TRUE", "FALSE"} :
            UNCHANGED <<si, sRet>>
            \/ (si <= N /\ si' = si + 1 /\ sRet' = [sRet EXCEPT ![si] = r])
      BY <2>2, SenderProgress
    <3>3. CASE si <= N /\ si' = si + 1 /\ sRet' = [sRet EXCEPT ![si] = r]
      <4>1. si \in Field /\ sRet[si] = "none"
            /\ sRet'[si] = r /\ \A k \in Field : k # si => sRet'[k] = sRet[k]
        BY <2>0, <3>3 DEF TransportTypeOK, SenderInv, Field
      <4>2. SendFailed' <=> (SendFailed \/ r = "FALSE")
        BY <4>1 DEF SendFailed
      <4>3. CASE ~failed'
        BY <2>0, <3>1, <3>3, <4>2, <4>3 DEF FS!Next, FS!Put, TransportTypeOK
      <4>4. CASE failed'
        <5>1. (si - 1)' \in (si - 1)..N /\ (ri - 1)' \in (ri - 1)..N
          BY <2>0, <3>1, <3>3 DEF TransportTypeOK
        <5> QED
          BY <4>4, <5>1, Zenon DEF FS!Next, FS!Fail, failed
      <4> QED
        BY <4>3, <4>4
    <3> QED
      BY <2>1, <3>1, <3>2, <3>3
  <2>3. CASE Receiver
    <3>1. UNCHANGED <<si, sRet>> /\ (SendFailed' <=> SendFailed)
      BY <2>3, ReceiverProgress DEF SendFailed
    <3>2. CASE UNCHANGED <<ri, rRet>>
      BY <2>1, <3>1, <3>2
    <3>3. CASE /\ ri <= N /\ ri' \in {ri, ri + 1}
               /\ \/ \E r \in {"SHORT", "FALSE"} : rRet' = [rRet EXCEPT ![ri] = r]
                  \/ ReadFailed /\ rRet[ri] = "none" /\ rRet' = [rRet EXCEPT ![ri] = "TRUE"]
      <4>1. ReadFailed'
        <5>1. ri \in Field
          BY <2>0, <3>3 DEF TransportTypeOK, Field
        <5> QED
          BY <2>0, <3>3, <5>1 DEF ReadFailed, TransportTypeOK
      <4>2. (si - 1)' \in (si - 1)..N /\ (ri - 1)' \in (ri - 1)..N
        <5>1. ri <= N /\ ri' \in {ri, ri + 1} /\ si' = si
          BY <3>1, <3>3
        <5>2. (si - 1)' \in (si - 1)..N
          BY <2>0, <5>1 DEF TransportTypeOK
        <5>3. CASE ri' = ri
          BY <2>0, <5>1, <5>2, <5>3 DEF TransportTypeOK
        <5>4. CASE ri' = ri + 1
          BY <2>0, <5>1, <5>2, <5>4 DEF TransportTypeOK
        <5> QED
          BY <5>1, <5>3, <5>4
      <4> QED
        BY <4>1, <4>2, Zenon DEF FS!Next, FS!Fail
    <3>4. CASE /\ ~ReadFailed
               /\ ri <= N /\ ri' = ri + 1 /\ rRet' = [rRet EXCEPT ![ri] = "TRUE"]
               /\ rRet[ri] = "none"
               /\ Size(ri) = 0 \/ (rPc = "select" /\ rcvd + remain <= arrived)
      <4>1. ri \in Field
        BY <2>0, <3>4 DEF TransportTypeOK, Field
      <4>2. ~ReadFailed'
        BY <3>4, <4>1, <2>0 DEF ReadFailed, TransportTypeOK
      <4>3. CASE SendFailed
        <5>1. (si - 1)' \in (si - 1)..N /\ (ri - 1)' \in (ri - 1)..N
          BY <2>0, <3>1, <3>4 DEF TransportTypeOK
        <5> QED
          BY <3>1, <4>3, <5>1, Zenon DEF FS!Next, FS!Fail
      <4>4. CASE ~SendFailed
        <5>1. ri < si \/ Size(ri) = 0
          BY <3>4, <4>1, <4>4, SizeFacts, ReadAfterSent
        <5>2. (ri - 1) + 1 = ri /\ ri - 1 < N
          BY <2>0, <3>4 DEF TransportTypeOK
        <5>3. ri - 1 < si - 1 \/ (ri - 1) + 1 \in {k \in Field : Size(k) = 0}
          BY <2>0, <4>1, <5>1, <5>2 DEF TransportTypeOK
        <5> QED
          BY <2>0, <3>1, <3>4, <4>2, <4>4, <5>2, <5>3 DEF FS!Next, FS!Get, TransportTypeOK
      <4> QED
        BY <4>3, <4>4
    <3>5. ReadFailed /\ ri <= N /\ ri' = ri + 1 /\ rRet[ri] = "none"
            /\ rRet' = [rRet EXCEPT ![ri] = "TRUE"]
          => FS!Next \/ UNCHANGED <<si - 1, ri - 1, failed>>
      BY <3>3
    <3> QED
      BY <2>3, <3>2, <3>3, <3>4, <3>5, ReceiverProgress
  <2>4. CASE Arrive \/ SenderCloses \/ ReceiverCloses \/ Reset
    BY <2>1, <2>4 DEF Arrive, SenderCloses, ReceiverCloses, Reset, sVars, rVars
  <2>5. CASE UNCHANGED transportVars
    BY <2>1, <2>5 DEF transportVars
  <2> QED
    BY <2>2, <2>3, <2>4, <2>5 DEF TransportNext
<1> QED
  BY <1>1, <1>2, TransportInvariance, PTL DEF TransportSpec, FS!Spec, ImplementsFieldStream

=============================================================================
