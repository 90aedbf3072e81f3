-------------------------------- MODULE Client --------------------------------
(***************************************************************************)
(* The connection of a logger, Client/client.cpp, and what its main does   *)
(* with it: send_pubKey_to_server and send_data_to_server, or              *)
(* performance_evaluation, which has the server make test shares and asks  *)
(* for them until it has enough.  main and ClientServiceThread use one     *)
(* socket and one g_pNetwork; the threads of the server use one            *)
(* test_shares.  Fields travel whole (Transport); one header and one body  *)
(* are a unit each.                                                        *)
(***************************************************************************)
EXTENDS Integers, Sequences, FiniteSets

CONSTANTS
  Logger,     \* logger processes
  Nobody,     \* marks what no logger made
  MaxFrames,  \* bound: frames main sends
  Settings    \* how the loggers are run: see setting

Setting == [mode    : {"frames", "evaluate"}, \* what main is compiled to do
            thread  : BOOLEAN,         \* initClient, or test_initClient
            faults  : BOOLEAN,         \* the server may fail to write its key, and
                                   \* may end where test_share_req has no return
            dirty   : BOOLEAN,         \* malloc may leave a digit behind the number
            shares  : 3..10,           \* bound of num_of_share (10)
            loggers : SUBSET Logger]   \* those that run

ASSUME ClientAssumption ==
  /\ Nobody \notin Logger
  /\ MaxFrames \in Nat
  /\ Settings \subseteq Setting /\ Settings # {}

\* A share names the run of test_share_gen that made it; two values are not
\* shares: the empty string and bytes of something else.
Share == [by : Logger \cup {Nobody}, n : Nat, t : Nat, i : Nat]
Empty == [by |-> Nobody, n |-> 0, t |-> 0, i |-> 0]
Junk  == [by |-> Nobody, n |-> 0, t |-> 0, i |-> 1]

\* PUBKEY_REQ, VIDEO_DATA_SND, TEST_GEN_SHARES, TEST_SHARE_REQ; num is the
\* number that gen_shares sends as digits
Request == [cmd : {"key", "frame", "gen", "ask"}, num : Nat]
Unit == [kind : {"hdr", "body"}, cmd : {"key", "frame", "ask"}, val : Share]

\* to_string(num_of_share) + to_string(threshold), and atoi of it
Digits(n, t) == 10 * n + t
NumShare(num) == num \div 10
Threshold(num) == num % 10

VARIABLES
  setting,
  up,       \* the server is alive
  tests,    \* test_shares
  sv,       \* the server's thread of a connection: "wait", "fill", "pick",
            \* "take", "head", "body", "gone"
  req,      \* the request it works on
  at,       \* shares it has pushed; the index a of test_get_share
  val,      \* the share it answers with
  toS,      \* requests on their way
  fromS,    \* units on their way
  link,     \* "none", "down" (connect failed), "up", "closed" (by termClient),
            \* "fin" (the server closed it), "reset"
  net,      \* g_pNetwork: "none", "live", "freed"
  main,     \* "init", "key", "gen", "ask", "head", "body", "junk", "collect",
            \* "frame", "end", "killed"
  n, t,     \* num_of_share and threshold
  str,      \* what test_share_req returns
  shares,   \* the shares main has, all different
  frames,   \* frames sent
  svc,      \* ClientServiceThread: "none", "select", "body", "end"
  lost,     \* recv_binary of an answer failed in it
  misread   \* it took something else for a header

serverVars == <<up, tests, sv, req, at, val>>
evalVars == <<n, t, str, shares>>
svcVars == <<svc, lost, misread>>
vars == <<setting, serverVars, toS, fromS, link, net, main, evalVars, frames, svcVars>>

Init ==
  /\ setting \in Settings
  /\ up = TRUE
  /\ tests = [i \in 1..10 |-> Empty]
  /\ sv = [p \in Logger |-> "wait"]
  /\ req = [p \in Logger |-> [cmd |-> "key", num |-> 0]]
  /\ at = [p \in Logger |-> 0]
  /\ val = [p \in Logger |-> Empty]
  /\ toS = [p \in Logger |-> <<>>] /\ fromS = [p \in Logger |-> <<>>]
  /\ link = [p \in Logger |-> "none"]
  /\ net = [p \in Logger |-> "none"]
  /\ main = [p \in Logger |-> IF p \in setting.loggers THEN "init" ELSE "end"]
  /\ n = [p \in Logger |-> 3] /\ t = [p \in Logger |-> 2]
  /\ str = [p \in Logger |-> Empty]
  /\ shares = [p \in Logger |-> {}]
  /\ frames = [p \in Logger |-> 0]
  /\ svc = [p \in Logger |-> "none"]
  /\ lost = [p \in Logger |-> FALSE]
  /\ misread = [p \in Logger |-> FALSE]

MainGoes(p, from, to) == main[p] = from /\ main' = [main EXCEPT ![p] = to]

-----------------------------------------------------------------------------
(* main.                                                                   *)

\* what follows initClient; !initClient() is false for its -1 as well
FirstTask == IF setting.mode = "evaluate" THEN "gen" ELSE "key"

\* initClient or test_initClient: g_pNetwork is allocated, whether the server
\* can be reached or not
Connect(p) ==
  /\ MainGoes(p, "init", FirstTask)
  /\ net' = [net EXCEPT ![p] = "live"]
  /\ \/ /\ up
        /\ link' = [link EXCEPT ![p] = "up"]
        /\ svc' = [svc EXCEPT ![p] = IF setting.thread THEN "select" ELSE "none"]
     \/ /\ link' = [link EXCEPT ![p] = "down"]
        /\ UNCHANGED svc
  /\ UNCHANGED <<serverVars, toS, fromS, evalVars, frames, lost, misread>>

\* a header and its payload are handed to send_binary, its failures are only
\* printed.  SIGPIPE ends the process where the connection is gone for the
\* kernel; with g_pNetwork freed, what is used as a port is anything
Sends(p, r, next) ==
  \/ /\ link[p] = "up" /\ net[p] = "live"
     /\ toS' = [toS EXCEPT ![p] = Append(@, r)]
     /\ main' = [main EXCEPT ![p] = next]
     /\ UNCHANGED link
  \/ /\ link[p] = "fin" /\ net[p] = "live"
     /\ link' = [link EXCEPT ![p] = "reset"]
     /\ main' = [main EXCEPT ![p] = next]
     /\ UNCHANGED toS
  \/ /\ link[p] \in {"down", "fin", "reset"} \/ net[p] = "freed"
     /\ main' = [main EXCEPT ![p] = "killed"]
     /\ UNCHANGED <<link, toS>>
  \/ /\ net[p] = "freed"
     /\ main' = [main EXCEPT ![p] = next]
     /\ UNCHANGED <<link, toS>>

SendKey(p) ==
  /\ main[p] = "key"
  /\ Sends(p, [cmd |-> "key", num |-> 0], "frame")
  /\ UNCHANGED <<serverVars, fromS, net, evalVars, frames, svcVars>>

\* one frame of send_data_to_server
SendFrame(p) ==
  /\ main[p] = "frame" /\ frames[p] < MaxFrames
  /\ Sends(p, [cmd |-> "frame", num |-> 0], "frame")
  /\ frames' = [frames EXCEPT ![p] = @ + 1]
  /\ UNCHANGED <<serverVars, fromS, net, evalVars, svcVars>>

\* no frame is left, or the header of one could not be sent: the loop breaks
\* there.  With g_pNetwork freed what is used as a port may be no descriptor
StopFrames(p) ==
  /\ MainGoes(p, "frame", "end")
  /\ frames[p] = MaxFrames \/ net[p] = "freed"
  /\ UNCHANGED <<serverVars, toS, fromS, link, net, evalVars, frames, svcVars>>

\* Faulty variant: the shares of the round before are kept.
GenKeepsShares(p) ==
  /\ main[p] = "gen"
  /\ Sends(p, [cmd |-> "gen", num |-> Digits(n[p], t[p])], "ask")
  /\ UNCHANGED <<serverVars, fromS, net, n, t, str, shares, frames, svcVars>>

\* gen_shares; shares.clear(), which follows it, before the sleep
Gen(p) ==
  /\ main[p] = "gen"
  /\ Sends(p, [cmd |-> "gen", num |-> Digits(n[p], t[p])], "ask")
  /\ shares' = [shares EXCEPT ![p] = {}]
  /\ UNCHANGED <<serverVars, fromS, net, n, t, str, frames, svcVars>>

\* the head of while(shares.size() != threshold), and test_share_req's send
Ask(p) ==
  /\ main[p] = "ask" /\ Cardinality(shares[p]) # t[p]
  /\ Sends(p, [cmd |-> "ask", num |-> 0], "head")
  /\ UNCHANGED <<serverVars, fromS, net, evalVars, frames, svcVars>>

\* recv of a header: the header of an answer, or bytes that are none, whose
\* dataSize is some large number; a closed connection gives dataSize 0
RecvHead(p) ==
  /\ main[p] = "head"
  /\ \/ /\ fromS[p] # <<>> /\ net[p] = "live"
        /\ fromS' = [fromS EXCEPT ![p] = Tail(@)]
        /\ LET u == Head(fromS[p]) IN
             main' = [main EXCEPT ![p] =
                        IF u.kind = "body" THEN "junk"
                        ELSE IF u.val = Empty THEN "collect" ELSE "body"]
     \/ /\ fromS[p] = <<>> \/ net[p] = "freed"
        /\ link[p] # "up"
        /\ main' = [main EXCEPT ![p] = "collect"]
        /\ UNCHANGED fromS
  /\ str' = [str EXCEPT ![p] = Empty]
  /\ UNCHANGED <<serverVars, toS, link, net, n, t, shares, frames, svcVars>>

\* recv_binary of the share; what is there instead is taken for it.  It gives
\* up when nothing comes, and then returns the empty string
RecvShare(p) ==
  /\ main[p] \in {"body", "junk"}
  /\ \/ /\ main[p] = "body" /\ fromS[p] # <<>>
        /\ fromS' = [fromS EXCEPT ![p] = Tail(@)]
        /\ str' = [str EXCEPT ![p] =
                     IF Head(fromS[p]).kind = "body" THEN Head(fromS[p]).val ELSE Junk]
     \/ /\ main[p] = "body" /\ fromS[p] = <<>> /\ (link[p] # "up" \/ setting.thread)
        /\ UNCHANGED <<fromS, str>>
     \/ /\ main[p] = "junk"
        /\ fromS' = [fromS EXCEPT ![p] = <<>>]
        /\ str' = [str EXCEPT ![p] = Junk]
  /\ main' = [main EXCEPT ![p] = "collect"]
  /\ UNCHANGED <<serverVars, toS, link, net, n, t, shares, frames, svcVars>>

\* a string that is among the shares already is only counted
Collect(p) ==
  /\ MainGoes(p, "collect", "ask")
  /\ shares' = [shares EXCEPT ![p] = @ \cup {str[p]}]
  /\ UNCHANGED <<serverVars, toS, fromS, link, net, n, t, str, frames, svcVars>>

\* both loops of performance_evaluation: threshold < num_of_share * 0.7
NextRound(p) ==
  /\ main[p] = "ask" /\ Cardinality(shares[p]) = t[p]
  /\ IF 10 * (t[p] + 1) < 7 * n[p]
       THEN t' = [t EXCEPT ![p] = @ + 1] /\ UNCHANGED n
       ELSE t' = [t EXCEPT ![p] = 2] /\ n' = [n EXCEPT ![p] = @ + 1]
  /\ main' = [main EXCEPT ![p] = IF n'[p] > setting.shares THEN "end" ELSE "gen"]
  /\ UNCHANGED <<serverVars, toS, fromS, link, net, str, shares, frames, svcVars>>

Main(p) == \/ Connect(p) \/ SendKey(p) \/ SendFrame(p) \/ StopFrames(p)
           \/ Gen(p) \/ Ask(p) \/ RecvHead(p) \/ RecvShare(p) \/ Collect(p)
           \/ NextRound(p)

-----------------------------------------------------------------------------
(* ClientServiceThread.                                                    *)

Runs(p) == main[p] # "killed"

\* SERVICE_DONE: termClient closes the socket and frees g_pNetwork
TermClient(p) ==
  /\ svc' = [svc EXCEPT ![p] = "end"]
  /\ link' = [link EXCEPT ![p] = "closed"]
  /\ net' = [net EXCEPT ![p] = "freed"]

\* select saw nothing for 10 seconds, or recv nothing but the end
SvcEnds(p) ==
  /\ Runs(p) /\ svc[p] = "select" /\ fromS[p] = <<>>
  /\ TermClient(p)
  /\ UNCHANGED <<serverVars, toS, fromS, main, evalVars, frames, lost, misread>>

\* Faulty variant: the body of public_key_response is left in the stream.
SvcLeavesBody(p) ==
  /\ Runs(p) /\ svc[p] = "select" /\ fromS[p] # <<>>
  /\ fromS' = [fromS EXCEPT ![p] = Tail(@)]
  /\ misread' = [misread EXCEPT ![p] = @ \/ Head(fromS[p]).kind = "body"]
  /\ UNCHANGED <<serverVars, toS, link, net, main, evalVars, frames, svc, lost>>

\* a header is received and its callback run: public_key_response reads what
\* follows, video_data_response and test_share_req of this side do not
SvcDispatch(p) ==
  /\ Runs(p) /\ svc[p] = "select" /\ fromS[p] # <<>> /\ Head(fromS[p]).kind = "hdr"
  /\ fromS' = [fromS EXCEPT ![p] = Tail(@)]
  /\ svc' = [svc EXCEPT ![p] = IF Head(fromS[p]).cmd = "key" THEN "body" ELSE "select"]
  /\ UNCHANGED <<serverVars, toS, link, net, main, evalVars, frames, lost, misread>>

\* no command: cmd_parser returns -1 and the message about it prints the
\* descriptor with %s.  So does what recv leaves when it fails
SvcMisreads(p) ==
  /\ Runs(p) /\ svc[p] = "select"
  /\ \/ fromS[p] # <<>> /\ Head(fromS[p]).kind = "body"
     \/ fromS[p] = <<>> /\ link[p] = "reset"
  /\ fromS' = [fromS EXCEPT ![p] = IF @ = <<>> THEN @ ELSE Tail(@)]
  /\ misread' = [misread EXCEPT ![p] = @ \/ fromS[p] # <<>>]
  /\ \/ main' = [main EXCEPT ![p] = "killed"]
     \/ UNCHANGED main
  /\ UNCHANGED <<serverVars, toS, link, net, evalVars, frames, svc, lost>>

\* recv_binary of public_key_response; it fails when nothing comes
SvcBody(p) ==
  /\ Runs(p) /\ svc[p] = "body"
  /\ \/ /\ fromS[p] # <<>>
        /\ fromS' = [fromS EXCEPT ![p] = Tail(@)]
        /\ UNCHANGED lost
     \/ /\ fromS[p] = <<>>
        /\ lost' = [lost EXCEPT ![p] = TRUE]
        /\ UNCHANGED fromS
  /\ svc' = [svc EXCEPT ![p] = "select"]
  /\ UNCHANGED <<serverVars, toS, link, net, main, evalVars, frames, misread>>

Svc(p) == SvcEnds(p) \/ SvcDispatch(p) \/ SvcMisreads(p) \/ SvcBody(p)

-----------------------------------------------------------------------------
(* The server's thread of the connection.                                  *)

ServerKeeps == UNCHANGED <<net, main, evalVars, frames, svcVars>>

\* recv_buf holds the digits and no end: atoi may read on
Atoi(r) == {r.num} \cup
           (IF setting.dirty /\ r.cmd = "gen" THEN {10 * r.num + 5} ELSE {})

\* the next request; TEST_GEN_SHARES clears test_shares, and may end there
Take(p) ==
  /\ up /\ sv[p] = "wait" /\ toS[p] # <<>>
  /\ LET r == Head(toS[p]) IN
     /\ \E num \in Atoi(r) : req' = [req EXCEPT ![p] = [r EXCEPT !.num = num]]
     /\ toS' = [toS EXCEPT ![p] = Tail(@)]
     /\ at' = [at EXCEPT ![p] = 0]
     /\ tests' = IF r.cmd = "gen" THEN <<>> ELSE tests
     /\ val' = [val EXCEPT ![p] = Junk]
     /\ \/ sv' = [sv EXCEPT ![p] = CASE r.cmd = "gen" -> "fill"
                                     [] r.cmd = "ask" -> "pick"
                                     [] OTHER         -> "head"]
        \/ /\ r.cmd = "gen" /\ setting.faults
           /\ UNCHANGED sv
  /\ UNCHANGED <<up, fromS, link>> /\ ServerKeeps

\* another thread changes test_shares at the same time
Torn(p) == \E q \in Logger : q # p /\ sv[q] = "fill"

\* Faulty variant: the strings are pushed into a vector of their own, as
\* generate_shares does.
FillElsewhere(p) ==
  /\ up /\ sv[p] = "fill"
  /\ sv' = [sv EXCEPT ![p] = "wait"]
  /\ UNCHANGED <<up, tests, req, at, val, toS, fromS, link>> /\ ServerKeeps

\* one push_back of test_share_gen
Fill(p) ==
  /\ up /\ sv[p] = "fill"
  /\ LET k == NumShare(req[p].num) IN
     /\ at[p] < k
     /\ tests' = Append(tests, [by |-> p, n |-> k, t |-> Threshold(req[p].num),
                                i |-> at[p] + 1])
     /\ at' = [at EXCEPT ![p] = @ + 1]
     /\ sv' = [sv EXCEPT ![p] = IF at[p] + 1 = k THEN "wait" ELSE "fill"]
  /\ UNCHANGED <<up, req, val, toS, fromS, link>> /\ ServerKeeps

MostShares == CHOOSE k \in 3..10 : /\ \E s \in Settings : s.shares = k
                                   /\ \A s \in Settings : s.shares <= k

\* Faulty variant: seeded before every draw, rand() yields the same.
PickSeeded(p, a) ==
  /\ up /\ sv[p] = "pick" /\ tests # <<>> /\ a = 1
  /\ at' = [at EXCEPT ![p] = a]
  /\ sv' = [sv EXCEPT ![p] = "take"]
  /\ UNCHANGED <<up, tests, req, val, toS, fromS, link>> /\ ServerKeeps

\* int a = rand() % test_shares.size()
Pick(p, a) ==
  /\ up /\ sv[p] = "pick" /\ a <= Len(tests)
  /\ at' = [at EXCEPT ![p] = a]
  /\ sv' = [sv EXCEPT ![p] = "take"]
  /\ UNCHANGED <<up, tests, req, val, toS, fromS, link>> /\ ServerKeeps

\* return test_shares[a], which may be gone
TakeShare(p) ==
  /\ up /\ sv[p] = "take"
  /\ \/ at[p] <= Len(tests) /\ val' = [val EXCEPT ![p] = tests[at[p]]]
     \/ (at[p] > Len(tests) \/ Torn(p)) /\ val' = [val EXCEPT ![p] = Junk]
  /\ sv' = [sv EXCEPT ![p] = "head"]
  /\ UNCHANGED <<up, tests, req, at, toS, fromS, link>> /\ ServerKeeps

Reply(p, kind) ==
  IF link[p] = "up"
    THEN fromS' = [fromS EXCEPT ![p] =
           Append(@, [kind |-> kind, cmd |-> req[p].cmd, val |-> val[p]])]
    ELSE UNCHANGED fromS

\* the header of the answer; VIDEO_DATA_RES and an empty share have no body
SendHead(p) ==
  /\ up /\ sv[p] = "head"
  /\ Reply(p, "hdr")
  /\ sv' = [sv EXCEPT ![p] =
              IF req[p].cmd = "frame" \/ val[p] = Empty THEN "wait" ELSE "body"]
  /\ UNCHANGED <<up, tests, req, at, val, toS, link>> /\ ServerKeeps

\* the share, or the body of the answer to a key; test_share_req comes to its
\* end without a return: NoResult
SendBody(p) ==
  /\ up /\ sv[p] = "body"
  /\ Reply(p, "body")
  /\ sv' = [sv EXCEPT ![p] = "wait"]
  /\ UNCHANGED <<up, tests, req, at, val, toS, link>> /\ ServerKeeps

\* 10 seconds without a request, or the client closed: closesocket
Hangup(p) ==
  /\ up /\ sv[p] = "wait" /\ toS[p] = <<>> /\ link[p] \in {"up", "closed"}
  /\ sv' = [sv EXCEPT ![p] = "gone"]
  /\ link' = [link EXCEPT ![p] = IF @ = "up" THEN "fin" ELSE @]
  /\ UNCHANGED <<up, tests, req, at, val, toS, fromS>> /\ ServerKeeps

\* the process ends, and with it every connection
Dies ==
  /\ up' = FALSE
  /\ link' = [q \in Logger |-> IF link[q] = "up" THEN "fin" ELSE link[q]]
  /\ UNCHANGED <<tests, sv, req, at, val, toS, fromS>> /\ ServerKeeps

\* test_share_req, which answered, returns nothing: what its caller takes for
\* the result is anything, or the process goes on behind it and ends
NoResult(p) ==
  /\ up /\ sv[p] = "wait" /\ req[p].cmd = "ask" /\ setting.faults
  /\ Dies

\* rand() % 0, or two threads inside one vector
Crash(p) ==
  /\ up
  /\ \/ sv[p] = "pick" /\ tests = <<>>
     \/ sv[p] \in {"fill", "take"} /\ Torn(p)
     \/ sv[p] = "take" /\ at[p] > Len(tests)
  /\ Dies

Serve(p) == \/ Take(p) \/ Fill(p) \/ (\E a \in DOMAIN tests : Pick(p, a))
            \/ TakeShare(p) \/ SendHead(p) \/ SendBody(p) \/ Crash(p)

Next ==
  /\ UNCHANGED setting
  /\ \E p \in Logger : Main(p) \/ Svc(p) \/ Serve(p) \/ Hangup(p) \/ NoResult(p)

Fixed(A) == A /\ UNCHANGED setting

\* every thread goes on, and rand() yields every index it can, sooner or later
Fairness ==
  \A p \in Logger :
    /\ WF_vars(Fixed(Main(p))) /\ WF_vars(Fixed(Serve(p)))
    /\ \A a \in 1..MostShares : SF_vars(Fixed(Pick(p, a)))

Spec == Init /\ [][Next]_vars
FairSpec == Spec /\ Fairness

-----------------------------------------------------------------------------
(* Properties.                                                             *)

\* Every variable of the loggers and of the server keeps its type.
TypeOK ==
  /\ setting \in Settings /\ up \in BOOLEAN
  /\ tests \in Seq(Share)
  /\ sv \in [Logger -> {"wait", "fill", "pick", "take", "head", "body", "gone"}]
  /\ req \in [Logger -> Request] /\ at \in [Logger -> Nat] /\ val \in [Logger -> Share]
  /\ toS \in [Logger -> Seq(Request)] /\ fromS \in [Logger -> Seq(Unit)]
  /\ link \in [Logger -> {"none", "down", "up", "closed", "fin", "reset"}]
  /\ net \in [Logger -> {"none", "live", "freed"}]
  /\ main \in [Logger -> {"init", "key", "gen", "ask", "head", "body", "junk",
                          "collect", "frame", "end", "killed"}]
  /\ n \in [Logger -> 3..(setting.shares + 1)] /\ t \in [Logger -> 2..setting.shares]
  /\ str \in [Logger -> Share] /\ shares \in [Logger -> SUBSET Share]
  /\ frames \in [Logger -> 0..MaxFrames]
  /\ svc \in [Logger -> {"none", "select", "body", "end"}]
  /\ lost \in [Logger -> BOOLEAN] /\ misread \in [Logger -> BOOLEAN]

Alone == \E p \in Logger : setting.loggers = {p}
Collecting(p) == main[p] \in {"ask", "head", "body", "junk", "collect"}

\* performance_evaluation counts what it means to count: the strings it holds
\* are shares test_share_gen made for this number and this threshold, never
\* shares of the round before nor pieces of another answer - while one logger
\* runs, its connection has no reading thread and no digit follows the number.
\* What a lost server leaves, the empty string, is the exception.
OwnShares ==
  Alone /\ ~setting.thread /\ ~setting.dirty =>
    \A p \in setting.loggers : Collecting(p) =>
      \A s \in shares[p] :
        s = Empty \/ (s.by = p /\ s.n = n[p] /\ s.t = t[p])

\* rand() % test_shares.size() is never reached with no shares, nor an index
\* that is gone, while one logger runs and no fault of the server's own is in
\* play: gen and ask of one connection come one after the other.
SurvivesAlone == Alone /\ ~setting.faults => up

\* The same of as many loggers as run: "Max User Count" (Sys_cfg.json) is 5.
\* test_share_gen of one empties the vector test_get_share of another reads.
ServerSurvives == ~setting.faults => up

\* Answers are taken apart where they begin: ClientServiceThread takes the
\* body of an answer for a header only after a recv_binary of its own gave up,
\* and test_share_req, where no thread reads beside it, never.
AnswersAligned ==
  \A p \in setting.loggers :
    /\ setting.mode = "frames" /\ misread[p] => lost[p]
    /\ ~setting.thread => main[p] # "junk"

\* performance_evaluation ends, however rand() picks the shares, as long as it
\* can pick each of them: with one logger and no reading thread, whether the
\* server lives or not.
EvaluationEnds ==
  Alone /\ ~setting.thread /\ setting.mode = "evaluate" =>
    <>(\A p \in setting.loggers : main[p] \in {"end", "killed"})

=============================================================================
