----------------------------- MODULE ClientProofs -----------------------------
(***************************************************************************)
(* The invariants of Client: how the answers lie in the stream of a        *)
(* connection, for any number of loggers; and what one logger collects     *)
(* from a server that nobody else uses.                                    *)
(***************************************************************************)
EXTENDS Client, TLAPS, SequenceTheorems, FiniteSetTheorems

\* The state of main follows the mode it is compiled to; without
\* ClientServiceThread nobody frees g_pNetwork; rounds count as they should.
Evaluating(p) == main[p] = "gen" \/ Collecting(p)
Counts(p) ==
  /\ main[p] = "init" => n[p] = 3 /\ t[p] = 2 /\ link[p] = "none"
  /\ main[p] \in {"key", "frame"} => setting.mode = "frames"
  /\ Evaluating(p) => /\ setting.mode = "evaluate"
                      /\ n[p] <= setting.shares /\ 10 * t[p] < 7 * n[p]
  /\ p \notin setting.loggers => main[p] = "end"
Linked(p) ==
  /\ link[p] = "none" =>
       /\ fromS[p] = <<>> /\ toS[p] = <<>> /\ sv[p] = "wait" /\ svc[p] = "none"
       /\ req[p].cmd = "key"
       /\ net[p] # "freed" /\ main[p] \in {"init", "end"}
  /\ link[p] = "up" => up
  /\ ~setting.thread => svc[p] = "none" /\ net[p] # "freed"
  /\ p \notin setting.loggers => link[p] = "none"
Serving(p) ==
  /\ sv[p] \in {"pick", "take"} => req[p].cmd = "ask"
  /\ sv[p] = "take" => at[p] \in Nat \ {0}
  /\ sv[p] \in {"head", "body"} => req[p].cmd # "gen"
ModeInv == \A p \in Logger : Counts(p) /\ Linked(p) /\ Serving(p)

\* In mode "frames": the answer to the key is a header and a body, that to a
\* frame a header; ClientServiceThread reads the body where it comes.
KeyHead(u) == u.kind = "hdr" /\ u.cmd = "key"
Headed(p) ==
  /\ \A i \in 1..Len(fromS[p]) : KeyHead(fromS[p][i]) =>
       IF i < Len(fromS[p]) THEN fromS[p][i + 1].kind = "body"
                            ELSE sv[p] = "body" \/ link[p] # "up"
  /\ \A i \in 1..Len(fromS[p]) : fromS[p][i].kind = "body" =>
       IF i > 1 THEN KeyHead(fromS[p][i - 1]) ELSE svc[p] = "body" \/ lost[p]
  /\ sv[p] = "body" /\ link[p] = "up" =>
       IF fromS[p] # <<>> THEN KeyHead(fromS[p][Len(fromS[p])])
                          ELSE svc[p] = "body" \/ lost[p]
  /\ svc[p] = "body" /\ ~lost[p] =>
       IF fromS[p] # <<>> THEN fromS[p][1].kind = "body"
                          ELSE sv[p] = "body" \/ link[p] # "up"
  /\ misread[p] => lost[p]
Answered(p) ==
  /\ \A i \in 1..Len(toS[p]) : toS[p][i].cmd \in {"key", "frame"}
  /\ sv[p] \in {"wait", "head", "body", "gone"} /\ req[p].cmd \in {"key", "frame"}
  /\ sv[p] = "head" => val[p] = Junk
  /\ sv[p] = "body" => req[p].cmd = "key"
FramesInv ==
  setting.mode = "frames" => \A p \in Logger : Answered(p) /\ Headed(p)

\* In mode "evaluate", without the thread: one request is answered at a time.
Gens(q) == \A i \in 1..Len(q) : q[i].cmd = "gen"
Asks(q) == /\ q # <<>> /\ q[Len(q)].cmd = "ask"
           /\ \A i \in 1..Len(q) : i < Len(q) => q[i].cmd = "gen"
Served(p) == toS[p] = <<>> /\ sv[p] = "wait"
Phase(p) ==
  /\ main[p] # "junk"
  /\ main[p] \in {"gen", "ask", "collect"} =>
       /\ fromS[p] = <<>>
       /\ link[p] = "up" => Gens(toS[p]) /\ sv[p] \in {"wait", "fill"}
  /\ link[p] = "up" /\ (main[p] \in {"gen", "collect"} \/ (main[p] = "ask" /\ shares[p] # {}))
       => Served(p)
  /\ main[p] = "head" =>
       /\ Len(fromS[p]) <= 2
       /\ Len(fromS[p]) >= 1 => fromS[p][1].kind = "hdr"
       /\ Len(fromS[p]) = 2 => fromS[p][1].val # Empty /\ fromS[p][2].kind = "body"
       /\ link[p] = "up" =>
            \/ fromS[p] = <<>> /\ Asks(toS[p]) /\ sv[p] \in {"wait", "fill"}
            \/ /\ fromS[p] = <<>> /\ toS[p] = <<>>
               /\ req[p].cmd = "ask" /\ sv[p] \in {"pick", "take", "head"}
            \/ /\ Len(fromS[p]) = 1 /\ fromS[p][1].val # Empty /\ toS[p] = <<>>
               /\ req[p].cmd = "ask" /\ sv[p] = "body" /\ val[p] = fromS[p][1].val
            \/ Len(fromS[p]) = 1 /\ fromS[p][1].val = Empty /\ Served(p)
            \/ Len(fromS[p]) = 2 /\ Served(p)
  /\ main[p] = "body" =>
       /\ Len(fromS[p]) <= 1
       /\ Len(fromS[p]) = 1 => fromS[p][1].kind = "body"
       /\ link[p] = "up" =>
            \/ fromS[p] = <<>> /\ toS[p] = <<>> /\ req[p].cmd = "ask" /\ sv[p] = "body"
            \/ Len(fromS[p]) = 1 /\ Served(p)
PhaseInv ==
  ~setting.thread /\ setting.mode = "evaluate" => \A p \in setting.loggers : Phase(p)

\* test_shares, while one logger runs: filled from the first to the last, and
\* read where there is something.
Tests(p) ==
  /\ sv[p] = "take" => at[p] \in 1..Len(tests)
  /\ sv[p] = "fill" => at[p] = Len(tests) /\ at[p] < NumShare(req[p].num)
  /\ ~setting.faults /\ sv[p] # "fill" => tests # <<>>
  /\ \A i \in 1..Len(toS[p]) : toS[p][i].cmd = "gen" => toS[p][i].num >= 10
TestsInv == Alone => \A p \in setting.loggers : Tests(p)

\* What is collected, and what it is made of on its way.
Own(p, s) == s = Empty \/ (s.by = p /\ s.n = n[p] /\ s.t = t[p])
Whole(p) ==
  Collecting(p) =>
    /\ \A s \in shares[p] : Own(p, s)
    /\ main[p] \in {"body", "collect"} => Own(p, str[p])
    /\ \A i \in 1..Len(fromS[p]) : Own(p, fromS[p][i].val)
    /\ link[p] = "up" =>
         /\ \A i \in 1..Len(toS[p]) :
              toS[p][i].cmd = "gen" => toS[p][i].num = Digits(n[p], t[p])
         /\ sv[p] = "fill" => req[p].num = Digits(n[p], t[p])
         /\ toS[p] = <<>> \/ Head(toS[p]).cmd = "ask" =>
              \A i \in 1..Len(tests) : Own(p, tests[i])
         /\ sv[p] \in {"head", "body"} => Own(p, val[p])
WholeInv ==
  Alone /\ ~setting.thread /\ ~setting.dirty => \A p \in setting.loggers : Whole(p)
SurviveInv == Alone => ServerSurvives

IInv == /\ TypeOK /\ ModeInv /\ FramesInv /\ PhaseInv
        /\ TestsInv /\ WholeInv /\ SurviveInv

-----------------------------------------------------------------------------
\* A step is one of main, of its reading thread, or of the server's thread.
LEMMA Steps ==
  ASSUME [Next]_vars
  PROVE  /\ setting' = setting
         /\ \/ \E p \in Logger : Main(p) \/ Svc(p) \/ Serve(p) \/ Hangup(p) \/ NoResult(p)
            \/ UNCHANGED vars
BY DEF Next, vars

\* The bytes that are no share, and the shares.
LEMMA Marks == Empty \in Share /\ Junk \in Share /\ Empty # Junk
BY DEF Empty, Junk, Share

\* The first element of a queue, and the rest of it.
LEMMA TailOf ==
  ASSUME NEW S, NEW q \in Seq(S), q # <<>>
  PROVE  /\ Head(q) \in S /\ Head(q) = q[1] /\ Tail(q) \in Seq(S)
         /\ Len(q) \in Nat \ {0} /\ Len(Tail(q)) = Len(q) - 1
         /\ \A i \in 1..Len(Tail(q)) : Tail(q)[i] = q[i + 1]
OBVIOUS

\* A queue with one more element.
LEMMA AppendTo ==
  ASSUME NEW S, NEW q \in Seq(S), NEW e \in S
  PROVE  /\ Append(q, e) \in Seq(S) /\ Append(q, e) # <<>>
         /\ Len(q) \in Nat /\ Len(Append(q, e)) = Len(q) + 1
         /\ \A i \in 1..Len(q) : Append(q, e)[i] = q[i]
         /\ Append(q, e)[Len(q) + 1] = e
OBVIOUS

\* Queues of none, one or two elements.
LEMMA Short ==
  ASSUME NEW S, NEW q \in Seq(S)
  PROVE  /\ Len(q) \in Nat
         /\ q = <<>> <=> Len(q) = 0
         /\ q # <<>> => (Tail(q) = <<>> <=> Len(q) = 1)
         /\ Len(q) = 2 => Tail(q) # <<>> /\ Len(Tail(q)) = 1 /\ Tail(q)[1] = q[2]
<1>1. \A s \in Seq(S) : Len(s) \in Nat /\ (s = <<>> <=> Len(s) = 0)
  OBVIOUS
<1>2. q # <<>> => Tail(q) \in Seq(S) /\ Len(Tail(q)) = Len(q) - 1
  BY TailOf
<1>3. q # <<>> => (Tail(q) = <<>> <=> Len(Tail(q)) = 0)
  BY <1>1, <1>2
<1>4. Len(q) = 2 => q # <<>>
  BY <1>1
<1>5. Len(q) = 2 => Len(Tail(q)) = 1 /\ 1 \in 1..1
  BY <1>2, <1>4
<1>6. Len(q) = 2 => Tail(q)[1] = q[2]
  <2>1. \A i \in 1..1 : i + 1 = 2 /\ i = 1
    OBVIOUS
  <2> QED
    BY <1>4, <1>5, <2>1, TailOf
<1>7. q # <<>> => (Len(q) - 1 = 0 <=> Len(q) = 1)
  BY <1>1
<1> QED
  BY <1>1, <1>2, <1>3, <1>4, <1>5, <1>6, <1>7

\* A setting is one of the environment's.
LEMMA SettingType == ASSUME TypeOK PROVE setting \in Setting
BY ClientAssumption DEF TypeOK

\* What Sends does: it hands on a request where the connection is up.
LEMMA SendsTo ==
  ASSUME TypeOK, NEW p \in Logger, NEW q \in Request, NEW to,
         to \in {"frame", "ask", "head"}, Sends(p, q, to)
  PROVE  /\ toS' \in [Logger -> Seq(Request)]
         /\ link' \in [Logger -> {"none", "down", "up", "closed", "fin", "reset"}]
         /\ main' \in [Logger -> {"init", "key", "gen", "ask", "head", "body", "junk",
                                  "collect", "frame", "end", "killed"}]
         /\ main'[p] \in {to, "killed"}
         /\ \/ link[p] = "up" /\ toS'[p] = Append(toS[p], q) /\ main'[p] = to
            \/ toS' = toS
         /\ link' = link \/ (link[p] = "fin" /\ link'[p] = "reset")
         /\ link[p] = "up" /\ net[p] = "live" => toS'[p] = Append(toS[p], q)
         /\ \A l \in Logger \ {p} : toS'[l] = toS[l] /\ link'[l] = link[l] /\ main'[l] = main[l]
<1>1. Append(toS[p], q) \in Seq(Request)
  BY AppendTo DEF TypeOK
<1>2. CASE link[p] = "up" /\ net[p] = "live" /\ toS' = [toS EXCEPT ![p] = Append(@, q)]
           /\ main' = [main EXCEPT ![p] = to] /\ UNCHANGED link
  BY <1>1, <1>2 DEF TypeOK
<1>3. CASE link[p] = "fin" /\ net[p] = "live" /\ link' = [link EXCEPT ![p] = "reset"]
           /\ main' = [main EXCEPT ![p] = to] /\ UNCHANGED toS
  BY <1>3 DEF TypeOK
<1>4. CASE (link[p] \in {"down", "fin", "reset"} \/ net[p] = "freed")
           /\ main' = [main EXCEPT ![p] = "killed"] /\ UNCHANGED <<link, toS>>
  BY <1>4 DEF TypeOK
<1>5. CASE net[p] = "freed" /\ main' = [main EXCEPT ![p] = to] /\ UNCHANGED <<link, toS>>
  BY <1>5 DEF TypeOK
<1> QED
  BY <1>2, <1>3, <1>4, <1>5 DEF Sends

\* What Reply does: it puts a unit behind the others where the connection is up.
LEMMA RepliesWith ==
  ASSUME TypeOK, NEW p \in Logger, NEW kind \in {"hdr", "body"}, req[p].cmd # "gen",
         Reply(p, kind)
  PROVE  /\ fromS' \in [Logger -> Seq(Unit)]
         /\ link[p] = "up" =>
              fromS'[p] = Append(fromS[p], [kind |-> kind, cmd |-> req[p].cmd, val |-> val[p]])
         /\ link[p] # "up" => fromS' = fromS
         /\ \A l \in Logger \ {p} : fromS'[l] = fromS[l]
<1> DEFINE u == [kind |-> kind, cmd |-> req[p].cmd, val |-> val[p]]
<1>1. u \in Unit
  BY DEF TypeOK, Unit, Request
<1>2. Append(fromS[p], u) \in Seq(Unit)
  BY <1>1, AppendTo DEF TypeOK
<1> QED
  BY <1>2 DEF Reply, TypeOK

\* What is at the front of a connection's queues, and what is behind it.
LEMMA Fronts ==
  ASSUME TypeOK, NEW p \in Logger
  PROVE  /\ Len(fromS[p]) \in Nat /\ Len(toS[p]) \in Nat /\ <<>> \in Seq(Unit)
         /\ fromS[p] # <<>> =>
              /\ Head(fromS[p]) \in Unit /\ Head(fromS[p]) = fromS[p][1]
              /\ Head(fromS[p]).val \in Share /\ Len(fromS[p]) >= 1
              /\ Tail(fromS[p]) \in Seq(Unit) /\ Len(Tail(fromS[p])) = Len(fromS[p]) - 1
              /\ \A i \in 1..(Len(fromS[p]) - 1) : Tail(fromS[p])[i] = fromS[p][i + 1]
         /\ toS[p] # <<>> =>
              /\ Head(toS[p]) \in Request /\ Head(toS[p]) = toS[p][1] /\ Len(toS[p]) >= 1
              /\ Tail(toS[p]) \in Seq(Request) /\ Len(Tail(toS[p])) = Len(toS[p]) - 1
              /\ \A i \in 1..(Len(toS[p]) - 1) : Tail(toS[p])[i] = toS[p][i + 1]
<1>1. fromS[p] \in Seq(Unit) /\ toS[p] \in Seq(Request)
  BY DEF TypeOK
<1>2. \A u \in Unit : u.val \in Share
  BY DEF Unit
<1>3. fromS[p] # <<>> =>
        /\ Head(fromS[p]) \in Unit /\ Head(fromS[p]) = fromS[p][1]
        /\ Tail(fromS[p]) \in Seq(Unit) /\ Len(Tail(fromS[p])) = Len(fromS[p]) - 1
        /\ Len(fromS[p]) >= 1
        /\ \A i \in 1..(Len(fromS[p]) - 1) : Tail(fromS[p])[i] = fromS[p][i + 1]
  BY <1>1, TailOf
<1>4. toS[p] # <<>> =>
        /\ Head(toS[p]) \in Request /\ Head(toS[p]) = toS[p][1] /\ Len(toS[p]) >= 1
        /\ Tail(toS[p]) \in Seq(Request) /\ Len(Tail(toS[p])) = Len(toS[p]) - 1
        /\ \A i \in 1..(Len(toS[p]) - 1) : Tail(toS[p])[i] = toS[p][i + 1]
  BY <1>1, TailOf
<1> QED
  BY <1>1, <1>2, <1>3, <1>4

\* What the server takes for the number it is sent is one.
LEMMA AtoiType ==
  ASSUME TypeOK, NEW q \in Request
  PROVE  Atoi(q) \subseteq Nat /\ \A num \in Atoi(q) : [q EXCEPT !.num = num] \in Request
BY DEF Atoi, Request

\* Requests have the types they are sent with.
LEMMA RequestType ==
  ASSUME TypeOK, NEW p \in Logger
  PROVE  /\ [cmd |-> "key", num |-> 0] \in Request /\ [cmd |-> "frame", num |-> 0] \in Request
         /\ [cmd |-> "ask", num |-> 0] \in Request
         /\ [cmd |-> "gen", num |-> Digits(n[p], t[p])] \in Request
         /\ n[p] \in Nat /\ t[p] \in Nat /\ setting.shares \in 3..10
<1>1. setting.shares \in 3..10
  BY SettingType DEF Setting
<1> QED
  BY <1>1 DEF TypeOK, Request, Digits

\* The threshold and the number of shares stay within their bounds.
LEMMA RoundBounds ==
  ASSUME NEW most \in 3..10, NEW k \in 3..(most + 1), NEW b \in 2..most, k <= most
  PROVE  /\ 10 * (b + 1) < 7 * k => b + 1 \in 2..most
         /\ k + 1 \in 3..(most + 1) /\ 2 \in 2..most
OBVIOUS

-----------------------------------------------------------------------------
\* Every step keeps the types.
LEMMA TypeStep == TypeOK /\ ModeInv /\ [Next]_vars => TypeOK'
<1> SUFFICES ASSUME TypeOK, ModeInv, [Next]_vars PROVE TypeOK'
  OBVIOUS
<1> USE ClientAssumption, Steps
<1>0. CASE UNCHANGED vars
  BY <1>0 DEF TypeOK, vars, serverVars, evalVars, svcVars, ServerKeeps, MainGoes
<1> SUFFICES ASSUME NEW p \in Logger, Main(p) \/ Svc(p) \/ Serve(p) \/ Hangup(p) \/ NoResult(p)
             PROVE  TypeOK'
  BY <1>0
<1> USE DEF TypeOK, serverVars, evalVars, svcVars, ServerKeeps, MainGoes
<1>1. CASE Connect(p)
  <2>1. main'[p] \in {"gen", "key"} /\ main' = [main EXCEPT ![p] = main'[p]]
    BY <1>1 DEF Connect, FirstTask
  <2>2. link' \in [Logger -> {"none", "down", "up", "closed", "fin", "reset"}]
    BY <1>1 DEF Connect
  <2>3. svc' \in [Logger -> {"none", "select", "body", "end"}]
    BY <1>1 DEF Connect
  <2> QED
    BY <1>1, <2>1, <2>2, <2>3 DEF Connect
<1>2. CASE SendKey(p)
  BY <1>2, SendsTo, RequestType DEF SendKey
<1>3. CASE SendFrame(p)
  <2>1. frames' \in [Logger -> 0..MaxFrames]
    BY <1>3 DEF SendFrame
  <2> QED
    BY <1>3, <2>1, SendsTo, RequestType DEF SendFrame
<1>4. CASE StopFrames(p)
  BY <1>4 DEF StopFrames
<1>5. CASE Gen(p)
  <2>1. shares' \in [Logger -> SUBSET Share]
    BY <1>5 DEF Gen
  <2> QED
    BY <1>5, <2>1, SendsTo, RequestType DEF Gen
<1>6. CASE Ask(p)
  BY <1>6, SendsTo, RequestType DEF Ask
<1>7. CASE RecvHead(p)
  <2>1. fromS' \in [Logger -> Seq(Unit)]
    <3>1. \/ fromS[p] # <<>> /\ fromS' = [fromS EXCEPT ![p] = Tail(fromS[p])]
          \/ fromS' = fromS
      BY <1>7 DEF RecvHead
    <3>2. fromS[p] # <<>> => Tail(fromS[p]) \in Seq(Unit)
      BY Fronts
    <3> QED
      BY <1>7, <3>1, <3>2
  <2>2. main' \in [Logger -> {"init", "key", "gen", "ask", "head", "body", "junk",
                             "collect", "frame", "end", "killed"}]
    BY <1>7 DEF RecvHead
  <2> QED
    BY <1>7, <2>1, <2>2, Marks DEF RecvHead
<1>8. CASE RecvShare(p)
  <2>1. fromS' \in [Logger -> Seq(Unit)]
    <3>1. \/ fromS[p] # <<>> /\ fromS' = [fromS EXCEPT ![p] = Tail(fromS[p])]
          \/ fromS' = fromS \/ fromS' = [fromS EXCEPT ![p] = <<>>]
      BY <1>8 DEF RecvShare
    <3>2. (fromS[p] # <<>> => Tail(fromS[p]) \in Seq(Unit)) /\ <<>> \in Seq(Unit)
      BY Fronts
    <3> QED
      BY <1>8, <3>1, <3>2
  <2>2. str' \in [Logger -> Share]
    <3>1. \/ fromS[p] # <<>> /\ str' = [str EXCEPT ![p] = Head(fromS[p]).val]
          \/ str' = [str EXCEPT ![p] = Junk] \/ str' = str
      BY <1>8 DEF RecvShare
    <3>2. fromS[p] # <<>> => Head(fromS[p]).val \in Share
      BY Fronts
    <3> QED
      BY <3>1, <3>2, Marks
  <2> QED
    BY <1>8, <2>1, <2>2 DEF RecvShare
<1>9. CASE Collect(p)
  BY <1>9 DEF Collect
<1>10. CASE NextRound(p)
  <2>1. /\ n[p] <= setting.shares /\ setting.shares \in 3..10
        /\ n[p] \in 3..(setting.shares + 1) /\ t[p] \in 2..setting.shares
    BY <1>10, RequestType DEF NextRound, ModeInv, Counts, Evaluating, Collecting
  <2>2. CASE 10 * (t[p] + 1) < 7 * n[p]
    <3>1. t[p] + 1 \in 2..setting.shares
      BY <2>1, <2>2, RoundBounds
    <3> QED
      BY <1>10, <2>2, <3>1 DEF NextRound
  <2>3. CASE ~(10 * (t[p] + 1) < 7 * n[p])
    <3>1. n[p] + 1 \in 3..(setting.shares + 1) /\ 2 \in 2..setting.shares
      BY <2>1, RoundBounds
    <3> QED
      <4>1. /\ t' = [t EXCEPT ![p] = 2] /\ n' = [n EXCEPT ![p] = n[p] + 1]
            /\ main' = [main EXCEPT ![p] = "end"] \/ main' = [main EXCEPT ![p] = "gen"]
        BY <1>10, <2>3 DEF NextRound
      <4>2. UNCHANGED <<serverVars, toS, fromS, link, net, str, shares, frames, svcVars>>
        BY <1>10 DEF NextRound
      <4> QED
        BY <3>1, <4>1, <4>2
  <2> QED
    BY <2>2, <2>3
<1>11. CASE SvcEnds(p)
  BY <1>11 DEF SvcEnds, TermClient, Runs
<1>12. CASE SvcDispatch(p)
  BY <1>12 DEF SvcDispatch, Runs
<1>13. CASE SvcMisreads(p)
  <2>1. fromS' \in [Logger -> Seq(Unit)]
    BY <1>13, Fronts DEF SvcMisreads
  <2>2. misread' \in [Logger -> BOOLEAN]
    BY <1>13 DEF SvcMisreads
  <2>3. main' \in [Logger -> {"init", "key", "gen", "ask", "head", "body", "junk",
                             "collect", "frame", "end", "killed"}]
    BY <1>13 DEF SvcMisreads
  <2> QED
    BY <1>13, <2>1, <2>2, <2>3 DEF SvcMisreads
<1>14. CASE SvcBody(p)
  <2>1. fromS' \in [Logger -> Seq(Unit)] /\ lost' \in [Logger -> BOOLEAN]
    <3>1. \/ fromS[p] # <<>> /\ fromS' = [fromS EXCEPT ![p] = Tail(fromS[p])]
          \/ fromS' = fromS
      BY <1>14 DEF SvcBody
    <3>2. fromS[p] # <<>> => Tail(fromS[p]) \in Seq(Unit)
      BY Fronts
    <3> QED
      <4>1. lost' \in [Logger -> BOOLEAN]
        BY <1>14 DEF SvcBody
      <4>2. fromS' \in [Logger -> Seq(Unit)]
        BY <3>1, <3>2
      <4> QED
        BY <4>1, <4>2
  <2> QED
    BY <1>14, <2>1 DEF SvcBody
<1>15. CASE Take(p)
  <2>1. Head(toS[p]) \in Request /\ Tail(toS[p]) \in Seq(Request)
    BY <1>15, Fronts DEF Take
  <2>2. req' \in [Logger -> Request]
    BY <1>15, <2>1, AtoiType, SMTT(30) DEF Take
  <2>3. sv' \in [Logger -> {"wait", "fill", "pick", "take", "head", "body", "gone"}]
    <3>1. \/ sv' = [sv EXCEPT ![p] = "fill"] \/ sv' = [sv EXCEPT ![p] = "pick"]
          \/ sv' = [sv EXCEPT ![p] = "head"] \/ sv' = sv
      BY <1>15 DEF Take
    <3> QED
      BY <3>1
  <2>4. tests' \in Seq(Share) /\ toS' \in [Logger -> Seq(Request)]
    BY <1>15, <2>1 DEF Take
  <2> QED
    BY <1>15, <2>2, <2>3, <2>4, Marks DEF Take
<1>16. CASE Fill(p)
  <2> DEFINE k == NumShare(req[p].num)
             e == [by |-> p, n |-> k, t |-> Threshold(req[p].num), i |-> at[p] + 1]
  <2>1. req[p].num \in Nat /\ at[p] \in Nat
    BY DEF Request
  <2>2. k \in Nat /\ Threshold(req[p].num) \in Nat
    BY <2>1 DEF NumShare, Threshold
  <2>3. e \in Share
    BY <2>1, <2>2 DEF Share
  <2>4. tests' \in Seq(Share)
    BY <1>16, <2>3, AppendTo DEF Fill
  <2> QED
    BY <1>16, <2>1, <2>4, SMTT(30) DEF Fill
<1>17. CASE \E a \in DOMAIN tests : Pick(p, a)
  BY <1>17 DEF Pick
<1>18. CASE TakeShare(p)
  <2>1. at[p] <= Len(tests) => tests[at[p]] \in Share
    BY <1>18 DEF TakeShare, ModeInv, Serving
  <2>2. val' \in [Logger -> Share]
    BY <1>18, <2>1, Marks DEF TakeShare
  <2> QED
    BY <1>18, <2>2 DEF TakeShare
<1>19. CASE SendHead(p)
  <2>1. req[p].cmd # "gen"
    BY <1>19 DEF SendHead, ModeInv, Serving
  <2> QED
    BY <1>19, <2>1, RepliesWith DEF SendHead
<1>20. CASE SendBody(p)
  <2>1. req[p].cmd # "gen"
    BY <1>20 DEF SendBody, ModeInv, Serving
  <2> QED
    BY <1>20, <2>1, RepliesWith DEF SendBody
<1>21. CASE Crash(p)
  BY <1>21 DEF Crash, Dies
<1>22. CASE Hangup(p)
  BY <1>22 DEF Hangup
<1>23. CASE NoResult(p)
  BY <1>23 DEF NoResult, Dies
<1> QED
  BY <1>23, <1>1, <1>2, <1>3, <1>4, <1>5, <1>6, <1>7, <1>8, <1>9, <1>10, <1>11, <1>12, <1>13,
     <1>14, <1>15, <1>16, <1>17, <1>18, <1>19, <1>20, <1>21, <1>22 DEF Main, Svc, Serve

\* A step of one connection leaves the others as they are, but for the server's
\* end, which ends them all.
Untouched(q) ==
  /\ main'[q] = main[q] /\ n'[q] = n[q] /\ t'[q] = t[q] /\ str'[q] = str[q]
  /\ shares'[q] = shares[q] /\ frames'[q] = frames[q] /\ net'[q] = net[q]
  /\ svc'[q] = svc[q] /\ lost'[q] = lost[q] /\ misread'[q] = misread[q]
  /\ sv'[q] = sv[q] /\ req'[q] = req[q] /\ at'[q] = at[q] /\ val'[q] = val[q]
  /\ toS'[q] = toS[q] /\ fromS'[q] = fromS[q]
  /\ link'[q] = link[q] \/ (link[q] = "up" /\ link'[q] = "fin")
  /\ up' = up \/ (up' = FALSE /\ link'[q] # "up")
LEMMA Elsewhere ==
  ASSUME TypeOK, NEW p \in Logger, Main(p) \/ Svc(p) \/ Serve(p) \/ Hangup(p) \/ NoResult(p),
         NEW q \in Logger \ {p}
  PROVE  Untouched(q)
<1> USE DEF TypeOK, Untouched, serverVars, evalVars, svcVars, ServerKeeps, MainGoes
<1>1. CASE Main(p)
  BY <1>1, SMTT(30)
  DEF Main, Connect, SendKey, SendFrame, StopFrames, Gen, Ask, RecvHead, RecvShare, Collect,
      NextRound, Sends
<1>2. CASE Svc(p)
  BY <1>2 DEF Svc, SvcEnds, SvcDispatch, SvcMisreads, SvcBody, TermClient
<1>3. CASE Serve(p) /\ ~Crash(p)
  BY <1>3, SMTT(30) DEF Serve, Take, Fill, Pick, TakeShare, SendHead, SendBody, Reply
<1>4. CASE Crash(p)
  BY <1>4 DEF Crash, Dies
<1>5. CASE Hangup(p) \/ NoResult(p)
  BY <1>5 DEF Hangup, NoResult, Dies
<1> QED
  BY <1>1, <1>2, <1>3, <1>4, <1>5

\* What is said of a connection does not depend on a step of another one.
LEMMA ModeElsewhere ==
  ASSUME NEW q \in Logger, Untouched(q), setting' = setting, Counts(q), Linked(q), Serving(q)
  PROVE  Counts(q)' /\ Linked(q)' /\ Serving(q)'
BY DEF Untouched, Counts, Linked, Serving, Evaluating, Collecting

\* The rounds of performance_evaluation are counted as they should.
LEMMA CountsStep ==
  ASSUME TypeOK, ModeInv, setting' = setting, NEW p \in Logger,
         Main(p) \/ Svc(p) \/ Serve(p) \/ Hangup(p) \/ NoResult(p)
  PROVE  Counts(p)'
<1> USE DEF TypeOK, Counts, Evaluating, Collecting, MainGoes
<1>0. Counts(p) /\ Linked(p) /\ setting.shares \in 3..10
  BY RequestType DEF ModeInv
<1>1. CASE Connect(p)
  <2>1. main'[p] \in {"gen", "key"} /\ (main'[p] = "gen" <=> setting.mode = "evaluate")
    BY <1>1 DEF Connect, FirstTask
  <2>2. setting.mode \in {"frames", "evaluate"}
    BY SettingType DEF Setting
  <2>3. n'[p] = 3 /\ t'[p] = 2 /\ main[p] = "init"
    BY <1>0, <1>1 DEF Connect, evalVars
  <2> QED
    BY <1>0, <1>1, <2>1, <2>2, <2>3 DEF Connect
<1>2. CASE SendKey(p) \/ SendFrame(p) \/ StopFrames(p) \/ Gen(p) \/ Ask(p)
  <2>1. /\ n' = n /\ t' = t
        /\ main[p] \in {"key", "frame"} => main'[p] \in {"frame", "end", "killed"}
        /\ main[p] \in {"gen", "ask"} => main'[p] \in {"ask", "head", "killed"}
        /\ main[p] \in {"key", "frame", "gen", "ask"}
    BY <1>2, SendsTo, RequestType
    DEF SendKey, SendFrame, StopFrames, Gen, Ask, evalVars
  <2> QED
    BY <1>0, <2>1
<1>3. CASE RecvHead(p) \/ RecvShare(p) \/ Collect(p)
  <2>1. /\ n' = n /\ t' = t
        /\ main[p] \in {"head", "body", "junk", "collect"}
        /\ main'[p] \in {"ask", "body", "junk", "collect"}
    BY <1>3 DEF RecvHead, RecvShare, Collect
  <2> QED
    BY <1>0, <2>1
<1>4. CASE NextRound(p)
  <2>1. main[p] = "ask" /\ n[p] \in 3..(setting.shares + 1) /\ t[p] \in 2..setting.shares
    BY <1>4 DEF NextRound
  <2>2. CASE 10 * (t[p] + 1) < 7 * n[p]
    BY <1>0, <1>4, <2>1, <2>2 DEF NextRound
  <2>3. CASE ~(10 * (t[p] + 1) < 7 * n[p])
    <3>1. n'[p] = n[p] + 1 /\ t'[p] = 2
          /\ main'[p] = IF n[p] + 1 > setting.shares THEN "end" ELSE "gen"
      BY <1>4, <2>3 DEF NextRound
    <3>2. /\ 10 * 2 < 7 * (n[p] + 1) /\ n[p] + 1 \in Nat
          /\ n[p] + 1 > setting.shares \/ n[p] + 1 <= setting.shares
      <4>1. \A most \in 3..10, k \in Nat : k >= 3 =>
              /\ 10 * 2 < 7 * (k + 1) /\ k + 1 \in Nat
              /\ k + 1 > most \/ k + 1 <= most
        OBVIOUS
      <4>2. n[p] \in Nat /\ n[p] >= 3 /\ setting.shares \in 3..10
        BY <1>0, <2>1
      <4> QED
        BY ONLY <4>1, <4>2
    <3> QED
      BY <1>0, <2>1, <3>1, <3>2
  <2> QED
    BY <2>2, <2>3
<1>5. CASE Svc(p) \/ Serve(p) \/ Hangup(p) \/ NoResult(p)
  <2>1. n' = n /\ t' = t /\ main'[p] \in {main[p], "killed"}
    BY <1>5 DEF Svc, SvcEnds, SvcDispatch, SvcMisreads, SvcBody, Serve, Take, Fill, Pick,
                TakeShare, SendHead, SendBody, Crash, Dies, Hangup, NoResult, ServerKeeps, evalVars
  <2>2. main[p] = "init" => main'[p] = main[p] /\ link'[p] = link[p]
    BY <1>0, <1>5
    DEF Linked, Svc, SvcEnds, SvcDispatch, SvcMisreads, SvcBody, Serve, Take, Fill, Pick,
        TakeShare, SendHead, SendBody, Crash, Dies, Hangup, NoResult, ServerKeeps
  <2>3. p \notin setting.loggers => main'[p] = main[p]
    BY <1>0, <1>5
    DEF Linked, Svc, SvcEnds, SvcDispatch, SvcMisreads, SvcBody, Serve, Take, Fill, Pick,
        TakeShare, SendHead, SendBody, Crash, Dies, Hangup, NoResult, ServerKeeps
  <2> QED
    BY <1>0, <2>1, <2>2, <2>3
<1> QED
  BY <1>1, <1>2, <1>3, <1>4, <1>5 DEF Main

\* Nothing moves on a connection that was not made, and none comes back.
LEMMA LinkedStep ==
  ASSUME TypeOK, ModeInv, setting' = setting, NEW p \in Logger,
         Main(p) \/ Svc(p) \/ Serve(p) \/ Hangup(p) \/ NoResult(p)
  PROVE  Linked(p)'
<1> USE DEF TypeOK, Linked, MainGoes, serverVars, svcVars, evalVars
<1>0. Linked(p) /\ Counts(p)
  BY DEF ModeInv
<1>1. CASE Connect(p)
  BY <1>0, <1>1 DEF Connect, Counts
<1>2. CASE Main(p) /\ ~Connect(p)
  <2>1. main[p] \notin {"init", "end"} /\ main'[p] # "init" /\ p \in setting.loggers
    BY <1>0, <1>2, SendsTo, RequestType
    DEF Main, SendKey, SendFrame, StopFrames, Gen, Ask, RecvHead, RecvShare, Collect,
        NextRound, Counts
  <2>2. /\ net' = net /\ svc' = svc /\ up' = up
        /\ link'[p] = link[p] \/ link'[p] = "reset"
    BY <1>2, SendsTo, RequestType
    DEF Main, SendKey, SendFrame, StopFrames, Gen, Ask, RecvHead, RecvShare, Collect,
        NextRound
  <2> QED
    BY <1>0, <2>1, <2>2
<1>3. CASE Svc(p)
  BY <1>0, <1>3 DEF Svc, SvcEnds, SvcDispatch, SvcMisreads, SvcBody, TermClient
<1>4. CASE Serve(p) \/ Hangup(p) \/ NoResult(p)
  <2>0. link[p] = "none" => sv[p] = "wait" /\ req[p].cmd = "key" /\ toS[p] = <<>>
    BY <1>0
  <2>1. link[p] = "none" => Crash(p)
    BY <1>4, <2>0
    DEF Serve, Take, Fill, Pick, TakeShare, SendHead, SendBody, Hangup, NoResult
  <2>2. ~(link[p] = "none" /\ Crash(p))
    BY <1>0 DEF Crash, Dies
  <2>3. /\ link[p] # "none" /\ link'[p] # "none" /\ net' = net /\ svc' = svc
        /\ link'[p] = "up" => up'
    BY <1>0, <1>4, <2>1, <2>2
    DEF Serve, Take, Fill, Pick, TakeShare, SendHead, SendBody, Crash, Dies, Hangup, NoResult, ServerKeeps
  <2> QED
    BY <1>0, <2>3
<1> QED
  BY <1>1, <1>2, <1>3, <1>4

\* Each handler answers the command it was called for.
LEMMA ServingStep ==
  ASSUME TypeOK, ModeInv, setting' = setting, NEW p \in Logger,
         Main(p) \/ Svc(p) \/ Serve(p) \/ Hangup(p) \/ NoResult(p)
  PROVE  Serving(p)'
<1> USE DEF TypeOK, Serving, MainGoes, serverVars, svcVars, evalVars
<1>0. Serving(p)
  BY DEF ModeInv
<1>1. CASE Main(p) \/ Svc(p)
  <2>1. sv' = sv /\ req' = req /\ at' = at
    BY <1>1 DEF Main, Connect, SendKey, SendFrame, StopFrames, Gen, Ask, RecvHead,
                RecvShare, Collect, NextRound, Svc, SvcEnds, SvcDispatch, SvcMisreads, SvcBody
  <2> QED
    BY <1>0, <2>1
<1>2. CASE Take(p)
  <2> DEFINE q == Head(toS[p])
  <2>1. q \in Request
    BY <1>2, Fronts DEF Take
  <2>2. req'[p].cmd = q.cmd
    BY <1>2, <2>1 DEF Take, Request
  <2>3. sv[p] = "wait" /\ sv'[p] \in {"fill", "pick", "head", "wait"}
    BY <1>2 DEF Take
  <2>4. (sv'[p] = "pick" => q.cmd = "ask") /\ (sv'[p] = "head" => q.cmd # "gen")
    BY <1>2, <2>1 DEF Take
  <2> QED
    BY <2>2, <2>3, <2>4
<1>3. CASE \E a \in DOMAIN tests : Pick(p, a)
  BY <1>0, <1>3 DEF Pick
<1>4. CASE Fill(p) \/ TakeShare(p) \/ SendHead(p) \/ SendBody(p) \/ Crash(p) \/ Hangup(p) \/ NoResult(p)
  BY <1>0, <1>4 DEF Fill, TakeShare, SendHead, SendBody, Crash, Dies, Hangup, NoResult
<1> QED
  BY <1>1, <1>2, <1>3, <1>4 DEF Serve

LEMMA ModeStep == TypeOK /\ ModeInv /\ [Next]_vars => ModeInv'
<1> SUFFICES ASSUME TypeOK, ModeInv, [Next]_vars PROVE ModeInv'
  OBVIOUS
<1>1. CASE UNCHANGED vars
  BY <1>1 DEF vars, serverVars, svcVars, evalVars, ModeInv, Counts, Linked, Serving,
              Evaluating, Collecting
<1>2. ASSUME NEW p \in Logger, Main(p) \/ Svc(p) \/ Serve(p) \/ Hangup(p) \/ NoResult(p) PROVE ModeInv'
  <2>1. \A q \in Logger \ {p} : Counts(q)' /\ Linked(q)' /\ Serving(q)'
    BY <1>2, Steps, Elsewhere, ModeElsewhere DEF ModeInv
  <2> QED
    BY <1>2, <2>1, Steps, CountsStep, LinkedStep, ServingStep DEF ModeInv
<1> QED
  BY <1>1, <1>2, Steps

-----------------------------------------------------------------------------
\* In mode "frames" the server's thread answers keys and frames.
LEMMA AnsweredStep ==
  ASSUME TypeOK, ModeInv, setting' = setting, setting.mode = "frames",
         NEW p \in Logger, Answered(p),
         Main(p) \/ Svc(p) \/ Serve(p) \/ Hangup(p) \/ NoResult(p)
  PROVE  Answered(p)'
<1> USE DEF TypeOK, Answered, MainGoes, serverVars, svcVars, evalVars
<1>1. CASE Main(p)
  <2>1. sv' = sv /\ req' = req /\ val' = val
    BY <1>1 DEF Main, Connect, SendKey, SendFrame, StopFrames, Gen, Ask, RecvHead,
                RecvShare, Collect, NextRound
  <2>2. toS'[p] = toS[p] \/ \E q \in Request : /\ q.cmd \in {"key", "frame"}
                                              /\ toS'[p] = Append(toS[p], q)
    <3>1. CASE SendKey(p)
      <4>1. toS'[p] = toS[p] \/ toS'[p] = Append(toS[p], [cmd |-> "key", num |-> 0])
        <5>1. /\ Sends(p, [cmd |-> "key", num |-> 0], "frame")
              /\ [cmd |-> "key", num |-> 0] \in Request
          BY <3>1, RequestType DEF SendKey
        <5> HIDE DEF TypeOK
        <5> QED
          BY <5>1, SendsTo
      <4> QED
        BY <4>1, RequestType
    <3>3. CASE SendFrame(p)
      <4>1. toS'[p] = toS[p] \/ toS'[p] = Append(toS[p], [cmd |-> "frame", num |-> 0])
        <5>1. /\ Sends(p, [cmd |-> "frame", num |-> 0], "frame")
              /\ [cmd |-> "frame", num |-> 0] \in Request
          BY <3>3, RequestType DEF SendFrame
        <5> HIDE DEF TypeOK
        <5> QED
          BY <5>1, SendsTo
      <4> QED
        BY <4>1, RequestType
    <3>2. CASE ~(SendKey(p) \/ SendFrame(p))
      BY <1>1, <3>2
      DEF Main, Connect, StopFrames, Gen, Ask, RecvHead, RecvShare, Collect, NextRound,
          ModeInv, Counts, Evaluating, Collecting
    <3> QED
      BY <3>1, <3>2, <3>3
  <2>3. ASSUME NEW q \in Request, q.cmd \in {"key", "frame"}, toS'[p] = Append(toS[p], q)
        PROVE  \A i \in 1..Len(toS'[p]) : toS'[p][i].cmd \in {"key", "frame"}
    <3>1. /\ toS[p] \in Seq(Request) /\ Len(toS[p]) \in Nat
          /\ Len(toS'[p]) = Len(toS[p]) + 1 /\ toS'[p][Len(toS[p]) + 1] = q
          /\ \A i \in 1..Len(toS[p]) : toS'[p][i] = toS[p][i]
      BY <2>3, AppendTo
    <3>2. \A i \in 1..(Len(toS[p]) + 1) : i \in 1..Len(toS[p]) \/ i = Len(toS[p]) + 1
      BY <3>1
    <3> QED
      BY <2>3, <3>1, <3>2
  <2> QED
    BY <2>1, <2>2, <2>3
<1>2. CASE Svc(p)
  BY <1>2 DEF Svc, SvcEnds, SvcDispatch, SvcMisreads, SvcBody
<1>3. CASE Take(p)
  <2> DEFINE q == Head(toS[p])
  <2>1. /\ q \in Request /\ q.cmd \in {"key", "frame"}
        /\ \A i \in 1..Len(Tail(toS[p])) : Tail(toS[p])[i].cmd \in {"key", "frame"}
    <3>1. /\ q \in Request /\ q = toS[p][1] /\ Len(toS[p]) \in Nat /\ Len(toS[p]) >= 1
          /\ Len(Tail(toS[p])) = Len(toS[p]) - 1
          /\ \A i \in 1..(Len(toS[p]) - 1) : Tail(toS[p])[i] = toS[p][i + 1]
      BY <1>3, Fronts DEF Take
    <3>2. \A i \in 1..(Len(toS[p]) - 1) : i + 1 \in 1..Len(toS[p])
      BY <3>1
    <3> QED
      BY <3>1, <3>2
  <2>2. req'[p].cmd = q.cmd /\ sv'[p] = "head" /\ val'[p] = Junk /\ toS'[p] = Tail(toS[p])
    BY <1>3, <2>1 DEF Take, Request
  <2> QED
    BY <2>1, <2>2
<1>4. CASE Fill(p) \/ (\E a \in DOMAIN tests : Pick(p, a)) \/ TakeShare(p)
  BY <1>4 DEF Fill, Pick, TakeShare
<1>5. CASE SendHead(p) \/ SendBody(p)
  <2>1. sv[p] = "head" => val[p] # Empty
    BY Marks
  <2> QED
    BY <1>5, <2>1 DEF SendHead, SendBody
<1>6. CASE Crash(p) \/ Hangup(p) \/ NoResult(p)
  BY <1>6 DEF Crash, Dies, Hangup, NoResult
<1> QED
  BY <1>1, <1>2, <1>3, <1>4, <1>5, <1>6 DEF Serve

\* Taking the first unit leaves each key's header before its body.
LEMMA TailHeaded ==
  ASSUME NEW q \in Seq(Unit), q # <<>>, NEW last, NEW first,
         \A i \in 1..Len(q) : KeyHead(q[i]) =>
            IF i < Len(q) THEN q[i + 1].kind = "body" ELSE last,
         \A i \in 1..Len(q) : q[i].kind = "body" =>
            IF i > 1 THEN KeyHead(q[i - 1]) ELSE first
  PROVE  /\ \A i \in 1..Len(Tail(q)) : KeyHead(Tail(q)[i]) =>
              IF i < Len(Tail(q)) THEN Tail(q)[i + 1].kind = "body" ELSE last
         /\ \A i \in 1..Len(Tail(q)) : Tail(q)[i].kind = "body" =>
              IF i > 1 THEN KeyHead(Tail(q)[i - 1]) ELSE KeyHead(q[1])
         /\ Tail(q) # <<>> =>
              /\ Tail(q)[Len(Tail(q))] = q[Len(q)]
              /\ KeyHead(q[1]) => Tail(q)[1].kind = "body"
         /\ Tail(q) = <<>> =>
              /\ q[Len(q)] = q[1]
              /\ KeyHead(q[1]) => last
         /\ q[1].kind = "body" => first
<1> DEFINE m == Len(q) - 1
<1>1. Len(q) \in Nat /\ m \in Nat /\ Len(Tail(q)) = m /\ Tail(q) \in Seq(Unit)
  BY TailOf
<1>2. \A i \in 1..m : Tail(q)[i] = q[i + 1] /\ i + 1 \in 1..Len(q)
  BY TailOf, <1>1
<1>3. 1 \in 1..Len(q) /\ Len(q) = m + 1
  BY <1>1
<1>4. Tail(q) = <<>> <=> m = 0
  <2>1. \A s \in Seq(Unit) : s = <<>> <=> Len(s) = 0
    OBVIOUS
  <2> QED
    BY <1>1, <2>1
<1> HIDE DEF m
<1>5. ASSUME NEW i \in 1..m, KeyHead(q[i + 1])
      PROVE  IF i < m THEN Tail(q)[i + 1].kind = "body" ELSE last
  <2>1. CASE i < m
    <3>1. i + 1 \in 1..m /\ i + 1 < Len(q) /\ i + 1 \in 1..Len(q)
      BY <1>1, <1>3, <2>1
    <3>2. Tail(q)[i + 1] = q[(i + 1) + 1]
      BY <1>2, <3>1
    <3>3. q[(i + 1) + 1].kind = "body"
      BY <1>5, <3>1
    <3> QED
      BY <2>1, <3>2, <3>3
  <2>2. CASE ~(i < m)
    <3>1. i + 1 \in 1..Len(q) /\ ~(i + 1 < Len(q))
      BY <1>1, <1>3, <2>2
    <3> QED
      BY <1>5, <2>2, <3>1
  <2> QED
    BY <2>1, <2>2
<1>6. ASSUME NEW i \in 1..m, q[i + 1].kind = "body"
      PROVE  IF i > 1 THEN KeyHead(Tail(q)[i - 1]) ELSE KeyHead(q[1])
  <2>1. i + 1 > 1 /\ (i + 1) - 1 = i /\ i + 1 \in 1..Len(q)
    BY <1>1, <1>2
  <2>2. KeyHead(q[i])
    BY <1>6, <2>1
  <2>3. i > 1 => i - 1 \in 1..m /\ (i - 1) + 1 = i
    BY <1>1
  <2>4. i > 1 => Tail(q)[i - 1] = q[i]
    BY <1>2, <2>3
  <2>5. ~(i > 1) => i = 1
    BY <1>1
  <2> QED
    BY <2>2, <2>4, <2>5
<1>7. Tail(q) # <<>> => m \in 1..m /\ 1 \in 1..m /\ 1 < Len(q)
  BY <1>1, <1>3, <1>4
<1>8. Tail(q) # <<>> => Tail(q)[m] = q[Len(q)] /\ (KeyHead(q[1]) => Tail(q)[1].kind = "body")
  BY <1>2, <1>3, <1>7
<1>9. Tail(q) = <<>> => Len(q) = 1
  BY <1>1, <1>3, <1>4
<1>10. KeyHead(q[1]) /\ Tail(q) = <<>> => last
  BY <1>3, <1>9
<1>11. q[1].kind = "body" => first
  BY <1>3
<1> QED
  BY <1>1, <1>2, <1>5, <1>6, <1>8, <1>9, <1>10, <1>11

\* The body of the answer to the key stays behind its header, until the reading
\* thread gave up waiting for it.
LEMMA HeadedStep ==
  ASSUME TypeOK, ModeInv, setting' = setting, setting.mode = "frames",
         NEW p \in Logger, Answered(p), Headed(p),
         Main(p) \/ Svc(p) \/ Serve(p) \/ Hangup(p) \/ NoResult(p)
  PROVE  Headed(p)'
<1> DEFINE f == fromS[p]
<1>0. /\ f \in Seq(Unit) /\ Len(f) \in Nat /\ Linked(p)
      /\ f # <<>> => /\ Head(f) = f[1] /\ Len(f) >= 1 /\ Len(Tail(f)) = Len(f) - 1
                     /\ \A i \in 1..(Len(f) - 1) : Tail(f)[i] = f[i + 1]
  BY Fronts DEF ModeInv, TypeOK
<1> DEFINE last == sv[p] = "body" \/ link[p] # "up"
           first == svc[p] = "body" \/ lost[p]
<1>0a. f # <<>> =>
         /\ \A i \in 1..Len(Tail(f)) : KeyHead(Tail(f)[i]) =>
              IF i < Len(Tail(f)) THEN Tail(f)[i + 1].kind = "body" ELSE last
         /\ \A i \in 1..Len(Tail(f)) : Tail(f)[i].kind = "body" =>
              IF i > 1 THEN KeyHead(Tail(f)[i - 1]) ELSE KeyHead(f[1])
         /\ Tail(f) # <<>> =>
              /\ Tail(f)[Len(Tail(f))] = f[Len(f)]
              /\ KeyHead(f[1]) => Tail(f)[1].kind = "body"
         /\ Tail(f) = <<>> =>
              /\ f[Len(f)] = f[1]
              /\ KeyHead(f[1]) => last
         /\ f[1].kind = "body" => first
  BY <1>0, TailHeaded DEF Headed
<1> USE DEF Headed, KeyHead
<1>1. CASE Main(p)
  <2>1. /\ fromS' = fromS /\ sv' = sv /\ lost' = lost /\ misread' = misread
        /\ svc'[p] = svc[p] \/ f = <<>>
    BY <1>0, <1>1
    DEF Main, Connect, SendKey, SendFrame, StopFrames, Gen, Ask, RecvHead,
        RecvShare, Collect, NextRound, ModeInv, Counts, Evaluating, Collecting, MainGoes,
        Linked, serverVars, svcVars, evalVars
  <2>2. CASE Connect(p)
    BY <1>0, <2>1, <2>2 DEF Connect, ModeInv, Counts, Linked, MainGoes, svcVars, TypeOK
  <2>3. CASE ~Connect(p)
    <3>1. svc' = svc /\ (link'[p] = "up" => link[p] = "up")
      BY <1>1, <2>3, SendsTo, RequestType
      DEF Main, SendKey, SendFrame, StopFrames, Gen, Ask, RecvHead, RecvShare, Collect,
          NextRound, svcVars, MainGoes
    <3> QED
      BY <1>0, <2>1, <3>1
  <2> QED
    BY <2>2, <2>3
<1>2. CASE SvcEnds(p)
  <2>1. /\ f = <<>> /\ fromS' = fromS /\ link'[p] = "closed" /\ svc'[p] = "end"
        /\ lost' = lost /\ misread' = misread
    BY <1>2 DEF SvcEnds, TermClient, TypeOK
  <2> QED
    BY <1>0, <2>1
<1>3. CASE SvcDispatch(p)
  <2>1. /\ f # <<>> /\ f[1].kind = "hdr" /\ fromS'[p] = Tail(f) /\ svc[p] = "select"
        /\ svc'[p] = IF f[1].cmd = "key" THEN "body" ELSE "select"
        /\ sv' = sv /\ link' = link /\ lost' = lost /\ misread' = misread
    BY <1>0, <1>3 DEF SvcDispatch, TypeOK, serverVars
  <2> QED
    BY <1>0a, <2>1
<1>4. CASE SvcMisreads(p)
  <2>1. /\ svc[p] = "select" /\ svc' = svc /\ sv' = sv /\ link' = link /\ lost' = lost
        /\ \/ /\ f # <<>> /\ f[1].kind = "body" /\ fromS'[p] = Tail(f)
           \/ f = <<>> /\ fromS'[p] = f /\ misread'[p] = misread[p]
    BY <1>0, <1>4 DEF SvcMisreads, TypeOK, serverVars
  <2>2. CASE f # <<>> /\ f[1].kind = "body" /\ fromS'[p] = Tail(f)
    <3>1. lost[p]
      BY <1>0a, <2>1, <2>2
    <3>2. /\ \A i \in 1..Len(fromS'[p]) : KeyHead(fromS'[p][i]) =>
               IF i < Len(fromS'[p]) THEN fromS'[p][i + 1].kind = "body" ELSE last
          /\ \A i \in 1..Len(fromS'[p]) : fromS'[p][i].kind = "body" =>
               IF i > 1 THEN KeyHead(fromS'[p][i - 1]) ELSE KeyHead(f[1])
      BY <1>0a, <2>2
    <3>3. /\ sv[p] = "body" /\ link[p] = "up" /\ fromS'[p] # <<>> =>
               KeyHead(fromS'[p][Len(fromS'[p])])
          /\ sv[p] = "body" /\ link[p] = "up" /\ fromS'[p] = <<>> => KeyHead(f[1])
      BY <1>0a, <2>2
    <3> QED
      BY <2>1, <2>2, <3>1, <3>2, <3>3
  <2> QED
    BY <1>0, <2>1, <2>2
<1>5. CASE SvcBody(p)
  <2>1. /\ svc[p] = "body" /\ svc'[p] = "select" /\ sv' = sv /\ link' = link
        /\ misread' = misread
        /\ \/ f # <<>> /\ fromS'[p] = Tail(f) /\ lost' = lost
           \/ f = <<>> /\ fromS' = fromS /\ lost'[p] = TRUE
    BY <1>5 DEF SvcBody, TypeOK, serverVars
  <2>2. CASE f # <<>> /\ fromS'[p] = Tail(f) /\ lost' = lost
    <3>1. lost[p] \/ f[1].kind = "body"
      BY <2>1, <2>2
    <3>2. /\ \A i \in 1..Len(fromS'[p]) : KeyHead(fromS'[p][i]) =>
               IF i < Len(fromS'[p]) THEN fromS'[p][i + 1].kind = "body" ELSE last
          /\ \A i \in 1..Len(fromS'[p]) : fromS'[p][i].kind = "body" =>
               IF i > 1 THEN KeyHead(fromS'[p][i - 1]) ELSE KeyHead(f[1])
      BY <1>0a, <2>2
    <3>3. /\ sv[p] = "body" /\ link[p] = "up" /\ fromS'[p] # <<>> =>
               KeyHead(fromS'[p][Len(fromS'[p])])
          /\ sv[p] = "body" /\ link[p] = "up" /\ fromS'[p] = <<>> => KeyHead(f[1])
      BY <1>0a, <2>2
    <3>4. KeyHead(f[1]) => lost[p]
      BY <3>1
    <3> QED
      BY <2>1, <2>2, <3>2, <3>3, <3>4
  <2> QED
    BY <1>0, <2>1, <2>2
<1>6. CASE SendHead(p)
  <2> DEFINE u == [kind |-> "hdr", cmd |-> req[p].cmd, val |-> val[p]]
  <2>1. /\ sv[p] = "head" /\ svc' = svc /\ link' = link /\ lost' = lost /\ misread' = misread
        /\ req[p].cmd \in {"key", "frame"}
        /\ sv'[p] = IF req[p].cmd = "frame" THEN "wait" ELSE "body"
        /\ IF link[p] = "up" THEN fromS'[p] = Append(f, u) ELSE fromS'[p] = f
    BY <1>6, RepliesWith, Marks DEF SendHead, ServerKeeps, svcVars, TypeOK, Answered
  <2>2. CASE link[p] = "up"
    <3>1. /\ fromS'[p] = Append(f, u) /\ Len(fromS'[p]) = Len(f) + 1
          /\ fromS'[p][Len(f) + 1] = u
          /\ \A i \in 1..Len(f) : fromS'[p][i] = f[i]
      BY <1>0, <2>1, <2>2, AppendTo
    <3>2. u.kind = "hdr" /\ u.cmd = req[p].cmd
      OBVIOUS
    <3>3. \A i \in 1..Len(f) : KeyHead(f[i]) => i < Len(f) /\ f[i + 1].kind = "body"
      BY <1>0, <2>1, <2>2
    <3>4. \A i \in 1..(Len(f) + 1) : i \in 1..Len(f) \/ i = Len(f) + 1
      BY <1>0
    <3>5. svc[p] = "body" /\ ~lost[p] => f # <<>>
      BY <2>1, <2>2
    <3> HIDE DEF u
    <3>6. \A i \in 1..Len(fromS'[p]) : KeyHead(fromS'[p][i]) =>
             IF i < Len(fromS'[p]) THEN fromS'[p][i + 1].kind = "body"
                                   ELSE sv'[p] = "body"
      <4>1. \A i \in 1..Len(f) : KeyHead(f[i]) =>
               i + 1 \in 1..Len(f) /\ i < Len(f) + 1 /\ f[i + 1].kind = "body"
        BY <1>0, <3>3
      <4>2. KeyHead(u) => sv'[p] = "body"
        BY <2>1, <3>2
      <4>3. ~(Len(f) + 1 < Len(f) + 1)
        BY <1>0
      <4> QED
        BY <3>1, <3>4, <4>1, <4>2, <4>3
    <3>7. \A i \in 1..Len(fromS'[p]) : fromS'[p][i].kind = "body" =>
             IF i > 1 THEN KeyHead(fromS'[p][i - 1]) ELSE svc[p] = "body" \/ lost[p]
      <4>1. \A i \in 1..Len(f) : f[i].kind = "body" =>
               IF i > 1 THEN KeyHead(f[i - 1]) ELSE svc[p] = "body" \/ lost[p]
        OBVIOUS
      <4>2. \A i \in 1..Len(f) : i > 1 => i - 1 \in 1..Len(f)
        BY <1>0
      <4> QED
        BY <3>1, <3>2, <3>4, <4>1, <4>2
    <3>8. fromS'[p] # <<>> /\ (sv'[p] = "body" => KeyHead(fromS'[p][Len(fromS'[p])]))
      BY <2>1, <3>1, <3>2, AppendTo
    <3>9. svc[p] = "body" /\ ~lost[p] => fromS'[p][1].kind = "body"
      <4>1. svc[p] = "body" /\ ~lost[p] => f[1].kind = "body" /\ 1 \in 1..Len(f)
        BY <1>0, <3>5
      <4> QED
        BY <3>1, <4>1
    <3> QED
      BY <2>1, <3>6, <3>7, <3>8, <3>9
  <2>3. CASE link[p] # "up"
    BY <1>0, <2>1, <2>3
  <2> QED
    BY <2>2, <2>3
<1>7. CASE SendBody(p)
  <2> DEFINE u == [kind |-> "body", cmd |-> req[p].cmd, val |-> val[p]]
  <2>1. /\ sv[p] = "body" /\ svc' = svc /\ link' = link /\ lost' = lost /\ misread' = misread
        /\ sv'[p] = "wait" /\ req[p].cmd = "key"
        /\ IF link[p] = "up" THEN fromS'[p] = Append(f, u) ELSE fromS'[p] = f
    BY <1>7, RepliesWith DEF SendBody, ServerKeeps, svcVars, TypeOK, Answered
  <2>2. CASE link[p] = "up"
    <3>1. /\ fromS'[p] = Append(f, u) /\ Len(fromS'[p]) = Len(f) + 1
          /\ fromS'[p][Len(f) + 1] = u
          /\ \A i \in 1..Len(f) : fromS'[p][i] = f[i]
      BY <1>0, <2>1, <2>2, AppendTo
    <3>2. u.kind = "body"
      OBVIOUS
    <3>3. IF f # <<>> THEN KeyHead(f[Len(f)]) ELSE svc[p] = "body" \/ lost[p]
      BY <2>1, <2>2
    <3>4. \A i \in 1..(Len(f) + 1) : i \in 1..Len(f) \/ i = Len(f) + 1
      BY <1>0
    <3>5. /\ Len(f) = 0 <=> f = <<>>
          /\ Len(f) + 1 > 1 => f # <<>> /\ Len(f) \in 1..Len(f)
          /\ \A i \in 1..Len(f) : i < Len(f) + 1 /\ (i < Len(f) => i + 1 \in 1..Len(f))
          /\ \A i \in 1..Len(f) : i > 1 => i - 1 \in 1..Len(f)
          /\ \A i \in 1..Len(f) : ~(i < Len(f)) => i = Len(f)
      BY <1>0
    <3> HIDE DEF u
    <3>6. \A i \in 1..Len(fromS'[p]) : KeyHead(fromS'[p][i]) =>
             i < Len(fromS'[p]) /\ fromS'[p][i + 1].kind = "body"
      <4>1. \A i \in 1..Len(f) : KeyHead(f[i]) => (i < Len(f) => f[i + 1].kind = "body")
        BY <2>1, <2>2
      <4>2. ~KeyHead(u)
        BY <3>2
      <4> QED
        BY <3>1, <3>2, <3>4, <3>5, <4>1, <4>2
    <3>7. \A i \in 1..Len(fromS'[p]) : fromS'[p][i].kind = "body" =>
             IF i > 1 THEN KeyHead(fromS'[p][i - 1]) ELSE svc[p] = "body" \/ lost[p]
      <4>1. \A i \in 1..Len(f) : f[i].kind = "body" =>
               IF i > 1 THEN KeyHead(f[i - 1]) ELSE svc[p] = "body" \/ lost[p]
        OBVIOUS
      <4>2. CASE f = <<>>
        BY <3>1, <3>3, <3>4, <3>5, <4>1, <4>2
      <4>3. CASE f # <<>>
        <5>1. Len(f) + 1 > 1 /\ Len(f) + 1 - 1 = Len(f)
          BY <1>0, <4>3
        <5>2. KeyHead(fromS'[p][Len(f)])
          BY <3>1, <3>3, <3>5, <4>3, <5>1
        <5> QED
          BY <3>1, <3>4, <3>5, <4>1, <5>1, <5>2
      <4> QED
        BY <4>2, <4>3
    <3>8. svc[p] = "body" /\ ~lost[p] => fromS'[p] # <<>> /\ fromS'[p][1].kind = "body"
      <4>1. CASE f = <<>>
        BY <1>0, <3>1, <3>2, <3>5, <4>1
      <4>2. CASE f # <<>>
        BY <1>0, <3>1, <3>5, <4>2
      <4> QED
        BY <4>1, <4>2
    <3> QED
      BY <2>1, <3>6, <3>7, <3>8
  <2>3. CASE link[p] # "up"
    BY <1>0, <2>1, <2>3
  <2> QED
    BY <2>2, <2>3
<1>8. CASE Take(p)
  BY <1>8 DEF Take, ServerKeeps, svcVars, TypeOK, Answered
<1>9. CASE Fill(p) \/ (\E a \in DOMAIN tests : Pick(p, a)) \/ TakeShare(p) \/ Crash(p)
  BY <1>9 DEF Fill, Pick, TakeShare, Crash, Dies, Answered, Torn
<1>10. CASE Hangup(p)
  BY <1>0, <1>10 DEF Hangup, ServerKeeps, svcVars, TypeOK
<1>11. CASE NoResult(p)
  BY <1>11 DEF NoResult, Answered
<1> QED
  BY <1>11, <1>1, <1>2, <1>3, <1>4, <1>5, <1>6, <1>7, <1>8, <1>9, <1>10 DEF Svc, Serve

\* In mode "frames" nothing of a connection depends on another one.
LEMMA FramesStep == TypeOK /\ ModeInv /\ FramesInv /\ [Next]_vars => FramesInv'
<1> SUFFICES ASSUME TypeOK, ModeInv, FramesInv, [Next]_vars, setting.mode = "frames"
             PROVE  FramesInv'
  BY Steps DEF FramesInv
<1>1. CASE UNCHANGED vars
  BY <1>1 DEF vars, serverVars, svcVars, FramesInv, Answered, Headed, KeyHead
<1>2. ASSUME NEW p \in Logger, Main(p) \/ Svc(p) \/ Serve(p) \/ Hangup(p) \/ NoResult(p) PROVE FramesInv'
  <2>1. \A q \in Logger \ {p} : Untouched(q)
    BY <1>2, Elsewhere
  <2>2. ASSUME NEW q \in Logger \ {p} PROVE Answered(q)' /\ Headed(q)'
    <3>1. Untouched(q) /\ Answered(q) /\ Headed(q)
      BY <2>1 DEF FramesInv
    <3>2. Answered(q)'
      BY <3>1 DEF Untouched, Answered
    <3>3. Headed(q)'
      BY <3>1 DEF Untouched, Headed, KeyHead
    <3> QED
      BY <3>2, <3>3
  <2> QED
    BY <1>2, <2>2, Steps, AnsweredStep, HeadedStep DEF FramesInv
<1> QED
  BY <1>1, <1>2, Steps

-----------------------------------------------------------------------------
\* Without the thread, one request of performance_evaluation is answered at a time.
LEMMA PhaseStep ==
  ASSUME TypeOK, ModeInv, setting' = setting, ~setting.thread, setting.mode = "evaluate",
         NEW p \in Logger, Phase(p),
         Main(p) \/ Svc(p) \/ Serve(p) \/ Hangup(p) \/ NoResult(p)
  PROVE  Phase(p)'
<1> DEFINE f == fromS[p]
           s == toS[p]
<1>0. Linked(p) /\ Counts(p) /\ Serving(p)
  BY DEF ModeInv
<1>0c. f \in Seq(Unit) /\ s \in Seq(Request)
  BY DEF TypeOK
<1>0a. /\ Len(f) \in Nat /\ Len(s) \in Nat
       /\ f = <<>> <=> Len(f) = 0
       /\ s = <<>> <=> Len(s) = 0
       /\ f # <<>> => (Tail(f) = <<>> <=> Len(f) = 1)
       /\ s # <<>> => (Tail(s) = <<>> <=> Len(s) = 1)
       /\ Len(f) = 2 => Tail(f) # <<>> /\ Len(Tail(f)) = 1 /\ Tail(f)[1] = f[2]
  BY <1>0c, Short
<1>0b. net[p] # "freed" /\ svc[p] = "none"
  BY <1>0 DEF Linked
<1> USE DEF Served, MainGoes, serverVars, svcVars, evalVars, ServerKeeps
<1>1. CASE Connect(p)
  <2>1. main[p] = "init" /\ main'[p] = "gen" /\ fromS' = fromS /\ toS' = toS /\ sv' = sv
    BY <1>1 DEF Connect, FirstTask, TypeOK
  <2>2. f = <<>> /\ s = <<>> /\ sv[p] = "wait"
    BY <1>0, <2>1 DEF Counts, Linked
  <2> QED
    BY <2>1, <2>2 DEF Phase, Gens
<1>2. CASE SendKey(p) \/ SendFrame(p) \/ StopFrames(p)
  BY <1>0, <1>2 DEF SendKey, SendFrame, StopFrames, Counts
<1>3. CASE Gen(p)
  <2> DEFINE q == [cmd |-> "gen", num |-> Digits(n[p], t[p])]
  <2>1. /\ Sends(p, q, "ask") /\ q \in Request /\ main[p] = "gen" /\ fromS' = fromS /\ sv' = sv
        /\ shares'[p] = {}
    BY <1>3, RequestType DEF Gen, TypeOK
  <2> HIDE DEF q
  <2>2. /\ main'[p] \in {"ask", "killed"}
        /\ \/ link[p] = "up" /\ toS'[p] = Append(s, q)
           \/ link[p] # "up" /\ toS'[p] = s
        /\ link'[p] = "up" => link[p] = "up"
    BY <1>0b, <2>1, SendsTo DEF Sends
  <2>3. f = <<>> /\ (link[p] = "up" => s = <<>> /\ sv[p] = "wait")
    BY <2>1 DEF Phase
  <2>4. Gens(Append(<<>>, q))
    BY <2>1 DEF Gens, q
  <2> QED
    BY <2>1, <2>2, <2>3, <2>4 DEF Phase
<1>4. CASE Ask(p)
  <2> DEFINE q == [cmd |-> "ask", num |-> 0]
  <2>1. /\ Sends(p, q, "head") /\ q \in Request /\ main[p] = "ask" /\ fromS' = fromS /\ sv' = sv
    BY <1>4, RequestType DEF Ask
  <2>2. q.cmd = "ask"
    OBVIOUS
  <2> HIDE DEF q
  <2>3. /\ main'[p] \in {"head", "killed"}
        /\ \/ link[p] = "up" /\ toS'[p] = Append(s, q)
           \/ link[p] # "up" /\ toS'[p] = s
        /\ link'[p] = "up" => link[p] = "up"
    BY <1>0b, <2>1, SendsTo DEF Sends
  <2>4. f = <<>> /\ (link[p] = "up" => Gens(s) /\ sv[p] \in {"wait", "fill"})
    BY <2>1 DEF Phase
  <2>5. Gens(s) => Asks(Append(s, q))
    <3>1. /\ Append(s, q) # <<>> /\ Len(Append(s, q)) = Len(s) + 1
          /\ \A i \in 1..Len(s) : Append(s, q)[i] = s[i]
          /\ Append(s, q)[Len(s) + 1] = q
      BY <1>0c, <2>1, AppendTo
    <3>2. \A i \in 1..(Len(s) + 1) : i < Len(s) + 1 => i \in 1..Len(s)
      BY <1>0a
    <3> QED
      BY <2>2, <3>1, <3>2 DEF Gens, Asks
  <2>6. CASE link'[p] = "up"
    <3>1. Len(f) = 0 /\ Asks(Append(s, q)) /\ link[p] = "up" /\ toS'[p] = Append(s, q)
      BY <1>0a, <2>3, <2>4, <2>5, <2>6
    <3>2. Len(f) <= 2 /\ ~(Len(f) >= 1) /\ Len(f) # 2
      BY <3>1
    <3> QED
      BY <2>1, <2>3, <2>4, <2>6, <3>1, <3>2 DEF Phase
  <2>7. CASE link'[p] # "up"
    BY <1>0a, <2>1, <2>3, <2>4, <2>7 DEF Phase
  <2> QED
    BY <2>6, <2>7
<1>5. CASE RecvHead(p)
  <2>1. /\ main[p] = "head" /\ link' = link /\ sv' = sv /\ toS' = toS /\ req' = req
        /\ val' = val
        /\ \/ /\ f # <<>> /\ fromS'[p] = Tail(f)
              /\ main'[p] = IF f[1].kind = "body" THEN "junk"
                            ELSE IF f[1].val = Empty THEN "collect" ELSE "body"
           \/ f = <<>> /\ link[p] # "up" /\ main'[p] = "collect" /\ fromS'[p] = f
    BY <1>0b, <1>5, Fronts DEF RecvHead, TypeOK
  <2>2. CASE f = <<>>
    BY <2>1, <2>2 DEF Phase
  <2>3. CASE f # <<>>
    <3>1. /\ Len(f) <= 2 /\ Len(f) # 0 /\ (Len(f) >= 1 => f[1].kind = "hdr")
          /\ Len(f) = 2 => f[1].val # Empty /\ f[2].kind = "body"
      BY <1>0a, <2>1, <2>3 DEF Phase
    <3>2. Len(f) \in {1, 2} /\ Len(f) >= 1
      <4>1. \A k \in Nat : k <= 2 /\ k # 0 => k \in {1, 2} /\ k >= 1
        OBVIOUS
      <4> QED
        BY <1>0a, <3>1, <4>1
    <3>3. CASE Len(f) = 1
      <4>1. Tail(f) = <<>> /\ main'[p] \in {"collect", "body"}
            /\ (main'[p] = "collect" <=> f[1].val = Empty)
        BY <1>0a, <2>1, <2>3, <3>1, <3>2, <3>3
      <4>1a. fromS'[p] = <<>> /\ Len(<<>>) <= 1 /\ Len(<<>>) # 1 /\ Gens(<<>>)
        <5>1. Len(<<>>) = 0 /\ Gens(<<>>)
          BY DEF Gens
        <5>2. fromS'[p] = <<>>
          BY <2>1, <2>3, <4>1
        <5> QED
          BY <5>1, <5>2
      <4>2. CASE f[1].val = Empty
        <5>1. link[p] = "up" => Served(p)
          BY <2>1, <2>3, <3>3, <4>2 DEF Phase
        <5> QED
          BY <2>1, <4>1, <4>1a, <4>2, <5>1 DEF Phase
      <4>3. CASE f[1].val # Empty
        <5>1. link[p] = "up" => s = <<>> /\ req[p].cmd = "ask" /\ sv[p] = "body"
          BY <2>1, <2>3, <3>3, <4>3 DEF Phase
        <5> QED
          BY <2>1, <4>1, <4>1a, <4>3, <5>1 DEF Phase
      <4> QED
        BY <4>2, <4>3
    <3>4. CASE Len(f) = 2
      <4>1. /\ main'[p] = "body" /\ Len(Tail(f)) = 1 /\ Tail(f)[1].kind = "body"
            /\ Tail(f) # <<>>
        BY <1>0a, <2>1, <2>3, <3>1, <3>2, <3>4
      <4>2. link[p] = "up" => Served(p)
        BY <1>0a, <2>1, <3>4 DEF Phase
      <4> QED
        <5>1. /\ Len(fromS'[p]) <= 1 /\ fromS'[p][1].kind = "body"
              /\ Len(fromS'[p]) = 1 /\ main'[p] = "body"
          <6>1. fromS'[p] = Tail(f)
            BY <2>1, <2>3
          <6>2. Len(fromS'[p]) = 1
            BY <4>1, <6>1
          <6>3. Len(fromS'[p]) <= 1
            BY <6>2
          <6>4. fromS'[p][1].kind = "body"
            BY <4>1, <6>1
          <6> QED
            BY <4>1, <6>2, <6>3, <6>4
        <5>2. link'[p] = "up" => toS'[p] = <<>> /\ sv'[p] = "wait"
          BY <2>1, <4>2
        <5> QED
          BY <5>1, <5>2 DEF Phase
    <3> QED
      BY <3>2, <3>3, <3>4
  <2> QED
    BY <2>2, <2>3
<1>6. CASE RecvShare(p)
  <2>1. /\ main[p] = "body" /\ main'[p] = "collect" /\ link' = link /\ sv' = sv /\ toS' = toS
        /\ \/ f # <<>> /\ fromS'[p] = Tail(f)
           \/ f = <<>> /\ link[p] # "up" /\ fromS'[p] = f
    BY <1>6 DEF RecvShare, TypeOK, Phase
  <2>2. fromS'[p] = <<>>
    <3>1. Len(f) <= 1
      BY <2>1 DEF Phase
    <3>2. \A k \in Nat : k <= 1 => k = 0 \/ k = 1
      OBVIOUS
    <3>3. Len(f) = 0 \/ Len(f) = 1
      BY <1>0a, <3>1, <3>2
    <3> QED
      BY <1>0a, <2>1, <3>3
  <2>3. link[p] = "up" => s = <<>> /\ sv[p] = "wait"
    BY <2>1 DEF Phase
  <2> QED
    BY <2>1, <2>2, <2>3 DEF Phase, Gens
<1>7. CASE Collect(p)
  BY <1>7 DEF Collect, Phase, TypeOK
<1>8. CASE NextRound(p)
  <2>1. shares[p] # {}
    <3>1. Cardinality({}) = 0
      BY FS_EmptySet
    <3>2. t[p] \in 2..setting.shares /\ setting.shares \in 3..10
      BY RequestType DEF TypeOK
    <3>3. Cardinality(shares[p]) = t[p]
      BY <1>8 DEF NextRound
    <3>4. t[p] # 0
      BY <3>2
    <3> QED
      BY <3>1, <3>3, <3>4
  <2>2. main[p] = "ask" /\ main'[p] \in {"gen", "end"} /\ fromS' = fromS /\ toS' = toS
        /\ sv' = sv /\ link' = link
    BY <1>8 DEF NextRound, TypeOK
  <2> QED
    BY <2>1, <2>2 DEF Phase
<1>9. CASE Svc(p)
  BY <1>0b, <1>9 DEF Svc, SvcEnds, SvcDispatch, SvcMisreads, SvcBody
<1>10. CASE Take(p)
  <2> DEFINE r == s[1]
  <2>1. /\ sv[p] = "wait" /\ s # <<>> /\ toS'[p] = Tail(s) /\ main' = main /\ fromS' = fromS
        /\ link' = link /\ shares' = shares
        /\ sv'[p] = (CASE r.cmd = "gen" -> "fill" [] r.cmd = "ask" -> "pick"
                       [] OTHER -> "head")
           \/ (r.cmd = "gen" /\ sv'[p] = "wait")
    BY <1>10, Fronts DEF Take, TypeOK
  <2>2. req'[p].cmd = r.cmd
    BY <1>10, Fronts DEF Take, TypeOK, Request
  <2>3. /\ Len(Tail(s)) = Len(s) - 1 /\ Len(s) >= 1
        /\ \A i \in 1..(Len(s) - 1) : Tail(s)[i] = s[i + 1]
    BY <1>0c, <2>1, Fronts
  <2>4. CASE main[p] = "head" /\ link[p] = "up"
    <3>1. f = <<>> /\ Asks(s)
      BY <2>1, <2>4 DEF Phase
    <3>2. CASE Len(s) = 1
      <4>1. r.cmd = "ask" /\ Tail(s) = <<>>
        BY <1>0a, <2>1, <2>3, <3>1, <3>2 DEF Asks
      <4> QED
        BY <1>0a, <2>1, <2>2, <2>4, <3>1, <4>1 DEF Phase
    <3>3. CASE Len(s) # 1
      <4>1. r.cmd = "gen"
        BY <1>0a, <2>3, <3>1, <3>3 DEF Asks
      <4>2. Asks(Tail(s))
        <5>1. Tail(s)[Len(Tail(s))] = s[Len(s)]
          BY <1>0a, <2>3, <3>3
        <5>2. \A i \in 1..Len(Tail(s)) : i < Len(Tail(s)) =>
                 i + 1 \in 1..Len(s) /\ i + 1 < Len(s) /\ Tail(s)[i] = s[i + 1]
          BY <1>0a, <2>3
        <5> QED
          BY <1>0a, <2>1, <2>3, <3>1, <3>3, <5>1, <5>2 DEF Asks
      <4> QED
        BY <1>0a, <2>1, <2>4, <3>1, <4>1, <4>2 DEF Phase
    <3> QED
      BY <3>2, <3>3
  <2>5. CASE main[p] = "ask" /\ link[p] = "up"
    <3>1. Gens(s) /\ shares[p] = {} /\ f = <<>>
      BY <2>1, <2>5 DEF Phase
    <3>2. r.cmd = "gen" /\ Gens(Tail(s))
      BY <1>0a, <2>3, <3>1 DEF Gens
    <3> QED
      BY <2>1, <2>5, <3>1, <3>2 DEF Phase
  <2>6. CASE ~(main[p] \in {"head", "ask"} /\ link[p] = "up")
    BY <2>1, <2>6 DEF Phase
  <2> QED
    BY <2>4, <2>5, <2>6
<1>11. CASE Fill(p)
  <2>1. /\ sv[p] = "fill" /\ sv'[p] \in {"wait", "fill"} /\ main' = main /\ fromS' = fromS
        /\ link' = link /\ shares' = shares /\ toS' = toS /\ req' = req
    BY <1>11 DEF Fill, TypeOK
  <2> QED
    BY <2>1 DEF Phase
<1>12. CASE (\E a \in DOMAIN tests : Pick(p, a)) \/ TakeShare(p)
  <2>1. /\ sv[p] \in {"pick", "take"} /\ sv'[p] \in {"take", "head"} /\ main' = main
        /\ fromS' = fromS /\ link' = link /\ shares' = shares /\ toS' = toS /\ req' = req
    BY <1>12 DEF Pick, TakeShare, TypeOK
  <2> QED
    BY <2>1 DEF Phase
<1>13. CASE SendHead(p)
  <2> DEFINE u == [kind |-> "hdr", cmd |-> req[p].cmd, val |-> val[p]]
  <2>1. /\ sv[p] = "head" /\ req[p].cmd # "gen" /\ main' = main /\ toS' = toS /\ link' = link
        /\ shares' = shares /\ req' = req /\ val' = val
        /\ sv'[p] = IF req[p].cmd = "frame" \/ val[p] = Empty THEN "wait" ELSE "body"
        /\ IF link[p] = "up" THEN fromS'[p] = Append(f, u) ELSE fromS'[p] = f
    BY <1>0, <1>13, RepliesWith DEF SendHead, TypeOK, Serving
  <2>2. u.kind = "hdr" /\ u.val = val[p]
    OBVIOUS
  <2> HIDE DEF u
  <2>3. CASE link[p] = "up" /\ main[p] = "head"
    <3>1. f = <<>> /\ s = <<>> /\ req[p].cmd = "ask"
      BY <2>1, <2>3 DEF Phase
    <3>2. fromS'[p] = <<u>>
      BY <2>1, <2>3, <3>1
    <3> QED
      BY <2>1, <2>2, <2>3, <3>1, <3>2 DEF Phase
  <2>4. CASE ~(link[p] = "up" /\ main[p] = "head")
    BY <2>1, <2>4 DEF Phase
  <2> QED
    BY <2>3, <2>4
<1>14. CASE SendBody(p)
  <2> DEFINE u == [kind |-> "body", cmd |-> req[p].cmd, val |-> val[p]]
  <2>1. /\ sv[p] = "body" /\ req[p].cmd # "gen" /\ main' = main /\ toS' = toS /\ link' = link
        /\ shares' = shares /\ req' = req /\ val' = val /\ sv'[p] = "wait"
        /\ IF link[p] = "up" THEN fromS'[p] = Append(f, u) ELSE fromS'[p] = f
    BY <1>0, <1>14, RepliesWith DEF SendBody, TypeOK, Serving
  <2>2. u.kind = "body"
    OBVIOUS
  <2>2a. u \in Unit
    BY <2>1 DEF Unit, TypeOK, Request
  <2> HIDE DEF u
  <2>3. CASE link[p] = "up" /\ main[p] = "head"
    <3>1. Len(f) = 1 /\ s = <<>> /\ f[1].kind = "hdr" /\ f[1].val # Empty
      BY <1>0a, <2>1, <2>3 DEF Phase
    <3>2. Len(fromS'[p]) = 2 /\ fromS'[p][1] = f[1] /\ fromS'[p][2] = u
      <4>1. \A i \in 1..1 : i = 1 /\ 1 + 1 = 2
        OBVIOUS
      <4>2. 1 \in 1..1
        OBVIOUS
      <4> QED
        <5>1. fromS'[p] = Append(f, u) /\ 1 \in 1..Len(f) /\ 1 + 1 = 2
          BY <2>1, <2>3, <3>1, <4>1, <4>2
        <5>2. /\ Len(Append(f, u)) = Len(f) + 1 /\ Append(f, u)[Len(f) + 1] = u
              /\ \A i \in 1..Len(f) : Append(f, u)[i] = f[i]
          BY <1>0c, <2>2a, AppendTo
        <5> QED
          BY <3>1, <5>1, <5>2
    <3> QED
      BY <2>1, <2>2, <2>3, <3>1, <3>2 DEF Phase
  <2>4. CASE link[p] = "up" /\ main[p] = "body"
    <3>1. f = <<>> /\ s = <<>>
      BY <2>1, <2>4 DEF Phase
    <3>2. fromS'[p] = <<u>>
      BY <2>1, <2>4, <3>1
    <3> QED
      BY <2>1, <2>2, <2>4, <3>1, <3>2 DEF Phase
  <2>5. CASE ~(link[p] = "up" /\ main[p] \in {"head", "body"})
    BY <2>1, <2>5 DEF Phase
  <2> QED
    BY <2>3, <2>4, <2>5
<1>15. CASE Crash(p) \/ Hangup(p) \/ NoResult(p)
  <2>1. /\ main' = main /\ fromS' = fromS /\ link'[p] # "up" /\ shares' = shares
    BY <1>15 DEF Crash, Dies, Hangup, NoResult, TypeOK
  <2> QED
    BY <2>1 DEF Phase
<1> QED
  BY <1>1, <1>2, <1>3, <1>4, <1>5, <1>6, <1>7, <1>8, <1>9, <1>10, <1>11, <1>12, <1>13, <1>14,
     <1>15 DEF Main, Serve

\* A step of another logger does not disturb the request that is answered.
LEMMA PhaseInvStep == TypeOK /\ ModeInv /\ PhaseInv /\ [Next]_vars => PhaseInv'
<1> SUFFICES ASSUME TypeOK, ModeInv, PhaseInv, [Next]_vars,
                    ~setting.thread, setting.mode = "evaluate"
             PROVE  \A q \in setting.loggers : Phase(q)'
  BY Steps DEF PhaseInv
<1>0. setting.loggers \subseteq Logger
  BY SettingType DEF Setting
<1>1. CASE UNCHANGED vars
  BY <1>1 DEF vars, serverVars, svcVars, evalVars, PhaseInv, Phase, Served
<1>2. ASSUME NEW p \in Logger, Main(p) \/ Svc(p) \/ Serve(p) \/ Hangup(p) \/ NoResult(p)
      PROVE  \A q \in setting.loggers : Phase(q)'
  <2>1. ASSUME NEW q \in setting.loggers \ {p} PROVE Phase(q)'
    <3>1. Untouched(q) /\ Phase(q)
      BY <1>0, <1>2, Elsewhere DEF PhaseInv
    <3> QED
      BY <3>1 DEF Untouched, Phase, Served
  <2> QED
    BY <1>0, <1>2, <2>1, Steps, PhaseStep DEF PhaseInv
<1> QED
  BY <1>1, <1>2, Steps

-----------------------------------------------------------------------------
\* Of a connection that no logger made, nothing happens.
LEMMA Idle ==
  ASSUME TypeOK, ModeInv, NEW q \in Logger, q \notin setting.loggers
  PROVE  ~(Main(q) \/ Svc(q) \/ Serve(q) \/ Hangup(q) \/ NoResult(q)) /\ sv[q] = "wait"
<1>1. /\ main[q] = "end" /\ svc[q] = "none" /\ sv[q] = "wait" /\ toS[q] = <<>>
      /\ link[q] = "none" /\ req[q].cmd = "key"
  BY DEF ModeInv, Counts, Linked
<1>2. ~Main(q)
  BY <1>1 DEF Main, Connect, SendKey, SendFrame, StopFrames, Gen, Ask, RecvHead, RecvShare,
              Collect, NextRound, MainGoes
<1>3. ~Svc(q) /\ ~Hangup(q) /\ ~NoResult(q)
  BY <1>1 DEF Svc, SvcEnds, SvcDispatch, SvcMisreads, SvcBody, Hangup, NoResult, Dies
<1>4. ~Serve(q)
  BY <1>1 DEF Serve, Take, Fill, Pick, TakeShare, SendHead, SendBody, Crash, Dies
<1> QED
  BY <1>1, <1>2, <1>3, <1>4

\* While one logger runs, nobody works on test_shares beside its thread.
LEMMA NotTorn ==
  ASSUME TypeOK, ModeInv, Alone, NEW p \in setting.loggers
  PROVE  p \in Logger /\ setting.loggers = {p} /\ ~Torn(p)
<1>1. setting.loggers = {p} /\ p \in Logger
  BY DEF Alone
<1>2. \A q \in Logger : q # p => sv[q] = "wait"
  BY <1>1, Idle
<1> QED
  BY <1>1, <1>2 DEF Torn

\* test_shares is filled from its first element to its last.
LEMMA TestsStep ==
  ASSUME TypeOK, ModeInv, setting' = setting, Alone, NEW p \in setting.loggers, Tests(p),
         Main(p) \/ Svc(p) \/ Serve(p) \/ Hangup(p) \/ NoResult(p)
  PROVE  Tests(p)'
<1> DEFINE s == toS[p]
<1>0. p \in Logger /\ s \in Seq(Request) /\ at[p] \in Nat /\ Len(s) \in Nat
      /\ tests \in Seq(Share) /\ Len(tests) \in Nat
  BY NotTorn DEF TypeOK
<1> USE DEF Tests, MainGoes, serverVars, svcVars, evalVars, ServerKeeps
<1>1. CASE Main(p)
  <2>1. sv' = sv /\ req' = req /\ at' = at /\ tests' = tests
    BY <1>1 DEF Main, Connect, SendKey, SendFrame, StopFrames, Gen, Ask, RecvHead,
                RecvShare, Collect, NextRound
  <2>2. ASSUME NEW q \in Request, q.cmd = "gen" => q.num >= 10, toS'[p] = Append(s, q)
        PROVE  \A i \in 1..Len(toS'[p]) : toS'[p][i].cmd = "gen" => toS'[p][i].num >= 10
    <3>1. /\ Len(toS'[p]) = Len(s) + 1 /\ toS'[p][Len(s) + 1] = q
          /\ \A i \in 1..Len(s) : toS'[p][i] = s[i]
      BY <1>0, <2>2, AppendTo
    <3>2. \A i \in 1..(Len(s) + 1) : i \in 1..Len(s) \/ i = Len(s) + 1
      BY <1>0
    <3> QED
      BY <2>2, <3>1, <3>2
  <2>3. toS'[p] = s \/ \E q \in Request : /\ q.cmd = "gen" => q.num >= 10
                                          /\ toS'[p] = Append(s, q)
    <3>1. CASE SendKey(p)
      <4>1. /\ Sends(p, [cmd |-> "key", num |-> 0], "frame")
            /\ [cmd |-> "key", num |-> 0] \in Request
        BY <1>0, <3>1, RequestType DEF SendKey
      <4> QED
        BY <1>0, <4>1, SendsTo
    <3>2. CASE SendFrame(p)
      <4>1. /\ Sends(p, [cmd |-> "frame", num |-> 0], "frame")
            /\ [cmd |-> "frame", num |-> 0] \in Request
        BY <1>0, <3>2, RequestType DEF SendFrame
      <4> QED
        BY <1>0, <4>1, SendsTo
    <3>3. CASE Ask(p)
      <4>1. /\ Sends(p, [cmd |-> "ask", num |-> 0], "head")
            /\ [cmd |-> "ask", num |-> 0] \in Request
        BY <1>0, <3>3, RequestType DEF Ask
      <4> QED
        BY <1>0, <4>1, SendsTo
    <3>4. CASE Gen(p)
      <4> DEFINE q == [cmd |-> "gen", num |-> Digits(n[p], t[p])]
      <4>1. Sends(p, q, "ask") /\ q \in Request
        BY <1>0, <3>4, RequestType DEF Gen
      <4>2. q.num >= 10
        <5>1. n[p] \in 3..(setting.shares + 1) /\ t[p] \in 2..setting.shares
              /\ setting.shares \in 3..10
          BY <1>0, RequestType DEF TypeOK
        <5> QED
          BY <5>1 DEF Digits
      <4> HIDE DEF q
      <4> QED
        BY <1>0, <4>1, <4>2, SendsTo
    <3>5. CASE ~(SendKey(p) \/ SendFrame(p) \/ Ask(p) \/ Gen(p))
      BY <1>1, <3>5 DEF Main, Connect, StopFrames, RecvHead, RecvShare, Collect, NextRound
    <3> QED
      BY <3>1, <3>2, <3>3, <3>4, <3>5
  <2>4. \A i \in 1..Len(toS'[p]) : toS'[p][i].cmd = "gen" => toS'[p][i].num >= 10
    BY <2>2, <2>3
  <2> QED
    BY <2>1, <2>4
<1>2. CASE Svc(p)
  BY <1>2 DEF Svc, SvcEnds, SvcDispatch, SvcMisreads, SvcBody
<1>3. CASE Take(p)
  <2> DEFINE r == s[1]
  <2>1. /\ sv[p] = "wait" /\ s # <<>> /\ toS'[p] = Tail(s) /\ at'[p] = 0
        /\ tests' = (IF r.cmd = "gen" THEN <<>> ELSE tests) /\ r \in Request
        /\ sv'[p] = (CASE r.cmd = "gen" -> "fill" [] r.cmd = "ask" -> "pick"
                       [] OTHER -> "head")
           \/ (r.cmd = "gen" /\ setting.faults /\ sv'[p] = "wait")
    BY <1>0, <1>3, Fronts, SMTT(30) DEF Take, TypeOK
  <2>2. \E num \in Atoi(r) : req'[p].num = num
    BY <1>0, <1>3, Fronts DEF Take, TypeOK, Request
  <2>3. /\ Len(Tail(s)) = Len(s) - 1 /\ Len(s) >= 1
        /\ \A i \in 1..(Len(s) - 1) : Tail(s)[i] = s[i + 1]
    BY <1>0, <2>1, Fronts
  <2>4. \A i \in 1..Len(Tail(s)) : Tail(s)[i].cmd = "gen" => Tail(s)[i].num >= 10
    <3>1. \A i \in 1..(Len(s) - 1) : i + 1 \in 1..Len(s)
      BY <1>0
    <3> QED
      BY <2>3, <3>1
  <2>5. r.cmd = "gen" => 0 < NumShare(req'[p].num)
    <3>1. 1 \in 1..Len(s)
      BY <1>0, <2>3
    <3>2. r.cmd = "gen" => r.num >= 10
      BY <3>1
    <3>3. r.num \in Nat
      BY <2>1 DEF Request
    <3>4. \A k \in Nat : k >= 10 => k \div 10 > 0 /\ (10 * k + 5) \div 10 > 0
      OBVIOUS
    <3> QED
      BY <2>2, <3>2, <3>3, <3>4 DEF NumShare, Atoi
  <2>6. CASE r.cmd = "gen"
    <3>1. tests' = <<>> /\ Len(<<>>) = 0 /\ sv'[p] \in {"fill", "wait"}
          /\ (sv'[p] = "wait" => setting.faults)
      BY <2>1, <2>6
    <3> QED
      BY <2>1, <2>4, <2>5, <2>6, <3>1
  <2>7. CASE r.cmd # "gen"
    BY <2>1, <2>4, <2>7
  <2> QED
    BY <2>6, <2>7
<1>4. CASE Fill(p)
  <2> DEFINE e == [by |-> p, n |-> NumShare(req[p].num), t |-> Threshold(req[p].num),
                   i |-> at[p] + 1]
  <2>1. /\ sv[p] = "fill" /\ tests' = Append(tests, e) /\ at'[p] = at[p] + 1
        /\ sv'[p] = IF at[p] + 1 = NumShare(req[p].num) THEN "wait" ELSE "fill"
        /\ toS' = toS /\ req' = req /\ at[p] < NumShare(req[p].num)
    BY <1>0, <1>4 DEF Fill, TypeOK
  <2>2. e \in Share /\ NumShare(req[p].num) \in Nat
    <3>1. req[p].num \in Nat
      BY <1>0 DEF TypeOK, Request
    <3>2. NumShare(req[p].num) \in Nat /\ Threshold(req[p].num) \in Nat
      BY <3>1 DEF NumShare, Threshold
    <3> QED
      BY <1>0, <3>2 DEF Share
  <2> HIDE DEF e
  <2>3. tests' # <<>> /\ Len(tests') = Len(tests) + 1
    BY <1>0, <2>1, <2>2, AppendTo
  <2>4. at[p] + 1 # NumShare(req[p].num) => at[p] + 1 < NumShare(req[p].num)
    BY <1>0, <2>1, <2>2
  <2> QED
    BY <2>1, <2>3, <2>4
<1>5. CASE \E a \in DOMAIN tests : Pick(p, a)
  <2>1. PICK a \in DOMAIN tests : Pick(p, a)
    BY <1>5
  <2>2. a \in 1..Len(tests)
    BY <1>0
  <2> QED
    BY <1>0, <2>1, <2>2 DEF Pick, TypeOK
<1>6. CASE TakeShare(p) \/ SendHead(p) \/ SendBody(p) \/ Crash(p) \/ Hangup(p) \/ NoResult(p)
  <2>1. /\ tests' = tests /\ at' = at /\ toS' = toS /\ req' = req
        /\ sv'[p] \in {"head", "body", "wait", "gone", sv[p]}
        /\ sv'[p] = "fill" => sv[p] = "fill"
        /\ sv[p] = "fill" => sv'[p] = "fill"
        /\ sv'[p] = "take" => sv[p] = "take"
    BY <1>0, <1>6 DEF TakeShare, SendHead, SendBody, Crash, Dies, Hangup, NoResult, TypeOK
  <2> QED
    BY <2>1
<1> QED
  BY <1>1, <1>2, <1>3, <1>4, <1>5, <1>6 DEF Serve

\* The server of one logger ends only where its key cannot be written.
LEMMA SurviveStep ==
  ASSUME TypeOK, ModeInv, setting' = setting, Alone, NEW p \in setting.loggers, Tests(p),
         ServerSurvives, Main(p) \/ Svc(p) \/ Serve(p) \/ Hangup(p) \/ NoResult(p)
  PROVE  ServerSurvives'
<1>1. CASE Crash(p)
  <2>1. ~Torn(p) /\ at[p] \in Nat /\ Len(tests) \in Nat
    BY NotTorn DEF TypeOK
  <2> QED
    BY <1>1, <2>1 DEF Crash, Dies, Tests, ServerSurvives
<1>3. CASE NoResult(p)
  BY <1>3 DEF NoResult, ServerSurvives
<1>2. CASE ~Crash(p) /\ ~NoResult(p)
  <2>1. up' = up
    BY <1>2 DEF Main, Connect, SendKey, SendFrame, StopFrames, Gen, Ask, RecvHead, RecvShare,
       Collect, NextRound, Svc, SvcEnds, SvcDispatch, SvcMisreads, SvcBody, Serve, Take, Fill,
       Pick, TakeShare, SendHead, SendBody, Hangup, serverVars
  <2> QED
    BY <2>1 DEF ServerSurvives
<1> QED
  BY <1>1, <1>2, <1>3

\* One logger collects what was made for it: from the request on, through
\* test_shares and the answer, to the set it counts.
LEMMA WholeStep ==
  ASSUME TypeOK, ModeInv, PhaseInv, setting' = setting, Alone, ~setting.thread,
         ~setting.dirty, NEW p \in setting.loggers, Tests(p), Whole(p),
         Main(p) \/ Svc(p) \/ Serve(p) \/ Hangup(p) \/ NoResult(p)
  PROVE  Whole(p)'
<1> DEFINE f == fromS[p]
           s == toS[p]
<1> SUFFICES ASSUME Collecting(p)' PROVE Whole(p)'
  BY DEF Whole
<1>0. /\ p \in Logger /\ ~Torn(p) /\ f \in Seq(Unit) /\ s \in Seq(Request) /\ Len(f) \in Nat
      /\ Len(s) \in Nat /\ tests \in Seq(Share) /\ Len(tests) \in Nat /\ at[p] \in Nat
      /\ Linked(p) /\ Counts(p) /\ Serving(p)
  BY NotTorn DEF TypeOK, ModeInv
<1>0a. net[p] # "freed" /\ svc[p] = "none"
  BY <1>0 DEF Linked
<1>0b. setting.mode = "evaluate" => Phase(p)
  BY DEF PhaseInv
<1>0c. Collecting(p) => Whole(p) /\ setting.mode = "evaluate" /\ Phase(p)
  BY <1>0, <1>0b DEF Counts, Evaluating
<1>0d. /\ n[p] \in Nat /\ t[p] \in Nat
       /\ Collecting(p) => t[p] < 10
  <2>1. n[p] \in Nat /\ t[p] \in Nat /\ setting.shares \in 3..10
    BY <1>0, RequestType
  <2> QED
    BY <1>0, <2>1 DEF Counts, Evaluating
<1> USE DEF Own, MainGoes, serverVars, svcVars, evalVars, ServerKeeps
<1>1. CASE Connect(p) \/ SendKey(p) \/ SendFrame(p) \/ StopFrames(p) \/ NextRound(p)
  <2>1. main'[p] \in {"gen", "key", "frame", "end", "killed"}
    BY <1>0, <1>1 DEF Connect, FirstTask, SendKey, SendFrame, StopFrames, NextRound, Sends, TypeOK
  <2> QED
    BY <2>1 DEF Collecting
<1>2. CASE Gen(p)
  <2> DEFINE q == [cmd |-> "gen", num |-> Digits(n[p], t[p])]
  <2>1. /\ Sends(p, q, "ask") /\ q \in Request /\ main[p] = "gen" /\ fromS' = fromS /\ sv' = sv
        /\ shares'[p] = {} /\ n' = n /\ t' = t /\ val' = val
    BY <1>0, <1>2, RequestType DEF Gen, TypeOK
  <2>2. q.cmd = "gen" /\ q.num = Digits(n[p], t[p])
    OBVIOUS
  <2> HIDE DEF q
  <2>3. /\ main'[p] \in {"ask", "killed"}
        /\ link'[p] = "up" => link[p] = "up" /\ toS'[p] = Append(s, q)
    BY <1>0, <1>0a, <2>1, SendsTo DEF Sends
  <2>4. f = <<>> /\ (link[p] = "up" => s = <<>> /\ sv[p] = "wait")
    BY <1>0, <1>0b, <2>1 DEF Phase, Served, Counts, Evaluating
  <2>5. link'[p] = "up" => toS'[p] = <<q>>
    BY <2>3, <2>4
  <2>6. Len(<<q>>) = 1 /\ <<q>>[1] = q /\ Head(<<q>>) = q /\ <<q>> # <<>> /\ Len(<<>>) = 0
    OBVIOUS
  <2> QED
    BY <2>1, <2>2, <2>3, <2>4, <2>5, <2>6 DEF Whole
<1>3. CASE Ask(p)
  <2> DEFINE q == [cmd |-> "ask", num |-> 0]
  <2>1. /\ Sends(p, q, "head") /\ q \in Request /\ main[p] = "ask" /\ fromS' = fromS /\ sv' = sv
        /\ shares' = shares /\ n' = n /\ t' = t /\ val' = val /\ tests' = tests /\ req' = req
    BY <1>0, <1>3, RequestType DEF Ask
  <2>2. q.cmd = "ask"
    OBVIOUS
  <2> HIDE DEF q
  <2>3. /\ main'[p] \in {"head", "killed"}
        /\ link'[p] = "up" => link[p] = "up" /\ toS'[p] = Append(s, q)
    BY <1>0, <1>0a, <2>1, SendsTo DEF Sends
  <2>4. Collecting(p)
    BY <2>1 DEF Collecting
  <2>5. /\ Len(Append(s, q)) = Len(s) + 1 /\ Append(s, q)[Len(s) + 1] = q
        /\ \A i \in 1..Len(s) : Append(s, q)[i] = s[i]
    BY <1>0, <2>1, AppendTo
  <2>6. \A i \in 1..(Len(s) + 1) : i \in 1..Len(s) \/ i = Len(s) + 1
    BY <1>0
  <2>7. s # <<>> => Head(Append(s, q)) = Head(s)
    BY <1>0, <2>1
  <2> QED
    BY <1>0c, <2>1, <2>2, <2>3, <2>4, <2>5, <2>6, <2>7, SMTT(30) DEF Whole
<1>4. CASE RecvHead(p)
  <2>1. /\ main[p] = "head" /\ link' = link /\ sv' = sv /\ toS' = toS /\ req' = req
        /\ val' = val /\ tests' = tests /\ shares' = shares /\ n' = n /\ t' = t
        /\ str'[p] = Empty
        /\ (f # <<>> /\ fromS'[p] = Tail(f)) \/ fromS'[p] = f
    BY <1>0, <1>4 DEF RecvHead, TypeOK
  <2>2. Collecting(p)
    BY <2>1 DEF Collecting
  <2>3. \A i \in 1..Len(fromS'[p]) : Own(p, fromS'[p][i].val)
    <3>1. CASE fromS'[p] = f
      BY <1>0c, <2>2, <3>1 DEF Whole
    <3>2. CASE f # <<>> /\ fromS'[p] = Tail(f)
      <4>1. /\ Len(Tail(f)) = Len(f) - 1
            /\ \A i \in 1..(Len(f) - 1) : Tail(f)[i] = f[i + 1] /\ i + 1 \in 1..Len(f)
        BY <1>0, <3>2, Fronts
      <4> QED
        BY <1>0c, <2>2, <3>2, <4>1 DEF Whole
    <3> QED
      BY <2>1, <3>1, <3>2
  <2> QED
    BY <1>0c, <2>1, <2>2, <2>3 DEF Whole
<1>5. CASE RecvShare(p)
  <2>1. /\ main[p] \in {"body", "junk"} /\ link' = link /\ sv' = sv /\ toS' = toS /\ req' = req
        /\ val' = val /\ tests' = tests /\ shares' = shares /\ n' = n /\ t' = t
    BY <1>5 DEF RecvShare
  <2>2. Collecting(p)
    BY <2>1 DEF Collecting
  <2>3. main[p] = "body" /\ Len(f) <= 1 /\ (Len(f) = 1 => f[1].kind = "body")
    BY <1>0c, <2>1, <2>2 DEF Phase
  <2>4. CASE f # <<>>
    <3>1. f[1] = Head(f) /\ Len(f) = 1 /\ Tail(f) = <<>> /\ 1 \in 1..Len(f)
      <4>1. \A k \in Nat : k <= 1 /\ k # 0 => k = 1 /\ 1 \in 1..k
        OBVIOUS
      <4>2. Len(f) # 0
        BY <1>0, <2>4, Short
      <4> QED
        BY <1>0, <2>3, <2>4, <4>1, <4>2, Short, TailOf
    <3>2. Own(p, f[1].val)
      BY <1>0c, <2>2, <3>1 DEF Whole
    <3>3. fromS'[p] = <<>> /\ str'[p] = f[1].val
      <4>1. Head(f).kind = "body"
        BY <2>3, <3>1
      <4>2. fromS' = [fromS EXCEPT ![p] = Tail(f)] /\ str' = [str EXCEPT ![p] = Head(f).val]
        BY <1>5, <2>3, <2>4, <4>1 DEF RecvShare
      <4> QED
        BY <1>0, <3>1, <4>2 DEF TypeOK
    <3> QED
      BY <1>0c, <2>1, <2>2, <3>2, <3>3 DEF Whole
  <2>5. CASE f = <<>>
    <3>1. fromS' = fromS /\ str' = str
      BY <1>5, <2>3, <2>5 DEF RecvShare
    <3>2. Own(p, str[p])
      BY <1>0c, <2>2, <2>3 DEF Whole
    <3> QED
      BY <1>0c, <2>1, <2>2, <3>1, <3>2 DEF Whole
  <2> QED
    BY <2>4, <2>5
<1>6. CASE Collect(p)
  <2>1. /\ main[p] = "collect" /\ main'[p] = "ask" /\ shares'[p] = shares[p] \cup {str[p]}
        /\ link' = link /\ sv' = sv /\ toS' = toS /\ req' = req /\ fromS' = fromS
        /\ val' = val /\ tests' = tests /\ n' = n /\ t' = t
    BY <1>0, <1>6 DEF Collect, TypeOK
  <2>2. Collecting(p)
    BY <2>1 DEF Collecting
  <2> QED
    BY <1>0c, <2>1, <2>2 DEF Whole
<1>7. CASE Svc(p)
  BY <1>0a, <1>7 DEF Svc, SvcEnds, SvcDispatch, SvcMisreads, SvcBody
<1>8. CASE Serve(p) \/ Hangup(p) \/ NoResult(p)
  <2>1. main' = main /\ shares' = shares /\ str' = str /\ n' = n /\ t' = t
    BY <1>8 DEF Serve, Take, Fill, Pick, TakeShare, SendHead, SendBody, Crash, Dies, Hangup, NoResult
  <2>2. Collecting(p) /\ Whole(p) /\ Phase(p)
    BY <1>0c, <2>1 DEF Collecting
  <2>3. CASE Take(p)
    <3> DEFINE r == s[1]
    <3>1. /\ sv[p] = "wait" /\ s # <<>> /\ toS'[p] = Tail(s) /\ fromS' = fromS
          /\ link' = link /\ r \in Request /\ r = Head(s)
          /\ tests' = (IF r.cmd = "gen" THEN <<>> ELSE tests)
          /\ sv'[p] = (CASE r.cmd = "gen" -> "fill" [] r.cmd = "ask" -> "pick"
                         [] OTHER -> "head")
             \/ (r.cmd = "gen" /\ sv'[p] = "wait")
      BY <1>0, <2>3, Fronts DEF Take, TypeOK
    <3>2. req'[p].num = r.num
      BY <1>0, <2>3, Fronts DEF Take, TypeOK, Request, Atoi
    <3>3. /\ Len(Tail(s)) = Len(s) - 1 /\ Len(s) >= 1 /\ 1 \in 1..Len(s)
          /\ \A i \in 1..(Len(s) - 1) : Tail(s)[i] = s[i + 1] /\ i + 1 \in 1..Len(s)
      BY <1>0, <3>1, Fronts
    <3>4. link[p] = "up" => r.cmd \in {"gen", "ask"}
      BY <1>0, <2>2, <3>1, <3>3 DEF Phase, Served, Asks, Gens, Collecting
    <3>5. CASE link[p] = "up"
      <4>1. \A i \in 1..Len(Tail(s)) :
              Tail(s)[i].cmd = "gen" => Tail(s)[i].num = Digits(n[p], t[p])
        BY <2>2, <3>3, <3>5 DEF Whole
      <4>2. r.cmd = "gen" => r.num = Digits(n[p], t[p])
        BY <2>2, <3>3, <3>5 DEF Whole
      <4>3. \A i \in 1..Len(tests') : Own(p, tests'[i])
        <5>1. CASE r.cmd = "gen"
          BY <3>1, <5>1
        <5>2. CASE r.cmd = "ask"
          BY <2>2, <3>1, <3>5, <5>2 DEF Whole
        <5> QED
          BY <3>4, <3>5, <5>1, <5>2
      <4>4. sv'[p] \in {"fill", "pick", "wait"} /\ (sv'[p] = "fill" => r.cmd = "gen")
        BY <3>1, <3>4, <3>5
      <4> QED
        BY <2>1, <2>2, <3>1, <3>2, <3>5, <4>1, <4>2, <4>3, <4>4 DEF Whole
    <3>6. CASE link[p] # "up"
      BY <2>1, <2>2, <3>1, <3>6 DEF Whole
    <3> QED
      BY <3>5, <3>6
  <2>4. CASE Fill(p)
    <3> DEFINE e == [by |-> p, n |-> NumShare(req[p].num), t |-> Threshold(req[p].num),
                     i |-> at[p] + 1]
    <3>1. /\ sv[p] = "fill" /\ tests' = Append(tests, e) /\ sv'[p] \in {"wait", "fill"}
          /\ toS' = toS /\ req' = req /\ fromS' = fromS /\ link' = link /\ val' = val
      BY <1>0, <2>4 DEF Fill, TypeOK
    <3>2. e \in Share
      <4>1. req[p].num \in Nat
        BY <1>0 DEF TypeOK, Request
      <4>2. NumShare(req[p].num) \in Nat /\ Threshold(req[p].num) \in Nat
        BY <4>1 DEF NumShare, Threshold
      <4> QED
        BY <1>0, <4>2 DEF Share
    <3>3. link[p] = "up" => Own(p, e)
      <4>1. link[p] = "up" => req[p].num = 10 * n[p] + t[p]
        BY <2>2, <3>1 DEF Whole, Digits
      <4>2. \A j \in Nat, k \in Nat : k < 10 =>
              (10 * j + k) \div 10 = j /\ (10 * j + k) % 10 = k
        OBVIOUS
      <4> QED
        BY <1>0d, <2>2, <4>1, <4>2 DEF NumShare, Threshold
    <3> HIDE DEF e
    <3>4. /\ Len(tests') = Len(tests) + 1 /\ tests'[Len(tests) + 1] = e
          /\ \A i \in 1..Len(tests) : tests'[i] = tests[i]
      BY <1>0, <3>1, <3>2, AppendTo
    <3>5. \A i \in 1..(Len(tests) + 1) : i \in 1..Len(tests) \/ i = Len(tests) + 1
      BY <1>0
    <3>6. link[p] = "up" /\ (s = <<>> \/ Head(s).cmd = "ask") =>
            \A i \in 1..Len(tests') : Own(p, tests'[i])
      BY <2>2, <3>3, <3>4, <3>5 DEF Whole
    <3> QED
      BY <2>1, <2>2, <3>1, <3>6 DEF Whole
  <2>5. CASE \E a \in DOMAIN tests : Pick(p, a)
    <3>1. /\ tests' = tests /\ req' = req /\ toS' = toS /\ fromS' = fromS /\ link' = link
          /\ val' = val /\ sv'[p] = "take"
      BY <1>0, <2>5 DEF Pick, TypeOK
    <3> QED
      BY <2>1, <2>2, <3>1 DEF Whole
  <2>6. CASE TakeShare(p)
    <3>1. /\ sv[p] = "take" /\ sv'[p] = "head" /\ tests' = tests /\ req' = req /\ toS' = toS
          /\ fromS' = fromS /\ link' = link
          /\ at[p] \in 1..Len(tests)
      BY <1>0, <2>6 DEF TakeShare, TypeOK, Tests
    <3>2. val'[p] = tests[at[p]]
      BY <1>0, <2>6, <3>1 DEF TakeShare, TypeOK
    <3>3. link[p] = "up" => s = <<>>
      BY <2>2, <3>1 DEF Phase, Served, Collecting
    <3>4. link[p] = "up" => Own(p, val'[p])
      BY <2>2, <3>1, <3>2, <3>3 DEF Whole
    <3> QED
      BY <2>1, <2>2, <3>1, <3>4 DEF Whole
  <2>7. CASE SendHead(p) \/ SendBody(p)
    <3> DEFINE u(k) == [kind |-> k, cmd |-> req[p].cmd, val |-> val[p]]
    <3>1. /\ sv[p] \in {"head", "body"} /\ sv'[p] \in {"wait", "body"} /\ tests' = tests
          /\ req' = req /\ toS' = toS /\ link' = link /\ val' = val
          /\ req[p].cmd # "gen"
      BY <1>0, <2>7 DEF SendHead, SendBody, TypeOK, Serving
    <3>2. CASE link[p] = "up"
      <4>1. \E k \in {"hdr", "body"} : fromS'[p] = Append(f, u(k))
        BY <1>0, <2>7, <3>1, <3>2, RepliesWith DEF SendHead, SendBody
      <4>2. PICK k \in {"hdr", "body"} : fromS'[p] = Append(f, u(k))
        BY <4>1
      <4>3. u(k) \in Unit /\ u(k).val = val[p]
        BY <1>0, <3>1 DEF Unit, TypeOK, Request
      <4> HIDE DEF u
      <4>4. /\ Len(fromS'[p]) = Len(f) + 1 /\ fromS'[p][Len(f) + 1] = u(k)
            /\ \A i \in 1..Len(f) : fromS'[p][i] = f[i]
        BY <1>0, <4>2, <4>3, AppendTo
      <4>5. \A i \in 1..(Len(f) + 1) : i \in 1..Len(f) \/ i = Len(f) + 1
        BY <1>0
      <4>6. \A i \in 1..Len(fromS'[p]) : Own(p, fromS'[p][i].val)
        <5>1. \A i \in 1..Len(f) : Own(p, f[i].val)
          BY <2>2 DEF Whole
        <5>2. Own(p, u(k).val)
          BY <2>2, <3>1, <3>2, <4>3 DEF Whole
        <5> QED
          BY <4>4, <4>5, <5>1, <5>2
      <4> QED
        BY <2>1, <2>2, <3>1, <3>2, <4>6 DEF Whole
    <3>3. CASE link[p] # "up"
      <4>1. fromS' = fromS
        BY <2>7, <3>3 DEF SendHead, SendBody, Reply
      <4> QED
        BY <2>1, <2>2, <3>1, <3>3, <4>1 DEF Whole
    <3> QED
      BY <3>2, <3>3
  <2>8. CASE Crash(p) \/ Hangup(p) \/ NoResult(p)
    <3>1. fromS' = fromS /\ link'[p] # "up"
      BY <1>0, <2>8 DEF Crash, Dies, Hangup, NoResult, TypeOK
    <3> QED
      BY <2>1, <2>2, <3>1 DEF Whole
  <2> QED
    BY <1>8, <2>3, <2>4, <2>5, <2>6, <2>7, <2>8 DEF Serve
<1> QED
  BY <1>1, <1>2, <1>3, <1>4, <1>5, <1>6, <1>7, <1>8 DEF Main

-----------------------------------------------------------------------------
\* The loggers start with nothing sent, nothing collected.
LEMMA InitIInv == Init => IInv
<1> SUFFICES ASSUME Init PROVE IInv
  OBVIOUS
<1> USE DEF Init
<1>0. setting \in Setting /\ setting.shares \in 3..10
  BY ClientAssumption DEF Setting
<1>1. TypeOK
  <2>1. tests \in Seq(Share)
    <3>1. tests \in [1..10 -> Share]
      BY Marks
    <3> QED
      BY <3>1
  <2>2. /\ \A p \in Logger : toS[p] \in Seq(Request) /\ fromS[p] \in Seq(Unit)
        /\ req \in [Logger -> Request] /\ val \in [Logger -> Share] /\ str \in [Logger -> Share]
    BY Marks DEF Request
  <2>3. n \in [Logger -> 3..(setting.shares + 1)] /\ t \in [Logger -> 2..setting.shares]
    BY <1>0
  <2>4. frames \in [Logger -> 0..MaxFrames]
    BY ClientAssumption
  <2> QED
    BY <2>1, <2>2, <2>3, <2>4 DEF TypeOK
<1>2. \A p \in Logger : Len(toS[p]) = 0 /\ Len(fromS[p]) = 0 /\ toS[p] = <<>> /\ fromS[p] = <<>>
  OBVIOUS
<1>3. ModeInv
  BY <1>2 DEF ModeInv, Counts, Linked, Serving, Evaluating, Collecting
<1>4. FramesInv
  BY <1>2 DEF FramesInv, Answered, Headed
<1>5. PhaseInv
  BY <1>0, <1>2 DEF PhaseInv, Phase, Setting
<1>6. TestsInv
  <2>1. tests # <<>>
    <3>1. Len(tests) = 10
      OBVIOUS
    <3> QED
      BY <3>1
  <2> QED
    BY <1>0, <1>2, <2>1 DEF TestsInv, Tests, Setting
<1>7. WholeInv /\ SurviveInv
  BY <1>0 DEF WholeInv, Whole, Collecting, SurviveInv, ServerSurvives, Setting
<1> QED
  BY <1>1, <1>3, <1>4, <1>5, <1>6, <1>7 DEF IInv

\* The parts about one logger, which nobody else disturbs.
LEMMA AloneStep ==
  ASSUME IInv, [Next]_vars
  PROVE  TestsInv' /\ WholeInv' /\ SurviveInv'
<1>0. setting' = setting /\ TypeOK /\ ModeInv /\ PhaseInv
  BY Steps DEF IInv
<1> SUFFICES ASSUME Alone
             PROVE  /\ \A p \in setting.loggers : Tests(p)'
                    /\ ~setting.thread /\ ~setting.dirty =>
                         \A p \in setting.loggers : Whole(p)'
                    /\ ServerSurvives'
  BY <1>0 DEF TestsInv, WholeInv, SurviveInv, Alone
<1>1. /\ \A p \in setting.loggers : Tests(p)
      /\ ~setting.thread /\ ~setting.dirty => \A p \in setting.loggers : Whole(p)
      /\ ServerSurvives
  BY DEF IInv, TestsInv, WholeInv, SurviveInv
<1>2. CASE UNCHANGED vars
  BY <1>1, <1>2 DEF vars, serverVars, svcVars, evalVars, Tests, Whole, Own, Collecting,
                    ServerSurvives
<1>3. ASSUME NEW p \in Logger, Main(p) \/ Svc(p) \/ Serve(p) \/ Hangup(p) \/ NoResult(p)
      PROVE  /\ \A q \in setting.loggers : Tests(q)'
             /\ ~setting.thread /\ ~setting.dirty => \A q \in setting.loggers : Whole(q)'
             /\ ServerSurvives'
  <2>1. p \in setting.loggers
    BY <1>0, <1>3, Idle
  <2>2. setting.loggers = {p}
    BY <1>0, <2>1, NotTorn
  <2> QED
    BY <1>0, <1>1, <1>3, <2>1, <2>2, TestsStep, WholeStep, SurviveStep
<1> QED
  BY <1>2, <1>3, Steps

\* The inductive invariant holds of every run, for any loggers, any bound of
\* frames and any settings.
THEOREM Invariance == Spec => []IInv
<1>1. IInv /\ [Next]_vars => IInv'
  BY TypeStep, ModeStep, FramesStep, PhaseInvStep, AloneStep DEF IInv
<1> QED
  BY <1>1, InitIInv, PTL DEF Spec

\* Every variable of the loggers and of the server keeps its type.
THEOREM TypeCorrect == Spec => []TypeOK
<1>1. IInv => TypeOK
  BY DEF IInv
<1> QED
  BY <1>1, Invariance, PTL

\* Answers are taken apart where they begin, however many loggers run: a body
\* is taken for a header only after recv_binary gave up in the reading thread,
\* and never where no such thread reads.
THEOREM Aligned == Spec => []AnswersAligned
<1>1. IInv => AnswersAligned
  <2> SUFFICES ASSUME IInv, NEW p \in setting.loggers
               PROVE  /\ setting.mode = "frames" /\ misread[p] => lost[p]
                      /\ ~setting.thread => main[p] # "junk"
    BY DEF AnswersAligned
  <2>1. p \in Logger /\ setting.mode \in {"frames", "evaluate"}
    BY SettingType DEF IInv, Setting
  <2>2. setting.mode = "frames" => Headed(p)
    BY <2>1 DEF IInv, FramesInv
  <2>3. ~setting.thread /\ setting.mode = "evaluate" => Phase(p)
    BY DEF IInv, PhaseInv
  <2>4. main[p] = "junk" => setting.mode = "evaluate"
    BY <2>1 DEF IInv, ModeInv, Counts, Evaluating, Collecting
  <2> QED
    BY <2>2, <2>3, <2>4 DEF Headed, Phase
<1> QED
  BY <1>1, Invariance, PTL

\* The server is not ended by an index of test_shares while one logger runs and
\* no fault of the server's own is in play.
THEOREM Survival == Spec => []SurvivesAlone
<1>1. IInv => SurvivesAlone
  BY DEF IInv, SurviveInv, ServerSurvives, SurvivesAlone
<1> QED
  BY <1>1, Invariance, PTL

\* What performance_evaluation counts was made for its number and threshold.
THEOREM OwnCounted == Spec => []OwnShares
<1>1. IInv => OwnShares
  BY DEF IInv, WholeInv, Whole, Own, OwnShares
<1> QED
  BY <1>1, Invariance, PTL

=============================================================================
