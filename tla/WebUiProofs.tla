------------------------------ MODULE WebUiProofs ------------------------------
(***************************************************************************)
(* The invariants of WebUi, for queues of any size, any number of rounds   *)
(* and every kind of UI.                                                   *)
(***************************************************************************)
EXTENDS WebUi, TLAPS

\* What the UI sent is what the Logger took, and then what is in the queue.
QueueInv ==
  /\ Len(asked) = taken + Len(cfgs) /\ Len(asked) <= MaxAsked
  /\ \A i \in 1..Len(cfgs) : cfgs[i] = asked[taken + i]
  /\ setting.types => /\ \A i \in 1..Len(asked) : asked[i].type = "cfg"
                      /\ \A i \in 1..Len(reqs) : reqs[i] = "req"

\* k is the last of the first m configurations that names a size.
Named(k, m) ==
  /\ k = 0 \/ asked[k].size \in Sizes
  /\ \A j \in (k + 1)..m : asked[j].size \notin Sizes

\* The settings of the camera follow from the configurations taken.
CameraInv ==
  setting.types =>
    /\ taken > 0 => fps = asked[taken].fps
    /\ \E k \in 0..taken : /\ Named(k, taken)
                           /\ size = IF k = 0 THEN "VGA" ELSE asked[k].size

Saving == pc \in File \cup {"respond"}

\* With a patient UI one request at a time is in a queue, being served, in an
\* answer, or having its files read, as long as the process lives; the files
\* are written in their order, those that are not are lost, and none is touched
\* between the answer and the end of the reading.
RequestInv ==
  setting.patient /\ setting.types /\ pc # "dead" =>
    /\ sentReqs = gotRes + res + Len(reqs) + (IF Saving THEN 1 ELSE 0)
    /\ sentReqs <= gotRes + 1
    /\ ui = "reading" => sentReqs = gotRes
Written(f) == f \notin lost => files[f] = served
FilesInv ==
  setting.patient /\ setting.types =>
    /\ Saving => served = round
    /\ pc \in {"yimage", "hash", "respond"} => Written("image")
    /\ pc \in {"hash", "respond"} => Written("yimage")
    /\ pc = "respond" => Written("hash")
    /\ res > 0 \/ ui = "reading" => \A f \in File : Written(f)
    /\ \A s \in seen : ui = "reading" /\ (s[1] \notin lost => s[2] = served)

IInv == TypeOK /\ QueueInv /\ CameraInv /\ AnsweredOnce /\ RequestInv /\ FilesInv

-----------------------------------------------------------------------------
\* The queues begin empty and the files unwritten.
LEMMA InitIInv == Init => IInv
<1> SUFFICES ASSUME Init PROVE IInv
  OBVIOUS
<1> USE WebUiAssumption DEF Init
<1>1. TypeOK
  BY DEF TypeOK, Sizes, File
<1>2. QueueInv
  BY DEF QueueInv
<1>3. CameraInv
  <2>1. Named(0, taken)
    BY DEF Named
  <2> QED
    BY <2>1 DEF CameraInv
<1>4. AnsweredOnce
  BY DEF AnsweredOnce
<1>5. RequestInv
  BY DEF RequestInv, Saving, File
<1>6. FilesInv
  BY DEF FilesInv, Saving, File
<1> QED
  BY <1>1, <1>2, <1>3, <1>4, <1>5, <1>6 DEF IInv

-----------------------------------------------------------------------------

\* A queue's tail holds what came after its head.
LEMMA TailOf ==
  ASSUME NEW S, NEW q \in Seq(S), q # <<>>
  PROVE  /\ Head(q) \in S /\ Head(q) = q[1] /\ Tail(q) \in Seq(S)
         /\ Len(q) \in Nat \ {0} /\ Len(Tail(q)) = Len(q) - 1
         /\ \A i \in 1..Len(Tail(q)) : Tail(q)[i] = q[i + 1]
OBVIOUS

-----------------------------------------------------------------------------
\* The steps of the program and of the UI, one by one.
LEMMA Steps ==
  ASSUME [Next]_vars
  PROVE  /\ setting' = setting
         /\ \/ NoConfig \/ TakeConfig \/ AnswerConfig \/ Capture \/ NoRequest
            \/ TakeRequest \/ SaveBegins \/ SaveEnds \/ NotSaved \/ Throws \/ Astray
            \/ Respond \/ NextRound
            \/ SendConfig \/ ReadConfigAnswer \/ Ask \/ ReadResponse \/ ReadFile
            \/ Shown \/ UNCHANGED vars
BY DEF Next, LoggerStep, Save, UiStep, Reads, vars

\* Every step keeps the types.
LEMMA TypeStep == TypeOK /\ QueueInv /\ [Next]_vars => TypeOK'
<1> SUFFICES ASSUME TypeOK, QueueInv, [Next]_vars PROVE TypeOK'
  OBVIOUS
<1> USE WebUiAssumption DEF TypeOK, Logger, saved
<1>1. CASE NoConfig
  BY <1>1, Steps DEF NoConfig, uiVars
<1>2. CASE TakeConfig
  <2>1. /\ Head(cfgs) \in Config /\ Tail(cfgs) \in Seq(Config)
        /\ Len(cfgs) \in Nat \ {0}
        /\ Head(cfgs).type = "cfg" => Head(cfgs).fps \in Fps
    <3>1. cfgs \in Seq(Config) /\ cfgs # <<>>
      BY <1>2 DEF TakeConfig
    <3>2. /\ Head(cfgs) \in Config /\ Tail(cfgs) \in Seq(Config)
          /\ Len(cfgs) \in Nat \ {0}
      BY <3>1, TailOf
    <3>3. \A m \in Config : m.type = "cfg" => m.fps \in Fps
      BY DEF Config
    <3> QED
      BY <3>2, <3>3
  <2>2. taken + 1 \in 0..MaxAsked
    <3>1. taken \in Nat /\ taken + 1 <= Len(asked) /\ Len(asked) <= MaxAsked
      BY <2>1 DEF QueueInv
    <3> QED
      BY <3>1
  <2>3. fps' \in Fps /\ size' \in Sizes
    BY <1>2, <2>1 DEF TakeConfig
  <2> QED
    BY <1>2, <2>1, <2>2, <2>3, Steps DEF TakeConfig, uiVars
<1>3. CASE AnswerConfig
  BY <1>3, Steps DEF AnswerConfig, uiVars
<1>4. CASE Capture
  BY <1>4, Steps DEF Capture, uiVars
<1>5. CASE NoRequest
  BY <1>5, Steps DEF NoRequest, uiVars
<1>6. CASE TakeRequest
  <2>1. Tail(reqs) \in Seq({"req", "other"})
    BY <1>6, TailOf DEF TakeRequest
  <2>2. pc' \in {"image", "next"} /\ served' \in {round, served} /\ lost' \in {{}, lost}
    BY <1>6 DEF TakeRequest
  <2>3. served' \in 0..MaxRounds /\ lost' \subseteq File
    BY <2>2
  <2> QED
    BY <1>6, <2>1, <2>2, <2>3, Steps DEF TakeRequest, uiVars, File
<1>7. CASE SaveBegins
  BY <1>7, Steps DEF SaveBegins, uiVars
<1>8. CASE SaveEnds
  <2>1. pc' \in {"yimage", "hash", "respond"}
    BY <1>8 DEF SaveEnds, Writes, File
  <2>2. files' \in [File -> 0..MaxRounds]
    BY <1>8 DEF SaveEnds
  <2> QED
    BY <1>8, <2>1, <2>2, Steps DEF SaveEnds, uiVars, File
<1>9. CASE NotSaved \/ Throws
  <2>1. pc' \in {"yimage", "hash", "respond", "dead"}
    BY <1>9 DEF NotSaved, Throws, Writes, File
  <2> QED
    BY <1>9, <2>1, Steps DEF NotSaved, Throws, uiVars, File
<1>10. CASE Astray
  <2>1. pc' \in {"yimage", "hash", "respond"}
    BY <1>10 DEF Astray, Writes, File
  <2>2. PICK over \in SUBSET File :
          /\ files' = [f \in File |-> IF f \in over THEN 0 ELSE files[f]]
          /\ lost' = lost \cup over \cup {pc}
    BY <1>10 DEF Astray
  <2>3. files' \in [File -> 0..MaxRounds] /\ lost' \subseteq File
    BY <1>10, <2>2 DEF Astray, File
  <2> QED
    BY <1>10, <2>1, <2>3, Steps DEF Astray, uiVars, File
<1>11. CASE Respond
  BY <1>11, Steps DEF Respond, uiVars
<1>12. CASE NextRound
  BY <1>12, Steps DEF NextRound, uiVars
<1>13. CASE SendConfig \/ ReadConfigAnswer
  <2>1. CASE SendConfig
    BY <2>1, Steps DEF SendConfig, uiVars
  <2>2. CASE ReadConfigAnswer
    BY <2>2, Steps DEF ReadConfigAnswer, uiVars
  <2> QED
    BY <1>13, <2>1, <2>2
<1>14. CASE Ask
  BY <1>14, Steps DEF Ask, uiVars
<1>15. CASE ReadResponse
  BY <1>15, Steps DEF ReadResponse, uiVars
<1>16. CASE ReadFile \/ Shown
  BY <1>16, Steps DEF ReadFile, Shown, uiVars
<1>17. CASE UNCHANGED vars
  BY <1>17 DEF vars, uiVars
<1> QED
  BY <1>1, <1>2, <1>3, <1>4, <1>5, <1>6, <1>7, <1>8, <1>9, <1>10, <1>11, <1>12, <1>13, <1>14, <1>15, <1>16, <1>17, Steps

\* The queues keep what was sent, in its order.
LEMMA QueueStep == TypeOK /\ QueueInv /\ [Next]_vars => QueueInv'
<1> SUFFICES ASSUME TypeOK, QueueInv, [Next]_vars PROVE QueueInv'
  OBVIOUS
<1>1. CASE TakeConfig
  <2>1. /\ Len(Tail(cfgs)) = Len(cfgs) - 1 /\ Len(cfgs) \in Nat \ {0}
        /\ \A i \in 1..Len(Tail(cfgs)) : Tail(cfgs)[i] = cfgs[i + 1]
    BY <1>1, TailOf DEF TakeConfig, TypeOK
  <2>2. /\ cfgs' = Tail(cfgs) /\ taken' = taken + 1
        /\ UNCHANGED <<asked, reqs, setting>>
    BY <1>1, Steps DEF TakeConfig, uiVars
  <2>3. taken \in Nat
    BY WebUiAssumption DEF TypeOK
  <2>4. Len(asked') = taken' + Len(cfgs')
    BY <2>1, <2>2, <2>3 DEF QueueInv
  <2>5. ASSUME NEW i \in 1..Len(cfgs') PROVE cfgs'[i] = asked'[taken' + i]
    <3>1. cfgs'[i] = cfgs[i + 1] /\ i + 1 \in 1..Len(cfgs)
      BY <2>1, <2>2
    <3>2. taken' + i = taken + (i + 1)
      BY <2>2, <2>3
    <3> QED
      BY <2>2, <3>1, <3>2 DEF QueueInv
  <2> QED
    BY <2>2, <2>4, <2>5 DEF QueueInv
<1>2. CASE TakeRequest
  <2>1. /\ Len(Tail(reqs)) = Len(reqs) - 1
        /\ \A i \in 1..Len(Tail(reqs)) : Tail(reqs)[i] = reqs[i + 1]
    BY <1>2, TailOf DEF TakeRequest, TypeOK
  <2>2. Len(reqs) \in Nat
    BY DEF TypeOK
  <2> QED
    BY <1>2, <2>1, <2>2, Steps DEF QueueInv, TakeRequest, uiVars
<1>3. CASE SendConfig
  <2>1. PICK m \in Config : /\ setting.types => m.type = "cfg"
                            /\ cfgs' = Append(cfgs, m) /\ asked' = Append(asked, m)
    BY <1>3 DEF SendConfig
  <2>2. /\ Len(cfgs) \in Nat /\ Len(asked) \in Nat /\ taken \in Nat
        /\ Len(cfgs') = Len(cfgs) + 1 /\ Len(asked') = Len(asked) + 1
        /\ \A i \in 1..Len(cfgs) : cfgs'[i] = cfgs[i]
        /\ \A i \in 1..Len(asked) : asked'[i] = asked[i]
        /\ cfgs'[Len(cfgs) + 1] = m /\ asked'[Len(asked) + 1] = m
    BY <2>1, WebUiAssumption DEF TypeOK
  <2>3. UNCHANGED <<taken, reqs, setting>> /\ Len(asked) < MaxAsked
    BY <1>3, Steps DEF SendConfig, Logger
  <2>4. ASSUME NEW i \in 1..Len(cfgs') PROVE cfgs'[i] = asked'[taken' + i]
    <3>1. CASE i = Len(cfgs) + 1
      BY <2>2, <2>3, <3>1 DEF QueueInv
    <3>2. CASE i # Len(cfgs) + 1
      <4>1. i \in 1..Len(cfgs) /\ taken + i \in 1..Len(asked)
        BY <2>2, <3>2 DEF QueueInv
      <4> QED
        BY <2>2, <2>3, <4>1 DEF QueueInv
    <3> QED
      BY <3>1, <3>2
  <2>5. setting.types => \A i \in 1..Len(asked') : asked'[i].type = "cfg"
    BY <2>1, <2>2 DEF QueueInv
  <2>6. Len(asked') = taken' + Len(cfgs') /\ Len(asked') <= MaxAsked
    BY <2>2, <2>3, WebUiAssumption DEF QueueInv
  <2> QED
    BY <2>3, <2>4, <2>5, <2>6 DEF QueueInv
<1>4. CASE Ask
  <2>1. PICK type \in {"req", "other"} : /\ setting.types => type = "req"
                                         /\ reqs' = Append(reqs, type)
    BY <1>4 DEF Ask
  <2>2. /\ Len(reqs) \in Nat /\ Len(reqs') = Len(reqs) + 1
        /\ \A i \in 1..Len(reqs) : reqs'[i] = reqs[i]
        /\ reqs'[Len(reqs) + 1] = type
    BY <2>1 DEF TypeOK
  <2> QED
    BY <1>4, <2>1, <2>2, Steps DEF QueueInv, Ask, Logger
<1>5. CASE UNCHANGED <<cfgs, asked, reqs, taken>>
  BY <1>5, Steps DEF QueueInv
<1> QED
  BY <1>1, <1>2, <1>3, <1>4, <1>5, Steps
  DEF NoConfig, AnswerConfig, Capture, NoRequest, SaveBegins, SaveEnds, NotSaved,
      Throws, Astray, Respond, NextRound, ReadConfigAnswer, ReadResponse, ReadFile, Shown, Logger, uiVars, vars

-----------------------------------------------------------------------------
\* Only taking a configuration changes the settings, and to what it says.
LEMMA CameraStep ==
  TypeOK /\ QueueInv /\ CameraInv /\ [Next]_vars => CameraInv'
<1> SUFFICES ASSUME TypeOK, QueueInv, CameraInv, [Next]_vars, setting.types
             PROVE  CameraInv'
  BY Steps DEF CameraInv
<1>1. CASE TakeConfig
  <2>1. /\ Head(cfgs) = asked[taken + 1] /\ taken + 1 \in 1..Len(asked)
        /\ taken \in Nat
    <3>1. cfgs \in Seq(Config) /\ cfgs # <<>> /\ Len(asked) \in Nat /\ taken \in Nat
      BY <1>1, WebUiAssumption DEF TakeConfig, TypeOK
    <3>2. Head(cfgs) = cfgs[1] /\ Len(cfgs) \in Nat \ {0}
      BY <3>1
    <3>3. 1 \in 1..Len(cfgs) /\ taken + 1 \in 1..Len(asked)
      BY <3>1, <3>2 DEF QueueInv
    <3> QED
      BY <3>1, <3>2, <3>3 DEF QueueInv
  <2> DEFINE m == asked[taken + 1]
  <2>2. m.type = "cfg"
    BY <2>1 DEF QueueInv
  <2>3. /\ taken' = taken + 1 /\ asked' = asked /\ fps' = m.fps
        /\ size' = IF m.size \in Sizes THEN m.size ELSE size
    BY <1>1, <2>1, <2>2 DEF TakeConfig, uiVars
  <2>4. \E k \in 0..taken' : /\ Named(k, taken)'
                             /\ size' = IF k = 0 THEN "VGA" ELSE asked'[k].size
    <3>1. CASE m.size \in Sizes
      <4>1. Named(taken + 1, taken + 1)
        BY <2>1, <3>1 DEF Named
      <4> QED
        BY <2>1, <2>3, <3>1, <4>1 DEF Named
    <3>2. CASE m.size \notin Sizes
      <4>1. PICK k \in 0..taken : /\ Named(k, taken)
                                  /\ size = IF k = 0 THEN "VGA" ELSE asked[k].size
        BY DEF CameraInv
      <4>2. Named(k, taken + 1)
        BY <2>1, <3>2, <4>1 DEF Named
      <4> QED
        BY <2>1, <2>3, <3>2, <4>1, <4>2 DEF Named
    <3> QED
      BY <3>1, <3>2
  <2>5. taken' > 0 => fps' = asked'[taken'].fps
    BY <2>3
  <2> QED
    BY <2>4, <2>5 DEF CameraInv
<1>2. CASE SendConfig
  <2>1. /\ UNCHANGED <<taken, size, fps>> /\ taken \in Nat
        /\ taken <= Len(asked)
    BY <1>2, WebUiAssumption DEF SendConfig, Logger, TypeOK, QueueInv
  <2>2. \A i \in 1..taken : asked'[i] = asked[i]
    BY <1>2, <2>1 DEF SendConfig, TypeOK
  <2>3. PICK k \in 0..taken : /\ Named(k, taken)
                              /\ size = IF k = 0 THEN "VGA" ELSE asked[k].size
    BY DEF CameraInv
  <2>4. Named(k, taken)'
    BY <2>1, <2>2, <2>3 DEF Named
  <2> QED
    BY <2>1, <2>2, <2>3, <2>4 DEF CameraInv
<1>3. CASE UNCHANGED <<asked, taken, size, fps>>
  BY <1>3 DEF CameraInv, Named
<1> QED
  BY <1>1, <1>2, <1>3, Steps
  DEF NoConfig, AnswerConfig, Capture, NoRequest, TakeRequest, SaveBegins, SaveEnds,
      NotSaved, Throws, Astray, Respond, NextRound, ReadConfigAnswer, Ask, ReadResponse, ReadFile, Shown, Logger,
      uiVars, vars

-----------------------------------------------------------------------------
\* A configuration is answered by one step, and its answer read by one.
LEMMA AnswerStep ==
  TypeOK /\ AnsweredOnce /\ [Next]_vars => AnsweredOnce'
<1> SUFFICES ASSUME TypeOK, AnsweredOnce, [Next]_vars PROVE AnsweredOnce'
  OBVIOUS
<1>1. gotCfg \in Nat /\ cfgRes \in Nat /\ taken \in Nat
  BY WebUiAssumption DEF TypeOK
<1>2. CASE TakeConfig \/ AnswerConfig \/ ReadConfigAnswer
  BY <1>1, <1>2 DEF AnsweredOnce, TakeConfig, AnswerConfig, ReadConfigAnswer, uiVars, Logger
<1>3. CASE SaveEnds \/ NotSaved \/ Throws \/ Astray
  BY <1>3 DEF AnsweredOnce, SaveEnds, NotSaved, Throws, Astray, Writes, File, uiVars
<1>4. CASE UNCHANGED <<gotCfg, cfgRes, taken>> /\ (pc = "answer" <=> pc' = "answer")
  BY <1>4 DEF AnsweredOnce
<1> QED
  BY <1>2, <1>3, <1>4, Steps
  DEF NoConfig, Capture, NoRequest, TakeRequest, SaveBegins, Respond, NextRound,
      SendConfig, Ask, ReadResponse, ReadFile, Shown, Logger, File, uiVars, vars

-----------------------------------------------------------------------------
\* A request is in one place at a time.
LEMMA RequestStep ==
  TypeOK /\ QueueInv /\ RequestInv /\ [Next]_vars => RequestInv'
<1> SUFFICES ASSUME TypeOK, QueueInv, RequestInv, [Next]_vars,
                    setting.patient, setting.types
             PROVE  RequestInv'
  BY Steps DEF RequestInv
<1>1. /\ gotRes \in Nat /\ res \in Nat /\ sentReqs \in Nat /\ Len(reqs) \in Nat
      /\ UNCHANGED setting
  BY WebUiAssumption, Steps DEF TypeOK
<1>2. CASE TakeRequest
  <2>1. /\ Head(reqs) = "req" /\ Len(Tail(reqs)) = Len(reqs) - 1
        /\ Len(Tail(reqs)) \in Nat
    BY <1>2, TailOf DEF TakeRequest, TypeOK, QueueInv
  <2> QED
    BY <1>1, <1>2, <2>1 DEF TakeRequest, RequestInv, Saving, File, uiVars
<1>3. CASE SaveEnds \/ NotSaved \/ Astray
  <2>1. pc' \in {"yimage", "hash", "respond"} /\ pc \in File
    BY <1>3 DEF SaveEnds, NotSaved, Astray, Writes, File
  <2>2. UNCHANGED <<reqs, res, uiVars>>
    BY <1>3 DEF SaveEnds, NotSaved, Astray
  <2> QED
    BY <1>1, <2>1, <2>2 DEF RequestInv, Saving, File, uiVars
<1>4. CASE Respond
  BY <1>1, <1>4 DEF Respond, RequestInv, Saving, File, uiVars
<1>5. CASE Ask
  <2>1. Len(reqs') = Len(reqs) + 1
    BY <1>5 DEF Ask, TypeOK
  <2> QED
    BY <1>1, <1>5, <2>1 DEF Ask, RequestInv, Saving, Logger
<1>6. CASE ReadResponse
  BY <1>1, <1>6 DEF ReadResponse, RequestInv, Saving, File, Logger
<1>7. CASE Shown
  BY <1>1, <1>7 DEF Shown, RequestInv, Saving, Logger
<1>8. CASE /\ UNCHANGED <<sentReqs, gotRes, res, reqs, ui>> /\ (Saving <=> Saving')
            /\ pc # "dead"
  BY <1>1, <1>8 DEF RequestInv
<1>9. CASE pc' = "dead"
  BY <1>9 DEF RequestInv
<1> QED
  BY <1>2, <1>3, <1>4, <1>5, <1>6, <1>7, <1>8, <1>9, Steps
  DEF NoConfig, TakeConfig, AnswerConfig, Capture, NoRequest, SaveBegins, Throws, NextRound,
      SendConfig, ReadConfigAnswer, ReadFile, Saving, File, Logger, uiVars, vars

\* The files are written in their order, and only while no answer is under
\* way and the UI reads nothing.
LEMMA FilesStep ==
  TypeOK /\ QueueInv /\ RequestInv /\ FilesInv /\ [Next]_vars => FilesInv'
<1> SUFFICES ASSUME TypeOK, QueueInv, RequestInv, FilesInv, [Next]_vars,
                    setting.patient, setting.types
             PROVE  FilesInv'
  BY Steps DEF FilesInv
<1>1. /\ gotRes \in Nat /\ res \in Nat /\ sentReqs \in Nat /\ Len(reqs) \in Nat
      /\ UNCHANGED setting /\ round \in Nat \ {0}
  BY WebUiAssumption, Steps DEF TypeOK
<1>2. Saving \/ (pc = "request" /\ Len(reqs) # 0) => res = 0 /\ ui = "idle" /\ seen = {}
  BY <1>1 DEF RequestInv, FilesInv, TypeOK, Saving, File
<1>3. CASE SaveBegins
  <2>1. /\ pc \in File /\ files' = [files EXCEPT ![pc] = 0]
        /\ UNCHANGED <<pc, res, round, served, lost, ui, seen>>
    BY <1>3 DEF SaveBegins, uiVars
  <2>2. \A f \in File \ {pc} : Written(f) => Written(f)'
    BY <2>1 DEF Written, TypeOK
  <2>3. res = 0 /\ ui = "idle" /\ seen = {}
    BY <1>2, <2>1 DEF Saving
  <2> QED
    BY <1>1, <2>1, <2>2, <2>3 DEF FilesInv, Saving, File
<1>4. CASE SaveEnds \/ NotSaved \/ Astray
  <2>1. /\ pc \in File /\ pc' = Writes[pc]
        /\ UNCHANGED <<res, served, ui, seen>>
    BY <1>4 DEF SaveEnds, NotSaved, Astray, uiVars, File
  <2>2. served = round
    BY <2>1 DEF FilesInv, Saving
  <2>3. /\ files' \in [File -> Int] /\ lost \subseteq File
        /\ pc \in lost' \/ (files'[pc] = round /\ pc \notin lost')
        /\ \A f \in File \ {pc} : f \in lost' \/ (files'[f] = files[f] /\ f \notin lost)
    <3>1. CASE SaveEnds
      BY <3>1 DEF SaveEnds, TypeOK
    <3>2. CASE NotSaved
      BY <3>2 DEF NotSaved, TypeOK
    <3>3. CASE Astray
      <4>1. PICK over \in SUBSET File :
              /\ files' = [f \in File |-> IF f \in over THEN 0 ELSE files[f]]
              /\ lost' = lost \cup over \cup {pc}
        BY <3>3 DEF Astray
      <4> QED
        BY <4>1 DEF TypeOK
    <3> QED
      BY <1>4, <3>1, <3>2, <3>3
  <2>4. \A f \in File : (Written(f) \/ f = pc) => Written(f)'
    BY <2>1, <2>2, <2>3 DEF Written
  <2>5. res = 0 /\ ui = "idle" /\ seen = {} /\ round' = round
    BY <1>2, <1>4, <2>1 DEF Saving, SaveEnds, NotSaved, Astray
  <2>6. CASE pc = "image"
    BY <1>1, <2>1, <2>2, <2>4, <2>5, <2>6 DEF FilesInv, Saving, Writes, File
  <2>7. CASE pc = "yimage"
    BY <1>1, <2>1, <2>2, <2>4, <2>5, <2>7 DEF FilesInv, Saving, Writes, File
  <2>8. CASE pc = "hash"
    BY <1>1, <2>1, <2>2, <2>4, <2>5, <2>8 DEF FilesInv, Saving, Writes, File
  <2> QED
    BY <2>1, <2>6, <2>7, <2>8 DEF File
<1>5. CASE Respond
  BY <1>1, <1>2, <1>5 DEF Respond, FilesInv, Written, saved, Saving, File, uiVars
<1>6. CASE NextRound
  BY <1>1, <1>6 DEF NextRound, FilesInv, Written, saved, Saving, File, uiVars
<1>7. CASE TakeRequest
  <2>1. Head(reqs) = "req"
    <3>1. reqs \in Seq({"req", "other"}) /\ reqs # <<>>
      BY <1>7 DEF TakeRequest, TypeOK
    <3>2. Head(reqs) = reqs[1] /\ 1 \in 1..Len(reqs)
      BY <3>1
    <3> QED
      BY <3>2 DEF QueueInv
  <2> QED
    BY <1>1, <1>2, <1>7, <2>1 DEF TakeRequest, FilesInv, Saving, File, TypeOK, uiVars
<1>8. CASE ReadResponse
  BY <1>1, <1>8 DEF ReadResponse, FilesInv, Written, saved, Saving, File, Logger
<1>9. CASE ReadFile
  BY <1>1, <1>9 DEF ReadFile, FilesInv, Written, saved, Saving, File, Logger
<1>10. CASE Shown
  BY <1>1, <1>10 DEF Shown, FilesInv, Written, saved, Saving, File, Logger
<1>11. CASE /\ UNCHANGED <<saved, round, res, ui, seen>>
            /\ pc = pc' \/ pc' \notin File \cup {"respond"}
  BY <1>1, <1>11 DEF FilesInv, Written, saved, Saving, File
<1> QED
  BY <1>3, <1>4, <1>5, <1>6, <1>7, <1>8, <1>9, <1>10, <1>11, Steps
  DEF NoConfig, TakeConfig, AnswerConfig, Capture, NoRequest, SendConfig,
      ReadConfigAnswer, Ask, Throws, File, Logger, uiVars, vars

-----------------------------------------------------------------------------
\* The invariant of the queues: Init establishes it and every step keeps it.
THEOREM Invariance == Spec => []IInv
<1>1. Init => IInv
  BY InitIInv
<1>2. IInv /\ [Next]_vars => IInv'
  BY TypeStep, QueueStep, CameraStep, AnswerStep, RequestStep, FilesStep DEF IInv
<1> QED
  BY <1>1, <1>2, PTL DEF Spec

\* Every variable keeps its type, for queues of any size.
THEOREM TypeCorrect == Spec => []TypeOK
BY Invariance, PTL DEF IInv

\* The answers sent are as many as the configurations taken, but for the one
\* camera_cfg_res_send is about to answer.
THEOREM EachAnswered == Spec => []AnsweredOnce
BY Invariance, PTL DEF IInv

\* Two configurations that are both the last to name a size are the same one.
LEMMA OneLastNamed ==
  ASSUME NEW m \in Nat, NEW k \in 0..m, NEW l \in 0..m, Named(k, m), Named(l, m)
  PROVE  k = l
<1>1. ASSUME NEW i \in 0..m, NEW j \in 0..m, Named(i, m), Named(j, m), i < j
      PROVE  FALSE
  BY <1>1 DEF Named
<1> QED
  BY <1>1

\* camera_cfg_recv leaves the camera as the configurations it took say.
THEOREM CameraAsAsked == Spec => []SetAsAsked
<1>1. IInv => SetAsAsked
  <2> SUFFICES ASSUME IInv, setting.types, taken > 0 PROVE SetAsAsked
    BY DEF SetAsAsked
  <2>1. taken \in Nat
    BY WebUiAssumption DEF IInv, TypeOK
  <2>2. PICK k \in 0..taken : /\ Named(k, taken)
                              /\ size = IF k = 0 THEN "VGA" ELSE asked[k].size
    BY DEF IInv, CameraInv
  <2>3. LastNamed(taken) \in 0..taken /\ Named(LastNamed(taken), taken)
    BY <2>2 DEF LastNamed, Named
  <2>4. LastNamed(taken) = k
    BY <2>1, <2>2, <2>3, OneLastNamed
  <2> QED
    BY <2>2, <2>4 DEF SetAsAsked, IInv, CameraInv
<1> QED
  BY <1>1, Invariance, PTL

\* A patient UI reads, of the round that served its request, each of the three
\* files that could be written: Image_Hash_response comes after the last.
THEOREM OneRound == Spec => []FilesOfOneRound
<1>1. IInv => FilesOfOneRound
  BY DEF IInv, FilesInv, FilesOfOneRound
<1> QED
  BY <1>1, Invariance, PTL

=============================================================================
