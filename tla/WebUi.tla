-------------------------------- MODULE WebUi --------------------------------
(***************************************************************************)
(* The System V queues between the main loop of the Logger and the web UI, *)
(* msg_queue.cpp: init() takes a camera configuration if there is one and  *)
(* answers it; send_image_hash_to_UI takes a request if there is one,      *)
(* saves an image, its Y frame and the hash to files and answers, whatever *)
(* became of the files.  Both receive without waiting and send waiting.    *)
(* The UI, which is not in the repository, is any program that uses the    *)
(* queues as their types say.                                              *)
(***************************************************************************)
EXTENDS Integers, Sequences

CONSTANTS
  Room,       \* bound: messages a queue holds (msg_qbytes)
  MaxRounds,  \* bound: rounds of the main loop
  MaxAsked,   \* bound: messages the UI sends to each queue
  Fps,        \* the frame rates there are
  Settings    \* how main is built and what the UI does: see setting

Setting == [hashes  : BOOLEAN,   \* main calls send_image_hash_to_UI
            yuv     : BOOLEAN,   \* YUV_switch
            paths   : BOOLEAN,   \* the three paths name an image each and a text
            reads   : BOOLEAN,   \* the UI reads its answers
            patient : BOOLEAN,   \* it asks again only after the answer was used
            types   : BOOLEAN]   \* all messages have the type of their queue

Sizes == {"VGA", "HD", "CIF"}
\* a configuration, or a message of another type
Config == [type : {"cfg"}, size : Sizes \cup {"unknown"}, fps : Fps]
            \cup [type : {"other"}]

ASSUME WebUiAssumption ==
  /\ Room \in Nat \ {0} /\ MaxRounds \in Nat \ {0} /\ MaxAsked \in Nat
  /\ Fps # {} /\ Settings \subseteq Setting

VARIABLES
  setting,
  cfgs,     \* CAMERA_CFG_MQ
  cfgRes,   \* answers in CAMERA_CFG_RES_MQ
  reqs,     \* IMAGE_HASH_REQ_MQ: the types of the requests
  res,      \* answers in IMAGE_HASH_RES_MQ
  pc,       \* the Logger: "recv", "answer", "capture", "request", "image",
            \* "yimage", "hash", "respond", "next", "end", or "dead"
  size, fps,\* width and height, fps
  round,
  files,    \* the round each file is of, 0 where it is none's or not whole
  served,   \* history: the round of the last request served
  lost,     \* history: the files that request left without what is its own
  asked,    \* configurations the UI sent, in order
  taken,    \* those the Logger received
  sentReqs, \* requests the UI sent
  gotCfg, gotRes, \* answers it received
  ui,       \* "idle", or "reading" the files
  seen      \* the files it has read, while it reads

saved == <<files, served, lost>>
uiVars == <<asked, sentReqs, gotCfg, gotRes, ui, seen>>
vars == <<setting, cfgs, cfgRes, reqs, res, pc, size, fps, round, saved, taken, uiVars>>

File == {"image", "yimage", "hash"}

Init ==
  /\ setting \in Settings
  /\ cfgs = <<>> /\ cfgRes = 0 /\ reqs = <<>> /\ res = 0
  /\ pc = "recv" /\ size = "VGA" /\ fps \in Fps
  /\ round = 1 /\ files = [f \in File |-> 0] /\ served = 0 /\ lost = {}
  /\ asked = <<>> /\ taken = 0
  /\ sentReqs = 0 /\ gotCfg = 0 /\ gotRes = 0
  /\ ui = "idle" /\ seen = {}

-----------------------------------------------------------------------------
(* The Logger.                                                             *)

\* camera_cfg_recv: nothing there, and the settings stay
NoConfig ==
  /\ pc = "recv" /\ cfgs = <<>>
  /\ pc' = "capture"
  /\ UNCHANGED <<cfgs, cfgRes, reqs, res, size, fps, round, saved, taken, uiVars>>

\* Faulty variant: the size is set and the frame rate forgotten.
TakeConfigSize ==
  /\ pc = "recv" /\ cfgs # <<>>
  /\ cfgs' = Tail(cfgs) /\ taken' = taken + 1
  /\ LET m == Head(cfgs) IN
     size' = IF m.type = "cfg" /\ m.size \in Sizes THEN m.size ELSE size
  /\ pc' = "answer"
  /\ UNCHANGED <<cfgRes, reqs, res, fps, round, saved, uiVars>>

\* Faulty variant: what is no configuration is not answered.
TakeConfigSilent ==
  /\ pc = "recv" /\ cfgs # <<>>
  /\ cfgs' = Tail(cfgs) /\ taken' = taken + 1
  /\ LET m == Head(cfgs) IN
     /\ fps' = IF m.type = "cfg" THEN m.fps ELSE fps
     /\ size' = IF m.type = "cfg" /\ m.size \in Sizes THEN m.size ELSE size
     /\ pc' = IF m.type = "cfg" THEN "answer" ELSE "capture"
  /\ UNCHANGED <<cfgRes, reqs, res, round, saved, uiVars>>

\* one message, of any type; with another than TYPE_CAMERA_CFG the frame rate
\* stays and size, which is not set, is anything
TakeConfig ==
  /\ pc = "recv" /\ cfgs # <<>>
  /\ cfgs' = Tail(cfgs) /\ taken' = taken + 1
  /\ LET m == Head(cfgs) IN
     /\ fps' = IF m.type = "cfg" THEN m.fps ELSE fps
     /\ \E s \in (IF m.type = "cfg" THEN {m.size} ELSE Sizes \cup {"unknown"}) :
          size' = IF s \in Sizes THEN s ELSE size
  /\ pc' = "answer"
  /\ UNCHANGED <<cfgRes, reqs, res, round, saved, uiVars>>

\* camera_cfg_res_send: msgsnd waits for room
AnswerConfig ==
  /\ pc = "answer" /\ cfgRes < Room
  /\ cfgRes' = cfgRes + 1
  /\ pc' = "capture"
  /\ UNCHANGED <<cfgs, reqs, res, size, fps, round, saved, taken, uiVars>>

\* the rest of the loop, see Logger, and the fronts of bgr_queue and y_queue,
\* which are empty without YUV_switch: front() is then anything, or the end
Capture ==
  /\ pc = "capture"
  /\ \/ pc' = IF setting.hashes THEN "request" ELSE "next"
     \/ setting.hashes /\ ~setting.yuv /\ pc' = "dead"
  /\ UNCHANGED <<cfgs, cfgRes, reqs, res, size, fps, round, saved, taken, uiVars>>

\* Faulty variant: it asks until there is a request.
NoRequestAgain ==
  /\ pc = "request" /\ reqs = <<>>
  /\ UNCHANGED <<pc, cfgs, cfgRes, reqs, res, size, fps, round, saved, taken, uiVars>>

\* Image_Hash_request: 0 for no request
NoRequest ==
  /\ pc = "request" /\ reqs = <<>>
  /\ pc' = "next"
  /\ UNCHANGED <<cfgs, cfgRes, reqs, res, size, fps, round, saved, taken, uiVars>>

\* 1 for one, and for a message of another type whatever falls off its end
TakeRequest ==
  /\ pc = "request" /\ reqs # <<>>
  /\ reqs' = Tail(reqs)
  /\ \/ pc' = "image" /\ served' = round /\ lost' = {}
     \/ Head(reqs) = "other" /\ pc' = "next" /\ UNCHANGED <<served, lost>>
  /\ UNCHANGED <<cfgs, cfgRes, res, size, fps, round, files, taken, uiVars>>

Writes == [image |-> "yimage", yimage |-> "hash", hash |-> "respond"]

\* imwrite twice, then the fstream: each file is emptied ...
SaveBegins ==
  /\ pc \in File /\ files[pc] # 0
  /\ files' = [files EXCEPT ![pc] = 0]
  /\ UNCHANGED <<cfgs, cfgRes, reqs, res, pc, size, fps, round, served, lost, taken,
                 uiVars>>

\* ... and filled: without YUV_switch the two pictures are of nothing
SaveEnds ==
  /\ pc \in File /\ files[pc] = 0
  /\ IF setting.yuv \/ pc = "hash"
       THEN files' = [files EXCEPT ![pc] = round] /\ lost' = lost \ {pc}
       ELSE files' = files /\ lost' = lost \cup {pc}
  /\ pc' = Writes[pc]
  /\ UNCHANGED <<cfgs, cfgRes, reqs, res, size, fps, round, served, taken, uiVars>>

\* A file cannot be opened or not be filled: imwrite returns false, which is
\* not looked at, the fstream is not open, and nothing is written.
NotSaved ==
  /\ pc \in File
  /\ lost' = lost \cup {pc}
  /\ pc' = Writes[pc]
  /\ UNCHANGED <<cfgs, cfgRes, reqs, res, size, fps, round, files, served, taken,
                 uiVars>>

\* imwrite throws: the name, or the picture, is none it can write
Throws ==
  /\ pc \in {"image", "yimage"} /\ ~(setting.paths /\ setting.yuv)
  /\ pc' = "dead"
  /\ UNCHANGED <<cfgs, cfgRes, reqs, res, size, fps, round, saved, taken, uiVars>>

\* yfile_path and hashfile_path are c_str() of a string that is gone: what is
\* written goes to another file, maybe one of the three
Astray ==
  /\ pc \in {"yimage", "hash"} /\ ~setting.paths
  /\ \E over \in SUBSET File :
       /\ \A f, g \in over : f = g
       /\ files' = [f \in File |-> IF f \in over THEN 0 ELSE files[f]]
       /\ lost' = lost \cup over \cup {pc}
  /\ pc' = Writes[pc]
  /\ UNCHANGED <<cfgs, cfgRes, reqs, res, size, fps, round, served, taken, uiVars>>

Save == SaveBegins \/ SaveEnds \/ NotSaved \/ Throws \/ Astray

\* Faulty variant: the answer goes out before the hash is saved.
RespondEarly ==
  /\ pc = "hash" /\ res < Room
  /\ res' = res + 1
  /\ pc' = "next"
  /\ UNCHANGED <<cfgs, cfgRes, reqs, size, fps, round, saved, taken, uiVars>>

\* Image_Hash_response: msgsnd waits for room
Respond ==
  /\ pc = "respond" /\ res < Room
  /\ res' = res + 1
  /\ pc' = "next"
  /\ UNCHANGED <<cfgs, cfgRes, reqs, size, fps, round, saved, taken, uiVars>>

\* init_all_settings and the next round
NextRound ==
  /\ pc = "next"
  /\ IF round < MaxRounds THEN pc' = "recv" /\ round' = round + 1
                          ELSE pc' = "end" /\ UNCHANGED round
  /\ UNCHANGED <<cfgs, cfgRes, reqs, res, size, fps, saved, taken, uiVars>>

LoggerStep == \/ NoConfig \/ TakeConfig \/ AnswerConfig \/ Capture \/ NoRequest
              \/ TakeRequest \/ Save \/ Respond \/ NextRound

-----------------------------------------------------------------------------
(* The UI.                                                                 *)

Logger == <<pc, size, fps, round, saved, taken>>

SendConfig ==
  /\ Len(asked) < MaxAsked /\ Len(cfgs) < Room
  /\ \E m \in Config :
       /\ setting.types => m.type = "cfg"
       /\ cfgs' = Append(cfgs, m) /\ asked' = Append(asked, m)
  /\ UNCHANGED <<cfgRes, reqs, res, Logger, sentReqs, gotCfg, gotRes, ui, seen>>

ReadConfigAnswer ==
  /\ setting.reads /\ cfgRes > 0
  /\ cfgRes' = cfgRes - 1 /\ gotCfg' = gotCfg + 1
  /\ UNCHANGED <<cfgs, reqs, res, Logger, asked, sentReqs, gotRes, ui, seen>>

Ask ==
  /\ sentReqs < MaxAsked /\ Len(reqs) < Room
  /\ setting.patient => sentReqs = gotRes /\ ui = "idle"
  /\ \E type \in {"req", "other"} :
       /\ setting.types => type = "req"
       /\ reqs' = Append(reqs, type)
  /\ sentReqs' = sentReqs + 1
  /\ UNCHANGED <<cfgs, cfgRes, res, Logger, asked, gotCfg, gotRes, ui, seen>>

\* it learns that the files are there ...
ReadResponse ==
  /\ setting.reads /\ res > 0 /\ ui = "idle"
  /\ res' = res - 1 /\ gotRes' = gotRes + 1 /\ ui' = "reading"
  /\ UNCHANGED <<cfgs, cfgRes, reqs, Logger, asked, sentReqs, gotCfg, seen>>

\* ... and reads them, one after the other
ReadFile ==
  /\ ui = "reading"
  /\ \E f \in File \ {s[1] : s \in seen} : seen' = seen \cup {<<f, files[f]>>}
  /\ UNCHANGED <<cfgs, cfgRes, reqs, res, Logger, asked, sentReqs, gotCfg, gotRes, ui>>

Shown ==
  /\ ui = "reading" /\ {s[1] : s \in seen} = File
  /\ ui' = "idle" /\ seen' = {}
  /\ UNCHANGED <<cfgs, cfgRes, reqs, res, Logger, asked, sentReqs, gotCfg, gotRes>>

Reads == ReadConfigAnswer \/ ReadResponse \/ ReadFile \/ Shown
UiStep == SendConfig \/ Ask \/ Reads

Next == UNCHANGED setting /\ (LoggerStep \/ UiStep)

Spec == Init /\ [][Next]_vars

\* the main loop goes on, and a UI that reads goes on reading
FairSpec == /\ Spec
            /\ WF_vars(LoggerStep /\ UNCHANGED setting)
            /\ WF_vars(Reads /\ UNCHANGED setting)

-----------------------------------------------------------------------------
(* Properties.                                                             *)

\* Every variable of the Logger, the queues and the UI keeps its type.
TypeOK ==
  /\ setting \in Settings
  /\ cfgs \in Seq(Config) /\ asked \in Seq(Config) /\ reqs \in Seq({"req", "other"})
  /\ cfgRes \in 0..Room /\ res \in 0..Room
  /\ pc \in File \cup {"recv", "answer", "capture", "request", "respond", "next",
                     "end", "dead"}
  /\ size \in Sizes /\ fps \in Fps /\ round \in 1..MaxRounds
  /\ files \in [File -> 0..MaxRounds] /\ served \in 0..MaxRounds /\ lost \subseteq File
  /\ taken \in 0..MaxAsked /\ sentReqs \in 0..MaxAsked
  /\ gotCfg \in Nat /\ gotRes \in Nat
  /\ ui \in {"idle", "reading"} /\ seen \subseteq File \X (0..MaxRounds)

\* The camera is set as the UI asked last, counted by the answers it got and
\* those under way: the frame rate of that configuration, and the size of the
\* last one that named a size.
LastNamed(n) == CHOOSE k \in 0..n :
  /\ k = 0 \/ asked[k].size \in Sizes
  /\ \A j \in (k + 1)..n : asked[j].size \notin Sizes
SetAsAsked ==
  setting.types /\ taken > 0 =>
    /\ fps = asked[taken].fps
    /\ size = IF LastNamed(taken) = 0 THEN "VGA" ELSE asked[LastNamed(taken)].size

\* Each configuration is answered once, and none before it is in force: what
\* the UI has got and what is on its way are the ones taken, but for the one
\* being answered.
AnsweredOnce ==
  gotCfg + cfgRes = taken - (IF pc = "answer" THEN 1 ELSE 0)

\* A UI that asks again only after it has read the files reads, whole and of the
\* round that served its request, each file this request has not left without
\* what is its own: an answer comes for every request taken, whether the files
\* could be written or not.
FilesOfOneRound ==
  setting.patient /\ setting.types =>
    \A s \in seen : s[1] \notin lost => s[2] = served

\* The main loop gets through its rounds, although msgsnd waits for room, when
\* the UI reads its answers.  It never waits for a configuration or a request.
\* It ends before only without YUV_switch or with paths imwrite cannot use.
RoundsGoOn ==
  setting.reads =>
    <>(pc = "end" \/ (pc = "dead" /\ ~(setting.yuv /\ setting.paths)))

=============================================================================
