------------------------------- MODULE Database -------------------------------
(***************************************************************************)
(* DB/bout_database.cpp as the threads of the server use it: one MYSQL     *)
(* connection, one member row, no lock.  A call of the class is a sequence *)
(* of calls of the client library; each of those is one step here, and the *)
(* steps of several threads interleave.  Nothing keeps two of them from    *)
(* overlapping, which the library does not allow on one connection: Race.  *)
(*                                                                         *)
(* A statement with a result leaves the connection in state "get" until    *)
(* mysql_use_result takes the result (state "use") and its last row is     *)
(* fetched or it is freed; until then every other statement fails.         *)
(***************************************************************************)
EXTENDS Integers, FiniteSets, Sequences

CONSTANTS
  Thread,     \* threads of the server
  MaxJobs,    \* bound: calls of the class, all threads together
  NumOfShare, \* num_of_share: shares generated at once
  Threshold,  \* key_threshold: shares another_share_request gets at most
  UniqueLid,  \* whether Loggers has at most one row for an LID
  Settings    \* how the class is used: see setting

Op == {"public_key", "video", "gen_shares", "share", "ano_shares"}

Setting == [serial : BOOLEAN, faults : BOOLEAN, ops : SUBSET Op, jobs : 0..MaxJobs]

ASSUME DatabaseAssumption ==
  /\ MaxJobs \in Nat /\ NumOfShare \in Nat /\ Threshold \in Nat
  /\ UniqueLid \in BOOLEAN
  /\ Settings \subseteq Setting

\* A row of a result; the member row may also be NULL.
Row == [kind : {"count", "lid", "share"}, n : Nat]
Null == [kind |-> "null", n |-> 0]

\* Faulty variants: insert_pk_database does not store the key; it never takes
\* the result of its last select, and get_ano_shares does not free its own.
CallsNoKey(task) ==
  CASE task = "public_key" ->
         <<"count", "use", "check", "free", "save", "use", "free",
           "max_lid", "use", "fetch", "free">>
    [] OTHER             -> <<>>

CallsForgetResult(task) ==
  CASE task = "public_key" ->
         <<"count", "use", "check", "free", "save", "use", "free", "add_key",
           "use", "free", "max_lid">>
    [] task = "ano_shares" -> <<"another", "use", "fetch">>
    [] task = "share"      -> <<"pick", "use", "fetch", "assign", "use", "free">>
    [] OTHER             -> <<>>

\* The client library's calls of each call: mysql_perform_query is a
\* statement and "use", "check" is the one row of the count, "fetch" the loop
\* over the rows.  insert_data frees nothing.
Calls(task) ==
  CASE task = "public_key" ->
         <<"count", "use", "check", "free", "save", "use", "free", "add_key",
           "use", "free", "max_lid", "use", "fetch", "free">>
    [] task = "video"      -> <<"add_video", "use", "free">>
    [] task = "share"      -> <<"pick", "use", "fetch", "assign", "use", "free">>
    [] task = "ano_shares" -> <<"another", "use", "fetch", "free">>
    [] task = "gen_shares" ->
         [i \in 1..(2 * NumOfShare) |-> IF i % 2 = 1 THEN "add_share" ELSE "use"]

\* where insert_pk_database goes on when the count is neither 0 nor 1
MaxLidCall == 11

VARIABLES
  setting,  \* serial: a call begins only when no other is under way; faults:
            \* the database may refuse a statement; ops: what is asked of it;
            \* jobs: how often
  up,       \* the process is alive
  raced,    \* two threads were inside the library at once
  status,   \* of the connection: "ready", "get", "use"
  rows,     \* of the result under way, those not fetched
  row,      \* the member row
  loggers,  \* keys of the rows of Loggers with LID 'L-01', by arrival
  keys,     \* keys in Public_keys
  videos,   \* jobs whose video row was inserted
  shares,   \* the shares table; no share is ever given an LID
  made,     \* shares generated
  njobs,    \* jobs begun
  op,       \* what a thread is doing, "idle" between jobs
  job,      \* the number of its job, which stands for its key or frame
  ip,       \* the call it is at
  holds,    \* its res is a result it has neither read to the end nor freed
  fetched,  \* its loop has a row and has not used it
  lid,      \* lidExists
  val,      \* rows its loop copied
  answers   \* what finished jobs returned

tables == <<loggers, keys, videos, shares, made>>
vars == <<setting, up, raced, status, rows, row, loggers, keys, videos, shares, made, njobs,
          op, job, ip, holds, fetched, lid, val, answers>>

Init ==
  /\ setting \in Settings
  /\ up = TRUE /\ raced = FALSE
  /\ status = "ready" /\ rows = {} /\ row = Null
  /\ \/ loggers = <<>> /\ keys = {}
     \/ loggers = <<0>> /\ keys = {0}      \* registered in an earlier run
  /\ videos = {}
  /\ made \in {0, NumOfShare} /\ shares = 1..made
  /\ njobs = 0
  /\ op = [t \in Thread |-> "idle"]
  /\ job = [t \in Thread |-> 0]
  /\ ip = [t \in Thread |-> 1]
  /\ holds = [t \in Thread |-> FALSE]
  /\ fetched = [t \in Thread |-> FALSE]
  /\ lid = [t \in Thread |-> 0]
  /\ val = [t \in Thread |-> {}]
  /\ answers = {}

-----------------------------------------------------------------------------
Working(t) == op[t] # "idle"
AllIdle == \A t \in Thread : ~Working(t)

\* t is at, or inside, one of these calls of the library
At(t, call) ==
  /\ up /\ ~raced /\ Working(t) /\ ip[t] <= Len(Calls(op[t]))
  /\ Calls(op[t])[ip[t]] \in call

GoTo(t, i) == ip' = [ip EXCEPT ![t] = i]
Advance(t) == GoTo(t, ip[t] + 1)

\* a handler calls the class
Begin(t) ==
  /\ up /\ ~raced /\ ~Working(t) /\ njobs < setting.jobs
  /\ setting.serial => AllIdle
  /\ \E o \in setting.ops : op' = [op EXCEPT ![t] = o]
  /\ njobs' = njobs + 1
  /\ job' = [job EXCEPT ![t] = njobs + 1]
  /\ ip' = [ip EXCEPT ![t] = 1]
  /\ val' = [val EXCEPT ![t] = {}]
  /\ UNCHANGED <<up, status, rows, row, tables, holds, fetched, lid, answers>>

\* mysql_query fails: the database refuses, or a result is still under way.
\* The loop of mysql_perform_query breaks after this one attempt
Refused(t) ==
  /\ setting.faults \/ status # "ready"
  /\ UNCHANGED <<status, rows, tables>>

\* Faulty variant: a statement goes through while a result is under way.
SelectAnyway(t, result) == status' = "get" /\ rows' = result /\ UNCHANGED tables

\* a select leaves its result to be taken
Select(t, result) ==
  /\ status = "ready"
  /\ status' = "get" /\ rows' = result
  /\ UNCHANGED tables

\* the rest of a statement's step: only the tables and the connection change
Issued(t) ==
  /\ Advance(t)
  /\ UNCHANGED <<up, row, njobs, op, job, holds, fetched, lid, val, answers>>

\* how many rows L-01 has; the share, or shares, of those that have no logger:
\* get_share asks for one, get_ano_shares for LIDs other than its own, which is
\* every share there is
Count(t) ==
  /\ At(t, {"count"})
  /\ Refused(t) \/ Select(t, {[kind |-> "count", n |-> Len(loggers)]})
  /\ Issued(t)

MaxLid(t) ==
  /\ At(t, {"max_lid"})
  /\ \/ Refused(t)
     \/ Select(t, {[kind |-> "lid", n |-> IF loggers = <<>> THEN 0 ELSE 1]})
  /\ Issued(t)

ShareRows(S) == {[kind |-> "share", n |-> s] : s \in S}

Pick(t) ==
  /\ At(t, {"pick"})
  /\ \/ Refused(t)
     \/ shares = {} /\ Select(t, {})
     \/ \E s \in shares : Select(t, ShareRows({s}))
  /\ Issued(t)

Another(t) ==
  /\ At(t, {"another"})
  /\ \/ Refused(t)
     \/ \E S \in SUBSET shares :
          /\ Cardinality(S) <= Threshold
          /\ S # shares => Cardinality(S) = Threshold
          /\ Select(t, ShareRows(S))
  /\ Issued(t)

\* an insert or update that is not refused leaves no result
Stores(t) == status = "ready" /\ UNCHANGED <<status, rows>>

\* the logger is inserted if the count was 0, updated if it was 1; otherwise
\* only "lidExists can only have zero or one" is printed
Save(t) ==
  /\ At(t, {"save"})
  /\ IF lid[t] \notin {0, 1}
       THEN /\ GoTo(t, MaxLidCall)
            /\ UNCHANGED <<up, status, rows, row, tables, njobs, op, job, holds,
                           fetched, lid, val, answers>>
       ELSE /\ \/ Refused(t)
               \/ lid[t] = 0 /\ UniqueLid /\ loggers # <<>>
                    /\ Stores(t) /\ UNCHANGED tables
               \/ /\ Stores(t)
                  /\ lid[t] = 0 => ~UniqueLid \/ loggers = <<>>
                  /\ loggers' = IF lid[t] = 0 THEN Append(loggers, job[t])
                                 ELSE [i \in 1..Len(loggers) |-> job[t]]
                  /\ UNCHANGED <<keys, videos, shares, made>>
            /\ Issued(t)

\* insert_public_keys_table
AddKey(t) ==
  /\ At(t, {"add_key"})
  /\ \/ Refused(t)
     \/ /\ Stores(t)
        /\ keys' = keys \cup {job[t]}
        /\ UNCHANGED <<loggers, videos, shares, made>>
  /\ Issued(t)

\* insert_video_data
AddVideo(t) ==
  /\ At(t, {"add_video"})
  /\ \/ Refused(t)
     \/ /\ Stores(t)
        /\ videos' = videos \cup {job[t]}
        /\ UNCHANGED <<loggers, keys, shares, made>>
  /\ Issued(t)

\* one insert_data of generate_shares; the share belongs to no logger
AddShare(t) ==
  /\ At(t, {"add_share"})
  /\ \/ (setting.faults \/ status # "ready") /\ UNCHANGED <<status, rows, shares>>
     \/ Stores(t) /\ shares' = shares \cup {made + 1}
  /\ made' = made + 1
  /\ UNCHANGED <<loggers, keys, videos>>
  /\ Issued(t)

\* update_database("LID = " + LID, ...): adding a number to a string literal
\* skips its first characters, what is left is no assignment and is refused
Assign(t) ==
  /\ At(t, {"assign"})
  /\ UNCHANGED <<status, rows, tables>>
  /\ Issued(t)

-----------------------------------------------------------------------------
(* Results.                                                                *)

\* mysql_use_result takes the result that waits, whoever asked for it;
\* otherwise it returns NULL
Use(t) ==
  /\ At(t, {"use"})
  /\ holds' = [holds EXCEPT ![t] = status = "get"]
  /\ status' = IF status = "get" THEN "use" ELSE status
  /\ Advance(t)
  /\ UNCHANGED <<up, rows, row, tables, njobs, op, job, fetched, lid, val, answers>>

\* a result that is read to its end, or freed, makes the connection ready
LetGo(t) ==
  /\ holds' = [holds EXCEPT ![t] = FALSE]
  /\ status' = IF holds[t] THEN "ready" ELSE status

Free(t) ==
  /\ At(t, {"free"})
  /\ LetGo(t)
  /\ rows' = IF holds[t] THEN {} ELSE rows
  /\ Advance(t)
  /\ UNCHANGED <<up, row, tables, njobs, op, job, fetched, lid, val, answers>>

\* lidExists = atoi(checkRow[0]), 0 without a row.  The row may be another
\* statement's: an LID reads as 0, or is NULL, a share as some number
Check(t) ==
  /\ At(t, {"check"})
  /\ \/ /\ ~holds[t] \/ rows = {}
        /\ LetGo(t) /\ lid' = [lid EXCEPT ![t] = 0]
        /\ UNCHANGED <<up, rows>>
     \/ /\ holds[t]
        /\ \E r \in rows : \E k \in 0..2 :
             /\ rows' = rows \ {r}
             /\ up' = (r # [kind |-> "lid", n |-> 0])
             /\ lid' = [lid EXCEPT ![t] =
                          CASE r.kind = "count" -> r.n
                            [] r.kind = "lid"   -> 0
                            [] OTHER            -> k]
        /\ UNCHANGED <<holds, status>>
  /\ Advance(t)
  /\ UNCHANGED <<row, tables, njobs, op, job, fetched, val, answers>>

\* Faulty variant: the loop does not notice that there is no row.
FetchStuck(t) ==
  /\ At(t, {"fetch"}) /\ ~fetched[t] /\ holds[t]
  /\ \E r \in rows : row' = r /\ rows' = rows \ {r}
  /\ fetched' = [fetched EXCEPT ![t] = TRUE]
  /\ UNCHANGED <<up, status, tables, njobs, op, job, ip, holds, lid, val, answers>>

\* row = mysql_fetch_row(res)
Fetch(t) ==
  /\ At(t, {"fetch"}) /\ ~fetched[t]
  /\ \/ /\ ~holds[t] \/ rows = {}
        /\ LetGo(t) /\ row' = Null
        /\ Advance(t)
        /\ UNCHANGED <<rows, fetched>>
     \/ /\ holds[t]
        /\ \E r \in rows : row' = r /\ rows' = rows \ {r}
        /\ fetched' = [fetched EXCEPT ![t] = TRUE]
        /\ UNCHANGED <<holds, status, ip>>
  /\ UNCHANGED <<up, tables, njobs, op, job, lid, val, answers>>

\* the loop copies row[0], whatever the member row is by now
Copy(t) ==
  /\ At(t, {"fetch"}) /\ fetched[t]
  /\ row \notin {Null, [kind |-> "lid", n |-> 0]}
  /\ fetched' = [fetched EXCEPT ![t] = FALSE]
  /\ val' = [val EXCEPT ![t] = IF op[t] = "ano_shares" THEN @ \cup {row} ELSE {row}]
  /\ UNCHANGED <<up, status, rows, row, tables, njobs, op, job, ip, holds, lid, answers>>

\* row is NULL, or row[0] is: no std::string can be made of it
CopyNull(t) ==
  /\ At(t, {"fetch"}) /\ fetched[t]
  /\ row \in {Null, [kind |-> "lid", n |-> 0]}
  /\ up' = FALSE
  /\ UNCHANGED <<status, rows, row, tables, njobs, op, job, ip, holds, fetched, lid,
                 val, answers>>

\* mysql_fetch_row of no result: the library's choice is to return no row,
\* as in Check and Fetch, or to follow the pointer
NoRows(t) ==
  /\ At(t, {"check", "fetch"}) /\ ~fetched[t] /\ ~holds[t]
  /\ up' = FALSE
  /\ UNCHANGED <<status, rows, row, tables, njobs, op, job, ip, holds, fetched, lid,
                 val, answers>>

\* the call returns; a result it did not free stays under way
Finish(t) ==
  /\ up /\ ~raced /\ Working(t) /\ ip[t] > Len(Calls(op[t]))
  /\ answers' = answers \cup {[op |-> op[t], job |-> job[t], val |-> val[t]]}
  /\ op' = [op EXCEPT ![t] = "idle"]
  /\ holds' = [holds EXCEPT ![t] = FALSE]
  /\ UNCHANGED <<up, status, rows, row, tables, njobs, job, ip, fetched, lid, val>>

-----------------------------------------------------------------------------
Statement(t) ==
  \/ Count(t) \/ MaxLid(t) \/ Pick(t) \/ Another(t) \/ Save(t) \/ AddKey(t)
  \/ AddVideo(t) \/ AddShare(t) \/ Assign(t)

Work(t) ==
  \/ Statement(t) \/ Use(t) \/ Free(t) \/ Check(t) \/ Fetch(t)
  \/ Copy(t) \/ CopyNull(t) \/ NoRows(t) \/ Finish(t)

\* every call of the library, outside the loops' use of a row
LibraryCall ==
  {"count", "use", "check", "free", "save", "add_key", "max_lid", "fetch", "add_video",
   "pick", "assign", "another", "add_share"}
Inside(t) == At(t, LibraryCall) /\ ~fetched[t]

\* Two threads are inside the library at once, on one socket and one status:
\* the process may end, both may take one result, one may take the other's
\* reply and that one wait for ever.  raced stands for whatever it is: no step
\* is taken afterwards, and no property says anything of the connection
Race ==
  /\ \E t, u \in Thread :
       /\ t # u /\ Inside(t) /\ Inside(u)
       /\ \/ up' = FALSE /\ UNCHANGED <<status, holds>>
          \/ up' = TRUE /\ status' = "use"
               /\ holds' = [holds EXCEPT ![t] = TRUE, ![u] = TRUE]
  /\ raced' = TRUE
  /\ UNCHANGED <<rows, row, tables, njobs, op, job, ip, fetched, lid, val, answers>>

\* calls that do not overlap
Step == UNCHANGED <<setting, raced>> /\ \E t \in Thread : Begin(t) \/ Work(t)

Next == Step \/ (Race /\ UNCHANGED setting)

Spec == Init /\ [][Next]_vars
FairSpec ==
  Spec /\ \A t \in Thread : WF_vars(Work(t) /\ UNCHANGED <<setting, raced>>)

-----------------------------------------------------------------------------
(* Properties.                                                             *)

TypeOK ==
  /\ setting \in Settings
  /\ up \in BOOLEAN /\ raced \in BOOLEAN
  /\ status \in {"ready", "get", "use"}
  /\ rows \subseteq Row
  /\ row \in Row \cup {Null}
  /\ loggers \in Seq(0..MaxJobs)
  /\ keys \subseteq 0..MaxJobs
  /\ videos \subseteq 0..MaxJobs
  /\ made \in Nat
  /\ shares \subseteq 1..made
  /\ njobs \in 0..MaxJobs
  /\ op \in [Thread -> Op \cup {"idle"}]
  /\ job \in [Thread -> 0..MaxJobs]
  /\ ip \in [Thread -> Nat \ {0}]
  /\ holds \in [Thread -> BOOLEAN]
  /\ fetched \in [Thread -> BOOLEAN]
  /\ lid \in [Thread -> Nat]
  /\ val \in [Thread -> SUBSET Row]

ReadByOne ==
  /\ \A t, u \in Thread : holds[t] /\ holds[u] => t = u
  /\ \A t \in Thread : holds[t] => status = "use"

\* While no two calls of the library overlap, a result is read by one thread at
\* a time, in whichever order the calls of several threads come and whatever is
\* refused: two would read each other's rows off the wire
OneReader == ~raced => ReadByOne

\* while none overlap, a handler that is done with the database leaves the
\* connection usable: no result stays under way that nobody will free
ReadyWhenIdle == up /\ ~raced /\ AllIdle => status = "ready"

\* calls that come one after the other, of a database that refuses nothing
Undisturbed == setting.serial /\ ~setting.faults

\* then, once a logger was told its LID, its key is in Public_keys, and Loggers
\* has one row for it, with a key that is there too
KeyRegistered ==
  Undisturbed =>
    /\ \A a \in answers : a.op = "public_key" =>
         a.val = {[kind |-> "lid", n |-> 1]} /\ a.job \in keys
    /\ AllIdle /\ loggers # <<>> => Len(loggers) = 1 /\ loggers[1] \in keys

\* places of insert_pk_database between two of its calls: the row of Loggers is
\* stored and that of Public_keys is not yet; the row is stored and the LID is
\* not yet returned
Saved == 6..8
Unanswered == 6..15
KeysOf(places) == {job[t] : t \in {u \in Thread : op[u] = "public_key" /\ ip[u] \in places}}
Known == keys \cup KeysOf(Saved)
Told == {a.job : a \in {b \in answers : b.op = "public_key"
                                          /\ b.val = {[kind |-> "lid", n |-> 1]}}}

\* insert_pk_database, by then, registers a key in one step, that of the
\* statement on Loggers, and returns its LID before another call begins
Reg == INSTANCE Registration
         WITH Key <- 0..MaxJobs, inForce <- Undisturbed, current <- loggers,
              known <- Known, untold <- KeysOf(Unanswered), told <- Told
ImplementsRegistration == Reg!Spec

\* every call of the class comes to its end, unless calls of the library overlap
\* or the process ends
JobsFinish == \A t \in Thread : Working(t) ~> (~Working(t) \/ ~up \/ raced)

\* a share belongs to one logger: nobody else is given it as its own
ShareGivenOnce ==
  \A a, b \in answers :
    a.op = "share" /\ b.op = "share" /\ a.job # b.job =>
      a.val \cap b.val = {}

=============================================================================
