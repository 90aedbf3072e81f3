--------------------------- MODULE DatabaseProofs ---------------------------
(***************************************************************************)
(* The types of Database, who reads from its one connection and frees its  *)
(* results, and what a registration leaves in the tables.                  *)
(***************************************************************************)
EXTENDS Database, TLAPS

\* The connection as the constructor leaves it, with either content of the tables, is well typed.
LEMMA InitTypeOK == Init => TypeOK
<1> SUFFICES ASSUME Init PROVE TypeOK
  OBVIOUS
<1> USE DatabaseAssumption DEF Init
<1>1. loggers \in Seq(0..MaxJobs) /\ keys \subseteq 0..MaxJobs
  <2>1. 0 \in 0..MaxJobs
    OBVIOUS
  <2>2. <<>> \in Seq(0..MaxJobs) /\ <<0>> \in Seq(0..MaxJobs)
    BY <2>1
  <2>3. CASE loggers = <<>> /\ keys = {}
    BY <2>2, <2>3
  <2>4. CASE loggers = <<0>> /\ keys = {0}
    BY <2>1, <2>2, <2>4
  <2> QED
    BY <2>3, <2>4
<1>2. made \in Nat /\ shares \subseteq 1..made
  OBVIOUS
<1>3. val \in [Thread -> SUBSET Row]
  OBVIOUS
<1>4. setting \in Settings /\ up \in BOOLEAN /\ raced \in BOOLEAN
  OBVIOUS
<1> QED
  BY <1>1, <1>2, <1>3, <1>4 DEF TypeOK

\* A thread at a call of its task: the next position is a position.
LEMMA AdvanceType ==
  ASSUME TypeOK, NEW t \in Thread, Advance(t)
  PROVE  ip' \in [Thread -> Nat \ {0}]
<1>1. ip[t] \in Nat \ {0}
  BY DEF TypeOK
<1>2. ip[t] + 1 \in Nat \ {0}
  BY <1>1
<1> QED
  BY <1>2 DEF TypeOK, Advance, GoTo

\* Selects return rows.
LEMMA RowTypes ==
  ASSUME TypeOK
  PROVE  /\ [kind |-> "count", n |-> Len(loggers)] \in Row
         /\ [kind |-> "lid", n |-> IF loggers = <<>> THEN 0 ELSE 1] \in Row
         /\ \A S \in SUBSET shares : ShareRows(S) \subseteq Row
<1>1. Len(loggers) \in Nat /\ \A s \in shares : s \in Nat
  BY DEF TypeOK
<1> QED
  BY <1>1 DEF Row, ShareRows

\* A statement other than insert and update changes the connection alone.
LEMMA SelectType ==
  ASSUME TypeOK, NEW t \in Thread, Advance(t),
         \/ UNCHANGED <<status, rows>>
         \/ status' = "get" /\ rows' \subseteq Row,
         UNCHANGED tables,
         UNCHANGED <<setting, raced, up, row, njobs, op, job, holds, fetched, lid, val, answers>>
  PROVE  TypeOK'
<1>1. ip' \in [Thread -> Nat \ {0}]
  BY AdvanceType
<1>2. status' \in {"ready", "get", "use"} /\ rows' \subseteq Row
  BY DEF TypeOK
<1> QED
  BY <1>1, <1>2 DEF TypeOK, tables

\* A statement, refused or not, keeps the types: what it does to the tables is all it does.
LEMMA StatementType ==
  ASSUME TypeOK, setting' = setting, raced' = raced, NEW t \in Thread, Statement(t)
  PROVE  TypeOK'
<1> USE DatabaseAssumption
<1>1. CASE Count(t)
  BY <1>1, RowTypes, SelectType DEF Count, Refused, Select, Issued
<1>2. CASE MaxLid(t)
  BY <1>2, RowTypes, SelectType DEF MaxLid, Refused, Select, Issued
<1>3. CASE Pick(t)
  <2>1. \/ UNCHANGED <<status, rows>>
        \/ status' = "get" /\ rows' \subseteq Row
    BY <1>3, RowTypes DEF Pick, Refused, Select
  <2> QED
    BY <1>3, <2>1, SelectType DEF Pick, Refused, Select, Issued
<1>4. CASE Another(t)
  <2>1. \/ UNCHANGED <<status, rows>>
        \/ status' = "get" /\ rows' \subseteq Row
    BY <1>4, RowTypes DEF Another, Refused, Select
  <2> QED
    BY <1>4, <2>1, SelectType DEF Another, Refused, Select, Issued
<1>5. CASE Assign(t)
  BY <1>5, SelectType DEF Assign, Issued
<1>6. CASE Save(t)
  <2>1. ip' \in [Thread -> Nat \ {0}]
    <3>1. CASE GoTo(t, MaxLidCall)
      BY <3>1 DEF GoTo, MaxLidCall, TypeOK
    <3>2. CASE Advance(t)
      BY <3>2, AdvanceType
    <3> QED
      BY <1>6, <3>1, <3>2 DEF Save, Issued
  <2>2. job[t] \in 0..MaxJobs
    BY DEF TypeOK
  <2>3. loggers' \in Seq(0..MaxJobs)
    <3>1. loggers \in Seq(0..MaxJobs) /\ Len(loggers) \in Nat
      BY DEF TypeOK
    <3>2. \/ loggers' = loggers
          \/ loggers' = Append(loggers, job[t])
          \/ loggers' = [i \in 1..Len(loggers) |-> job[t]]
      BY <1>6 DEF Save, Refused, tables
    <3>3. Append(loggers, job[t]) \in Seq(0..MaxJobs)
      BY <2>2, <3>1
    <3>5. DOMAIN loggers = 1..Len(loggers)
      BY <3>1
    <3>4. [i \in 1..Len(loggers) |-> job[t]] \in Seq(0..MaxJobs)
      BY <2>2, <3>1
    <3> QED
      BY <3>1, <3>2, <3>3, <3>4
  <2>4. UNCHANGED <<status, rows, up, row, njobs, op, job, holds, fetched, lid, val,
                    keys, videos, shares, made>>
    <3>1. CASE lid[t] \notin {0, 1}
      BY <1>6, <3>1 DEF Save, tables
    <3>2. CASE lid[t] \in {0, 1}
      <4>1. UNCHANGED <<up, row, njobs, op, job, holds, fetched, lid, val>>
        BY <1>6, <3>2 DEF Save, Issued
      <4>2. UNCHANGED <<status, rows, keys, videos, shares, made>>
        BY <1>6, <3>2 DEF Save, Refused, Stores, tables
      <4> QED
        BY <4>1, <4>2
    <3> QED
      BY <3>1, <3>2
  <2> QED
    BY <2>1, <2>3, <2>4 DEF TypeOK
<1>7. CASE AddKey(t)
  <2>1. ip' \in [Thread -> Nat \ {0}]
    BY <1>7, AdvanceType DEF AddKey, Issued
  <2>2. job[t] \in 0..MaxJobs
    BY DEF TypeOK
  <2>3. keys' = keys \/ keys' = keys \cup {job[t]}
    BY <1>7 DEF AddKey, Refused, tables
  <2>4. keys' \subseteq 0..MaxJobs
    BY <2>2, <2>3 DEF TypeOK
  <2>5. UNCHANGED <<status, rows, up, row, njobs, op, job, holds, fetched, lid, val,
                    loggers, videos, shares, made>>
    BY <1>7 DEF AddKey, Refused, Stores, Issued, tables
  <2> QED
    BY <2>1, <2>4, <2>5 DEF TypeOK
<1>9. CASE AddVideo(t)
  <2>1. ip' \in [Thread -> Nat \ {0}]
    BY <1>9, AdvanceType DEF AddVideo, Issued
  <2>2. job[t] \in 0..MaxJobs
    BY DEF TypeOK
  <2>3. videos' = videos \/ videos' = videos \cup {job[t]}
    BY <1>9 DEF AddVideo, Refused, tables
  <2>4. videos' \subseteq 0..MaxJobs
    BY <2>2, <2>3 DEF TypeOK
  <2>5. UNCHANGED <<status, rows, up, row, njobs, op, job, holds, fetched, lid, val,
                    loggers, keys, shares, made>>
    BY <1>9 DEF AddVideo, Refused, Stores, Issued, tables
  <2> QED
    BY <2>1, <2>4, <2>5 DEF TypeOK
<1>8. CASE AddShare(t)
  <2>1. ip' \in [Thread -> Nat \ {0}]
    BY <1>8, AdvanceType DEF AddShare, Issued
  <2>2. made' \in Nat /\ shares' \subseteq 1..made'
    <3>1. made \in Nat /\ made' = made + 1 /\ shares \subseteq 1..made
      BY <1>8 DEF AddShare, TypeOK
    <3>2. shares' = shares \/ shares' = shares \cup {made + 1}
      BY <1>8 DEF AddShare
    <3>3. SUFFICES ASSUME NEW s \in shares' PROVE s \in 1..(made + 1)
      BY <3>1
    <3>4. s \in 1..made \/ s = made + 1
      BY <3>1, <3>2
    <3> QED
      BY <3>1, <3>4
  <2>3. UNCHANGED <<status, rows, up, row, njobs, op, job, holds, fetched, lid, val,
                    loggers, keys, videos>>
    BY <1>8 DEF AddShare, Stores, Issued
  <2> QED
    BY <2>1, <2>2, <2>3 DEF TypeOK
<1> QED
  BY <1>1, <1>2, <1>3, <1>4, <1>5, <1>6, <1>7, <1>8, <1>9 DEF Statement

\* What the client library does with results.
LEMMA ResultType ==
  ASSUME TypeOK, setting' = setting, raced' = raced, NEW t \in Thread,
         Use(t) \/ Free(t) \/ Check(t) \/ Fetch(t) \/ Copy(t) \/ CopyNull(t) \/ NoRows(t)
  PROVE  TypeOK'
<1> USE DatabaseAssumption DEF LetGo, tables
<1>1. CASE Use(t)
  <2>1. ip' \in [Thread -> Nat \ {0}]
    BY <1>1, AdvanceType DEF Use
  <2>2. status' \in {"ready", "get", "use"} /\ holds' \in [Thread -> BOOLEAN]
    BY <1>1 DEF Use, TypeOK
  <2> QED
    BY <1>1, <2>1, <2>2 DEF Use, TypeOK
<1>2. CASE Free(t)
  <2>1. ip' \in [Thread -> Nat \ {0}]
    BY <1>2, AdvanceType DEF Free
  <2>2. /\ status' \in {"ready", "get", "use"} /\ holds' \in [Thread -> BOOLEAN]
        /\ rows' \subseteq Row
    BY <1>2 DEF Free, TypeOK
  <2> QED
    BY <1>2, <2>1, <2>2 DEF Free, TypeOK
<1>3. CASE Check(t)
  <2>1. ip' \in [Thread -> Nat \ {0}]
    BY <1>3, AdvanceType DEF Check
  <2>2. /\ status' \in {"ready", "get", "use"} /\ holds' \in [Thread -> BOOLEAN]
        /\ rows' \subseteq Row /\ up' \in BOOLEAN
    BY <1>3 DEF Check, TypeOK
  <2>3. PICK n \in Nat : lid' = [lid EXCEPT ![t] = n]
    <3>1. \A r \in rows : r.n \in Nat
      BY DEF TypeOK, Row
    <3> QED
      BY <1>3, <3>1 DEF Check
  <2>4. lid' \in [Thread -> Nat]
    BY <2>3 DEF TypeOK
  <2> QED
    BY <1>3, <2>1, <2>2, <2>4 DEF Check, TypeOK
<1>4. CASE Fetch(t)
  <2>1. ip' \in [Thread -> Nat \ {0}]
    BY <1>4, AdvanceType DEF Fetch, TypeOK
  <2>2. /\ status' \in {"ready", "get", "use"} /\ holds' \in [Thread -> BOOLEAN]
        /\ fetched' \in [Thread -> BOOLEAN]
    BY <1>4 DEF Fetch, TypeOK
  <2>3. rows' \subseteq Row /\ row' \in Row \cup {Null}
    BY <1>4 DEF Fetch, TypeOK
  <2> QED
    BY <1>4, <2>1, <2>2, <2>3 DEF Fetch, TypeOK
<1>5. CASE Copy(t)
  <2>1. row \in Row /\ val[t] \subseteq Row
    BY <1>5 DEF Copy, TypeOK
  <2>2. val' \in [Thread -> SUBSET Row]
    BY <1>5, <2>1 DEF Copy, TypeOK
  <2>3. fetched' \in [Thread -> BOOLEAN]
    BY <1>5 DEF Copy, TypeOK
  <2> QED
    BY <1>5, <2>2, <2>3 DEF Copy, TypeOK
<1>6. CASE CopyNull(t) \/ NoRows(t)
  BY <1>6 DEF CopyNull, NoRows, TypeOK
<1> QED
  BY <1>1, <1>2, <1>3, <1>4, <1>5, <1>6

\* Every call of the client library that overlaps no other keeps the types.
LEMMA TypeOKStep == TypeOK /\ [Step]_vars => TypeOK'
<1> SUFFICES ASSUME TypeOK, [Step]_vars PROVE TypeOK'
  OBVIOUS
<1> USE DatabaseAssumption
<1>1. ASSUME setting' = setting, raced' = raced, NEW t \in Thread, Begin(t) PROVE TypeOK'
  <2>1. njobs + 1 \in 0..MaxJobs
    BY <1>1 DEF Begin, TypeOK, Setting
  <2>2. /\ njobs' \in 0..MaxJobs /\ job' \in [Thread -> 0..MaxJobs]
        /\ ip' \in [Thread -> Nat \ {0}] /\ val' \in [Thread -> SUBSET Row]
    BY <1>1, <2>1 DEF Begin, TypeOK, Setting
  <2>3. op' \in [Thread -> Op \cup {"idle"}]
    BY <1>1 DEF Begin, TypeOK, Setting
  <2> QED
    BY <1>1, <2>2, <2>3 DEF Begin, TypeOK, tables
<1>2. ASSUME setting' = setting, raced' = raced, NEW t \in Thread, Finish(t) PROVE TypeOK'
  <2>1. op' \in [Thread -> Op \cup {"idle"}] /\ holds' \in [Thread -> BOOLEAN]
    BY <1>2 DEF Finish, TypeOK
  <2> QED
    BY <1>2, <2>1 DEF Finish, TypeOK, tables
<1>3. CASE UNCHANGED vars
  BY <1>3 DEF vars, TypeOK
<1> QED
  BY <1>1, <1>2, <1>3, StatementType, ResultType DEF Step, Work

\* Calls that overlap change what the library says of the connection.
LEMMA TypeOKNext == TypeOK /\ [Next]_vars => TypeOK'
<1> SUFFICES ASSUME TypeOK, Race, setting' = setting PROVE TypeOK'
  BY TypeOKStep DEF Next
<1>1. status' \in {"ready", "get", "use"} /\ up' \in BOOLEAN /\ raced' \in BOOLEAN
  BY DEF Race, TypeOK
<1>2. holds' \in [Thread -> BOOLEAN]
  BY DEF Race, TypeOK
<1> QED
  BY <1>1, <1>2 DEF Race, TypeOK, tables

\* The variables of the class and of its tables keep their types.
THEOREM TypeCorrect == Spec => []TypeOK
<1> QED
  BY InitTypeOK, TypeOKNext, PTL DEF Spec

\* While no two calls overlapped, a step is one of a single call.
LEMMA Apart == [Next]_vars /\ ~raced' => [Step]_vars /\ ~raced
  BY DEF Next, Race, Step, vars

-----------------------------------------------------------------------------
\* A result is taken only from a connection that nobody reads, and let go by its reader.
LEMMA ReadByOneStep == TypeOK /\ ReadByOne /\ [Step]_vars => ReadByOne'
<1> SUFFICES ASSUME TypeOK, ReadByOne, [Step]_vars PROVE ReadByOne'
  OBVIOUS
<1>0. holds \in [Thread -> BOOLEAN]
  BY DEF TypeOK
<1>1. ASSUME holds' = holds,
             status' = status \/ (status = "ready" /\ status' = "get")
      PROVE  ReadByOne'
  BY <1>1 DEF ReadByOne
<1>2. ASSUME NEW t \in Thread, LetGo(t) PROVE ReadByOne'
  BY <1>0, <1>2 DEF LetGo, ReadByOne
<1>3. ASSUME NEW t \in Thread, Use(t) PROVE ReadByOne'
  <2>1. CASE status = "get"
    <3>1. \A u \in Thread : ~holds[u]
      BY <2>1 DEF ReadByOne
    <3> QED
      BY <1>0, <1>3, <2>1, <3>1 DEF Use, ReadByOne
  <2>2. CASE status # "get"
    BY <1>0, <1>3, <2>2 DEF Use, ReadByOne
  <2> QED
    BY <2>1, <2>2
<1>4. ASSUME NEW t \in Thread, Finish(t) PROVE ReadByOne'
  BY <1>0, <1>4 DEF Finish, ReadByOne
<1>5. ASSUME NEW t \in Thread, Begin(t) PROVE ReadByOne'
  BY <1>1, <1>5 DEF Begin
<1>6. ASSUME NEW t \in Thread, Statement(t) PROVE ReadByOne'
  <2>1. holds' = holds
    BY <1>6 DEF Statement, Count, MaxLid, Pick, Another, Save, AddKey, AddVideo,
                AddShare, Assign, Issued
  <2>2. status' = status \/ (status = "ready" /\ status' = "get")
    BY <1>6 DEF Statement, Count, MaxLid, Pick, Another, Save, AddKey, AddVideo,
                AddShare, Assign, Issued, Refused, Select, Stores
  <2> QED
    BY <1>1, <2>1, <2>2
<1>7. ASSUME NEW t \in Thread, Free(t) PROVE ReadByOne'
  BY <1>2, <1>7 DEF Free
<1>8. ASSUME NEW t \in Thread, Check(t) \/ Fetch(t) PROVE ReadByOne'
  BY <1>1, <1>2, <1>8 DEF Check, Fetch
<1>9. ASSUME NEW t \in Thread, Copy(t) \/ CopyNull(t) \/ NoRows(t) PROVE ReadByOne'
  BY <1>1, <1>9 DEF Copy, CopyNull, NoRows
<1>10. CASE UNCHANGED vars
  BY <1>1, <1>10 DEF vars
<1> QED
  BY <1>3, <1>4, <1>5, <1>6, <1>7, <1>8, <1>9, <1>10 DEF Step, Work

\* In whichever order the calls of any number of threads come, and whatever the
\* database refuses, a result is read by one of them at most, as long as no two
\* calls overlap: the status that the library keeps is enough for calls that
\* come one after the other, and nothing in the class makes them.
THEOREM OneReaderAlways == Spec => []OneReader
<1>1. Init => OneReader
  BY DEF Init, OneReader, ReadByOne
<1>2. (TypeOK /\ OneReader) /\ [Next]_vars => (TypeOK /\ OneReader)'
  BY TypeOKNext, ReadByOneStep, Apart DEF OneReader
<1> QED
  BY <1>1, <1>2, InitTypeOK, PTL DEF Spec

-----------------------------------------------------------------------------
(* Results, and who is going to free them.                                 *)

\* calls that take the rows of a result, or free it
Freeing == {"check", "free", "fetch"}

\* a thread is at one of these calls, of a task other than generate_shares
Between(t, S) ==
  /\ Working(t) /\ op[t] # "gen_shares"
  /\ ip[t] \in 1..Len(Calls(op[t])) /\ Calls(op[t])[ip[t]] \in S

\* generate_shares frees nothing, so that it must not take another's result
SharesApart == setting.serial \/ "gen_shares" \notin setting.ops

\* a result that waits has somebody at mysql_use_result, and one that is read
\* has a reader who will come to its end
Attended ==
  /\ status = "get" => \E t \in Thread : Between(t, {"use"})
  /\ status = "use" => \E t \in Thread : holds[t]
  /\ \A t \in Thread : holds[t] => Between(t, Freeing)

\* calls are those asked for, and not two at once when they come one by one, so
\* that none overlap either
Asked ==
  /\ \A t \in Thread : Working(t) => op[t] \in setting.ops
  /\ setting.serial => \A t, u \in Thread : Working(t) /\ Working(u) => t = u
  /\ setting.serial => ~raced

\* the inductive invariant behind ReadyWhenIdle
ResultInv ==
  /\ Asked
  /\ OneReader
  /\ ~raced /\ SharesApart => Attended

\* The client library's calls of every task but generate_shares: a select is
\* followed by mysql_use_result, and that by what takes or frees the rows.
LEMMA CallsTable ==
  ASSUME NEW o \in Op \ {"gen_shares"}
  PROVE  /\ Len(Calls(o)) \in Nat
         /\ \A i \in 1..Len(Calls(o)) :
              /\ Calls(o)[i] \in {"count", "max_lid", "pick", "another"} =>
                   i + 1 \in 1..Len(Calls(o)) /\ Calls(o)[i + 1] = "use"
              /\ Calls(o)[i] \in {"use", "check"} =>
                   i + 1 \in 1..Len(Calls(o)) /\ Calls(o)[i + 1] \in Freeing
              /\ Calls(o)[i] \in {"save", "add_key"} => o = "public_key"
<1> USE DEF Freeing
<1>1. CASE o = "public_key"
  <2>1. Calls(o) = <<"count", "use", "check", "free", "save", "use", "free", "add_key",
                     "use", "free", "max_lid", "use", "fetch", "free">>
    BY <1>1 DEF Calls
  <2>2. Len(Calls(o)) = 14
    BY <2>1
  <2>3. \A i \in 1..14 : Calls(o)[i] \in {"count", "max_lid", "pick", "another"} =>
          i + 1 \in 1..14 /\ Calls(o)[i + 1] = "use"
    BY <2>1
  <2>4. ASSUME NEW i \in 1..14, Calls(o)[i] \in {"use", "check"}
        PROVE  i + 1 \in 1..14 /\ Calls(o)[i + 1] \in Freeing
    <3>1. i \in {2, 3, 6, 9, 12}
      BY <2>1, <2>4
    <3>2. /\ Calls(o)[3] = "check" /\ Calls(o)[4] = "free" /\ Calls(o)[7] = "free"
          /\ Calls(o)[10] = "free" /\ Calls(o)[13] = "fetch"
      BY <2>1
    <3>3. i + 1 \in {3, 4, 7, 10, 13}
      BY <3>1
    <3> QED
      BY <3>2, <3>3
  <2>5. \A i \in 1..14 : Calls(o)[i] \in {"use", "check"} =>
          i + 1 \in 1..14 /\ Calls(o)[i + 1] \in Freeing
    BY <2>4
  <2> HIDE DEF Freeing
  <2>6. 1..Len(Calls(o)) = 1..14 /\ Len(Calls(o)) \in Nat
    BY <2>2
  <2> QED
    BY <1>1, <2>6, <2>3, <2>5
<1>2. CASE o = "video"
  <2>1. Calls(o) = <<"add_video", "use", "free">>
    BY <1>2 DEF Calls
  <2> QED
    BY <2>1
<1>3. CASE o = "share"
  <2>1. Calls(o) = <<"pick", "use", "fetch", "assign", "use", "free">>
    BY <1>3 DEF Calls
  <2> QED
    BY <2>1
<1>4. CASE o = "ano_shares"
  <2>1. Calls(o) = <<"another", "use", "fetch", "free">>
    BY <1>4 DEF Calls
  <2> QED
    BY <2>1
<1> QED
  BY <1>1, <1>2, <1>3, <1>4 DEF Op

\* generate_shares only inserts, and asks for results it does not free.
LEMMA GenSharesCalls ==
  /\ Len(Calls("gen_shares")) \in Nat
  /\ \A i \in 1..Len(Calls("gen_shares")) : Calls("gen_shares")[i] \in {"add_share", "use"}
<1>1. Calls("gen_shares") =
        [i \in 1..(2 * NumOfShare) |-> IF i % 2 = 1 THEN "add_share" ELSE "use"]
  BY DEF Calls
<1>2. 2 * NumOfShare \in Nat
  BY DatabaseAssumption
<1> QED
  BY <1>1, <1>2

\* Where a thread is that makes a call of the client library.
LEMMA AtCall ==
  ASSUME TypeOK, NEW t \in Thread, NEW S, At(t, S)
  PROVE  /\ up /\ Working(t) /\ op[t] \in Op
         /\ ip[t] \in 1..Len(Calls(op[t])) /\ Calls(op[t])[ip[t]] \in S
         /\ op[t] # "gen_shares" => Between(t, S)
<1>1. op[t] \in Op /\ ip[t] \in Nat \ {0}
  BY DEF At, Working, TypeOK
<1>2. Len(Calls(op[t])) \in Nat
  BY <1>1, CallsTable, GenSharesCalls
<1> QED
  BY <1>1, <1>2 DEF At, Between

\* Calls that generate_shares does not make.
LEMMA NotGenShares ==
  ASSUME TypeOK, NEW t \in Thread, NEW S, At(t, S), "add_share" \notin S, "use" \notin S
  PROVE  op[t] \in Op \ {"gen_shares"} /\ Between(t, S)
  BY AtCall, GenSharesCalls

\* A thread that does nothing stays where it is, and one that makes a call
\* comes to the next.
LEMMA BetweenSame ==
  ASSUME NEW u \in Thread, op'[u] = op[u], ip'[u] = ip[u], NEW S
  PROVE  Between(u, S)' <=> Between(u, S)
  BY DEF Between, Working

LEMMA BetweenNext ==
  ASSUME TypeOK, NEW t \in Thread, NEW S, Between(t, S), Advance(t), op' = op, NEW T,
         ip[t] + 1 \in 1..Len(Calls(op[t])), Calls(op[t])[ip[t] + 1] \in T
  PROVE  Between(t, T)'
<1>1. ip'[t] = ip[t] + 1
  BY DEF Advance, GoTo, TypeOK
<1> QED
  BY <1>1 DEF Between, Working

\* A step of t that neither takes a result nor lets one go.
LEMMA AttendedOther ==
  ASSUME TypeOK, Attended, NEW t \in Thread, holds' = holds,
         \A u \in Thread \ {t} : op'[u] = op[u] /\ ip'[u] = ip[u],
         ~Between(t, {"use"}),
         holds[t] => Between(t, Freeing)',
         status' = status \/ (status' = "get" /\ Between(t, {"use"})')
  PROVE  Attended'
<1>1. \A u \in Thread \ {t} : /\ Between(u, {"use"})' <=> Between(u, {"use"})
                              /\ Between(u, Freeing)' <=> Between(u, Freeing)
  BY BetweenSame
<1>2. status' = "get" => \E u \in Thread : Between(u, {"use"})'
  BY <1>1 DEF Attended
<1>3. status' = "use" => \E u \in Thread : holds'[u]
  BY DEF Attended
<1>4. \A u \in Thread : holds'[u] => Between(u, Freeing)'
  BY <1>1 DEF Attended
<1> QED
  BY <1>2, <1>3, <1>4 DEF Attended

\* A result is let go by the thread that reads it.
LEMMA AttendedLetGo ==
  ASSUME TypeOK, ReadByOne, Attended, NEW t \in Thread, LetGo(t), Advance(t), op' = op,
         ~Between(t, {"use"})
  PROVE  Attended'
<1>0. holds \in [Thread -> BOOLEAN] /\ ip \in [Thread -> Nat \ {0}]
  BY DEF TypeOK
<1>1. CASE holds[t]
  <2>1. status' = "ready" /\ \A u \in Thread : ~holds'[u]
    BY <1>0, <1>1 DEF LetGo, ReadByOne
  <2> QED
    BY <2>1 DEF Attended
<1>2. CASE ~holds[t]
  <2>1. holds' = holds /\ status' = status
    BY <1>0, <1>2 DEF LetGo
  <2>2. \A u \in Thread \ {t} : op'[u] = op[u] /\ ip'[u] = ip[u]
    BY <1>0 DEF Advance, GoTo
  <2> QED
    BY <1>2, <2>1, <2>2, AttendedOther
<1> QED
  BY <1>1, <1>2

\* A thread that makes one call is not about to make another.
LEMMA AtApart ==
  ASSUME TypeOK, NEW t \in Thread, NEW S, At(t, S), NEW T, Between(t, T)
  PROVE  \E x \in S : x \in T
<1>1. Calls(op[t])[ip[t]] \in S
  BY AtCall
<1> QED
  BY <1>1 DEF Between

\* Every step keeps somebody at every result.
LEMMA AttendedStep ==
  ASSUME TypeOK, ReadByOne, SharesApart, Asked, Attended, [Step]_vars
  PROVE  Attended'
<1>0. /\ holds \in [Thread -> BOOLEAN] /\ ip \in [Thread -> Nat \ {0}]
      /\ op \in [Thread -> Op \cup {"idle"}] /\ fetched \in [Thread -> BOOLEAN]
  BY DEF TypeOK
<1>1. ASSUME NEW t \in Thread, Begin(t) PROVE Attended'
  <2>1. /\ ~Working(t) /\ holds' = holds /\ status' = status
        /\ \A u \in Thread \ {t} : op'[u] = op[u] /\ ip'[u] = ip[u]
    BY <1>0, <1>1 DEF Begin
  <2>2. ~Between(t, {"use"}) /\ ~Between(t, Freeing)
    BY <2>1 DEF Between
  <2>3. ~holds[t]
    BY <2>2 DEF Attended
  <2> QED
    BY <2>1, <2>2, <2>3, AttendedOther
<1>2. ASSUME NEW t \in Thread, Finish(t) PROVE Attended'
  <2>1. ~Between(t, {"use"}) /\ ~Between(t, Freeing)
    <3>1. op[t] \in Op /\ ip[t] > Len(Calls(op[t]))
      BY <1>0, <1>2 DEF Finish, Working
    <3>2. Len(Calls(op[t])) \in Nat /\ ip[t] \in Nat
      BY <1>0, <3>1, CallsTable, GenSharesCalls
    <3> QED
      BY <3>1, <3>2 DEF Between
  <2>2. ~holds[t]
    BY <2>1 DEF Attended
  <2>3. /\ holds' = holds /\ status' = status
        /\ \A u \in Thread \ {t} : op'[u] = op[u] /\ ip'[u] = ip[u]
    BY <1>0, <1>2, <2>2 DEF Finish
  <2> QED
    BY <2>1, <2>2, <2>3, AttendedOther
<1>3. ASSUME NEW t \in Thread, Count(t) \/ MaxLid(t) \/ Pick(t) \/ Another(t)
      PROVE  Attended'
  <2> DEFINE S == {"count", "max_lid", "pick", "another"}
  <2>1. At(t, S) /\ Issued(t)
    BY <1>3 DEF Count, MaxLid, Pick, Another, At
  <2>2. ~Between(t, {"use"}) /\ ~Between(t, Freeing)
    BY <2>1, AtApart DEF Freeing
  <2>3. op[t] \in Op \ {"gen_shares"} /\ Between(t, S)
    BY <2>1, NotGenShares
  <2>4. /\ holds' = holds /\ op' = op /\ Advance(t)
        /\ \A u \in Thread \ {t} : op'[u] = op[u] /\ ip'[u] = ip[u]
    BY <1>0, <2>1 DEF Issued, Advance, GoTo
  <2>5. ip[t] + 1 \in 1..Len(Calls(op[t])) /\ Calls(op[t])[ip[t] + 1] \in {"use"}
    BY <2>3, CallsTable DEF Between
  <2>6. Between(t, {"use"})'
    BY <2>3, <2>4, <2>5, BetweenNext
  <2>7. ~holds[t]
    BY <2>2 DEF Attended
  <2>8. status' = status \/ status' = "get"
    BY <1>3 DEF Count, MaxLid, Pick, Another, Refused, Select
  <2> QED
    BY <2>2, <2>4, <2>6, <2>7, <2>8, AttendedOther
<1>4. ASSUME NEW t \in Thread,
             Save(t) \/ AddKey(t) \/ AddVideo(t) \/ AddShare(t) \/ Assign(t)
      PROVE  Attended'
  <2>1. At(t, {"save", "add_key", "add_video", "add_share", "assign"})
    BY <1>4 DEF Save, AddKey, AddVideo, AddShare, Assign, At
  <2>2. ~Between(t, {"use"}) /\ ~Between(t, Freeing)
    BY <2>1, AtApart DEF Freeing
  <2>3. ~holds[t]
    BY <2>2 DEF Attended
  <2>4. /\ holds' = holds /\ op' = op /\ status' = status
        /\ \E i : ip' = [ip EXCEPT ![t] = i]
    BY <1>4 DEF Save, AddKey, AddVideo, AddShare, Assign, Issued, Refused, Stores,
                Advance, GoTo
  <2>5. \A u \in Thread \ {t} : op'[u] = op[u] /\ ip'[u] = ip[u]
    BY <1>0, <2>4
  <2> QED
    BY <2>2, <2>3, <2>4, <2>5, AttendedOther
<1>5. ASSUME NEW t \in Thread, Use(t) PROVE Attended'
  <2>1. At(t, {"use"}) /\ Advance(t) /\ op' = op
    BY <1>5 DEF Use
  <2>2. ~Between(t, Freeing)
    BY <2>1, AtApart DEF Freeing
  <2>3. ~holds[t]
    BY <2>2 DEF Attended
  <2>4. \A u \in Thread \ {t} : op'[u] = op[u] /\ ip'[u] = ip[u]
    BY <1>0, <2>1 DEF Advance, GoTo
  <2>5. CASE status = "get"
    <3>1. op[t] # "gen_shares"
      <4> SUFFICES ASSUME op[t] = "gen_shares" PROVE FALSE
        OBVIOUS
      <4>1. Working(t) /\ "gen_shares" \in setting.ops
        BY <2>1, AtCall DEF Asked
      <4>2. PICK u \in Thread : Between(u, {"use"})
        BY <2>5 DEF Attended
      <4>3. u = t
        BY <4>1, <4>2 DEF SharesApart, Asked, Between
      <4> QED
        BY <4>2, <4>3 DEF Between
    <3>2. Between(t, {"use"}) /\ op[t] \in Op \ {"gen_shares"}
      BY <2>1, <3>1, AtCall
    <3>3. ip[t] + 1 \in 1..Len(Calls(op[t])) /\ Calls(op[t])[ip[t] + 1] \in Freeing
      BY <3>2, CallsTable DEF Between
    <3>4. Between(t, Freeing)'
      BY <2>1, <3>2, <3>3, BetweenNext
    <3>5. /\ status' = "use" /\ holds'[t]
          /\ \A u \in Thread \ {t} : ~holds'[u]
      BY <1>0, <1>5, <2>5 DEF Use, ReadByOne
    <3> QED
      BY <3>4, <3>5 DEF Attended
  <2>6. CASE status # "get"
    <3>1. holds' = holds /\ status' = status
      BY <1>0, <1>5, <2>3, <2>6 DEF Use
    <3>2. \A u \in Thread : holds[u] => Between(u, Freeing)'
      BY <2>3, <2>4, BetweenSame DEF Attended
    <3> QED
      BY <2>6, <3>1, <3>2 DEF Attended
  <2> QED
    BY <2>5, <2>6
<1>6. ASSUME NEW t \in Thread, Free(t) \/ Check(t) \/ Fetch(t), LetGo(t), Advance(t)
      PROVE  Attended'
  <2>1. At(t, Freeing) /\ op' = op
    BY <1>6 DEF Free, Check, Fetch, At, Freeing
  <2>2. ~Between(t, {"use"})
    BY <2>1, AtApart DEF Freeing
  <2> QED
    BY <1>6, <2>1, <2>2, AttendedLetGo
<1>7. ASSUME NEW t \in Thread, Check(t), UNCHANGED <<holds, status>> PROVE Attended'
  <2>1. At(t, {"check"}) /\ Advance(t) /\ op' = op
    BY <1>7 DEF Check
  <2>2. op[t] \in Op \ {"gen_shares"} /\ Between(t, {"check"})
    BY <2>1, NotGenShares
  <2>3. ~Between(t, {"use"})
    BY <2>1, AtApart
  <2>4. ip[t] + 1 \in 1..Len(Calls(op[t])) /\ Calls(op[t])[ip[t] + 1] \in Freeing
    BY <2>2, CallsTable DEF Between
  <2>5. Between(t, Freeing)'
    BY <2>1, <2>2, <2>4, BetweenNext
  <2>6. \A u \in Thread \ {t} : op'[u] = op[u] /\ ip'[u] = ip[u]
    BY <1>0, <2>1 DEF Advance, GoTo
  <2> QED
    BY <1>7, <2>3, <2>5, <2>6, AttendedOther
<1>8. ASSUME UNCHANGED <<holds, status, op, ip>> PROVE Attended'
  <2>1. \A u \in Thread : /\ Between(u, {"use"})' <=> Between(u, {"use"})
                          /\ Between(u, Freeing)' <=> Between(u, Freeing)
    BY <1>8, BetweenSame
  <2> QED
    BY <1>8, <2>1 DEF Attended
<1>9. ASSUME NEW t \in Thread, Check(t) PROVE Attended'
  BY <1>6, <1>7, <1>9 DEF Check
<1>10. ASSUME NEW t \in Thread, Fetch(t) PROVE Attended'
  BY <1>6, <1>8, <1>10 DEF Fetch
<1>11. ASSUME NEW t \in Thread, Free(t) PROVE Attended'
  BY <1>6, <1>11 DEF Free
<1>12. ASSUME NEW t \in Thread, Copy(t) \/ CopyNull(t) \/ NoRows(t) PROVE Attended'
  BY <1>8, <1>12 DEF Copy, CopyNull, NoRows
<1>13. CASE UNCHANGED vars
  BY <1>8, <1>13 DEF vars
<1> QED
  BY <1>1, <1>2, <1>3, <1>4, <1>5, <1>9, <1>10, <1>11, <1>12, <1>13
     DEF Step, Work, Statement

\* What is asked of the class is settled at the start.
LEMMA AskedStep ==
  ASSUME TypeOK, Asked, [Next]_vars
  PROVE  Asked'
<1>r. CASE Race /\ setting' = setting
  <2>1. op' = op
    BY <1>r DEF Race
  <2>2. PICK t, u \in Thread : t # u /\ Working(t) /\ Working(u)
    BY <1>r DEF Race, Inside, At
  <2>3. ~setting.serial
    BY <2>2 DEF Asked
  <2> QED
    BY <1>r, <2>1, <2>3 DEF Asked, Working
<1> SUFFICES ASSUME [Step]_vars PROVE Asked'
  BY <1>r DEF Next
<1>0. op \in [Thread -> Op \cup {"idle"}] /\ setting' = setting /\ raced' = raced
  BY DEF TypeOK, Step, vars
<1>1. ASSUME \A u \in Thread : op'[u] = op[u] \/ op'[u] = "idle" PROVE Asked'
  BY <1>0, <1>1 DEF Asked, Working
<1>2. ASSUME NEW t \in Thread, Begin(t) PROVE Asked'
  <2>1. PICK o \in setting.ops : op' = [op EXCEPT ![t] = o]
    BY <1>2 DEF Begin
  <2>2. op'[t] \in setting.ops /\ \A u \in Thread \ {t} : op'[u] = op[u]
    BY <1>0, <2>1
  <2>3. setting.serial => \A u \in Thread : ~Working(u)
    BY <1>2 DEF Begin, AllIdle
  <2> QED
    BY <1>0, <2>2, <2>3 DEF Asked, Working
<1>3. ASSUME NEW t \in Thread, Finish(t) PROVE Asked'
  BY <1>0, <1>1, <1>3 DEF Finish
<1>4. ASSUME NEW t \in Thread, Statement(t) PROVE Asked'
  <2>1. op' = op
    BY <1>4 DEF Statement, Count, MaxLid, Pick, Another, Save, AddKey, AddVideo,
                AddShare, Assign, Issued
  <2> QED
    BY <1>1, <2>1
<1>5. ASSUME NEW t \in Thread,
             Use(t) \/ Free(t) \/ Check(t) \/ Fetch(t) \/ Copy(t) \/ CopyNull(t) \/ NoRows(t)
      PROVE  Asked'
  <2>1. op' = op
    BY <1>5 DEF Use, Free, Check, Fetch, Copy, CopyNull, NoRows
  <2> QED
    BY <1>1, <2>1
<1>6. CASE UNCHANGED vars
  BY <1>1, <1>6 DEF vars
<1> QED
  BY <1>2, <1>3, <1>4, <1>5, <1>6 DEF Step, Work

\* No result is under way at first.
LEMMA InitResultInv == Init => ResultInv
  BY DEF Init, OneReader, ReadByOne, ResultInv, Asked, Attended, Working

\* Every step keeps the inductive invariant of results.
LEMMA ResultStep == TypeOK /\ ResultInv /\ [Next]_vars => ResultInv'
<1> SUFFICES ASSUME TypeOK, ResultInv, [Next]_vars PROVE ResultInv'
  OBVIOUS
<1>1. Asked'
  BY AskedStep DEF ResultInv
<1> SUFFICES ASSUME ~raced' PROVE ReadByOne' /\ (SharesApart' => Attended')
  BY <1>1 DEF ResultInv, OneReader
<1>2. [Step]_vars /\ Asked /\ ReadByOne /\ (SharesApart => Attended)
  BY Apart DEF ResultInv, OneReader
<1>3. SharesApart' => SharesApart
  BY <1>2 DEF Step, vars, SharesApart
<1> QED
  BY <1>2, <1>3, ReadByOneStep, AttendedStep

\* Unless generate_shares may run beside other calls, and while no two calls
\* overlap: whatever is refused and in whichever order calls come, the connection
\* is usable when nobody uses it.
THEOREM ReadyAlways ==
  ASSUME \A s \in Settings : s.serial \/ "gen_shares" \notin s.ops
  PROVE  Spec => []ReadyWhenIdle
<1>1. Init => TypeOK /\ ResultInv
  BY InitTypeOK, InitResultInv
<1>2. (TypeOK /\ ResultInv) /\ [Next]_vars => (TypeOK /\ ResultInv)'
  BY TypeOKNext, ResultStep
<1>3. TypeOK /\ ResultInv => ReadyWhenIdle
  <2> SUFFICES ASSUME TypeOK, ResultInv, AllIdle, ~raced PROVE status = "ready"
    BY DEF ReadyWhenIdle
  <2>1. Attended
    BY DEF TypeOK, ResultInv, SharesApart
  <2>2. \A t \in Thread : \A S : ~Between(t, S)
    BY DEF AllIdle, Between
  <2>3. status # "get" /\ \A t \in Thread : ~holds[t]
    BY <2>1, <2>2 DEF Attended
  <2>4. status # "use"
    BY <2>1, <2>3 DEF Attended
  <2> QED
    BY <2>3, <2>4 DEF TypeOK
<1> QED
  BY <1>1, <1>2, <1>3, PTL DEF Spec

-----------------------------------------------------------------------------
(* Registering a logger.                                                   *)

Lid1 == [kind |-> "lid", n |-> 1]
Rows(n) == {[kind |-> "count", n |-> n]}

\* what Loggers holds between two registrations
Registered == loggers = <<>> \/ (Len(loggers) = 1 /\ loggers[1] \in keys)

\* where insert_pk_database has come to
Registering(t) ==
  /\ ip[t] \in 1..15
  /\ ip[t] \in 1..5 => Registered
  /\ ip[t] \in 6..15 => loggers = <<job[t]>>
  /\ ip[t] \in 9..15 => job[t] \in keys
  /\ status = IF ip[t] \in {2, 12} THEN "get"
              ELSE IF ip[t] \in {3, 4, 13} THEN "use" ELSE "ready"
  /\ IF ip[t] \in {3, 4, 13} THEN holds[t] ELSE ~holds[t]
  /\ ip[t] \in {2, 3} => rows = Rows(Len(loggers))
  /\ ip[t] \in {4, 5} => lid[t] = Len(loggers)
  /\ ip[t] = 12 => rows = {Lid1}
  /\ ip[t] \in 1..12 => val[t] = {}
  /\ ip[t] = 13 => \/ ~fetched[t] /\ rows = {Lid1} /\ val[t] = {}
                   \/ fetched[t] /\ rows = {} /\ row = Lid1 /\ val[t] = {}
                   \/ ~fetched[t] /\ rows = {} /\ val[t] = {Lid1}
  /\ ip[t] \in {14, 15} => val[t] = {Lid1}
  /\ ip[t] # 13 => ~fetched[t]

\* the inductive invariant behind KeyRegistered
KeyInv ==
  /\ \A t \in Thread : fetched[t] => Between(t, {"fetch"})
  /\ Undisturbed =>
       /\ \A a \in answers : a.op = "public_key" =>
            a.val = {Lid1} /\ a.job \in keys
       /\ \A t \in Thread : op[t] = "public_key" => Registering(t)
       /\ (\A t \in Thread : op[t] # "public_key") => Registered

\* The calls of insert_pk_database.
LEMMA PublicKeyCalls ==
  /\ Len(Calls("public_key")) = 14
  /\ \A i \in 1..14 :
       /\ Calls("public_key")[i] = "count"   => i = 1
       /\ Calls("public_key")[i] = "use"     => i \in {2, 6, 9, 12}
       /\ Calls("public_key")[i] = "check"   => i = 3
       /\ Calls("public_key")[i] = "free"    => i \in {4, 7, 10, 14}
       /\ Calls("public_key")[i] = "save"    => i = 5
       /\ Calls("public_key")[i] = "add_key" => i = 8
       /\ Calls("public_key")[i] = "max_lid" => i = 11
       /\ Calls("public_key")[i] = "fetch"   => i = 13
       /\ Calls("public_key")[i] \in {"count", "use", "check", "free", "save",
                                      "add_key", "max_lid", "fetch"}
<1>1. Calls("public_key") =
        <<"count", "use", "check", "free", "save", "use", "free", "add_key",
          "use", "free", "max_lid", "use", "fetch", "free">>
  BY DEF Calls
<1> QED
  BY <1>1

\* A registration that makes a call is at that call's place.
LEMMA RegisteringAt ==
  ASSUME TypeOK, NEW t \in Thread, op[t] = "public_key", NEW S, At(t, S)
  PROVE  /\ ip[t] \in 1..14
         /\ Calls("public_key")[ip[t]] \in S
  BY AtCall, PublicKeyCalls

\* A row that was fetched is used before anything else is done.
LEMMA FetchedStep ==
  ASSUME TypeOK, [Next]_vars, \A t \in Thread : fetched[t] => Between(t, {"fetch"})
  PROVE  \A t \in Thread : fetched'[t] => Between(t, {"fetch"})'
<1>0. /\ ip \in [Thread -> Nat \ {0}] /\ op \in [Thread -> Op \cup {"idle"}]
      /\ fetched \in [Thread -> BOOLEAN]
  BY DEF TypeOK
<1> SUFFICES ASSUME NEW u \in Thread, fetched'[u] PROVE Between(u, {"fetch"})'
  OBVIOUS
<1>r. CASE Race
  <2>1. UNCHANGED <<op, ip, fetched>>
    BY <1>r DEF Race
  <2> QED
    BY <2>1, BetweenSame
<1> SUFFICES ASSUME [Step]_vars PROVE Between(u, {"fetch"})'
  BY <1>r DEF Next
<1>1. ASSUME NEW t \in Thread, ~Between(t, {"fetch"}), fetched' = fetched,
             \A v \in Thread \ {t} : op'[v] = op[v] /\ ip'[v] = ip[v]
      PROVE  Between(u, {"fetch"})'
  BY <1>1, BetweenSame
<1>2. ASSUME UNCHANGED <<op, ip>>, fetched[u] PROVE Between(u, {"fetch"})'
  BY <1>2, BetweenSame
<1>3. ASSUME NEW t \in Thread, Begin(t) PROVE Between(u, {"fetch"})'
  <2>1. ~Between(t, {"fetch"})
    BY <1>3 DEF Begin, Between
  <2>2. fetched' = fetched /\ \A v \in Thread \ {t} : op'[v] = op[v] /\ ip'[v] = ip[v]
    BY <1>0, <1>3 DEF Begin
  <2> QED
    BY <1>1, <2>1, <2>2
<1>4. ASSUME NEW t \in Thread, Finish(t) PROVE Between(u, {"fetch"})'
  <2>1. ~Between(t, {"fetch"})
    <3>1. op[t] \in Op /\ ip[t] > Len(Calls(op[t]))
      BY <1>0, <1>4 DEF Finish, Working
    <3>2. Len(Calls(op[t])) \in Nat /\ ip[t] \in Nat
      BY <1>0, <3>1, CallsTable, GenSharesCalls
    <3> QED
      BY <3>1, <3>2 DEF Between
  <2>2. fetched' = fetched /\ \A v \in Thread \ {t} : op'[v] = op[v] /\ ip'[v] = ip[v]
    BY <1>0, <1>4 DEF Finish
  <2> QED
    BY <1>1, <2>1, <2>2
<1>5. ASSUME NEW t \in Thread, Statement(t) \/ Use(t) \/ Free(t) \/ Check(t)
      PROVE  Between(u, {"fetch"})'
  <2>1. At(t, {"count", "max_lid", "pick", "another", "save", "add_key", "add_video",
               "add_share", "assign", "use", "free", "check"})
    BY <1>5 DEF Statement, Count, MaxLid, Pick, Another, Save, AddKey, AddVideo,
                AddShare, Assign, Use, Free, Check, At
  <2>2. ~Between(t, {"fetch"})
    BY <2>1, AtApart
  <2>3. fetched' = fetched /\ op' = op /\ \E i : ip' = [ip EXCEPT ![t] = i]
    BY <1>5 DEF Statement, Count, MaxLid, Pick, Another, Save, AddKey, AddVideo,
                AddShare, Assign, Use, Free, Check, Issued, Advance, GoTo
  <2>4. \A v \in Thread \ {t} : op'[v] = op[v] /\ ip'[v] = ip[v]
    BY <1>0, <2>3
  <2> QED
    BY <1>1, <2>2, <2>3, <2>4
<1>6. ASSUME NEW t \in Thread, Fetch(t) PROVE Between(u, {"fetch"})'
  <2>1. Between(t, {"fetch"}) /\ ~fetched[t] /\ op' = op
    BY <1>6, NotGenShares DEF Fetch
  <2>2. CASE Advance(t) /\ UNCHANGED fetched
    <3>1. u # t /\ ip'[u] = ip[u]
      BY <1>0, <2>1, <2>2 DEF Advance, GoTo
    <3> QED
      BY <2>1, <2>2, <3>1, BetweenSame
  <2>3. CASE UNCHANGED ip /\ fetched' = [fetched EXCEPT ![t] = TRUE]
    <3>1. u = t \/ fetched[u]
      BY <1>0, <2>3
    <3> QED
      BY <2>1, <2>3, <3>1, BetweenSame
  <2> QED
    BY <1>6, <2>2, <2>3 DEF Fetch
<1>7. ASSUME NEW t \in Thread, Copy(t) \/ CopyNull(t) \/ NoRows(t) PROVE Between(u, {"fetch"})'
  <2>1. fetched[u] /\ UNCHANGED <<op, ip>>
    BY <1>0, <1>7 DEF Copy, CopyNull, NoRows
  <2> QED
    BY <1>2, <2>1
<1>8. CASE UNCHANGED vars
  BY <1>2, <1>8 DEF vars
<1> QED
  BY <1>3, <1>4, <1>5, <1>6, <1>7, <1>8 DEF Step, Work

\* insert_pk_database alone, and refused nothing, comes to its next call.
LEMMA RegisteringStep ==
  ASSUME TypeOK, ~setting.faults, NEW t \in Thread, op[t] = "public_key",
         Registering(t),
         Statement(t) \/ Use(t) \/ Free(t) \/ Check(t) \/ Fetch(t) \/ Copy(t) \/ CopyNull(t) \/ NoRows(t)
  PROVE  Registering(t)' /\ op' = op /\ answers' = answers /\ keys \subseteq keys'
<1> DEFINE i == ip[t]
<1>0. /\ ip \in [Thread -> Nat \ {0}] /\ holds \in [Thread -> BOOLEAN]
      /\ fetched \in [Thread -> BOOLEAN] /\ lid \in [Thread -> Nat]
      /\ val \in [Thread -> SUBSET Row] /\ job \in [Thread -> 0..MaxJobs]
      /\ loggers \in Seq(0..MaxJobs) /\ Len(loggers) \in Nat
  BY DEF TypeOK
<1>1. CASE Count(t)
  <2>1. ip[t] = 1
    BY <1>1, RegisteringAt, PublicKeyCalls DEF Count
  <2>2. /\ ip'[t] = 2 /\ status' = "get" /\ rows' = Rows(Len(loggers))
        /\ UNCHANGED <<tables, op, job, holds, fetched, lid, val, answers>>
    BY <1>0, <1>1, <2>1 DEF Count, Refused, Select, Issued, Advance, GoTo, Registering, Rows
  <2> QED
    BY <2>1, <2>2 DEF Registering, Registered, tables
<1>2. CASE MaxLid(t)
  <2>1. ip[t] = 11
    BY <1>2, RegisteringAt, PublicKeyCalls DEF MaxLid
  <2>2. loggers # <<>>
    <3>1. loggers = <<job[t]>>
      BY <2>1 DEF Registering
    <3> QED
      BY <3>1
  <2>3. /\ ip'[t] = 12 /\ status' = "get" /\ rows' = {Lid1}
        /\ UNCHANGED <<tables, op, job, holds, fetched, lid, val, answers>>
    BY <1>0, <1>2, <2>1, <2>2 DEF MaxLid, Refused, Select, Issued, Advance, GoTo, Registering, Lid1
  <2> QED
    BY <2>1, <2>3 DEF Registering, Registered, tables
<1>3. CASE Pick(t) \/ Another(t) \/ AddVideo(t) \/ AddShare(t) \/ Assign(t)
  <2>1. At(t, {"pick", "another", "add_video", "add_share", "assign"})
    BY <1>3 DEF Pick, Another, AddVideo, AddShare, Assign, At
  <2> QED
    BY <2>1, RegisteringAt, PublicKeyCalls
<1>4. CASE Save(t)
  <2>1. ip[t] = 5
    BY <1>4, RegisteringAt, PublicKeyCalls DEF Save
  <2>2. /\ lid[t] = Len(loggers) /\ status = "ready"
        /\ loggers = <<>> \/ Len(loggers) = 1
    BY <2>1 DEF Registering, Registered
  <2>3. lid[t] \in {0, 1} /\ (lid[t] = 0 <=> loggers = <<>>)
    BY <1>0, <2>2
  <2>4. /\ loggers' = IF lid[t] = 0 THEN Append(loggers, job[t])
                                    ELSE [k \in 1..Len(loggers) |-> job[t]]
        /\ UNCHANGED <<keys, status, rows>> /\ Issued(t)
    BY <1>4, <2>2, <2>3 DEF Save, Refused, Stores, tables
  <2>5. loggers' = <<job[t]>>
    <3>1. CASE lid[t] = 0
      BY <1>0, <2>3, <2>4, <3>1
    <3>2. CASE lid[t] = 1
      <4>1. loggers' = [k \in 1..1 |-> job[t]]
        BY <2>2, <2>4, <3>2
      <4> QED
        BY <4>1
    <3> QED
      BY <2>3, <3>1, <3>2
  <2>6. /\ ip'[t] = 6
        /\ UNCHANGED <<op, job, holds, fetched, lid, val, answers>>
    BY <1>0, <2>1, <2>4 DEF Issued, Advance, GoTo
  <2>7. val[t] = {} /\ ~fetched[t] /\ ~holds[t]
    BY <2>1 DEF Registering
  <2>8. /\ ip'[t] = 6 /\ loggers' = <<job'[t]>> /\ status' = "ready"
        /\ val'[t] = {} /\ ~fetched'[t] /\ ~holds'[t]
    BY <2>2, <2>4, <2>5, <2>6, <2>7
  <2>9. op' = op /\ answers' = answers /\ keys \subseteq keys'
    BY <2>4, <2>6
  <2>10. Registering(t)'
    BY <2>8 DEF Registering
  <2> QED
    BY <2>9, <2>10
<1>5. CASE AddKey(t)
  <2>1. ip[t] = 8
    BY <1>5, RegisteringAt, PublicKeyCalls DEF AddKey
  <2>2. /\ ip'[t] = 9 /\ keys' = keys \cup {job[t]}
        /\ UNCHANGED <<loggers, status, rows, op, job, holds, fetched, lid, val, answers>>
    BY <1>0, <1>5, <2>1 DEF AddKey, Refused, Stores, Issued, Advance, GoTo, Registering
  <2> QED
    BY <2>1, <2>2 DEF Registering
<1>6. CASE Use(t)
  <2>1. ip[t] \in {2, 6, 9, 12}
    BY <1>6, RegisteringAt, PublicKeyCalls DEF Use
  <2>2. /\ ip'[t] = ip[t] + 1
        /\ status = "get" => holds'[t] /\ status' = "use"
        /\ status # "get" => ~holds'[t] /\ status' = status
        /\ UNCHANGED <<tables, rows, op, job, fetched, lid, val, answers>>
    BY <1>0, <1>6 DEF Use, Advance, GoTo
  <2>3. CASE ip[t] = 2
    <3>1. status = "get"
      BY <2>3 DEF Registering
    <3> QED
      BY <2>2, <2>3, <3>1 DEF Registering, Registered, tables
  <2>4. CASE ip[t] \in {6, 9}
    <3>1. status = "ready"
      BY <2>4 DEF Registering
    <3> QED
      BY <2>2, <2>4, <3>1 DEF Registering, Registered, tables
  <2>5. CASE ip[t] = 12
    <3>1. status = "get"
      BY <2>5 DEF Registering
    <3> QED
      BY <2>2, <2>5, <3>1 DEF Registering, Registered, tables
  <2> QED
    BY <2>1, <2>3, <2>4, <2>5
<1>7. CASE Free(t)
  <2>1. ip[t] \in {4, 7, 10, 14}
    BY <1>7, RegisteringAt, PublicKeyCalls DEF Free
  <2>2. /\ ip'[t] = ip[t] + 1 /\ ~holds'[t] /\ status' = "ready"
        /\ UNCHANGED <<tables, op, job, fetched, lid, val, answers>>
    BY <1>0, <1>7, <2>1 DEF Free, LetGo, Advance, GoTo, Registering
  <2>3. CASE ip[t] = 4
    BY <2>2, <2>3 DEF Registering, Registered, tables
  <2>4. CASE ip[t] \in {7, 10}
    BY <2>2, <2>4 DEF Registering, Registered, tables
  <2>5. CASE ip[t] = 14
    BY <2>2, <2>5 DEF Registering, Registered, tables
  <2> QED
    BY <2>1, <2>3, <2>4, <2>5
<1>8. CASE Check(t)
  <2>1. ip[t] = 3
    BY <1>8, RegisteringAt, PublicKeyCalls DEF Check
  <2>2. holds[t] /\ rows = Rows(Len(loggers)) /\ status = "use"
    BY <2>1 DEF Registering
  <2>3. /\ ip'[t] = 4 /\ UNCHANGED <<holds, status>>
        /\ UNCHANGED <<tables, op, job, fetched, val, answers>>
        /\ \E k \in 0..2 : lid' = [lid EXCEPT ![t] = Len(loggers)]
    BY <1>0, <1>8, <2>1, <2>2 DEF Check, Advance, GoTo, Rows
  <2>4. lid'[t] = Len(loggers)
    BY <1>0, <2>3
  <2> QED
    BY <2>1, <2>2, <2>3, <2>4 DEF Registering, Registered, tables
<1>9. CASE Fetch(t)
  <2>1. ip[t] = 13 /\ holds[t] /\ status = "use" /\ ~fetched[t]
    BY <1>9, RegisteringAt, PublicKeyCalls DEF Fetch, Registering
  <2>2. CASE rows = {}
    <3>1. val[t] = {Lid1}
      BY <2>1, <2>2 DEF Registering
    <3>2. /\ ip'[t] = 14 /\ ~holds'[t] /\ status' = "ready"
          /\ UNCHANGED <<tables, op, job, fetched, lid, val, answers>>
      BY <1>0, <1>9, <2>1, <2>2 DEF Fetch, LetGo, Advance, GoTo
    <3> QED
      BY <2>1, <3>1, <3>2 DEF Registering, tables
  <2>3. CASE rows # {}
    <3>1. rows = {Lid1} /\ val[t] = {}
      BY <2>1, <2>3 DEF Registering
    <3>2. /\ row' = Lid1 /\ rows' = {} /\ fetched'[t]
          /\ UNCHANGED <<holds, status, ip, tables, op, job, lid, val, answers>>
      BY <1>0, <1>9, <2>1, <2>3, <3>1 DEF Fetch
    <3> QED
      BY <2>1, <3>1, <3>2 DEF Registering, tables
  <2> QED
    BY <2>2, <2>3
<1>10. CASE Copy(t)
  <2>1. ip[t] = 13 /\ fetched[t]
    BY <1>10, RegisteringAt, PublicKeyCalls DEF Copy
  <2>2. rows = {} /\ row = Lid1
    BY <2>1 DEF Registering
  <2>3. /\ ~fetched'[t] /\ val'[t] = {Lid1}
        /\ UNCHANGED <<holds, status, rows, ip, tables, op, job, lid, answers>>
    BY <1>0, <1>10, <2>1, <2>2 DEF Copy
  <2> QED
    BY <2>1, <2>2, <2>3 DEF Registering, tables
<1>11. CASE CopyNull(t) \/ NoRows(t)
  BY <1>11 DEF CopyNull, NoRows, Registering, Registered, tables
<1> QED
  BY <1>1, <1>2, <1>3, <1>4, <1>5, <1>6, <1>7, <1>8, <1>9, <1>10, <1>11 DEF Statement

\* What a call of the client library means to Loggers and Public_keys when it
\* is not insert_pk_database that makes it.
LEMMA OtherStep ==
  ASSUME TypeOK, NEW t \in Thread, op[t] # "public_key",
         Statement(t) \/ Use(t) \/ Free(t) \/ Check(t) \/ Fetch(t) \/ Copy(t) \/ CopyNull(t) \/ NoRows(t)
  PROVE  UNCHANGED <<loggers, keys, op, answers>>
<1>1. ~At(t, {"save"}) /\ ~At(t, {"add_key"})
  <2>1. ASSUME NEW x \in {"save", "add_key"}, At(t, {x}) PROVE FALSE
    <3>1. op[t] \in Op \ {"gen_shares"} /\ Between(t, {x})
      BY <2>1, NotGenShares
    <3> QED
      BY <3>1, CallsTable DEF Between
  <2> QED
    BY <2>1
<1>2. ~Save(t) /\ ~AddKey(t)
  BY <1>1 DEF Save, AddKey
<1>3. CASE Count(t) \/ MaxLid(t) \/ Pick(t) \/ Another(t) \/ AddVideo(t) \/ AddShare(t)
           \/ Assign(t)
  BY <1>3 DEF Count, MaxLid, Pick, Another, AddVideo, AddShare, Assign, Refused, Select,
              Stores, Issued, tables
<1>4. CASE Use(t) \/ Free(t) \/ Check(t) \/ Fetch(t) \/ Copy(t) \/ CopyNull(t) \/ NoRows(t)
  BY <1>4 DEF Use, Free, Check, Fetch, Copy, CopyNull, NoRows, tables
<1> QED
  BY <1>2, <1>3, <1>4 DEF Statement

\* Every step keeps the inductive invariant of registrations.
LEMMA KeyStep == TypeOK /\ ResultInv /\ KeyInv /\ [Next]_vars => KeyInv'
<1> SUFFICES ASSUME TypeOK, ResultInv, KeyInv, [Next]_vars PROVE KeyInv'
  OBVIOUS
<1> DEFINE Answered == \A a \in answers : a.op = "public_key" =>
                         a.val = {Lid1} /\ a.job \in keys
           Kept == (\A t \in Thread : op[t] # "public_key") => Registered
<1>0. /\ op \in [Thread -> Op \cup {"idle"}] /\ ip \in [Thread -> Nat \ {0}]
      /\ holds \in [Thread -> BOOLEAN] /\ job \in [Thread -> 0..MaxJobs]
      /\ val \in [Thread -> SUBSET Row] /\ setting' = setting
  BY DEF TypeOK, Next, Step, vars
<1>1. \A t \in Thread : fetched'[t] => Between(t, {"fetch"})'
  BY FetchedStep DEF KeyInv
<1> SUFFICES ASSUME Undisturbed
             PROVE  /\ Answered'
                    /\ \A t \in Thread : op'[t] = "public_key" => Registering(t)'
                    /\ Kept'
  BY <1>0, <1>1 DEF KeyInv, Undisturbed
<1>s. [Step]_vars
  <2>1. Asked'
    BY AskedStep DEF ResultInv
  <2> QED
    BY <1>0, <2>1, Apart DEF Undisturbed, Asked
<1>2. /\ Answered /\ Kept /\ Attended /\ ~setting.faults
      /\ \A t \in Thread : op[t] = "public_key" => Registering(t)
      /\ \A t, u \in Thread : Working(t) /\ Working(u) => t = u
      /\ \A t \in Thread : fetched[t] => Between(t, {"fetch"})
  BY DEF KeyInv, Undisturbed, ResultInv, SharesApart, Asked
<1>3. ASSUME NEW t \in Thread, Begin(t) PROVE Answered' /\ Kept'
                    /\ \A u \in Thread : op'[u] = "public_key" => Registering(u)'
  <2>1. /\ \A u \in Thread : ~Working(u)
        /\ UNCHANGED <<status, tables, holds, fetched, answers>>
    BY <1>3 DEF Begin, AllIdle, Undisturbed
  <2>2. Registered
    BY <1>2, <2>1 DEF Working
  <2>3. status = "ready" /\ ~holds[t] /\ ~fetched[t]
    <3>1. \A u \in Thread : \A S : ~Between(u, S)
      BY <2>1 DEF Between
    <3> QED
      BY <1>2, <3>1 DEF Attended, TypeOK
  <2>4. /\ ip'[t] = 1 /\ val'[t] = {}
        /\ \A u \in Thread \ {t} : op'[u] = op[u]
    BY <1>0, <1>3 DEF Begin
  <2>5. Registered'
    BY <2>1, <2>2 DEF Registered, tables
  <2>6. Registering(t)'
    BY <2>1, <2>3, <2>4, <2>5 DEF Registering
  <2>7. \A u \in Thread \ {t} : op'[u] # "public_key"
    BY <2>1, <2>4 DEF Working
  <2> QED
    BY <1>2, <2>1, <2>5, <2>6, <2>7 DEF tables
<1>4. ASSUME NEW t \in Thread, Finish(t) PROVE Answered' /\ Kept'
                    /\ \A u \in Thread : op'[u] = "public_key" => Registering(u)'
  <2>1. /\ Working(t) /\ UNCHANGED <<tables>>
        /\ answers' = answers \cup {[op |-> op[t], job |-> job[t], val |-> val[t]]}
        /\ op'[t] = "idle" /\ \A u \in Thread \ {t} : op'[u] = op[u]
        /\ ip[t] > Len(Calls(op[t]))
    BY <1>0, <1>4 DEF Finish
  <2>2. \A u \in Thread : op'[u] # "public_key"
    BY <1>2, <2>1 DEF Working
  <2>3. CASE op[t] = "public_key"
    <3>1. Registering(t) /\ ip[t] = 15
      <4>1. Registering(t)
        BY <1>2, <2>3
      <4>2. Len(Calls(op[t])) = 14
        BY <2>3, PublicKeyCalls
      <4>3. ip[t] > 14
        BY <2>1, <4>2
      <4>4. ip[t] \in 1..15
        BY <4>1 DEF Registering
      <4> QED
        BY <4>1, <4>3, <4>4
    <3>2. loggers = <<job[t]>> /\ job[t] \in keys /\ val[t] = {Lid1}
      BY <3>1 DEF Registering
    <3>3. Registered'
      <4>1. Len(loggers) = 1 /\ loggers[1] \in keys
        BY <3>2
      <4> QED
        BY <2>1, <4>1 DEF Registered, tables
    <3>4. Answered'
      BY <1>2, <2>1, <3>2 DEF tables
    <3> QED
      BY <2>2, <3>3, <3>4
  <2>4. CASE op[t] # "public_key"
    <3>1. \A u \in Thread : op[u] # "public_key"
      BY <2>1, <2>2, <2>4
    <3>2. Registered'
      BY <1>2, <2>1, <3>1 DEF Registered, tables
    <3>3. Answered'
      BY <1>2, <2>1, <2>4 DEF tables
    <3> QED
      BY <2>2, <3>2, <3>3
  <2> QED
    BY <2>3, <2>4
<1>5. ASSUME NEW t \in Thread,
             Statement(t) \/ Use(t) \/ Free(t) \/ Check(t) \/ Fetch(t) \/ Copy(t) \/ CopyNull(t) \/ NoRows(t)
      PROVE  Answered' /\ Kept'
                    /\ \A u \in Thread : op'[u] = "public_key" => Registering(u)'
  <2>0. Working(t)
    BY <1>5 DEF Statement, Count, MaxLid, Pick, Another, Save, AddKey, AddVideo, AddShare,
                Assign, Use, Free, Check, Fetch, Copy, CopyNull, NoRows, At
  <2>1. \A u \in Thread \ {t} : ~Working(u)
    BY <1>2, <2>0
  <2>2. CASE op[t] = "public_key"
    <3>1. Registering(t)' /\ op' = op /\ answers' = answers /\ keys \subseteq keys'
      BY <1>2, <1>5, <2>2, RegisteringStep
    <3>2. \A u \in Thread \ {t} : op'[u] # "public_key"
      BY <2>1, <3>1 DEF Working
    <3> QED
      BY <1>2, <2>2, <3>1, <3>2
  <2>3. CASE op[t] # "public_key"
    <3>1. UNCHANGED <<loggers, keys, op, answers>>
      BY <1>5, <2>3, OtherStep
    <3>2. \A u \in Thread : op[u] # "public_key"
      BY <2>1, <2>3 DEF Working
    <3>3. Registered'
      BY <1>2, <3>1, <3>2 DEF Registered
    <3> QED
      BY <1>2, <3>1, <3>2, <3>3
  <2> QED
    BY <2>2, <2>3
<1>6. CASE UNCHANGED vars
  <2>1. \A u \in Thread : Registering(u)' <=> Registering(u)
    BY <1>6 DEF vars, tables, Registering, Registered
  <2> QED
    BY <1>2, <1>6, <2>1 DEF vars, tables, Registered
<1> QED
  BY <1>s, <1>3, <1>4, <1>5, <1>6 DEF Step, Work

\* With either content of the tables, a logger that is there has its key there.
LEMMA InitKeyInv == Init => KeyInv
<1> SUFFICES ASSUME Init PROVE KeyInv
  OBVIOUS
<1>1. /\ \A t \in Thread : op[t] = "idle" /\ ~fetched[t]
      /\ answers = {}
  BY DEF Init
<1>2. Registered
  <2>1. CASE loggers = <<>>
    BY <2>1 DEF Registered
  <2>2. CASE loggers = <<0>> /\ keys = {0}
    BY <2>2 DEF Registered
  <2> QED
    BY <2>1, <2>2 DEF Init
<1> QED
  BY <1>1, <1>2 DEF KeyInv

\* Calls that come one after the other, of a database that refuses nothing: a
\* logger that was told its LID has its key in Public_keys and the one row of
\* Loggers, whatever other calls come between registrations.
THEOREM KeysRegistered == Spec => []KeyRegistered
<1>1. Init => TypeOK /\ ResultInv /\ KeyInv
  BY InitTypeOK, InitResultInv, InitKeyInv
<1>2. (TypeOK /\ ResultInv /\ KeyInv) /\ [Next]_vars
        => (TypeOK /\ ResultInv /\ KeyInv)'
  BY TypeOKNext, ResultStep, KeyStep
<1>3. KeyInv => KeyRegistered
  <2> SUFFICES ASSUME KeyInv, Undisturbed
               PROVE  /\ \A a \in answers : a.op = "public_key" =>
                           a.val = {[kind |-> "lid", n |-> 1]} /\ a.job \in keys
                      /\ AllIdle /\ loggers # <<>> => Len(loggers) = 1 /\ loggers[1] \in keys
    BY DEF KeyRegistered
  <2>1. /\ \A a \in answers : a.op = "public_key" => a.val = {Lid1} /\ a.job \in keys
        /\ (\A t \in Thread : op[t] # "public_key") => Registered
    BY DEF KeyInv
  <2>2. AllIdle => Registered
    BY <2>1 DEF AllIdle, Working
  <2> QED
    BY <2>1, <2>2 DEF Registered, Lid1
<1> QED
  BY <1>1, <1>2, <1>3, PTL DEF Spec

-----------------------------------------------------------------------------
(* insert_pk_database implements Registration.                             *)

\* When only one call can be a registration, it is that one's key.
LEMMA KeysOfOne ==
  ASSUME NEW t \in Thread, NEW P
  PROVE  /\ (\A u \in Thread \ {t} : op[u] # "public_key") =>
              KeysOf(P) = IF op[t] = "public_key" /\ ip[t] \in P THEN {job[t]} ELSE {}
         /\ (\A u \in Thread \ {t} : op'[u] # "public_key") =>
              KeysOf(P)' = IF op'[t] = "public_key" /\ ip'[t] \in P THEN {job'[t]} ELSE {}
<1> DEFINE U == {u \in Thread : op[u] = "public_key" /\ ip[u] \in P}
           V == {u \in Thread : op'[u] = "public_key" /\ ip'[u] \in P}
<1>1. ASSUME \A u \in Thread \ {t} : op[u] # "public_key"
      PROVE  KeysOf(P) = IF op[t] = "public_key" /\ ip[t] \in P THEN {job[t]} ELSE {}
  <2>1. U = IF op[t] = "public_key" /\ ip[t] \in P THEN {t} ELSE {}
    BY <1>1
  <2>2. KeysOf(P) = {job[u] : u \in U}
    BY DEF KeysOf
  <2> HIDE DEF U
  <2> QED BY <2>1, <2>2
<1>2. ASSUME \A u \in Thread \ {t} : op'[u] # "public_key"
      PROVE  KeysOf(P)' = IF op'[t] = "public_key" /\ ip'[t] \in P THEN {job'[t]} ELSE {}
  <2>1. V = IF op'[t] = "public_key" /\ ip'[t] \in P THEN {t} ELSE {}
    BY <1>2
  <2>2. KeysOf(P)' = {job'[u] : u \in V}
    BY DEF KeysOf
  <2> HIDE DEF V
  <2> QED BY <2>1, <2>2
<1> QED BY <1>1, <1>2

\* Of the calls of insert_pk_database two change Loggers and Public_keys: the
\* fifth and the eighth.
LEMMA RegisteringMoves ==
  ASSUME TypeOK, ~setting.faults, NEW t \in Thread, op[t] = "public_key",
         Registering(t),
         Statement(t) \/ Use(t) \/ Free(t) \/ Check(t) \/ Fetch(t) \/ Copy(t) \/ CopyNull(t) \/ NoRows(t)
  PROVE  /\ UNCHANGED <<op, job, answers>>
         /\ \/ /\ UNCHANGED <<loggers, keys>>
               /\ ip'[t] \in Saved <=> ip[t] \in Saved
               /\ ip'[t] \in Unanswered <=> ip[t] \in Unanswered
            \/ ip[t] = 5 /\ ip'[t] = 6 /\ loggers' = <<job[t]>> /\ UNCHANGED keys
            \/ ip[t] = 8 /\ ip'[t] = 9 /\ keys' = keys \cup {job[t]} /\ UNCHANGED loggers
<1>0. ip \in [Thread -> Nat \ {0}] /\ loggers \in Seq(0..MaxJobs) /\ Len(loggers) \in Nat
  BY DEF TypeOK
<1>1. CASE Count(t) \/ MaxLid(t)
  <2>1. ip[t] \in {1, 11}
    BY <1>1, RegisteringAt, PublicKeyCalls DEF Count, MaxLid
  <2>2. ip'[t] = ip[t] + 1 /\ UNCHANGED <<op, job, answers, loggers, keys>>
    BY <1>0, <1>1 DEF Count, MaxLid, Refused, Select, Issued, Advance, GoTo, tables
  <2> QED BY <2>1, <2>2 DEF Saved, Unanswered
<1>2. CASE Pick(t) \/ Another(t) \/ AddVideo(t) \/ AddShare(t) \/ Assign(t)
  <2>1. At(t, {"pick", "another", "add_video", "add_share", "assign"})
    BY <1>2 DEF Pick, Another, AddVideo, AddShare, Assign, At
  <2> QED BY <2>1, RegisteringAt, PublicKeyCalls
<1>3. CASE Save(t)
  <2>1. ip[t] = 5
    BY <1>3, RegisteringAt, PublicKeyCalls DEF Save
  <2>2. lid[t] = Len(loggers) /\ status = "ready" /\ (loggers = <<>> \/ Len(loggers) = 1)
    BY <2>1 DEF Registering, Registered
  <2>3. lid[t] \in {0, 1} /\ (lid[t] = 0 <=> loggers = <<>>)
    BY <1>0, <2>2
  <2>4. UNCHANGED keys /\ Issued(t)
    BY <1>3, <2>2, <2>3 DEF Save, Refused, Stores, tables
  <2>5. ip'[t] = 6 /\ UNCHANGED <<op, job, answers>>
    BY <1>0, <2>1, <2>4 DEF Issued, Advance, GoTo
  <2>6. Registering(t)'
    BY RegisteringStep
  <2>7. loggers' = <<job[t]>>
    BY <2>5, <2>6 DEF Registering
  <2> QED BY <2>1, <2>4, <2>5, <2>7
<1>4. CASE AddKey(t)
  <2>1. ip[t] = 8
    BY <1>4, RegisteringAt, PublicKeyCalls DEF AddKey
  <2>2. ip'[t] = 9 /\ keys' = keys \cup {job[t]} /\ UNCHANGED <<loggers, op, job, answers>>
    BY <1>0, <1>4, <2>1 DEF AddKey, Refused, Stores, Issued, Advance, GoTo, Registering
  <2> QED BY <2>1, <2>2
<1>5. CASE Use(t) \/ Free(t) \/ Check(t)
  <2>1. ip[t] \in {2, 6, 9, 12} \cup {4, 7, 10, 14} \cup {3}
    BY <1>5, RegisteringAt, PublicKeyCalls DEF Use, Free, Check
  <2>2. ip'[t] = ip[t] + 1 /\ UNCHANGED <<op, job, answers, loggers, keys>>
    BY <1>0, <1>5 DEF Use, Free, Check, Advance, GoTo, tables
  <2> QED BY <2>1, <2>2 DEF Saved, Unanswered
<1>6. CASE Fetch(t) \/ Copy(t)
  <2>1. ip[t] = 13
    BY <1>6, RegisteringAt, PublicKeyCalls DEF Fetch, Copy
  <2>2. ip'[t] \in {13, 14} /\ UNCHANGED <<op, job, answers, loggers, keys>>
    BY <1>0, <1>6, <2>1 DEF Fetch, Copy, Advance, GoTo, tables
  <2> QED BY <2>1, <2>2 DEF Saved, Unanswered
<1>7. CASE CopyNull(t) \/ NoRows(t)
  BY <1>7 DEF CopyNull, NoRows, tables
<1> QED BY <1>1, <1>2, <1>3, <1>4, <1>5, <1>6, <1>7 DEF Statement

\* What the abstract registration sees of a state.
Seen == <<Undisturbed, loggers, Known, KeysOf(Unanswered), Told>>

\* A step that leaves both tables, the answers and the places alone is not seen.
LEMMA NotSeen ==
  ASSUME UNCHANGED <<setting, loggers, keys, answers>>,
         UNCHANGED <<KeysOf(Saved), KeysOf(Unanswered)>>
  PROVE  UNCHANGED Seen
BY DEF Seen, Undisturbed, Known, Told

\* Every step, while calls come one by one and nothing is refused, takes a key
\* (the fifth call), tells its logger (the return), or is not seen.
LEMMA RegistrationStep ==
  ASSUME TypeOK, ResultInv, KeyInv, [Next]_vars
  PROVE  Reg!Next \/ UNCHANGED Seen
<1>0. /\ op \in [Thread -> Op \cup {"idle"}] /\ ip \in [Thread -> Nat \ {0}]
      /\ job \in [Thread -> 0..MaxJobs] /\ setting' = setting
  BY DEF TypeOK, Next, Step, vars
<1>1. UNCHANGED Undisturbed
  BY <1>0 DEF Undisturbed
<1>2. CASE ~Undisturbed
  BY <1>1, <1>2 DEF Reg!Next
<1>3. CASE Undisturbed
  <2>1. /\ ~setting.faults /\ setting.serial
        /\ \A t \in Thread : op[t] = "public_key" => Registering(t)
        /\ \A t, u \in Thread : Working(t) /\ Working(u) => t = u
    BY <1>3 DEF KeyInv, Undisturbed, ResultInv, SharesApart, Asked
  <2>s. [Step]_vars
    <3>1. Asked'
      BY AskedStep DEF ResultInv
    <3> QED BY <1>0, <2>1, <3>1, Apart DEF Asked
  <2>2. ASSUME NEW t \in Thread, Begin(t) PROVE UNCHANGED Seen
    <3>1. /\ \A u \in Thread : ~Working(u)
          /\ UNCHANGED <<tables, answers>>
      BY <2>1, <2>2 DEF Begin, AllIdle
    <3>2. ip'[t] = 1 /\ \A u \in Thread \ {t} : op'[u] = op[u]
      BY <1>0, <2>2 DEF Begin
    <3>3. \A u \in Thread : op[u] = "idle"
      BY <3>1 DEF Working
    <3>4. ASSUME NEW P, 1 \notin P PROVE KeysOf(P)' = KeysOf(P)
      <4>1. KeysOf(P) = {}
        BY <3>3 DEF KeysOf
      <4>2. \A u \in Thread \ {t} : op'[u] # "public_key"
        BY <3>2, <3>3
      <4>3. KeysOf(P)' = IF op'[t] = "public_key" /\ ip'[t] \in P THEN {job'[t]} ELSE {}
        BY <4>2, KeysOfOne
      <4> QED BY <3>2, <3>4, <4>1, <4>3
    <3>5. 1 \notin Saved /\ 1 \notin Unanswered
      BY DEF Saved, Unanswered
    <3>6. UNCHANGED <<KeysOf(Saved), KeysOf(Unanswered)>>
      BY <3>4, <3>5
    <3> QED BY <1>0, <3>1, <3>6, NotSeen DEF tables
  <2>3. ASSUME NEW t \in Thread, Finish(t) PROVE Reg!Next \/ UNCHANGED Seen
    <3>1. /\ Working(t) /\ UNCHANGED tables
          /\ answers' = answers \cup {[op |-> op[t], job |-> job[t], val |-> val[t]]}
          /\ op'[t] = "idle" /\ \A u \in Thread \ {t} : op'[u] = op[u]
          /\ ip[t] > Len(Calls(op[t]))
      BY <1>0, <2>3 DEF Finish
    <3>2. \A u \in Thread \ {t} : op[u] # "public_key" /\ op'[u] # "public_key"
      BY <2>1, <3>1 DEF Working
    <3>3. KeysOf(Saved)' = {} /\ KeysOf(Unanswered)' = {}
      BY <3>1, <3>2, KeysOfOne
    <3>4. CASE op[t] = "public_key"
      <4>1. Registering(t) /\ ip[t] = 15
        <5>1. Registering(t)
          BY <2>1, <3>4
        <5>2. ip[t] > 14
          BY <3>1, <3>4, PublicKeyCalls
        <5>3. ip[t] \in 1..15
          BY <5>1 DEF Registering
        <5> QED BY <5>1, <5>2, <5>3
      <4>2. KeysOf(Saved) = {} /\ KeysOf(Unanswered) = {job[t]}
        BY <3>2, <3>4, <4>1, KeysOfOne DEF Saved, Unanswered
      <4>3. val[t] = {[kind |-> "lid", n |-> 1]}
        BY <4>1 DEF Registering, Lid1
      <4>4. Told' = Told \cup {job[t]}
        <5> DEFINE a == [op |-> op[t], job |-> job[t], val |-> val[t]]
                   B(S) == {b \in S : b.op = "public_key"
                                        /\ b.val = {[kind |-> "lid", n |-> 1]}}
        <5>1. a.op = "public_key" /\ a.val = {[kind |-> "lid", n |-> 1]} /\ a.job = job[t]
          BY <3>4, <4>3
        <5>2. answers' = answers \cup {a}
          BY <3>1
        <5> HIDE DEF a
        <5>3. B(answers') = B(answers) \cup {a}
          BY <5>1, <5>2
        <5>4. Told = {b.job : b \in B(answers)} /\ Told' = {b.job : b \in B(answers')}
          BY DEF Told
        <5> HIDE DEF B
        <5> QED BY <5>1, <5>3, <5>4
      <4>5. loggers' = loggers /\ Known' = Known
        BY <3>1, <3>3, <4>2 DEF Known, tables
      <4>6. Reg!Tell(job[t])
        BY <3>3, <4>2, <4>4, <4>5 DEF Reg!Tell
      <4> QED BY <1>0, <1>1, <4>6 DEF Reg!Next
    <3>5. CASE op[t] # "public_key"
      <4>1. KeysOf(Saved) = {} /\ KeysOf(Unanswered) = {}
        BY <3>2, <3>5, KeysOfOne
      <4>2. Told' = Told
        <5> DEFINE a == [op |-> op[t], job |-> job[t], val |-> val[t]]
        <5>1. a.op # "public_key" /\ answers' = answers \cup {a}
          BY <3>1, <3>5
        <5> HIDE DEF a
        <5> QED BY <5>1 DEF Told
      <4> QED BY <1>0, <3>1, <3>3, <4>1, <4>2 DEF Seen, Undisturbed, Known, tables
    <3> QED BY <3>4, <3>5
  <2>4. ASSUME NEW t \in Thread,
               Statement(t) \/ Use(t) \/ Free(t) \/ Check(t) \/ Fetch(t) \/ Copy(t)
                 \/ CopyNull(t) \/ NoRows(t)
        PROVE  Reg!Next \/ UNCHANGED Seen
    <3>1. Working(t)
      BY <2>4 DEF Statement, Count, MaxLid, Pick, Another, Save, AddKey, AddVideo, AddShare,
                  Assign, Use, Free, Check, Fetch, Copy, CopyNull, NoRows, At
    <3>2. \A u \in Thread \ {t} : op[u] # "public_key"
      BY <2>1, <3>1 DEF Working
    <3>3. CASE op[t] = "public_key"
      <4>1. /\ UNCHANGED <<op, job, answers>>
            /\ \/ /\ UNCHANGED <<loggers, keys>>
                  /\ ip'[t] \in Saved <=> ip[t] \in Saved
                  /\ ip'[t] \in Unanswered <=> ip[t] \in Unanswered
               \/ ip[t] = 5 /\ ip'[t] = 6 /\ loggers' = <<job[t]>> /\ UNCHANGED keys
               \/ ip[t] = 8 /\ ip'[t] = 9 /\ keys' = keys \cup {job[t]} /\ UNCHANGED loggers
        BY <2>1, <2>4, <3>3, RegisteringMoves
      <4>2. ASSUME NEW P
            PROVE  /\ KeysOf(P) = IF ip[t] \in P THEN {job[t]} ELSE {}
                   /\ KeysOf(P)' = IF ip'[t] \in P THEN {job[t]} ELSE {}
        <5>1. op' = op /\ job' = job
          BY <4>1
        <5>2. KeysOf(P) = IF op[t] = "public_key" /\ ip[t] \in P THEN {job[t]} ELSE {}
          BY <3>2, KeysOfOne
        <5>3. KeysOf(P)' = IF op'[t] = "public_key" /\ ip'[t] \in P THEN {job'[t]} ELSE {}
          BY <3>2, <5>1, KeysOfOne
        <5> QED BY <3>3, <5>1, <5>2, <5>3
      <4>3. CASE /\ UNCHANGED <<loggers, keys>>
                 /\ ip'[t] \in Saved <=> ip[t] \in Saved
                 /\ ip'[t] \in Unanswered <=> ip[t] \in Unanswered
        <5>1. UNCHANGED <<KeysOf(Saved), KeysOf(Unanswered)>>
          BY <4>2, <4>3
        <5> QED BY <1>0, <4>1, <4>3, <5>1, NotSeen
      <4>4. CASE ip[t] = 5 /\ ip'[t] = 6 /\ loggers' = <<job[t]>> /\ UNCHANGED keys
        <5>1. /\ KeysOf(Saved) = {} /\ KeysOf(Saved)' = {job[t]}
              /\ KeysOf(Unanswered) = {} /\ KeysOf(Unanswered)' = {job[t]}
          BY <4>2, <4>4 DEF Saved, Unanswered
        <5>2. loggers' = <<job[t]>>
          BY <4>4
        <5>3. Known' = Known \cup {job[t]} /\ Told' = Told
          BY <4>1, <4>4, <5>1 DEF Known, Told
        <5>4. Reg!Register(job[t])
          BY <5>1, <5>2, <5>3 DEF Reg!Register
        <5> QED BY <1>0, <1>1, <5>4 DEF Reg!Next
      <4>5. CASE ip[t] = 8 /\ ip'[t] = 9 /\ keys' = keys \cup {job[t]} /\ UNCHANGED loggers
        <5>1. /\ KeysOf(Saved) = {job[t]} /\ KeysOf(Saved)' = {}
              /\ KeysOf(Unanswered)' = KeysOf(Unanswered)
          BY <4>2, <4>5 DEF Saved, Unanswered
        <5>2. Known' = Known /\ loggers' = loggers /\ Told' = Told
          BY <4>1, <4>5, <5>1 DEF Known, Told
        <5> QED BY <1>1, <5>1, <5>2 DEF Seen
      <4> QED BY <4>1, <4>3, <4>4, <4>5
    <3>4. CASE op[t] # "public_key"
      <4>1. UNCHANGED <<loggers, keys, op, answers>>
        BY <2>4, <3>4, OtherStep
      <4>2. UNCHANGED <<KeysOf(Saved), KeysOf(Unanswered)>>
        BY <3>2, <3>4, <4>1, KeysOfOne
      <4> QED BY <1>0, <4>1, <4>2, NotSeen
    <3> QED BY <3>3, <3>4
  <2>5. CASE UNCHANGED vars
    <3>1. UNCHANGED <<KeysOf(Saved), KeysOf(Unanswered)>>
      BY <2>5 DEF vars, KeysOf
    <3> QED BY <2>5, <3>1, NotSeen DEF vars, tables
  <2> QED BY <2>s, <2>2, <2>3, <2>4, <2>5 DEF Step, Work
<1> QED BY <1>2, <1>3

\* While calls come one after the other and the database refuses nothing, a key
\* is registered in one step, the fifth call of insert_pk_database, and its
\* logger is told its LID before another key is: the calls before and after,
\* and every other call of the class, are not seen.
THEOREM RegistrationRefinement == Spec => ImplementsRegistration
<1>1. Init => Reg!Init
  <2> SUFFICES ASSUME Init PROVE Reg!Init
    OBVIOUS
  <2>1. /\ \A t \in Thread : op[t] = "idle"
        /\ answers = {} /\ setting \in Setting
    BY DatabaseAssumption DEF Init
  <2>2. KeysOf(Saved) = {} /\ KeysOf(Unanswered) = {} /\ Told = {}
    BY <2>1 DEF KeysOf, Told
  <2>3. Undisturbed \in BOOLEAN
    BY <2>1 DEF Undisturbed, Setting
  <2>4. CASE loggers = <<>> /\ keys = {}
    BY <2>2, <2>3, <2>4 DEF Reg!Init, Known
  <2>5. CASE loggers = <<0>> /\ keys = {0}
    <3>1. loggers = <<0>> /\ Known = {0}
      BY <2>2, <2>5 DEF Known
    <3>2. 0 \in 0..MaxJobs
      BY DatabaseAssumption
    <3> QED BY <2>2, <2>3, <3>1, <3>2 DEF Reg!Init
  <2> QED BY <2>4, <2>5 DEF Init
<1>2. Init => TypeOK /\ ResultInv /\ KeyInv
  BY InitTypeOK, InitResultInv, InitKeyInv
<1>3. (TypeOK /\ ResultInv /\ KeyInv) /\ [Next]_vars
        => (TypeOK /\ ResultInv /\ KeyInv)'
  BY TypeOKNext, ResultStep, KeyStep
<1>4. (TypeOK /\ ResultInv /\ KeyInv) /\ [Next]_vars => [Reg!Next]_Seen
  <2> SUFFICES ASSUME TypeOK, ResultInv, KeyInv, [Next]_vars
               PROVE  Reg!Next \/ UNCHANGED Seen
    OBVIOUS
  <2> QED BY RegistrationStep, Zenon
<1> QED
  BY <1>1, <1>2, <1>3, <1>4, PTL DEF Spec, ImplementsRegistration, Reg!Spec, Seen

=============================================================================
