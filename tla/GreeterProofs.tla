----------------------------- MODULE GreeterProofs -----------------------------
(***************************************************************************)
(* The invariants of Greeter, for any number of clients, keys and shares:  *)
(* what one client's calls do to what another is told, and what holds      *)
(* while they come one after the other.                                    *)
(***************************************************************************)
EXTENDS Greeter, TLAPS, FiniteSetTheorems

\* The steps of the handler that may answer a call of main at this place.
Hello == {"hello1", "hello2"}
Early == Hello \cup {"start", "olleh1", "olleh2", "threshhold"}
RpcInv ==
  \A c \in Client :
    /\ rpc[c] # "idle" => pc[c] \in Calls
    /\ rpc[c] \in {"hello", "assign", "generate"} => pc[c] \in Hello
    /\ rpc[c] = "olleh" => pc[c] \in {"olleh1", "olleh2"}
    /\ rpc[c] \in {"threshhold", "share", "verify"} => pc[c] = rpc[c]
    /\ rpc[c] \in {"encrypt", "decode", "build", "garbled", "decrypt"} => pc[c] = "encrypt"
    /\ pc[c] \in Early => tries[c] = 0 /\ got[c] = {}
    /\ pc[c] = "share" => tries[c] < MaxTry

\* One client is at work at a time, if they come one after the other.
Busy(c) == pc[c] \notin {"start", "end", "killed"}
OneBusy == Serial => \A c, d \in Client : Busy(c) /\ Busy(d) => c = d

\* shares.key is empty once opened, and holds what was written until it is read.
FileInv ==
  Serial \/ ~setting.shared =>
    \A c \in Client : /\ pc[c] = "flush" => file[Dir(c)] = {}
                      /\ pc[c] = "read"  => file[Dir(c)] = got[c]

\* While the clients come one after the other and no call is lost: what the
\* server has selected is what it makes shares of, from the answer to the first
\* greeting on; what a client collects is of that selection; and a call fails
\* only after the server ended, which it does for a client that rebuilt nothing,
\* or because that client's bytes are no text.
Selected == string.key = num /\ key = num /\ num \in Key
Fresh == Shares(string.key, string.gen)
Mine(c) ==
  /\ rpc[c] = "back" \/ pc[c] \in {"share", "write", "flush", "read", "verify"} => up
  /\ pc[c] = "encrypt" /\ secret[c] # NotAKey => up
  /\ up =>
     /\ rpc[c] # "garbled"
     /\ rpc[c] = "failed" => pc[c] \in {"verify", "encrypt"} /\ secret[c] = NotAKey
     /\ rpc[c] = "assign" => r[c] = num /\ num \in Key
     /\ rpc[c] = "generate" => r[c] = num /\ key = num /\ num \in Key
     /\ pc[c] \in Hello /\ rpc[c] = "back" => Selected
     /\ pc[c] = "hello2" /\ rpc[c] \in {"idle", "hello"} => Selected
     /\ Busy(c) /\ pc[c] \notin Hello => Selected
     /\ rpc[c] \in {"decode", "build", "decrypt"} => r[c] = key
     /\ pc[c] = "share" /\ rpc[c] = "back" => ans[c] \in Fresh
     /\ Busy(c) /\ pc[c] \notin Early => got[c] \subseteq Fresh
QuietInv ==
  Quiet => /\ \A c \in Client : Mine(c)
           /\ up /\ built = "building" => \E c \in Client : rpc[c] = "build"

\* What a client rebuilt, and what it was told.
SecretInv ==
  Serial => \A c \in Client :
              pc[c] \in {"verify", "encrypt", "end"} => secret[c] = Extract(got[c])
VerdictInv ==
  Quiet => \A c \in Client :
    /\ pc[c] \notin {"encrypt", "end"} => plain[c] = "none"
    /\ plain[c] = "other" => secret[c] = NotAKey
    /\ verdict[c] # "none" =>
         /\ pc[c] \in {"verify", "encrypt", "end"}
         /\ verdict[c] = "yes" <=> Cardinality(got[c]) = Threshhold
         /\ verdict[c] = "yes" => secret[c] # NotAKey /\ plain[c] # "other"

IInv == /\ TypeOK /\ RpcInv /\ OneBusy /\ FileInv
        /\ QuietInv /\ EndedByIncomplete /\ SecretInv /\ VerdictInv

-----------------------------------------------------------------------------
\* A step is one client's, or its handler's.
LEMMA Steps ==
  ASSUME [Next]_vars
  PROVE  /\ setting' = setting
         /\ \/ \E c \in Client : ClientStep(c) \/ Handler(c)
            \/ UNCHANGED vars
BY DEF Next, vars

\* A directory is a client's.
LEMMA DirIsClient == ASSUME NEW c \in Client PROVE Dir(c) \in Client
BY DEF Dir

\* The shares and their markers are shares.
LEMMA Markers == Failed \in Share /\ Junk \in Share
BY DEF Failed, Junk, Share

\* What is rebuilt from shares is a key, or none.
LEMMA ExtractType == ASSUME NEW s \in SUBSET Share PROVE Extract(s) \in Key \cup {NotAKey}
<1>1. CASE Cardinality(s) >= Threshhold /\ \A a, b \in s : a.gen = b.gen /\ a.key \in Key
  <2>1. s # {}
    BY <1>1, FS_EmptySet, GreeterAssumption
  <2> QED
    BY <1>1, <2>1 DEF Extract
<1>2. CASE ~(Cardinality(s) >= Threshhold /\ \A a, b \in s : a.gen = b.gen /\ a.key \in Key)
  BY <1>2 DEF Extract
<1> QED
  BY <1>1, <1>2

\* Handlers leave main, its shares and its file alone.
LEMMA HandlerKeeps ==
  ASSUME NEW c \in Client, Handler(c)
  PROVE  UNCHANGED <<file, pc, got, tries, secret>>
BY DEF Handler, SelectNum, SelectKey, Generate, Answer, GetShare, GetNoShare, VerifyKey,
       TakeKey, Decode, Build, Decrypt, DecryptFails, main, server

\* There are Threshhold different shares of one call.
LEMMA SharesCount ==
  ASSUME NEW k, NEW g
  PROVE  IsFiniteSet(Shares(k, g)) /\ Cardinality(Shares(k, g)) <= Threshhold
<1> DEFINE f == [i \in 1..Threshhold |-> [key |-> k, gen |-> g, i |-> i]]
<1>1. IsFiniteSet(1..Threshhold) /\ Cardinality(1..Threshhold) = Threshhold
  BY FS_Interval, GreeterAssumption
<1>2. f \in Surjection(1..Threshhold, Shares(k, g))
  BY DEF Surjection, Shares
<1> QED
  BY <1>1, <1>2, FS_Surjection

\* What some shares of one call give: the key if they are enough.
LEMMA ExtractOwn ==
  ASSUME NEW k \in Key, NEW g \in Nat, NEW s \in SUBSET Shares(k, g)
  PROVE  /\ Extract(s) \in {k, NotAKey}
         /\ Extract(s) = k <=> Cardinality(s) = Threshhold
<1>1. Cardinality(s) \in Nat /\ Cardinality(s) <= Threshhold
  BY SharesCount, FS_Subset, FS_CardinalityType, GreeterAssumption
<1>2. \A a, b \in s : a.gen = b.gen /\ a.key \in Key /\ a.key = k
  BY DEF Shares
<1>3. CASE Cardinality(s) >= Threshhold
  <2>1. s # {}
    BY <1>3, FS_EmptySet, GreeterAssumption
  <2>2. Extract(s) = k
    BY <1>2, <1>3, <2>1 DEF Extract
  <2> QED
    BY <1>1, <1>3, <2>2, GreeterAssumption
<1>4. CASE ~(Cardinality(s) >= Threshhold)
  BY <1>1, <1>4, GreeterAssumption DEF Extract
<1> QED
  BY <1>3, <1>4

-----------------------------------------------------------------------------
\* Every step of a client or of its handler keeps the types.
LEMMA TypeStep == TypeOK /\ RpcInv /\ [Next]_vars => TypeOK'
<1> SUFFICES ASSUME TypeOK, RpcInv, [Next]_vars PROVE TypeOK'
  OBVIOUS
<1> USE GreeterAssumption, Steps
<1>0. CASE UNCHANGED vars
  BY <1>0 DEF TypeOK, vars, server, main
<1> SUFFICES ASSUME NEW c \in Client, ClientStep(c) \/ Handler(c) PROVE TypeOK'
  BY <1>0
<1> USE DEF TypeOK, server, main, Goes, Then, Calls
<1>1. CASE Begin(c)
  BY <1>1 DEF Begin, Done
<1>2. CASE Call(c)
  BY <1>2 DEF Call, Method
<1>3. CASE Fail(c) \/ NotText(c)
  BY <1>3 DEF Fail, NotText
<1>4. CASE Greeted(c)
  BY <1>4 DEF Greeted, After
<1>5. CASE GotThreshhold(c)
  BY <1>5 DEF GotThreshhold, After
<1>6. CASE GotShare(c)
  <2>1. got'[c] \in SUBSET Share /\ got' \in [Client -> SUBSET Share]
    BY <1>6, Markers DEF GotShare
  <2>2. tries' \in [Client -> 0..MaxTry]
    <3>1. tries[c] + 1 \in 0..MaxTry
      BY <1>6 DEF GotShare, RpcInv
    <3> QED
      BY <1>6, <3>1 DEF GotShare
  <2>3. pc' \in [Client -> Calls \cup {"start", "write", "flush", "read", "end", "killed"}]
    BY <1>6 DEF GotShare
  <2>4. ans' \in [Client -> Share] /\ rpc' = [rpc EXCEPT ![c] = "idle"]
    BY <1>6, Markers DEF GotShare
  <2> QED
    BY <1>6, <2>1, <2>2, <2>3, <2>4 DEF GotShare
<1>7. CASE OpenFile(c)
  BY <1>7, DirIsClient DEF OpenFile
<1>8. CASE Flush(c)
  BY <1>8, DirIsClient, Markers DEF Flush
<1>9. CASE ReadFile(c)
  BY <1>9, ExtractType, DirIsClient DEF ReadFile
<1>10. CASE Verified(c)
  BY <1>10 DEF Verified
<1>11. CASE Encrypted(c)
  BY <1>11 DEF Encrypted
<1>12. CASE SelectNum(c)
  BY <1>12 DEF SelectNum, Setting
<1>13. CASE SelectKey(c)
  BY <1>13 DEF SelectKey
<1>14. CASE Generate(c)
  BY <1>14 DEF Generate
<1>15. CASE Answer(c)
  BY <1>15 DEF Answer, At
<1>16. CASE GetShare(c)
  BY <1>16 DEF GetShare, Share
<1>17. CASE GetNoShare(c)
  <2>1. CASE ans' = [ans EXCEPT ![c] = Junk] /\ rpc' = [rpc EXCEPT ![c] = "back"] /\ up' = up
    BY <1>17, <2>1, Markers DEF GetNoShare
  <2>2. CASE up' = FALSE /\ UNCHANGED <<ans, rpc>>
    BY <1>17, <2>2 DEF GetNoShare
  <2> QED
    BY <1>17, <2>1, <2>2 DEF GetNoShare
<1>18. CASE VerifyKey(c)
  BY <1>18 DEF VerifyKey
<1>19. CASE TakeKey(c)
  BY <1>19 DEF TakeKey
<1>20. CASE Decode(c)
  BY <1>20 DEF Decode
<1>21. CASE Build(c)
  BY <1>21 DEF Build
<1>22. CASE Decrypt(c)
  BY <1>22 DEF Decrypt
<1>23. CASE DecryptFails(c)
  BY <1>23 DEF DecryptFails
<1> QED
  BY <1>1, <1>2, <1>3, <1>4, <1>5, <1>6, <1>7, <1>8, <1>9, <1>10, <1>11, <1>12, <1>13,
     <1>14, <1>15, <1>16, <1>17, <1>18, <1>19, <1>20, <1>21, <1>22, <1>23 DEF ClientStep, Handler

\* Handlers follow the calls of main, and its tries are counted.
LEMMA RpcStep == TypeOK /\ RpcInv /\ [Next]_vars => RpcInv'
<1> SUFFICES ASSUME TypeOK, RpcInv, [Next]_vars PROVE RpcInv'
  OBVIOUS
<1> USE GreeterAssumption, Steps
<1>0. CASE UNCHANGED vars
  BY <1>0 DEF RpcInv, Calls, Hello, Early, vars, server, main
<1> SUFFICES ASSUME NEW c \in Client, ClientStep(c) \/ Handler(c) PROVE RpcInv'
  BY <1>0
<1> USE DEF TypeOK, RpcInv, Calls, Hello, Early, server, main, Goes, Then
<1>1. CASE Begin(c)
  BY <1>1 DEF Begin, Done
<1>2. CASE Call(c)
  BY <1>2 DEF Call, Method
<1>3. CASE Fail(c) \/ NotText(c)
  BY <1>3 DEF Fail, NotText
<1>4. CASE Greeted(c)
  BY <1>4 DEF Greeted, After
<1>5. CASE GotThreshhold(c)
  BY <1>5 DEF GotThreshhold, After
<1>6. CASE GotShare(c)
  BY <1>6 DEF GotShare
<1>7. CASE OpenFile(c)
  BY <1>7 DEF OpenFile
<1>8. CASE Flush(c)
  BY <1>8 DEF Flush
<1>9. CASE ReadFile(c)
  BY <1>9 DEF ReadFile
<1>10. CASE Verified(c)
  BY <1>10 DEF Verified
<1>11. CASE Encrypted(c)
  BY <1>11 DEF Encrypted
<1>12. CASE SelectNum(c)
  BY <1>12 DEF SelectNum, At
<1>13. CASE SelectKey(c)
  BY <1>13 DEF SelectKey, At
<1>14. CASE Generate(c)
  BY <1>14 DEF Generate, At
<1>15. CASE Answer(c)
  BY <1>15 DEF Answer, At
<1>16. CASE GetShare(c)
  BY <1>16 DEF GetShare, At
<1>17. CASE GetNoShare(c)
  <2>1. CASE rpc' = [rpc EXCEPT ![c] = "back"]
    BY <1>17, <2>1 DEF GetNoShare, At
  <2>2. CASE UNCHANGED rpc
    BY <1>17, <2>2 DEF GetNoShare
  <2> QED
    BY <1>17, <2>1, <2>2 DEF GetNoShare
<1>18. CASE VerifyKey(c)
  <2>1. CASE rpc' = [rpc EXCEPT ![c] = "back"]
    BY <1>18, <2>1 DEF VerifyKey, At
  <2>2. CASE UNCHANGED rpc
    BY <1>18, <2>2 DEF VerifyKey
  <2> QED
    BY <1>18, <2>1, <2>2 DEF VerifyKey
<1>19. CASE TakeKey(c)
  BY <1>19 DEF TakeKey, At
<1>20. CASE Decode(c)
  BY <1>20 DEF Decode, At
<1>21. CASE Build(c)
  BY <1>21 DEF Build, At
<1>22. CASE Decrypt(c)
  BY <1>22 DEF Decrypt, At
<1>23. CASE DecryptFails(c)
  BY <1>23 DEF DecryptFails, At
<1> QED
  BY <1>1, <1>2, <1>3, <1>4, <1>5, <1>6, <1>7, <1>8, <1>9, <1>10, <1>11, <1>12, <1>13,
     <1>14, <1>15, <1>16, <1>17, <1>18, <1>19, <1>20, <1>21, <1>22, <1>23 DEF ClientStep, Handler

\* A client begins when no other is at work.
LEMMA BusyStep == TypeOK /\ OneBusy /\ RpcInv /\ [Next]_vars => OneBusy'
<1> SUFFICES ASSUME TypeOK, OneBusy, RpcInv, [Next]_vars PROVE OneBusy'
  OBVIOUS
<1> USE GreeterAssumption, Steps
<1>0. CASE UNCHANGED vars
  BY <1>0 DEF OneBusy, Busy, Serial, Calls, RpcInv, vars, server, main
<1> SUFFICES ASSUME NEW c \in Client, ClientStep(c) \/ Handler(c) PROVE OneBusy'
  BY <1>0
<1> USE DEF TypeOK, OneBusy, Busy, Serial, Calls, RpcInv, server, main, Goes, Then
<1>1. CASE Begin(c)
  BY <1>1 DEF Begin, Done
<1>2. CASE Call(c)
  BY <1>2 DEF Call, Method
<1>3. CASE Fail(c) \/ NotText(c)
  BY <1>3 DEF Fail, NotText
<1>4. CASE Greeted(c)
  BY <1>4 DEF Greeted, After
<1>5. CASE GotThreshhold(c)
  BY <1>5 DEF GotThreshhold, After
<1>6. CASE GotShare(c)
  BY <1>6 DEF GotShare
<1>7. CASE OpenFile(c)
  BY <1>7 DEF OpenFile
<1>8. CASE Flush(c)
  BY <1>8 DEF Flush
<1>9. CASE ReadFile(c)
  BY <1>9 DEF ReadFile
<1>10. CASE Verified(c)
  BY <1>10 DEF Verified
<1>11. CASE Encrypted(c)
  BY <1>11 DEF Encrypted
<1>12. CASE Handler(c)
  BY <1>12, HandlerKeeps
<1> QED
  BY <1>1, <1>2, <1>3, <1>4, <1>5, <1>6, <1>7, <1>8, <1>9, <1>10, <1>11, <1>12 DEF ClientStep

\* Nobody else writes to the file between flush and read.
LEMMA FileStep == TypeOK /\ OneBusy /\ FileInv /\ [Next]_vars => FileInv'
<1> SUFFICES ASSUME TypeOK, OneBusy, FileInv, [Next]_vars PROVE FileInv'
  OBVIOUS
<1> USE GreeterAssumption, Steps
<1>0. CASE UNCHANGED vars
  BY <1>0 DEF FileInv, OneBusy, Busy, Calls, Dir, Serial, vars, server, main
<1> SUFFICES ASSUME NEW c \in Client, ClientStep(c) \/ Handler(c) PROVE FileInv'
  BY <1>0
<1> USE DEF TypeOK, FileInv, OneBusy, Busy, Calls, Dir, Serial, server, main, Goes, Then
<1>1. CASE Begin(c)
  BY <1>1 DEF Begin, Done
<1>2. CASE Call(c)
  BY <1>2 DEF Call, Method
<1>3. CASE Fail(c) \/ NotText(c)
  <2>1. pc' = pc /\ file' = file /\ got' = got /\ setting' = setting
    BY <1>3 DEF Fail, NotText
  <2> QED
    BY ONLY <2>1, FileInv DEF FileInv, Serial, Dir
<1>4. CASE Greeted(c)
  BY <1>4 DEF Greeted, After
<1>5. CASE GotThreshhold(c)
  BY <1>5 DEF GotThreshhold, After
<1>6. CASE GotShare(c)
  BY <1>6 DEF GotShare
<1>7. CASE OpenFile(c)
  BY <1>7 DEF OpenFile
<1>8. CASE Flush(c)
  BY <1>8 DEF Flush
<1>9. CASE ReadFile(c)
  BY <1>9 DEF ReadFile
<1>10. CASE Verified(c)
  BY <1>10 DEF Verified
<1>11. CASE Encrypted(c)
  BY <1>11 DEF Encrypted
<1>12. CASE Handler(c)
  BY <1>12, HandlerKeeps
<1> QED
  BY <1>1, <1>2, <1>3, <1>4, <1>5, <1>6, <1>7, <1>8, <1>9, <1>10, <1>11, <1>12 DEF ClientStep

\* While one client is at work the others are not, and nothing is said of them.
LEMMA Others ==
  ASSUME TypeOK, RpcInv, OneBusy, Serial, [Next]_vars,
         NEW c \in Client, ClientStep(c) \/ Handler(c)
  PROVE  \A d \in Client \ {c} :
           /\ ~Busy(d) /\ rpc[d] = "idle"
           /\ pc'[d] = pc[d] /\ rpc'[d] = rpc[d] /\ got'[d] = got[d] /\ secret'[d] = secret[d]
           /\ plain'[d] = plain[d] /\ verdict'[d] = verdict[d]
<1>1. ASSUME NEW d \in Client \ {c} PROVE ~Busy(d) /\ rpc[d] = "idle"
  <2>1. Begin(c) \/ Busy(c)
    BY DEF ClientStep, Handler, Call, Fail, NotText, Greeted, GotThreshhold, GotShare, OpenFile,
           Flush, ReadFile, Verified, Encrypted, SelectNum, SelectKey, Generate, Answer,
           GetShare, GetNoShare, VerifyKey, TakeKey, Decode, Build, Decrypt, DecryptFails,
           At, Busy, Calls, RpcInv
  <2>2. ~Busy(d)
    BY <1>1, <2>1 DEF OneBusy, Begin, Busy, Done, Serial
  <2> QED
    BY <1>1, <2>2 DEF RpcInv, Busy, Calls
<1>2. ASSUME NEW d \in Client \ {c}
      PROVE  /\ pc'[d] = pc[d] /\ rpc'[d] = rpc[d] /\ got'[d] = got[d]
             /\ secret'[d] = secret[d] /\ plain'[d] = plain[d] /\ verdict'[d] = verdict[d]
  BY <1>2 DEF TypeOK, ClientStep, Handler, Begin, Call, Fail, NotText, Greeted, GotThreshhold, GotShare,
         OpenFile, Flush, ReadFile, Verified, Encrypted, SelectNum, SelectKey, Generate,
         Answer, GetShare, GetNoShare, VerifyKey, TakeKey, Decode, Build, Decrypt,
         DecryptFails, Goes, Then, server, main
<1> QED
  BY <1>1, <1>2

\* Nothing is said of a client that is not at work.
LEMMA MineIdle ==
  ASSUME NEW c \in Client, ~Busy(c), rpc[c] = "idle" PROVE Mine(c)
BY DEF Mine, Busy, Hello, Early

\* What a client rebuilt is the selected key, or none.
LEMMA DecryptsOwn ==
  ASSUME TypeOK, Serial, SecretInv, NEW c \in Client, Mine(c), up,
         pc[c] \in {"verify", "encrypt"}
  PROVE  /\ Selected /\ secret[c] \in {num, NotAKey}
         /\ secret[c] = num <=> Cardinality(got[c]) = Threshhold
<1>1. Selected /\ got[c] \in SUBSET Shares(string.key, string.gen)
  BY DEF Mine, Busy, Hello, Early, Fresh
<1>2. secret[c] = Extract(got[c])
  BY DEF SecretInv
<1> QED
  BY <1>1, <1>2, ExtractOwn DEF Selected, TypeOK

\* A step of the client at work keeps what is said of it.
LEMMA MineStep ==
  ASSUME TypeOK, RpcInv, OneBusy, QuietInv, SecretInv, VerdictInv, Quiet, [Next]_vars,
         NEW c \in Client, ClientStep(c) \/ Handler(c)
  PROVE  Mine(c)'
<1> USE GreeterAssumption
<1>0. /\ Mine(c) /\ ~setting.faults /\ UNCHANGED setting /\ Serial
      /\ setting.keys \subseteq Key
  BY Steps DEF QuietInv, Quiet, TypeOK, Setting
<1>a. /\ ~Assigning(c)
      /\ up /\ built = "building" => rpc[c] = "build"
  BY <1>0, Others DEF Assigning, QuietInv
<1> USE DEF TypeOK, RpcInv, Mine, Selected, Fresh, Busy, Hello, Early, Calls, server, main, Goes, Then
<1>1. CASE Begin(c)
  BY <1>0, <1>a, <1>1 DEF Begin, Done
<1>2. CASE Call(c)
  BY <1>0, <1>a, <1>2 DEF Call, Method
<1>3. CASE Fail(c)
  BY <1>0, <1>a, <1>3 DEF Fail
<1>3a. CASE NotText(c)
  <2>1. pc[c] \in {"verify", "encrypt"} /\ secret[c] = NotAKey
    BY <1>3a DEF NotText, VerdictInv, Quiet
  <2> QED
    BY <1>0, <1>a, <1>3a, <2>1 DEF NotText
<1>4. CASE Greeted(c)
  BY <1>0, <1>a, <1>4 DEF Greeted, After
<1>5. CASE GotThreshhold(c)
  BY <1>0, <1>a, <1>5 DEF GotThreshhold, After
<1>6. CASE GotShare(c)
  BY <1>0, <1>a, <1>6 DEF GotShare
<1>7. CASE OpenFile(c)
  BY <1>0, <1>a, <1>7 DEF OpenFile
<1>8. CASE Flush(c)
  BY <1>0, <1>a, <1>8 DEF Flush
<1>9. CASE ReadFile(c)
  BY <1>0, <1>a, <1>9 DEF ReadFile
<1>10. CASE Verified(c)
  BY <1>0, <1>a, <1>10 DEF Verified
<1>11. CASE Encrypted(c)
  BY <1>0, <1>a, <1>11 DEF Encrypted
<1>12. CASE SelectNum(c)
  BY <1>0, <1>a, <1>12 DEF SelectNum, At
<1>13. CASE SelectKey(c)
  BY <1>0, <1>a, <1>13 DEF SelectKey, At
<1>14. CASE Generate(c)
  BY <1>0, <1>a, <1>14 DEF Generate, At
<1>15. CASE Answer(c)
  BY <1>0, <1>a, <1>15 DEF Answer, At
<1>16. CASE GetShare(c)
  <2>1. ans'[c] \in Shares(string.key, string.gen)
    BY <1>16 DEF GetShare, Shares
  <2> QED
    BY <1>0, <1>a, <1>16, <2>1 DEF GetShare, At
<1>17. CASE GetNoShare(c)
  <2>1. up /\ pc[c] = "share"
    BY <1>17 DEF GetNoShare, At
  <2>2. string.key \in Key
    BY <1>0, <2>1
  <2> QED
    BY <1>17, <2>2 DEF GetNoShare, Uninitialised
<1>18. CASE VerifyKey(c)
  <2>1. up /\ pc[c] = "verify" /\ num # NoKey
    BY <1>0, <1>18 DEF VerifyKey, At
  <2>2. rpc' = [rpc EXCEPT ![c] = "back"] /\ UNCHANGED up
    BY <1>18, <2>1 DEF VerifyKey
  <2> QED
    BY <1>0, <1>a, <1>18, <2>1, <2>2 DEF VerifyKey
<1>19. CASE TakeKey(c)
  BY <1>0, <1>a, <1>19 DEF TakeKey, At
<1>20. CASE Decode(c)
  BY <1>0, <1>a, <1>20 DEF Decode, At
<1>21. CASE Build(c)
  BY <1>0, <1>a, <1>21 DEF Build, At
<1>22. CASE Decrypt(c)
  BY <1>0, <1>a, <1>22 DEF Decrypt, At
<1>23. CASE DecryptFails(c)
  <2>1. pc[c] = "encrypt" /\ up /\ r[c] = key /\ r[c] # secret[c]
    BY <1>0, <1>23 DEF DecryptFails, At
  <2>2. secret[c] = NotAKey
    BY <1>0, <2>1, DecryptsOwn
  <2>3. CASE up' = FALSE /\ UNCHANGED <<plain, rpc>>
    BY <1>0, <1>23, <2>1, <2>2, <2>3 DEF DecryptFails, At
  <2>4. CASE rpc' = [rpc EXCEPT ![c] = "back"] /\ up' = up
    BY <1>0, <1>23, <2>1, <2>2, <2>4 DEF DecryptFails
  <2> QED
    BY <1>23, <2>3, <2>4 DEF DecryptFails
<1> QED
  BY <1>1, <1>2, <1>3, <1>3a, <1>4, <1>5, <1>6, <1>7, <1>8, <1>9, <1>10, <1>11, <1>12, <1>13,
     <1>14, <1>15, <1>16, <1>17, <1>18, <1>19, <1>20, <1>21, <1>22, <1>23 DEF ClientStep, Handler

\* What is said of the clients stays true when one of them, at work alone, takes
\* a step; the decoding table is being built by that one only.
LEMMA QuietStep ==
  TypeOK /\ RpcInv /\ OneBusy /\ QuietInv /\ SecretInv /\ VerdictInv /\ [Next]_vars
    => QuietInv'
<1> SUFFICES ASSUME TypeOK, RpcInv, OneBusy, QuietInv, SecretInv, VerdictInv,
                    [Next]_vars, Quiet
             PROVE  QuietInv'
  BY Steps DEF QuietInv, Quiet, Serial
<1>1. CASE UNCHANGED vars
  BY <1>1 DEF vars, server, main, QuietInv, Mine, Selected, Fresh, Busy, Quiet, Serial
<1>2. ASSUME NEW c \in Client, ClientStep(c) \/ Handler(c) PROVE QuietInv'
  <2>1. \A d \in Client \ {c} : ~Busy(d)' /\ rpc'[d] = "idle"
    BY <1>2, Others DEF Quiet, Busy
  <2>2. \A d \in Client \ {c} : Mine(d)'
    BY <2>1 DEF Mine, Busy, Hello, Early
  <2>3. Mine(c)'
    BY <1>2, MineStep
  <2>4. up' /\ built' = "building" => rpc'[c] = "build"
    <3>1. up /\ built = "building" => rpc[c] = "build"
      BY <1>2, Others DEF QuietInv, Quiet
    <3> QED
      BY <1>2, <3>1
      DEF TypeOK, ClientStep, Handler, Begin, Call, Fail, NotText, Greeted, GotThreshhold, GotShare,
          OpenFile, Flush, ReadFile, Verified, Encrypted, SelectNum, SelectKey, Generate,
          Answer, GetShare, GetNoShare, VerifyKey, TakeKey, Decode, Build, Decrypt,
          DecryptFails, At, Goes, Then, server, main, RpcInv, Calls, Quiet
  <2> QED
    BY <2>2, <2>3, <2>4 DEF QuietInv
<1> QED
  BY <1>1, <1>2, Steps

\* The server ends when decrypt does, for a client that rebuilt no key; such a
\* client never gets one afterwards.
LEMMA EndStep ==
  TypeOK /\ RpcInv /\ OneBusy /\ QuietInv /\ SecretInv /\ EndedByIncomplete /\ [Next]_vars
    => EndedByIncomplete'
<1> SUFFICES ASSUME TypeOK, RpcInv, OneBusy, QuietInv, SecretInv, EndedByIncomplete,
                    [Next]_vars, Quiet, ~up'
             PROVE  \E c \in Client : secret'[c] = NotAKey /\ pc'[c] \in {"encrypt", "end"}
  BY Steps DEF EndedByIncomplete, Quiet, Serial
<1>1. CASE UNCHANGED vars
  BY <1>1 DEF vars, server, main, EndedByIncomplete
<1>2. ASSUME NEW c \in Client, ClientStep(c) \/ Handler(c)
      PROVE  \E d \in Client : secret'[d] = NotAKey /\ pc'[d] \in {"encrypt", "end"}
  <2>1. CASE ~up
    <3>1. PICK d \in Client : secret[d] = NotAKey /\ pc[d] \in {"encrypt", "end"}
      BY <2>1 DEF EndedByIncomplete
    <3>2. d # c => secret'[d] = secret[d] /\ pc'[d] = pc[d]
      BY <1>2, Others DEF Quiet
    <3>3. d = c => secret'[d] = NotAKey /\ pc'[d] \in {"encrypt", "end"}
      BY <1>2, <2>1, <3>1
      DEF TypeOK, ClientStep, Handler, Begin, Call, Fail, NotText, Greeted, GotThreshhold, GotShare,
          OpenFile, Flush, ReadFile, Verified, Encrypted, SelectNum, SelectKey, Generate,
          Answer, GetShare, GetNoShare, VerifyKey, TakeKey, Decode, Build, Decrypt,
          DecryptFails, At, Goes, Then, server, main
    <3> QED
      BY <3>1, <3>2, <3>3
  <2>2. CASE up
    <3>1. GetNoShare(c) \/ VerifyKey(c) \/ DecryptFails(c)
      <4>1. ~ClientStep(c)
        BY <2>2 DEF ClientStep, Begin, Call, Fail, NotText, Greeted, GotThreshhold, GotShare,
                    OpenFile, Flush, ReadFile, Verified, Encrypted, server
      <4>2. Handler(c) => GetNoShare(c) \/ VerifyKey(c) \/ DecryptFails(c)
        BY <2>2 DEF Handler, SelectNum, SelectKey, Generate, Answer, GetShare, TakeKey,
                    Decode, Build, Decrypt, server
      <4> QED
        BY <1>2, <4>1, <4>2
    <3>2. Mine(c)
      BY DEF QuietInv
    <3>3. ~GetNoShare(c)
      <4>1. pc[c] = "share" => string.key \in Key
        BY <2>2, <3>2 DEF Mine, Selected, Busy, Hello
      <4> QED
        BY <4>1, GreeterAssumption DEF GetNoShare, At, Uninitialised, RpcInv
    <3>4. CASE VerifyKey(c)
      BY <2>2, <3>2, <3>4, GreeterAssumption
      DEF VerifyKey, At, Mine, Selected, Busy, Hello, Early, RpcInv
    <3>5. CASE DecryptFails(c)
      <4>1. pc[c] = "encrypt" /\ r[c] = key /\ r[c] # secret[c]
        BY <2>2, <3>2, <3>5 DEF DecryptFails, At, Mine, RpcInv
      <4>2. secret[c] = NotAKey
        BY <2>2, <3>2, <4>1, DecryptsOwn DEF Quiet, Selected
      <4> QED
        BY <3>5, <4>1, <4>2 DEF DecryptFails
    <3> QED
      BY <3>1, <3>3, <3>4, <3>5
  <2> QED
    BY <2>1, <2>2 DEF TypeOK
<1> QED
  BY <1>1, <1>2, Steps

\* A key is rebuilt once, from what the client collected itself.
LEMMA SecretStep ==
  TypeOK /\ RpcInv /\ OneBusy /\ FileInv /\ SecretInv /\ [Next]_vars => SecretInv'
<1> SUFFICES ASSUME TypeOK, RpcInv, OneBusy, FileInv, SecretInv, [Next]_vars, Serial
             PROVE  SecretInv'
  BY Steps DEF SecretInv, Serial
<1>1. CASE UNCHANGED vars
  BY <1>1 DEF vars, main, SecretInv, Serial
<1>2. ASSUME NEW c \in Client, ClientStep(c) \/ Handler(c) PROVE SecretInv'
  <2>1. \A d \in Client \ {c} : pc'[d] = pc[d] /\ got'[d] = got[d] /\ secret'[d] = secret[d]
    BY <1>2, Others
  <2>2. pc'[c] \in {"verify", "encrypt", "end"} => secret'[c] = Extract(got'[c])
    <3>1. CASE ReadFile(c)
      <4>1. file[Dir(c)] = got[c]
        BY <3>1 DEF ReadFile, FileInv
      <4> QED
        BY <3>1, <4>1 DEF ReadFile, TypeOK, Goes, server
    <3>2. CASE Handler(c)
      BY <3>2, HandlerKeeps DEF SecretInv
    <3>3. CASE Begin(c) \/ Call(c) \/ Fail(c) \/ NotText(c) \/ Greeted(c) \/ GotThreshhold(c)
               \/ GotShare(c) \/ OpenFile(c) \/ Flush(c) \/ Verified(c) \/ Encrypted(c)
      BY <3>3 DEF SecretInv, TypeOK, Begin, Call, Fail, NotText, Greeted, GotThreshhold, GotShare,
                  OpenFile, Flush, Verified, Encrypted, After, Goes, main
    <3> QED
      BY <1>2, <3>1, <3>2, <3>3 DEF ClientStep
  <2> QED
    BY <2>1, <2>2 DEF SecretInv
<1> QED
  BY <1>1, <1>2, Steps

\* VerifyKey says yes exactly to a client with enough shares, and what was
\* verified is decrypted with the key it was encrypted with.
LEMMA VerdictStep ==
  /\ TypeOK /\ RpcInv /\ OneBusy /\ QuietInv /\ SecretInv /\ VerdictInv
  /\ [Next]_vars
  => VerdictInv'
<1> SUFFICES ASSUME TypeOK, RpcInv, OneBusy, QuietInv, SecretInv, VerdictInv,
                    [Next]_vars, Quiet
             PROVE  VerdictInv'
  BY Steps DEF VerdictInv, Quiet, Serial
<1>1. CASE UNCHANGED vars
  BY <1>1 DEF vars, main, VerdictInv
<1>2. ASSUME NEW c \in Client, ClientStep(c) \/ Handler(c) PROVE VerdictInv'
  <2> DEFINE Told(d) ==
        /\ pc[d] \notin {"encrypt", "end"} => plain[d] = "none"
        /\ plain[d] = "other" => secret[d] = NotAKey
        /\ verdict[d] # "none" =>
             /\ pc[d] \in {"verify", "encrypt", "end"}
             /\ verdict[d] = "yes" <=> Cardinality(got[d]) = Threshhold
             /\ verdict[d] = "yes" => secret[d] # NotAKey /\ plain[d] # "other"
  <2>1. \A d \in Client \ {c} : Told(d)'
    BY <1>2, Others DEF Quiet, VerdictInv
  <2>2. Told(c) /\ Mine(c)
    BY DEF VerdictInv, QuietInv
  <2>3. Told(c)'
    <3>1. CASE VerifyKey(c)
      <4>1. pc[c] = "verify" /\ up /\ num # NoKey
        BY <2>2, <3>1, GreeterAssumption
        DEF VerifyKey, At, RpcInv, Mine, Selected, Busy, Hello, Early
      <4>2. verdict'[c] = IF secret[c] = num THEN "yes" ELSE "no"
        BY <3>1, <4>1 DEF VerifyKey, TypeOK
      <4>3. /\ num # NotAKey
            /\ secret[c] = num <=> Cardinality(got[c]) = Threshhold
        BY <2>2, <4>1, DecryptsOwn, GreeterAssumption DEF Quiet, TypeOK
      <4>4. pc'[c] = pc[c] /\ got'[c] = got[c] /\ plain'[c] = plain[c] /\ secret'[c] = secret[c]
        BY <3>1 DEF VerifyKey
      <4> QED
        BY <2>2, <4>1, <4>2, <4>3, <4>4
    <3>2. CASE DecryptFails(c)
      <4>1. pc[c] = "encrypt" /\ up /\ r[c] = key /\ r[c] # secret[c]
        BY <2>2, <3>2 DEF DecryptFails, At, Mine, RpcInv
      <4>2. secret[c] = NotAKey
        BY <2>2, <4>1, DecryptsOwn DEF Quiet, Selected
      <4> QED
        BY <2>2, <3>2, <4>1, <4>2 DEF DecryptFails
    <3>3. CASE Decrypt(c)
      <4>1. pc[c] = "encrypt"
        BY <3>3 DEF Decrypt, At, RpcInv
      <4> QED
        BY <2>2, <3>3, <4>1 DEF Decrypt, TypeOK
    <3>4. CASE /\ plain' = plain /\ verdict' = verdict
               /\ pc'[c] = pc[c] /\ got'[c] = got[c] /\ secret'[c] = secret[c]
      BY <2>2, <3>4
    <3>5. CASE ClientStep(c) /\ pc'[c] # pc[c]
      BY <2>2, <3>5
      DEF TypeOK, ClientStep, Begin, Call, Fail, NotText, Greeted, GotThreshhold, GotShare, OpenFile,
          Flush, ReadFile, Verified, Encrypted, After, Goes, main
    <3>6. CASE GotShare(c)
      BY <2>2, <3>6 DEF GotShare, TypeOK, Goes
    <3> QED
      BY <1>2, <3>1, <3>2, <3>3, <3>4, <3>5, <3>6
      DEF TypeOK, ClientStep, Handler, Begin, Call, Fail, NotText, Greeted, GotThreshhold, OpenFile,
          Flush, ReadFile, Verified, Encrypted, SelectNum, SelectKey, Generate, Answer,
          GetShare, GetNoShare, TakeKey, Decode, Build, Goes, main
  <2> QED
    BY <2>1, <2>3 DEF VerdictInv
<1> QED
  BY <1>1, <1>2, Steps

\* Clients begin with nothing, and the service with no key selected.
LEMMA InitIInv == Init => IInv
<1> SUFFICES ASSUME Init PROVE IInv
  OBVIOUS
<1> USE GreeterAssumption DEF Init
<1>1. TypeOK
  BY Markers DEF TypeOK, Uninitialised, Calls
<1>2. RpcInv /\ OneBusy /\ FileInv
  BY DEF RpcInv, OneBusy, FileInv, Busy, Calls, Hello
<1>3. QuietInv
  BY DEF QuietInv, Mine, Busy, Hello, Early
<1>4. EndedByIncomplete /\ SecretInv /\ VerdictInv
  BY DEF EndedByIncomplete, SecretInv, VerdictInv
<1> QED
  BY <1>1, <1>2, <1>3, <1>4 DEF IInv

-----------------------------------------------------------------------------
\* The invariant of the service and its clients.
THEOREM Invariance == Spec => []IInv
<1>1. Init => IInv
  BY InitIInv
<1>2. IInv /\ [Next]_vars => IInv'
  BY TypeStep, RpcStep, BusyStep, FileStep, QuietStep, EndStep, SecretStep, VerdictStep
  DEF IInv
<1> QED
  BY <1>1, <1>2, PTL DEF Spec

\* Every variable keeps its type, however the calls of the clients interleave.
THEOREM TypeCorrect == Spec => []TypeOK
BY Invariance, PTL DEF IInv

\* A client reads from shares.key what it wrote itself.
THEOREM OwnFile == Spec => []FileIsOwn
<1>1. IInv => FileIsOwn
  BY DEF IInv, FileInv, FileIsOwn
<1> QED
  BY <1>1, Invariance, PTL

\* A client collects shares of the key that is selected.
THEOREM CollectedCurrent == Spec => []CollectsCurrent
<1>1. IInv => CollectsCurrent
  BY DEF IInv, QuietInv, Mine, CollectsCurrent, Selected, Fresh, Busy, Hello, Early
<1> QED
  BY <1>1, Invariance, PTL

\* A client is verified when its shares are complete.
THEOREM CompleteVerified == Spec => []VerifiedWhenComplete
<1>1. IInv => VerifiedWhenComplete
  BY DEF IInv, RpcInv, QuietInv, VerdictInv, Mine, VerifiedWhenComplete, Calls
<1> QED
  BY <1>1, Invariance, PTL

\* The server is ended only by a client that rebuilt no key.
THEOREM EndsByIncomplete == Spec => []EndedByIncomplete
BY Invariance, PTL DEF IInv

=============================================================================
