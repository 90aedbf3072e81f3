------------------------------- MODULE Greeter -------------------------------
(***************************************************************************)
(* The secret sharing service of helloworld: GreeterServiceImpl, whose     *)
(* fields all RPCs of the synchronous service share, and greeter_client,   *)
(* which greets, collects shares, rebuilds the key from the file it wrote, *)
(* has it verified and has the server decrypt something with its own.      *)
(***************************************************************************)
EXTENDS Integers, FiniteSets

CONSTANTS
  Client,
  Key,          \* key_set
  NoKey,        \* selected_key_num = -1; an empty or torn selected_key
  NotAKey,      \* what shares of no one secret give
  Threshhold,   \* num_threashhold (3): the shares GetShare chooses from, too
  MaxTry,       \* bound: MAX_TRY (20)
  Settings      \* how the clients are run: see setting

Setting == [meet   : SUBSET {"hello1", "hello2", "share", "write", "verify", "encrypt"},
                                  \* where main of one may be when the next begins:
                                  \* nowhere, for one after the other
            keys   : SUBSET Key,  \* bound: the keys SayHello draws
            shared : BOOLEAN,     \* they run in one directory
            faults : BOOLEAN]     \* calls or their answers get lost

ASSUME GreeterAssumption ==
  /\ NoKey \notin Key /\ NotAKey \notin Key \cup {NoKey} /\ Key # {}
  /\ Threshhold \in Nat \ {0} /\ MaxTry \in Nat \ {0}
  /\ Settings \subseteq Setting

\* A share names the call of generate_share_strings that made it; failure is
\* the string "RPC failed" among them, and junk what is none
Share == [key : Key \cup {NoKey}, gen : Nat, i : Nat]
Failed == [key |-> NoKey, gen |-> 0, i |-> 0]
Junk   == [key |-> NoKey, gen |-> 0, i |-> 1]

\* extract_secret_from_share_strings
Extract(s) ==
  IF Cardinality(s) >= Threshhold /\ \A a, b \in s : a.gen = b.gen /\ a.key \in Key
    THEN (CHOOSE a \in s : TRUE).key
    ELSE NotAKey

VARIABLES
  setting,
  up,        \* the server is alive
  num, key,  \* selected_key_num (as the key it selects), selected_key
  string,    \* shares_string: the key and the generation of its shares
  built,     \* reverse_table of h_base64_decode: "no", "building", "yes"
  file,      \* shares.key, by directory
  pc,        \* of main: "start", an RPC, "write", "flush", "read", "end", "killed"
  rpc,       \* the handler of the client's call: "idle", a step of it, "back", "failed"
  r,         \* what the handler drew
  ans,       \* the share GetShare answers with
  got,       \* shareSet
  tries,     \* i of c_GetThreshhold
  secret,    \* str_key
  verdict,   \* what VerifyKey said: "none", "yes", "no"
  plain      \* what EncryptFingerprint answered: "none", "same", "other"

server == <<up, num, key, string, built>>
main == <<pc, got, tries, secret, verdict, plain>>
vars == <<setting, server, file, rpc, r, ans, main>>

Uninitialised == [key |-> NoKey, gen |-> 0]
Dir(c) == IF setting.shared THEN CHOOSE d \in Client : TRUE ELSE c

Init ==
  /\ setting \in Settings
  /\ up = TRUE /\ num = NoKey /\ key = NoKey
  /\ string = Uninitialised /\ built = "no"
  /\ file = [c \in Client |-> {}]
  /\ pc = [c \in Client |-> "start"]
  /\ rpc = [c \in Client |-> "idle"]
  /\ r = [c \in Client |-> NoKey]
  /\ ans = [c \in Client |-> Failed]
  /\ got = [c \in Client |-> {}]
  /\ tries = [c \in Client |-> 0]
  /\ secret = [c \in Client |-> NotAKey]
  /\ verdict = [c \in Client |-> "none"]
  /\ plain = [c \in Client |-> "none"]

-----------------------------------------------------------------------------
(* The client.                                                             *)

Calls == {"hello1", "hello2", "olleh1", "olleh2", "threshhold", "share",
          "verify", "encrypt"}
After == [hello1 |-> "hello2", hello2 |-> "olleh1", olleh1 |-> "olleh2",
          olleh2 |-> "threshhold", threshhold |-> "share"]
Serial == setting.meet = {}
Done(c) == pc[c] \in {"end", "killed"}
Goes(c, to) == pc' = [pc EXCEPT ![c] = to]

Begin(c) ==
  /\ pc[c] = "start" /\ (\A d \in Client : pc[d] \in setting.meet \cup {"start"} \/ Done(d))
  /\ Goes(c, "hello1")
  /\ UNCHANGED <<server, file, rpc, r, ans, got, tries, secret, verdict, plain>>

\* the stub's blocking call: the server runs the method the name stands for
Method == [hello1 |-> "hello", hello2 |-> "hello", olleh1 |-> "olleh",
           olleh2 |-> "olleh", threshhold |-> "threshhold", share |-> "share",
           verify |-> "verify", encrypt |-> "encrypt"]
Call(c) ==
  /\ pc[c] \in Calls /\ rpc[c] = "idle"
  /\ rpc' = [rpc EXCEPT ![c] = Method[pc[c]]]
  /\ UNCHANGED <<server, file, r, ans, main>>

\* the status is not OK: the server is gone, or what was sent is
Fail(c) ==
  /\ \/ rpc[c] \notin {"idle", "failed"} /\ ~up
     \/ setting.faults /\ pc[c] \in Calls /\ rpc[c] \in {Method[pc[c]], "back"}
  /\ rpc' = [rpc EXCEPT ![c] = "failed"]
  /\ UNCHANGED <<server, file, r, ans, main>>

\* bytes that are no text in a field that is a string: what was rebuilt from
\* too few shares may not reach the server, what was decrypted with another
\* key not the client
NotText(c) ==
  /\ \/ rpc[c] = "verify" /\ secret[c] = NotAKey
     \/ pc[c] = "encrypt" /\ rpc[c] = "back" /\ plain[c] = "other"
  /\ rpc' = [rpc EXCEPT ![c] = "failed"]
  /\ UNCHANGED <<server, file, r, ans, main>>

\* c_hello_greeter and c_xor_greeter print what they get, "RPC failed" too
Greeted(c) ==
  /\ pc[c] \in {"hello1", "hello2", "olleh1", "olleh2"} /\ rpc[c] \in {"back", "failed"}
  /\ rpc' = [rpc EXCEPT ![c] = "idle"]
  /\ Goes(c, After[pc[c]])
  /\ UNCHANGED <<server, file, r, ans, got, tries, secret, verdict, plain>>

\* GetThreshhold throws where the others return a text; nothing catches it
GotThreshhold(c) ==
  /\ pc[c] = "threshhold" /\ rpc[c] \in {"back", "failed"}
  /\ rpc' = [rpc EXCEPT ![c] = "idle"]
  /\ Goes(c, IF rpc[c] = "back" THEN After["threshhold"] ELSE "killed")
  /\ UNCHANGED <<server, file, r, ans, got, tries, secret, verdict, plain>>

\* Faulty variant: the tries are not counted.
GotShareEver(c) ==
  /\ pc[c] = "share" /\ rpc[c] \in {"back", "failed"}
  /\ rpc' = [rpc EXCEPT ![c] = "idle"]
  /\ got' = [got EXCEPT ![c] = @ \cup {IF rpc[c] = "back" THEN ans[c] ELSE Failed}]
  /\ Goes(c, IF Cardinality(got'[c]) = Threshhold THEN "write" ELSE "share")
  /\ ans' = [ans EXCEPT ![c] = Failed]
  /\ UNCHANGED <<server, file, r, tries, secret, verdict, plain>>

\* one turn of the loop: the set grows by what is new
GotShare(c) ==
  /\ pc[c] = "share" /\ rpc[c] \in {"back", "failed"}
  /\ rpc' = [rpc EXCEPT ![c] = "idle"]
  /\ got' = [got EXCEPT ![c] = @ \cup {IF rpc[c] = "back" THEN ans[c] ELSE Failed}]
  /\ IF Cardinality(got'[c]) = Threshhold
       THEN Goes(c, "write") /\ UNCHANGED tries
       ELSE /\ tries' = [tries EXCEPT ![c] = @ + 1]
            /\ Goes(c, IF tries'[c] < MaxTry THEN "share" ELSE "write")
  /\ ans' = [ans EXCEPT ![c] = Failed]
  /\ UNCHANGED <<server, file, r, secret, verdict, plain>>

\* Faulty variant: the file is opened to append.
OpenFileAppends(c) ==
  /\ pc[c] = "write"
  /\ Goes(c, "flush")
  /\ UNCHANGED <<server, file, rpc, r, ans, got, tries, secret, verdict, plain>>

\* write_share: the file is emptied when it is opened ...
OpenFile(c) ==
  /\ pc[c] = "write"
  /\ file' = [file EXCEPT ![Dir(c)] = {}]
  /\ Goes(c, "flush")
  /\ UNCHANGED <<server, rpc, r, ans, got, tries, secret, verdict, plain>>

\* ... and the lines go out when it is closed, over what another wrote
Flush(c) ==
  /\ pc[c] = "flush"
  /\ \E rest \in {{}} \cup (IF file[Dir(c)] = {} THEN {} ELSE {{Junk}, file[Dir(c)]}) :
       file' = [file EXCEPT ![Dir(c)] = got[c] \cup rest]
  /\ Goes(c, "read")
  /\ UNCHANGED <<server, rpc, r, ans, got, tries, secret, verdict, plain>>

\* read_share, and extract_secret_from_share_strings in c_VerifyKey, which
\* may not survive lines that are no shares
ReadFile(c) ==
  /\ pc[c] = "read"
  /\ \/ /\ secret' = [secret EXCEPT ![c] = Extract(file[Dir(c)])]
        /\ Goes(c, "verify")
     \/ /\ file[Dir(c)] = {} \/ \E s \in file[Dir(c)] : s.key = NoKey
        /\ Goes(c, "killed")
        /\ UNCHANGED secret
  /\ UNCHANGED <<server, file, rpc, r, ans, got, tries, verdict, plain>>

\* c_VerifyKey prints the verdict and goes on whatever it is
Verified(c) ==
  /\ pc[c] = "verify" /\ rpc[c] \in {"back", "failed"}
  /\ rpc' = [rpc EXCEPT ![c] = "idle"]
  /\ Goes(c, "encrypt")
  /\ UNCHANGED <<server, file, r, ans, got, tries, secret, verdict, plain>>

Encrypted(c) ==
  /\ pc[c] = "encrypt" /\ rpc[c] \in {"back", "failed"}
  /\ rpc' = [rpc EXCEPT ![c] = "idle"]
  /\ Goes(c, "end")
  /\ UNCHANGED <<server, file, r, ans, got, tries, secret, verdict, plain>>

ClientStep(c) == \/ Begin(c) \/ Call(c) \/ Fail(c) \/ NotText(c)
                 \/ Greeted(c) \/ GotThreshhold(c) \/ GotShare(c) \/ OpenFile(c) \/ Flush(c) \/ ReadFile(c)
                 \/ Verified(c) \/ Encrypted(c)

-----------------------------------------------------------------------------
(* The handlers.                                                           *)

At(c, step) == up /\ rpc[c] = step
Then(c, step) == rpc' = [rpc EXCEPT ![c] = step]

\* another handler is inside the assignment to selected_key
Assigning(c) == \E d \in Client \ {c} : rpc[d] = "assign"

\* Faulty variant: the shares are made of another draw.
SelectNumApart(c) ==
  /\ At(c, "hello") /\ Then(c, "assign")
  /\ \E k, l \in setting.keys : num' = k /\ r' = [r EXCEPT ![c] = l]
  /\ UNCHANGED <<up, key, string, built, file, ans, main>>

\* SayHello: a key is drawn and selected ...
SelectNum(c) ==
  /\ At(c, "hello") /\ Then(c, "assign")
  /\ \E k \in setting.keys : num' = k /\ r' = [r EXCEPT ![c] = k]
  /\ UNCHANGED <<up, key, string, built, file, ans, main>>

\* Faulty variant: the key of the first greeting stays selected.
SelectKeyOnce(c) ==
  /\ At(c, "assign") /\ Then(c, "generate")
  /\ key' = IF key = NoKey THEN r[c] ELSE key
  /\ UNCHANGED <<up, num, string, built, file, r, ans, main>>

\* ... copied, where another copy at the same time leaves anything ...
SelectKey(c) ==
  /\ At(c, "assign") /\ Then(c, "generate")
  /\ key' \in {r[c]} \cup (IF Assigning(c) THEN {NoKey} ELSE {})
  /\ UNCHANGED <<up, num, string, built, file, r, ans, main>>

\* Faulty variant: shares are made only once.
GenerateOnce(c) ==
  /\ At(c, "generate") /\ Then(c, "back")
  /\ string' = IF string = Uninitialised THEN [key |-> r[c], gen |-> 1] ELSE string
  /\ r' = [r EXCEPT ![c] = NoKey]
  /\ UNCHANGED <<up, num, key, built, file, ans, main>>

\* ... and its shares replace those there were
Generate(c) ==
  /\ At(c, "generate") /\ Then(c, "back")
  /\ string' = [key |-> r[c], gen |-> string.gen + 1]
  /\ r' = [r EXCEPT ![c] = NoKey]
  /\ UNCHANGED <<up, num, key, built, file, ans, main>>

\* SayOlleh and GetThreshhold change nothing
Answer(c) ==
  /\ At(c, "olleh") \/ At(c, "threshhold")
  /\ Then(c, "back")
  /\ UNCHANGED <<server, file, r, ans, main>>

\* a pointer nobody set may be read, or end the server
GetShare(c) ==
  /\ At(c, "share") /\ string # Uninitialised
  /\ \E i \in 1..Threshhold :
       ans' = [ans EXCEPT ![c] = [key |-> string.key, gen |-> string.gen, i |-> i]]
  /\ Then(c, "back")
  /\ UNCHANGED <<server, file, r, main>>

GetNoShare(c) ==
  /\ At(c, "share") /\ string = Uninitialised
  /\ \/ ans' = [ans EXCEPT ![c] = Junk] /\ Then(c, "back") /\ UNCHANGED up
     \/ up' = FALSE /\ UNCHANGED <<ans, rpc>>
  /\ UNCHANGED <<num, key, string, built, file, r, main>>

\* strcmp with key_set[selected_key_num]; key_set[-1] may end the server
VerifyKey(c) ==
  /\ At(c, "verify")
  /\ \/ /\ verdict' = [verdict EXCEPT ![c] = IF secret[c] = num THEN "yes" ELSE "no"]
        /\ Then(c, "back") /\ UNCHANGED up
     \/ num = NoKey /\ up' = FALSE /\ UNCHANGED <<verdict, rpc>>
  /\ UNCHANGED <<num, key, string, built, file, r, ans, pc, got, tries, secret, plain>>

\* EncryptFingerprint: initAES with selected_key ...
TakeKey(c) ==
  /\ At(c, "encrypt") /\ Then(c, "decode")
  /\ \E k \in {key} \cup (IF Assigning(c) THEN {NoKey} ELSE {}) :
       r' = [r EXCEPT ![c] = k]
  /\ UNCHANGED <<server, file, ans, main>>

\* ... h_base64_decode: the first call builds the table, which one that comes
\* meanwhile uses as it is ...
Decode(c) ==
  /\ At(c, "decode")
  /\ built' = IF built = "no" THEN "building" ELSE built
  /\ Then(c, CASE built = "no" -> "build" [] built = "building" -> "garbled"
               [] OTHER -> "decrypt")
  /\ UNCHANGED <<up, num, key, string, file, r, ans, main>>

Build(c) ==
  /\ At(c, "build") /\ Then(c, "decrypt")
  /\ built' = "yes"
  /\ UNCHANGED <<up, num, key, string, file, r, ans, main>>

\* ... decrypt: handleErrors ends the server where the padding is wrong,
\* which it is for another key nearly always
Decrypt(c) ==
  /\ At(c, "decrypt") /\ r[c] = secret[c]
  /\ plain' = [plain EXCEPT ![c] = "same"]
  /\ Then(c, "back")
  /\ UNCHANGED <<server, file, r, ans, pc, got, tries, secret, verdict>>

DecryptFails(c) ==
  /\ At(c, "garbled") \/ (At(c, "decrypt") /\ r[c] # secret[c])
  /\ \/ up' = FALSE /\ UNCHANGED <<plain, rpc>>
     \/ plain' = [plain EXCEPT ![c] = "other"] /\ Then(c, "back") /\ UNCHANGED up
  /\ UNCHANGED <<num, key, string, built, file, r, ans, pc, got, tries, secret, verdict>>

Handler(c) == \/ SelectNum(c) \/ SelectKey(c) \/ Generate(c) \/ Answer(c)
              \/ GetShare(c) \/ GetNoShare(c) \/ VerifyKey(c)
              \/ TakeKey(c) \/ Decode(c) \/ Build(c) \/ Decrypt(c) \/ DecryptFails(c)

Next == /\ UNCHANGED setting
        /\ \E c \in Client : ClientStep(c) \/ Handler(c)

Spec == Init /\ [][Next]_vars

\* a call returns in the end, and every client goes on
FairSpec ==
  Spec /\ \A c \in Client : WF_vars((ClientStep(c) \/ Handler(c)) /\ UNCHANGED setting)

-----------------------------------------------------------------------------
(* Properties.                                                             *)

\* Every variable of the service and its clients keeps its type.
TypeOK ==
  /\ setting \in Settings /\ up \in BOOLEAN
  /\ num \in Key \cup {NoKey} /\ key \in Key \cup {NoKey}
  /\ string \in [key : Key \cup {NoKey}, gen : Nat]
  /\ built \in {"no", "building", "yes"}
  /\ file \in [Client -> SUBSET Share]
  /\ pc \in [Client -> Calls \cup {"start", "write", "flush", "read", "end", "killed"}]
  /\ rpc \in [Client -> {"idle", "back", "failed", "hello", "assign", "generate",
                         "olleh", "threshhold", "share", "verify", "encrypt",
                         "decode", "build", "garbled", "decrypt"}]
  /\ r \in [Client -> Key \cup {NoKey}]
  /\ ans \in [Client -> Share] /\ got \in [Client -> SUBSET Share]
  /\ tries \in [Client -> 0..MaxTry]
  /\ secret \in [Client -> Key \cup {NoKey, NotAKey}]
  /\ verdict \in [Client -> {"none", "yes", "no"}]
  /\ plain \in [Client -> {"none", "same", "other"}]

Quiet == Serial /\ ~setting.faults
Shares(k, g) == {[key |-> k, gen |-> g, i |-> i] : i \in 1..Threshhold}

\* While no other client greets, c_GetThreshhold collects shares of the key
\* that VerifyKey and EncryptFingerprint will compare with, all of one call
\* of generate_share_strings: of the last SayHello, not of the one before.
CollectsCurrent ==
  Quiet => \A c \in Client :
    pc[c] \in {"share", "write", "flush", "read", "verify", "encrypt"} /\ up =>
      /\ got[c] \subseteq Shares(string.key, string.gen)
      /\ string.key = num /\ key = num

\* A client is told that its key is verified exactly when it got Threshhold
\* different shares within MAX_TRY calls, and what was verified decrypts.
VerifiedWhenComplete ==
  Quiet => \A c \in Client :
    /\ verdict[c] # "none" =>
         (verdict[c] = "yes" <=> Cardinality(got[c]) = Threshhold)
    /\ verdict[c] = "yes" => plain[c] # "other" /\ rpc[c] # "failed"

\* The server ends only by what a client with too few shares sent to
\* EncryptFingerprint: handleErrors calls abort for everyone.
EndedByIncomplete ==
  Quiet /\ ~up => \E c \in Client : secret[c] = NotAKey /\ pc[c] \in {"encrypt", "end"}

\* read_share returns what this client wrote, also where another client used
\* the directory before; only two at once may mix.
FileIsOwn ==
  Serial \/ ~setting.shared =>
    \A c \in Client : pc[c] = "read" => file[Dir(c)] = got[c]

\* Every client ends, with or without enough shares, and also when the server
\* ended or calls get lost.
ClientsEnd == <>(\A c \in Client : Done(c))

=============================================================================
