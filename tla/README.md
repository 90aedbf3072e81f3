# Verification of Logger_Verifier

TLA+ models of Logger_Verifier, TLC configurations that check them on small instances, and
proofs for every value of the constants. Line numbers refer to files under `src/`.

- [The system](#the-system)
- [Hard behaviours and what correct means](#hard-behaviours-and-what-correct-means)
- [Modules](#modules)
- [Runs](#runs)
- [Fairness](#fairness)
- [Proofs](#proofs)
- [Where the code and its description disagree](#where-the-code-and-its-description-disagree)
- [Not modelled](#not-modelled)
- [Plan](#plan)

Working with it, in this directory:

    tlc -workers 2 -config MCServer.cfg MCServer     # one run
    tlapm ServerProofs.tla                                 # one module's proofs

## The system

A **Logger** takes frames from a camera, makes a hash of each and signs it, and sends frame, hash
and signature to a **Server**, which keeps them in a **database** and hands out shares of a secret.
A **Verifier** later recomputes the hash of a stored frame and compares. A **web UI** configures the
Logger's camera and shows its frames. Beside this stands a **greeter** service, which splits a key
into shares, and the client that puts it together again.

| Component | Source | State | Operations |
|---|---|---|---|
| Transport | `Server/server.cpp` 231-336, `Client/client.cpp` 143-247 | the socket's buffers; `nSize`, `remainbytes` of the call under way | `send_binary`/`__send`, `recv_binary`/`__recv`, the `recv` of a header |
| Server | `Server/server.cpp`, `command_parser/` | `thisThd->port` (one for all threads), `for_res_packet` (one for all handlers), per thread `fd_socket`, `retry_cnt`, `buf` | `listenThd`, `ClientServiceThread`, `cmd_parser`, one handler per command |
| Database | `DB/bout_database.cpp` | one `MYSQL` connection, member `row`; tables Loggers, Public_keys, shares, unverified frames | `insert_pk_database`, `insert_video_data`, `insert_data`, `get_share`, `get_ano_shares` |
| Logger | `Logger/Logger.cpp`, `openssl/sign.cpp` | global `frame`, `frameLocker`, eight queues | `init`, `capture` with thread `UpdateFrame`, conversion, edges, `make_hash`, `sign_hash`, `init_all_settings` |
| Client connection | `Client/client.cpp`, the Logger's use of it | `g_pNetwork`, the socket, shared by `main` and `ClientServiceThread` | `initClient`, `test_initClient`, `ClientServiceThread`, `termClient`, `send_pubKey_to_server`, `send_data_to_server` |
| Test shares | `Server/server.cpp` 38-73, `Logger/Logger.cpp` 653-748 | `test_shares`, one for all threads of the server; the set `shares` of the client | `test_share_gen`, `test_get_share`, `gen_shares`, `test_share_req`, `performance_evaluation` |
| Web UI queues | `msg_queue/`, `Logger.cpp` 513-575 | four System V queues, three files, the camera's size and frame rate | `camera_cfg_recv`, `camera_cfg_res_send`, `Image_Hash_request`, `Image_Hash_response`, `send_image_hash_to_UI` |
| Greeter | `helloworld/greeter_*.cc`, `shamir.h`, `util.h` | `selected_key_num`, `selected_key`, `shares_string` of the service; `shares.key` of a directory | the RPCs; the client's collection, `write_share`, `read_share` |
| Greeter messages | `helloworld/helloworld.pb.*` | a message: its fields and those it does not know | parsing, writing, sizing, merging, copying |
| File tool | `test_dir/en_de_file.c` | a file | `encode`, `decode` |
| Merkle tree | `Merkle_Tree/` | the nodes; the hasher's buffer and length | constructor, `deleteTree`; `process`, `finish` of the hasher |
| Base64 | `helloworld/bs64.h` and five copies or relatives | none | encoders and decoders |
| Verifier | `Verifier/` | globals `hash_DB`, `hash_VF`, `verified` | one pass of `main` |
| Configuration | `Sys_cfg.json`, `util.cpp`, `*_cfg.h` | read once | - |

How they meet: Logger and Server talk over one TCP connection per Logger, a header of eight
bytes (`HEADERPACKET`: start, destination, command, data type, data size) followed by the fields of the
command; the fields have no delimiters, so both sides have to agree on every length. The server's
handlers call the database class directly, from one thread per connection. The Logger's `main`
shares `frame` with `UpdateFrame` under `frameLocker`, and the socket with `ClientServiceThread`
under nothing. Logger and web UI exchange messages through queues and pictures through files; the
Verifier only reads what the server stored. The greeter has no part in the rest.

## Hard behaviours and what correct means

- **Partial and failing socket calls.** A field must arrive whole, in order and under its own call.
  `send` and `recv` move any part of what they are asked for, time out, and see closes and resets;
  most callers only print a failure. *Correct*: as long as no call failed both sides stand at the
  same field, and a message whose every field was read was sent whole.
- **Threads over shared server state.** `listenThd` overwrites the port every thread was given, and
  handlers overwrite each other's response header. *Correct*: an answer goes to the requester, under
  the header of its own request, after the database took or refused what it acknowledges; every
  connection is closed by its own thread, exactly once.
- **A stream out of step.** A client whose `send_binary` failed goes on with the next field, a payload
  may be left unread, and a header is read by one `recv`. *Correct*: whatever was lost or left before
  it, a request that was sent whole is not served with the bytes of another.
- **One vector of test shares.** One thread clears and refills it while another indexes it. *Correct*:
  what a client counts was made for its own request, and the server survives.
- **Two readers of one socket.** *Correct*: an answer is taken apart where it begins, by whoever asked.
- **One database connection.** A statement fails while another's result is under way, and there is
  no lock, so that nothing keeps two threads from being inside the library at once, which it does not
  allow on one connection. *Correct*, as long as that does not happen: one reader per result; the connection is usable whenever nobody works on it; a
  logger that was told its LID has its key registered.
- **Capture.** A frame that was taken must not change while its buffer is shared with the global
  one; a thread cancelled at any point must not take the lock with it; each round's frames, hashes,
  signatures and CIDs must belong together: the signature in the *i*-th place is that of the *i*-th hash.
- **A service with one set of shares.** A greeting replaces the key everyone else is collecting.
  *Correct*: what a client puts together is one key, and it is told the truth about it.
- **Files and queues between processes.** *Correct*: a configuration is taken as a whole and answered
  once; a UI that waits for its answer finds files of the round that answered it, wherever the Logger
  could write them.
- **Bytes.** Six Base64 coders, a padding and three formats of lengths by hand: boundaries of blocks,
  groups of three, lines and varints.
- **Termination.** No wait may be unbounded: of a sender, a receiver, a handler, a connection, a
  database call, a round of capture, an evaluation, a client of the greeter. Two are, and the properties
  say so: a `recv` that no `select` precedes (`test_share_req`, and any field over a port whose timeout
  is 0), and library calls of two threads on one MySQL connection.

`PROJECT.json` lists the hazards at their lines, with the properties that would show them going wrong.
Others seen on the way, too small or too far from the rest for a property: `initServer` reports
failure by negative values and its caller tests for 0 (`main_func.cpp:11`); `termServer` joins detached
threads (`server.cpp:608`); `initClient` reports a failed connect with -1 and its caller tests with `!`
(`client.cpp:374`, in `Client` as a connection that is `down` and used all the same); `capture` does not
look at the result of `pthread_create` (`Logger.cpp:217`); image files are named by the moment of
conversion and two of one millisecond overwrite each other (`Logger.cpp:365`); a decoding table built
by one thread while another uses it (`bs64.h:119`).

## Modules

| Module | Models | Abstract / composed with |
|---|---|---|
| `Transport` | one direction of a connection, byte by byte | implements `FieldStream` |
| `FieldStream` | whole fields, in order, until a call fails | - |
| `Server` | the server's threads, over streams of whole fields | uses what `Transport` shows about fields; stands for database calls by `db` steps |
| `Database` | the database class, call by call of the client library | what a `db` step of `Server` is inside; implements `Registration` |
| `Registration` | a key taken in one step, and its logger told | - |
| `Logger` | the Logger's loop and its capture thread | - |
| `Client` | loggers, their reading threads and the server's thread of each connection, over one `test_shares` | composes the Logger's calls, `client.cpp` and the server's two test handlers |
| `Greeter` | the RPCs of the service and its clients | c-sss external |
| `WebUi` | the Logger's loop at the four queues, and a UI | the UI external |
| `Base64` | every coder of the repository, as functions | - |
| `Sha256`, `MerkleTree`, `FileTool`, `Wire` | hasher, tree, file tool, greeter messages, each with its state | `FileTool` uses `Base64` |
| `Algorithms` | one of those five at a time | extends them |
| `MC*` | constants for TLC | extend the above |
| `*Proofs` | theorems | extend the above |

### Transport

`sent`, `arrived` and `rcvd` count bytes; field *k* occupies offsets `Offset[k]..Offset[k+1]-1`, so the
model needs no contents: the *k*-th read fills its buffer with the *k*-th field exactly when both
start at `Offset[k]`. `SendCall`, `SendChunk`, `SelectTimesOut`, `SendEmpty`, `SendError` are the two
nested loops of `send_binary`; `ReadCall`, `RecvChunk`, `RecvFails` those of `recv_binary`. A header is
read by one `recv`, which may return part of it (`TakeHeader`): the service loop does not check, and
either goes on with this handler or is `lost`, that is, took something else for a header. Which
results matter follows the callers: a header that cannot be sent ends `send_data_to_server`'s loop,
any other failure is printed and the next field is sent. `mode` says which programs the ends are:
`noSignal`, whether `send` is called with `MSG_NOSIGNAL` (the server) or a reset ends the process (the
client); `timed`, whether the port has a timeout, without which `__recv` has no `select`
(`client.cpp:183`; `test_initClient` sets none); `service`, whether the headers are read by a service
loop, which selects first, or by `test_share_req`, which does not (`Logger.cpp:693`). Only where a
`select` precedes it (`Bounded`) can a `recv` end without data or a close; otherwise it may wait for
ever (`WaitsForEver`). The size of a `recv` differs between the copies too (`RecvMax`).

A field has one size for both sides. The Logger sends `capacity()` bytes of a string and names
`length()` in the header, or the reader takes a fixed number; the strings are copies taken out of
queues, whose capacity is their length at all sizes that occur (23, 64 and 350 characters).

### Server

A connection is a pair of streams of units: a header, a field, or the part of one that was left when
`send_binary` failed in the middle. The `db`, `read`, `skim`, `make`, `head`, `body` calls of each of the
table's callbacks are listed in `Handler`, in the order of the code; `skim` is a `recv_binary` whose
result is unused. `portS` is `thisThd->port.s`, `res` is `for_res_packet`, and `hport[c]` is the copy
`cmd_parser` gets. What is worth knowing:

- `Accept` merges `accept`, the stores to `port` and `pthread_create`. Nothing another thread does in
  between depends on the order: threads read `port.s` in steps of their own (`Start`, `Dispatch`).
- Descriptors are given out lowest first and are reused, as the kernel does.
- `LoseField` is a failed `send_binary` of the client: the field is missing, or a part of it arrives, and
  the client goes on with the next (with a video it gives up if the header failed,
  `Logger.cpp:618-622`). `torn` remembers which requests were not sent whole, or had a `skim` that failed.
- A read that finds its unit takes it. One that finds something else takes its number of bytes of
  that: any number of units, and it may end inside one (`Bite`; `bites` counts the reads that did,
  `MaxBites` bounds them). That is how a payload nobody read, GEN_AES's 11 bytes as 8 + 3 for instance,
  is used up and the stream is in step again. What such bytes are taken for is any command of
  `setting.misread` (`Guess`), and the request they then name has number 0.
- `CallDb` stores, or the database refuses a statement (`refused`): `mysql_perform_query` prints it, the
  methods return nothing of it, and the handler answers as if it had not happened.
- Where the code does something undefined the step may end the process (`up` becomes FALSE): an integer
  printed with `%s`, `fwrite` to NULL (`NoFile`), a buffer of a size nobody sent (`NoBuffer`), `share[0]`
  of an empty vector (`NoShare`), the rows of a select that was refused (`NoRows`), a handler without
  a `return` (`NoResult`).
- `setting` says what the clients are: `serial`, whether they come one after the other, is an assumption
  about the environment of the properties that need it and not a behaviour of the code; `script` what
  each may send; `misread`, `lossy` and `short` whether payloads look like commands, sends fail and headers
  come in pieces.

### Database

One step per call of the MySQL client library: a statement, `mysql_use_result`, `mysql_fetch_row`,
`mysql_free_result`, `row[0]`. `status` is the state the library keeps per connection: a result has
to be taken (`get`) and read to its end or freed (`use`) before the next statement goes through.
`Calls` lists each method as such calls. The retry loop of `mysql_perform_query` breaks after its
first failure (`Refused`). The memory of a freed row is abstracted: a copy reads the last row stored
in the member `row`, whoever stored it, and NULL ends the process. `NoRows` is `mysql_fetch_row` of the
result a refused statement does not have.

Nothing in the class keeps two threads from being inside the library at once, on one socket. `Race` is
that: the process may end, both may hold one result, and nothing is said of the connection from then
on (`raced`). It is enabled wherever two threads stand at a call of the library, so that the
interleavings checked are those in which the calls happen not to overlap; that they do not is what
`OneReader`, `ReadyWhenIdle` and `JobsFinish` are conditional on, and not something the code ensures.

`Registration` is what the server relies on when it calls `insert_pk_database`: a key replaces the
logger's in one step, and the logger is told its LID before another key is taken. The method does that
in fourteen calls, and two of them write. The step is the write to `Loggers` (`Save`): from there to
the write to `Public_keys` (`Saved`) the key counts as known although it is in one table only, and
until the method returns (`Unanswered`) its logger is not told. That is a refinement only while calls
come one after the other and nothing is refused (`Undisturbed`, which the abstract module has as
`inForce`): otherwise it promises nothing.

### Logger

`memory` holds the buffers in use; `frame`, `currentFrame` and the entries of `bgr_queue` refer to
them, so that sharing and freeing a `cv::Mat` buffer is explicit. `UpdateFrame` is `Grab`, `UpdLock`,
`Assign`, `End`; `pthread_cancel` is deferred, so that `End` is possible only while the thread waits
for the camera, and not in `pthread_mutex_lock`, which is no cancellation point. Between captures
`main` runs alone and each of its loops over a queue is one step. `setting` chooses `YUV_switch` and
whether `key_generation` is called; the program as committed is `[yuv |-> FALSE, key |-> FALSE]`.
Without a key RSASign leaves its results unset: the signature is junk or the process ends. A signature
carries the message it was made `of`, for `Paired`, beside what was in fact fed to the digest: nothing.
The instants a frame may be taken at include two that `getCID` writes differently. Pixels
are a view and the round they were grabbed in; edges and hashes are injective constructors. The
configuration a web UI may send at `init` and the files for it are in `WebUi`; what `main` has in
comments, towards the server, is in `Client`.

### Client

A logger is `main` at a call (`main[p]`), perhaps with `ClientServiceThread` beside it (`svc[p]`), a
connection (`link`, `toS`, `fromS`, one unit per header and per body) and the server's thread of it
(`sv[p]`). `setting` says how the program is built and used: what `main` is compiled to do (the calls
are in comments, `Logger.cpp:753-772`), with `initClient` or `test_initClient`, whether a key file
can be written, whether `atoi` finds a digit behind the number it is sent (the buffer has no end), and
how many loggers run. A share is named by the run of `test_share_gen` that made it; `Empty` and `Junk`
are what is taken for one.

- `Connect` leaves `g_pNetwork` allocated with or without a connection; `Sends` is `send_binary` as
  `main` calls it: results unused, SIGPIPE where the peer has reset, anything once `termClient`
  (`SvcEnds`) has freed `g_pNetwork` under it.
- `Take`, `Fill`, `Pick`, `TakeShare` are clear, one `push_back`, `rand() % size()` and the indexing;
  `Crash` is what the code leaves undefined among them, `NoResult` the end of `test_share_req`, which
  returns nothing after it answered and may end the process (where `setting.faults` allows it).
- `RecvHead` and `RecvShare` are `test_share_req`; `Collect` and `NextRound` the loops of
  `performance_evaluation`.

### Greeter

One step per access of a handler to the fields all RPCs share: `SelectNum`, `SelectKey`, `Generate` of
`SayHello`; `GetShare`; `VerifyKey`; `TakeKey` and what follows of `EncryptFingerprint`, where a text
encrypted under another key makes `handleErrors` call `abort`. A client is at one call of
`greeter_client`'s `main` (`pc`), with the shares it collected (`got`), `shares.key` of its directory
(`OpenFile`, `Flush`, `ReadFile`) and what it was told. A share is the key, the call that generated it and
its index; shares of one call and enough of them give the key back (c-sss, external), others do not.
What is decrypted under another key need not be text: in a `string` of proto3 bytes that are no UTF-8
fail the call (`NotText`).
`setting.meet` says at which calls of one client another may begin.

### WebUi

The Logger's main loop, reduced to what it does at the queues: `TakeConfig`/`NoConfig`, `AnswerConfig`,
`Capture`, `TakeRequest`/`NoRequest`, `Save` for each of the three files, `Respond`.
Receives do not wait, sends do, for `Room`. The UI is any program that uses the queues. `setting` says
how the Logger is built (`hashes`: `send_image_hash_to_UI` is called; `yuv`: `YUV_switch`), whether the
configured `paths` are good, and whether the UI reads its answers, waits for them before it asks
again, and keeps to the queues' types. What `camera_cfg_recv` reads of a message of another type is any size.

A file's turn (`Save`) ends in one of four ways: it is written (`SaveEnds`); it is not, and the loop goes on to the answer
all the same (`NotSaved`: `imwrite` returns false, the hash file is not open, `Logger.cpp:527-533`);
`imwrite` throws, which ends the process (`Throws`); or the gray picture or the hash goes elsewhere
(`Astray`: `yfile_path` and `hashfile_path` are `c_str()` of strings that are gone, `logger_cfg.h:43-50`).
`served` is the round of the last request taken, `lost` the files that request left without what is its
own. Without `YUV_switch`, as committed, `Capture` takes `front()` of empty queues, and the
process may end there.

### Sequential helpers

- `Base64`: the accumulator and the table coder of `bs64.h` (copied into `sign.cpp`), the coder by
  groups of `test_bs64.cc`, the one by bits of `en_de_file.c`, on sequences of bytes; `BioEncode` is
  OpenSSL's, which the others have to agree with. The loops that carry a state from character to
  character are functions of the number of characters taken. `Decodable` is what `decode` of
  `en_de_file.c` survives: of a text with more pads than it has room for, it asks `malloc` for a
  negative length.
- `Sha256`: `process` in pieces of any length, the digits of the length with their carries, `finish`
  with one or two blocks of padding. The compression is free of collisions: the digest is the sequence
  of blocks. Its reference is the padding rule of the standard. `BlockSize` and `ByteBase`
  (64 bytes, 256 values) scale it down.
- `MerkleTree`: the constructor level by level; of a hash it matters which blocks it was made of, in
  which order and how often they were hashed (`below`, `room`).
- `FileTool`: each run encrypts or decrypts a file in place: lengths, what the rest of the last block
  holds, the text of the cipher, the byte that nothing is stored in, a character left behind a dump.
  The block cipher is a bijection that mixes each byte with the one a block before it. `strlen` of
  what is decrypted may run past its buffer: one byte is looked at there, which may be any of `Behind`.
- `Wire`: a class of messages is its schema; `InternalParse`, which takes field after field
  (`ReadNext`), `InternalSerialize`, `ByteSizeLong`, `MergeImpl` and `CopyFrom` are operators over it,
  and a message passes peers that take it for any other class.

None of them declares a recursive operator, so all can be proved about.

## Runs

| Run | What it shows | Bounds |
|---|---|---|
| `transport` | both sides stand at the same field (`StreamAligned`), a message read was sent (`AllReadMeansAllSent`), both end or the reader stands in a bare `recv` (`BothEnd`), and the loops implement `FieldStream` | five fields of 2, 3, 2, 0, 1 bytes, two of them headers; chunks of 2, receives of 3, kernel buffers of 4 bytes, two rounds of select; four pairs of ends (`Modes`): client to server, server to `initClient`'s thread, server to `test_share_req` with and without a timeout. 56,275 states |
| `server` | while clients come one after the other: answers reach the requester, under their own header, after the database decided; payloads are the request's own; threads and sockets are one to one; connections end. Always: answers only to dispatched requests, handlers return | two clients of four kinds: a payload left unread, and misread as another handler's request, before a key, then a second client (`Unread`); any field of a video and a key lost or cut (`Lossy`); headers in pieces (`Short`); two at once (`Together`). One retry, one read that ends inside a unit. 292,319 states |
| `server_routing` | *violated*: answers reach the requester | two clients at once |
| `database` | while library calls do not overlap: one reader of a result, ready when idle, calls finish; while calls of the class come one after the other, registering implements `Registration` | three calls of any kind in turn; two at once of a database that may refuse anything; empty or filled tables; library calls may overlap at any point. 660,440 states |
| `database_shares` | *violated*: a share is given once | one thread, three calls |
| `logger` | no race on the frame, frames kept, frames of this round, lock free at join, pairing, rounds end | two frames, two rounds, two scenes besides dark and empty, two instants, three settings. 696,854 states |
| `logger_sign` | *violated*: signed hashes verify | one frame |
| `client` | own shares counted, the server survives one logger, answers taken apart where they begin, evaluations end | one logger in five settings: evaluations to 5 shares with failing key files and missing returns, to 6 without, to 3 with a stray digit, to 3 with the reading thread beside; two frames with that thread. 34,032 states |
| `client_overlap` | *violated*: the server survives | two loggers that evaluate to 3 shares |
| `greeter` | shares of the current key, told the truth, what ends the service, its own file, clients end | two clients, two keys, two shares needed, three tries; one after the other in one directory, with or without lost calls; meeting after the greetings, around the file, at `VerifyKey`. 1,173,702 states |
| `webui` | camera set as asked, answered once, files of the round that answered, rounds go on | queues for one message, two rounds, two messages to each queue, two frame rates, six settings: as committed with a UI that reads and one that never does; with `send_image_hash_to_UI` and good paths, a UI that waits and one that sends other types; one that waits with bad paths, or without `YUV_switch`. 1,602,278 states |
| `algorithms` | the digest pads as the standard says, every leaf is under the root, files come back, messages survive peers, coders decode each other | SHA-256 with blocks of 12 bytes, bytes of four values, 280 of them in pieces of 0, 1, 5, 29; up to nine leaves; four runs of the tool on files around one and two blocks of 8 and on texts of pads, encrypted up to twice, a byte nothing was stored in being a zero, a blank, a '0' or 255; messages through two peers with a text of 130 letters and one that is no UTF-8; every message of up to five of four bytes, whole and cut short. 15,426 states |

Why the bounds are enough for the cases to occur: in `transport` a payload is longer than a chunk
and than the room left after a header, so partial sends, waits for room, a failure in the middle of a
field and bytes of the next message taken for this one all happen. Two clients and two descriptors
are what it takes for the port to be overwritten under a thread and for a descriptor to be reused. In
`database` two calls interleave at every library call. Two frames and two rounds let a buffer be
shared, freed and allocated again, and let something be left over from the round before. Five and six
shares make the threshold rise within a number and start again with the next. Fewer tries than
shares may need let a greeter's client go on without them; a queue for one message makes `msgsnd`
wait. Blocks of 12 bytes, a byte having four values, make the length carry into its third digit and the
padding take a second block, as 64 bytes and 256 values do for messages no run could hold.
`CHECK_DEADLOCK` is off where clients, calls or rounds run out or the process may end.

Every property of a passing run fails for at least one plausible change of the code (`mutants` in
`PROJECT.json`, definitions marked *Faulty variant* in the modules): a loop that counts what it
offered, a header sent before it is made, a database result not freed, a frame assigned in place,
shares pushed into another vector, a body left in the stream, a file not emptied, a padding one byte short.

Some passing properties hold by a condition that the code does not enforce, and fail without it:
`SurvivesAlone` and `OwnShares` with two loggers (`client_overlap`), `RepliesWhenSerial` with
overlapping clients (`server_routing`), `OneReader` and `JobsFinish` once library calls overlap (`Race`),
`ImplementsRegistration` and `ReadyWhenIdle` with two calls at once of which one is `gen_shares`,
`FilesOfOneRound` for a UI that sends a second request before it read the answer.

## Fairness

- `Transport`: weak fairness of each side as a whole and of `Arrive` (TCP delivers what was sent, or
  resets), in `TransportSpec` itself. `select` returns within its timeout, so a sender that has not
  ended always has a step, and so has a reader that selects; one that does not may wait for ever, as
  `BothEnd` says. Nothing is assumed of `SenderCloses`.
- `Server`: weak fairness of each thread. Every wait of a thread has a timeout whose step is in the
  model. Clients and `listenThd` get none: `ConnectionsEnd` speaks of connections that were accepted.
- `Database`: weak fairness of each thread; library calls return as long as none overlap. `Race` gets
  none, and after it `JobsFinish` asks for nothing.
- `Logger`: weak fairness of `main` and `UpdateFrame`; strong fairness of the two lock actions, as a
  mutex contended by two threads that both release it is not denied to one for ever; strong
  fairness of `End`, since `UpdateFrame` waits for the camera again and again and is then cancelled.
  `RoundsEnd` further assumes that the camera is not in the dark for ever (`CameraSees`): the code
  waits without bound for a frame that is not black.
- `Client`: weak fairness of `main` and of the server's threads, and strong fairness of each
  `Pick(p, a)`: `rand()` yields every index it can sooner or later. Without that `EvaluationEnds` is
  false, and the code says no more than `rand()`. `Hangup` and the reading thread get none.
- `Greeter`: weak fairness of each client and of the handler of its call: a call returns or fails.
  Nothing is assumed about the draws: `MAX_TRY` bounds the client.
- `WebUi`: weak fairness of the main loop, and of the UI's reading where the UI reads at all.

## Proofs

All theorems are about `Spec` (of the transport `TransportSpec`; of hasher and tree also `HashSpec` and
`TreeSpec`, without the other helpers) for every value of the constants that satisfies the named
assumption of the module (`TransportAssumption`, `ServerAssumption`, `DatabaseAssumption`,
`LoggerAssumption`, `ClientAssumption`, `GreeterAssumption`, `WebUiAssumption`, `Sha256Assumption`,
`MerkleTreeAssumption`, `FileToolAssumption`, `WireAssumption`, `AlgorithmsAssumption`). Of these
`WireAssumption` says most: lengths and numbers are non-negative `int32`s, as their callers make
them, and the empty string is UTF-8. Every safety property a passing run checks is proved.

- **ServerProofs, the transport.** `TransportInvariance`: `TransportInv` is inductive. It says,
  besides types, that a side never moved more bytes than its calls account for, and that a sender
  which failed a field that holds anything moved strictly fewer. Without that last part
  `AllReadMeansAllSent` is not inductive: from it and `rcvd <= sent` a receiver that read everything
  excludes a failure. `Alignment`, `AllSentIfAllRead` follow; `StreamRefinement` shows that the two
  loops implement `FieldStream`, empty fields (read without a call, never sent) included.
- **ServerProofs, the server.** `TypeCorrect`. `DispatchedAnswers` needs no assumption on the clients: the
  invariant `DispatchInv` adds that a handler's own request was dispatched and that `res` was, once
  this handler filled it, since others only put dispatched requests there. `Serially` assumes
  `Serial` and proves `SerialInv`: one connection at a time (`OneAtATime`), so the shared port, the
  thread's socket and the handler's port are the one open descriptor (`Slots`), so what is read is
  the connection's own (`Streams`), so `res`, `stored` and `refused` follow the handler (`Progress`), so
  every answer is right when it is sent (`Answers`). `SerialReplies`, `SerialHeaders`, `SerialStores`
  (answered only after the database took or refused it: `AnsweredAfterDb`), `SerialSockets` are its
  consequences. `Framing` again needs no assumption: whatever is interleaved, lost, cut off or
  misread, in what can still be read the header of a request that was sent whole is followed by
  its fields, and what is missing is missing in the torn request alone. `SerialPayloads` rests on it:
  that a handler took only its own request's fields is not inductive, it needs that the fields it
  has still to read come next and that their client sends all of them (`OwnAhead`), and that needs
  `Framed` and, so that nobody else reads them, `SerialInv`. It holds whatever bytes of a payload are
  taken for, and wherever reads of them end: those are handlers of number 0, and a header that is read
  as one is followed by its own fields.
- **DatabaseProofs.** `TypeCorrect`; `OneReaderAlways`: as long as no two calls of the library overlap, a result
  is only taken from a connection that nobody reads, because taking it is what changes its state, and
  no statement goes through before it is read; that calls do not overlap is a hypothesis, which the
  code does not establish (`Race`). `ReadyAlways`, under the same: the invariant
  `ResultInv` says that a result was asked for by a call that stands right before `mysql_use_result`
  (`Asked`), or is read by a call that stands before what frees it (`Attended`). That holds for all
  calls but `generate_shares`, which frees nothing, and hence the hypothesis: where it may be called
  nothing runs beside it. `KeysRegistered`: `KeyInv` follows `insert_pk_database` call by call
  (`Registering`: what is in the tables, in the result and in `row` at each of its fifteen places) and
  says what holds between two registrations (`Registered`). `KeyRegistered`, which
  `ImplementsRegistration` entails, is proved and no run checks it by itself.
  `RegistrationRefinement`, from the same invariant: of the calls of `insert_pk_database` the fifth
  and the eighth change the tables (`RegisteringMoves`); the fifth is `Register`, the eighth moves the
  key from `Saved` to `keys` and is not seen, the return is `Tell`, and since nobody else works
  (`KeysOfOne`) every other step, of every other call too, stutters (`RegistrationStep`).
- **AlgorithmProofs.** `Digest`: for messages of any length in pieces of any lengths. `HashInv` says
  that the digits are those of the number of bytes (`LengthAdded`), that the buffer holds the rest and
  that the blocks compressed are the whole ones (`Fed`); `LengthWritten` and `PaddedAsStandard` then
  show the last blocks to be the standard's, whether or not the length needs one of its own. `Tree`:
  for any number of blocks. `TreeInv`: all nodes of a level have one width and the *j*-th has the *j*-th
  so many leaves below it, but for the last, which has the rest; those of the level being made have
  twice the width (`Joined`, `Lifted`). `DigestOfSpec`, `TreeOfSpec` say the same of `Spec`.
  `Coders`: for messages of any length. The state is only a message and how much of its text is cut
  off (`CoderInv`); the work is in what the coders compute. Every encoder's text is shown to be the
  groups of six bits of the message, by arithmetic on one group of three bytes at a time, with its
  padding; every decoder's bytes to be the whole bytes of the characters up to the first it stops at.
  The loops (`BEncode`, `BDecode`, `HDecode`) get an invariant on the number of characters taken, by
  `Induction`; that such a function exists at all, with the values its definition says, is
  `Recursion`.
- **Induction and recursion.** The library's theorems about them take an operator, which the
  installed provers cannot instantiate. `Induction` is stated over a set of numbers instead, and
  proved from a theorem without operators, that strict inclusion of finite sets is well-founded: a
  least number outside the set would give an infinite descent of the intervals below. `Recursion`
  builds a recursive function on `0..n` from one on `0..n-1`, by that induction.
- **FileAndMessageProofs, the file tool.** `FileComesBack`, for files of any length encrypted any
  number of times and decrypted in any order. `FileInv`: `below` is a chain, in which each text that
  is not empty was encrypted to the next, and the last to the file (`Linked`), or to that and one byte
  behind it where it fills its last block (`Back`); a further encryption lengthens the chain, a
  decryption takes its last link. That decrypting undoes encrypting rests on the coders, on the
  text of a cipher being read as the numbers it was written from, and on the chained cipher.
  That the text an encryption makes holds no zero lets it be encrypted again.
- **FileAndMessageProofs, the messages.** `MessagesArrive`, for any texts and numbers. `WireInv`: what
  the present holder would write are the bytes the maker wrote, unless it was refused. That this
  is so after a peer of another class is the longest part: what it knows of the fields and what it
  does not is followed field by field (`Carries`), as it keeps unknown fields behind its own and
  writes them back in that order, and a field both know stands in its place. Under it are varints
  (of up to five bytes), one field written and read back, and a row of fields read one by one, in no
  more passes than there are bytes. `KeptCutOrMerged` has the text cut short, which ends between two
  fields or is refused, and the merge.
- **LoggerProofs.** `Invariance` of `IInv`: who holds the lock at which place (`LockInv`), whose round
  a buffer is of (`RoundInv`), how many frames were taken and that the queue shows what was taken
  (`TakenInv`), which queues are filled at which stage and with what (`StageInv`). Its consequences
  are `TypeCorrect`, `FrameLocked`, `LockSurvivesCancel`, `FramesStay`, `FramesFresh`, `HashesPair` (the
  *i*-th hash, CID and signature are those of the *i*-th frame).
  The heart of `FramesStay` is that an allocation takes a buffer that nothing refers to, and nothing
  else writes pixels.
- **ClientProofs.** `IInv` has a part that holds however many loggers run and one about a logger that
  is alone. The first: `ModeInv` (where `main` can be, and that nothing moves on a connection that was
  not made), `FramesInv` (a key's header is followed by its body, until the reading thread gave up
  waiting for one), `PhaseInv` (without that thread, exactly one request is answered at a time, and
  which part of the answer is where). `Aligned` follows, since a step of one connection leaves the
  others as they are (`Elsewhere`), but for `Crash`, which ends them. The second: `TestsInv` (the
  vector is filled from its first element, an index drawn stays good) gives `Survival` (of
  `SurvivesAlone`); `WholeInv`
  follows a share from the request through vector, answer and string into the set, and gives
  `OwnCounted`. `Alone` is needed: with two loggers both fail, the first as `client_overlap` shows.
- **GreeterProofs.** `RpcInv` ties a handler's place to the client's; while clients come one after the
  other, `OneBusy`, and with no lost calls `QuietInv`: what the service has selected is what it makes
  shares of, from the answer to the first greeting on. `SecretInv` and `VerdictInv` carry that to the
  secret and the verdict, `FileInv` to the file, and `EndedByIncomplete` to the only way the service ends.
- **WebUiProofs.** `QueueInv`: what is in the configuration queue is what was asked and not taken;
  `CameraInv` adds the settings, `AnsweredOnce` is inductive beside them; `RequestInv` counts a patient
  UI's one request, and `FilesInv` says which files are written at each place of the loop: of the round
  being served, or among those it left out (`Written`). A picture that goes astray over another file
  makes that one lost too, so that no file is ever of a round before and not known to be.

Model-checked only: all liveness properties (`BothEnd`, `ConnectionsEnd`, `HandlersReturn`,
`JobsFinish`, `RoundsEnd`, `EvaluationEnds`, `ClientsEnd`, `RoundsGoOn`), which rest on fairness and are
out of the prover's reach.

## Where the code and its description disagree

Shown by a run:

- `server_routing`: the answer to one client is sent to another (`server.cpp:457`, `542-547`),
  although five users are configured (`Sys_cfg.json:47`).
- `database_shares`: `"LID = " + LID` (`bout_database.cpp:245`) is pointer arithmetic, the share is
  never assigned and the next logger is given it too (`MariaDB_Download_manual:23`).
- `logger_sign`: the signature is of the empty message (`sign.cpp:381`, `Logger_function_list.h:14`).
- `client_overlap`: two loggers that evaluate at once end the server (`server.cpp:42`): one clears the
  vector the other draws from, although five users are configured (`Sys_cfg.json:47`).

Met while modelling, with no run of their own:

- the payload of GEN_AES is never read (`command_function_list.cpp:212`) and is taken for a header;
  the error message then prints an integer with `%s` (`server.cpp:459`);
- the error of `recv` is 255 in a `uint8_t` and dispatched as a command (`server.cpp:444`, whose
  comment notes the 255);
- two overlapping public-key requests insert two rows, although `bout_database.cpp:167` prints
  "lidExists can only have zero or one";
- `edge_detection_BGR` ignores its argument: the edges are of the color frames, not of the gray ones
  as `Logger.cpp:799` says;
- `init_queue` ("Init all datas in queues", `Logger_function_list.h:7`) leaves `G_queue` growing;
- `insert_data` frees no result, so that a result swapped with another thread's would wedge the
  connection; the calls at once in `database` leave share generation out for that reason;
- two frames of a round get the same CID (`client.cpp:37-64` fills milliseconds up on the wrong
  side), although `Logger_function_list.h:15` says "Make CID for each frames" and `CID` is a
  primary key (`MariaDB_Download_manual:24`);
- a statement the database refuses is acknowledged like any other (`bout_database.cpp:62-70`,
  `command_function_list.cpp:168-184`);
- the library calls of two threads on the one connection are not kept apart (`bout_database.cpp:69`),
  which MySQL does not allow;
- `test_share_req` of the Logger waits for its answer without a timeout (`Logger.cpp:693`), and so does
  every field read over the port `test_initClient` sets up (`client.cpp:386-417`);
- `yfile_path` and `hashfile_path` point into a string that is gone (`logger_cfg.h:43-50`), and with
  `YUV_switch` FALSE the first elements of empty queues are saved (`Logger.cpp:519-520`);
- a Merkle tree of no blocks is never finished (`merkle_tree.cpp:7`), and `deleteTree` follows the
  pointers of leaves, which nobody set, and frees nothing (`merkle_tree.cpp:53`);
- `decode` of the file tool writes one byte nothing was stored in, reads for ever what is not
  hexadecimal, ends no string when the length is a multiple of the block, and asks for memory of a
  negative length when there are more pads than characters account for (`en_de_file.c:281`);
- a greeter's client that got too few shares goes on (`greeter_client.cc:315`), and what it then
  sends ends the service for all (`greeter_server.cc:242`).

## Not modelled

- **Verifier.** Its `main` does not compile against the `bout_database` of this commit, calls
  `CID.substr(5, 2)` of an empty string, which ends it, and `compare_hash` compares two globals
  that no call sets (`Verifier.cpp:184`). There is no behaviour to check; what `verify.cpp` accepts as a
  signature is in `Logger` and `Base64`.
- **Start and stop of the server**: `initServer`, `termServer`, and the configuration they read. Values of
  the configuration are constants. `insert_port` and `pop_port` change nothing that is read.
- **Database methods without a caller** (`select_database`, `get_latest_key_ID`, `print_query`).
- **Web UI**: the exit when `msgget` fails; the UI itself is not in the repository.
- **Greeter**: `SayHelloStreamReply`, which the service does not implement; the stubs, which only pass
  calls to gRPC; arenas, swapping and descriptors of the messages; c-sss.
- **Libraries**: AES and key files are OpenSSL's, images OpenCV's, and the compression function of
  SHA-256 is taken to be free of collisions. Memory allocation, the ends of C strings and the wording
  of messages are left out where no property is about them.
- **Callbacks of the client that no run sends to** (`another_share_response` and the ones that print).

Contents of frames, keys and shares are values to be told apart.

## Plan

Modelling is complete up to the above. One abstract specification is worth stating yet: that of
`Server` over `FieldStream` in place of its unit streams, with `Server` shown to implement it.
