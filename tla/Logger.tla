-------------------------------- MODULE Logger --------------------------------
(***************************************************************************)
(* Logger/Logger.cpp: main takes frame_count frames, makes a hash of each, *)
(* signs it and starts over.  During capture() a second thread,            *)
(* UpdateFrame, reads the camera into the global frame; both use frame     *)
(* under frameLocker.  capture() ends the thread with pthread_cancel.      *)
(*                                                                         *)
(* A cv::Mat is a reference to a buffer: frame, the frame main looks at    *)
(* and the entries of bgr_queue may share one, and a buffer lives as long  *)
(* as it is referred to.  Between captures main runs alone, so each of its *)
(* loops over a queue is one step.                                         *)
(***************************************************************************)
EXTENDS Integers, Sequences, Functions

CONSTANTS
  Scene,      \* what the camera may see, the dark aside
  Instant,    \* bound: milliseconds of the second at which CIDs are made
  FrameCount, \* frame_count
  MaxRounds,  \* bound: rounds of main's loop
  Settings    \* what main is built to do, [yuv |-> FALSE, key |-> FALSE] here

ASSUME LoggerAssumption ==
  /\ Instant \subseteq 0..999
  /\ FrameCount \in Nat \ {0} /\ MaxRounds \in Nat
  /\ Settings \subseteq [yuv : BOOLEAN, key : BOOLEAN]

View == Scene \cup {"black", "empty"}

\* a frame of the camera: what it shows and the round whose width, height and
\* fps the camera had
Image == [view : View, round : 0..MaxRounds]
Buffer == 1..(FrameCount + 3)

VARIABLES
  setting,       \* YUV_switch, and whether key_generation is called
  up,            \* the process is alive
  pc,            \* where main is
  round,         \* rounds begun
  now,           \* the clock's milliseconds
  memory,        \* buffers in use and what they hold
  frame,         \* buffer of the global frame
  currentFrame,  \* buffer main looks at, 0: none
  frameLocker,   \* "free", or the thread that holds it
  upd,           \* where UpdateFrame is, "gone" when there is no such thread
  tempFrame,     \* what it read last
  cancelled,     \* pthread_cancel was called
  bgr_queue, yuv420_queue, y_queue, G_queue, feature_vector_queue,
  hash_queue, hash_signed_queue, cid_queue,
  shots          \* history: image and CID of each frame taken in this round

world == <<setting, up, now>>
mats == <<memory, frame, currentFrame>>
updVars == <<frameLocker, upd, tempFrame, cancelled>>
taken == <<bgr_queue, cid_queue, shots>>
hashes == <<yuv420_queue, y_queue, G_queue, feature_vector_queue, hash_queue,
            hash_signed_queue>>
vars == <<world, pc, round, mats, updVars, taken, hashes>>

-----------------------------------------------------------------------------
(* What the image and hash functions compute.                              *)

\* getCID cuts the time after the milliseconds and fills up with zeros on the
\* right: 5, 50 and 500 milliseconds read the same
Cid(ms) == IF ms < 10 THEN 100 * ms ELSE IF ms < 100 THEN 10 * ms ELSE ms

Edges(of, image) == [of |-> of, image |-> image]
Hash(edges) == [sha256 |-> edges]

\* RSASign never passes the message to EVP_DigestSignUpdate: it signs the
\* empty message.  of is history: the message RSASign was called for
Sign(message) == [key |-> TRUE, signs |-> <<>>, of |-> message]

\* RSAVerifySignature: the digest that was signed is that of the message
Verifies(signature, message) == signature.key /\ signature.signs = <<message>>

\* what the buffers of a queue hold
Pixels(queue) == [i \in 1..Len(queue) |-> memory[queue[i]]]

\* edge images of the images of a queue
AllEdges(of, images) == [i \in 1..Len(images) |-> Edges(of, images[i])]

-----------------------------------------------------------------------------
(* Buffers.                                                                *)

\* cv::Mat allocates a buffer
New(b) ==
  /\ b \in Buffer \ DOMAIN memory
  /\ \A c \in Buffer \ DOMAIN memory : b <= c

\* buffers that are referred to when frame, main's frame and the queue are so
Referred(f, c, queue) == ({f, c} \cup Range(queue)) \ {0}

Keep(buffers) == memory' = [b \in buffers |-> memory[b]]

\* b is allocated for image, the buffers no longer referred to are freed
Allocate(b, image, buffers) ==
  memory' = [c \in buffers |-> IF c = b THEN image ELSE memory[c]]

-----------------------------------------------------------------------------
\* main has read the configuration, opened the camera and let it warm up
Init ==
  /\ setting \in Settings
  /\ up = TRUE /\ pc = "init" /\ round = 0
  /\ now \in Instant
  /\ memory = [b \in {1} |-> [view |-> "empty", round |-> 0]]
  /\ frame = 1 /\ currentFrame = 0
  /\ frameLocker = "free"
  /\ upd = "gone" /\ tempFrame = [view |-> "empty", round |-> 0] /\ cancelled = FALSE
  /\ bgr_queue = <<>> /\ yuv420_queue = <<>> /\ y_queue = <<>> /\ G_queue = <<>>
  /\ feature_vector_queue = <<>> /\ hash_queue = <<>> /\ hash_signed_queue = <<>>
  /\ cid_queue = <<>>
  /\ shots = <<>>

At(place) == up /\ pc = place
GoTo(place) == pc' = place

\* Faulty variant: frame keeps the last picture of the round before.
InitKeepsFrame ==
  /\ At("init") /\ round < MaxRounds
  /\ round' = round + 1
  /\ shots' = <<>>
  /\ GoTo("start")
  /\ UNCHANGED <<world, mats, updVars, bgr_queue, cid_queue, hashes>>

\* init(): the camera gets the settings of this round, frame is black
InitRound ==
  /\ At("init") /\ round < MaxRounds
  /\ round' = round + 1
  /\ \E b \in Buffer :
       /\ New(b)
       /\ frame' = b
       /\ Allocate(b, [view |-> "black", round |-> round'],
                   Referred(b, currentFrame, bgr_queue))
  /\ shots' = <<>>
  /\ GoTo("start")
  /\ UNCHANGED <<world, currentFrame, updVars, bgr_queue, cid_queue, hashes>>

-----------------------------------------------------------------------------
(* capture().                                                              *)

\* pthread_mutex_init and pthread_create
StartCapture ==
  /\ At("start")
  /\ frameLocker' = "free"
  /\ upd' = "grab" /\ cancelled' = FALSE
  /\ GoTo("lock")
  /\ UNCHANGED <<world, round, mats, tempFrame, taken, hashes>>

\* Faulty variant: main does not wait for the lock.
LockAnyway ==
  /\ At("lock")
  /\ frameLocker' = "main"
  /\ GoTo("copy")
  /\ UNCHANGED <<world, round, mats, upd, tempFrame, cancelled, taken, hashes>>

Lock ==
  /\ At("lock") /\ frameLocker = "free"
  /\ frameLocker' = "main"
  /\ GoTo("copy")
  /\ UNCHANGED <<world, round, mats, upd, tempFrame, cancelled, taken, hashes>>

\* currentFrame = frame, which copies no pixel, and unlock
CopyFrame ==
  /\ At("copy")
  /\ currentFrame' = frame
  /\ Keep(Referred(frame, frame, bgr_queue))
  /\ frameLocker' = "free"
  /\ GoTo("look")
  /\ UNCHANGED <<world, round, frame, upd, tempFrame, cancelled, taken, hashes>>

\* currentFrame is taken if it is not empty and not all black; it goes out of
\* scope, and the loop goes on until there are frame_count frames
Look ==
  /\ At("look")
  /\ LET image == memory[currentFrame] IN
       IF image.view \notin {"empty", "black"}
         THEN /\ bgr_queue' = Append(bgr_queue, currentFrame)
              /\ cid_queue' = Append(cid_queue, Cid(now))
              /\ shots' = Append(shots, [image |-> image, cid |-> Cid(now)])
         ELSE UNCHANGED <<bgr_queue, cid_queue, shots>>
  /\ currentFrame' = 0
  /\ Keep(Referred(frame, 0, bgr_queue'))
  /\ GoTo(IF Len(bgr_queue') = FrameCount THEN "cancel" ELSE "lock")
  /\ UNCHANGED <<world, round, frame, updVars, hashes>>

\* Faulty variant: main joins a thread nobody cancels.
CancelForgotten ==
  /\ At("cancel")
  /\ GoTo("join")
  /\ UNCHANGED <<world, round, mats, updVars, taken, hashes>>

\* pthread_cancel only asks
Cancel ==
  /\ At("cancel")
  /\ cancelled' = TRUE
  /\ GoTo("join")
  /\ UNCHANGED <<world, round, mats, frameLocker, upd, tempFrame, taken,
                 hashes>>

\* pthread_join returns; pthread_mutex_destroy
Join ==
  /\ At("join") /\ upd = "gone"
  /\ GoTo("convert")
  /\ UNCHANGED <<world, round, mats, updVars, taken, hashes>>

-----------------------------------------------------------------------------
(* UpdateFrame.                                                            *)

\* cap >> tempFrame delivers what the camera sees, or nothing
Grab(view) ==
  /\ up /\ upd = "grab"
  /\ tempFrame' = [view |-> view, round |-> round]
  /\ upd' = "lock"
  /\ UNCHANGED <<world, pc, round, mats, frameLocker, cancelled, taken, hashes>>

UpdLock ==
  /\ up /\ upd = "lock" /\ frameLocker = "free"
  /\ frameLocker' = "upd"
  /\ upd' = "assign"
  /\ UNCHANGED <<world, pc, round, mats, tempFrame, cancelled, taken, hashes>>

\* Faulty variant: tempFrame.copyTo(frame) writes into the buffer frame has.
AssignInPlace ==
  /\ up /\ upd = "assign"
  /\ memory' = [memory EXCEPT ![frame] = tempFrame]
  /\ frameLocker' = "free"
  /\ upd' = "grab"
  /\ UNCHANGED <<world, pc, round, frame, currentFrame, tempFrame, cancelled,
                 taken, hashes>>

\* frame = tempFrame.clone(), in a buffer of its own, and unlock
Assign ==
  /\ up /\ upd = "assign"
  /\ \E b \in Buffer :
       /\ New(b)
       /\ frame' = b
       /\ Allocate(b, tempFrame, Referred(b, currentFrame, bgr_queue))
  /\ frameLocker' = "free"
  /\ upd' = "grab"
  /\ UNCHANGED <<world, pc, round, currentFrame, tempFrame, cancelled, taken,
                 hashes>>

\* Faulty variant: cancellation is asynchronous, the thread ends anywhere.
EndAnywhere ==
  /\ up /\ upd # "gone" /\ cancelled
  /\ upd' = "gone"
  /\ UNCHANGED <<world, pc, round, mats, frameLocker, tempFrame, cancelled,
                 taken, hashes>>

\* the thread is cancelled where it waits for the camera: pthread_mutex_lock
\* is no cancellation point
End ==
  /\ up /\ upd = "grab" /\ cancelled
  /\ upd' = "gone"
  /\ UNCHANGED <<world, pc, round, mats, frameLocker, tempFrame, cancelled,
                 taken, hashes>>

UpdateFrame == (\E view \in View : Grab(view)) \/ UpdLock \/ Assign \/ End

-----------------------------------------------------------------------------
(* The frames become hashes.                                               *)

\* convert_frames2YUV, convert_frames2gray
Convert ==
  /\ At("convert")
  /\ LET images == Pixels(bgr_queue) IN
        IF setting.yuv
          THEN /\ yuv420_queue' = yuv420_queue \o images
               /\ y_queue' = y_queue \o images
               /\ UNCHANGED G_queue
          ELSE /\ G_queue' = G_queue \o images
               /\ UNCHANGED <<yuv420_queue, y_queue>>
  /\ GoTo("edges")
  /\ UNCHANGED <<world, round, mats, updVars, taken, feature_vector_queue,
                 hash_queue, hash_signed_queue>>

\* edge_detection_YUV works on a copy of y_queue; edge_detection_BGR, given
\* G_queue, empties bgr_queue
DetectEdges ==
  /\ At("edges")
  /\ IF setting.yuv
       THEN /\ feature_vector_queue' = feature_vector_queue \o AllEdges("y", y_queue)
            /\ UNCHANGED <<bgr_queue, memory>>
       ELSE /\ feature_vector_queue' =
                 feature_vector_queue \o AllEdges("bgr", Pixels(bgr_queue))
            /\ bgr_queue' = <<>>
            /\ Keep(Referred(frame, currentFrame, <<>>))
  /\ GoTo("hash")
  /\ UNCHANGED <<world, round, frame, currentFrame, updVars, cid_queue, shots,
                 yuv420_queue, y_queue, G_queue, hash_queue, hash_signed_queue>>

MakeHash ==
  /\ At("hash")
  /\ hash_queue' = hash_queue \o
       [i \in 1..Len(feature_vector_queue) |-> Hash(feature_vector_queue[i])]
  /\ GoTo("sign")
  /\ UNCHANGED <<world, round, mats, updVars, taken, yuv420_queue, y_queue,
                 G_queue, feature_vector_queue, hash_signed_queue>>

\* Faulty variant: the hash that was signed is not popped.
SignFirst ==
  /\ At("sign") /\ setting.key
  /\ hash_signed_queue' = hash_signed_queue \o
       [i \in 1..Len(hash_queue) |-> Sign(hash_queue[1])]
  /\ GoTo("reset")
  /\ UNCHANGED <<world, round, mats, updVars, taken, yuv420_queue, y_queue,
                 G_queue, feature_vector_queue, hash_queue>>

\* sign_hash: the front of a copy of hash_queue, until it is empty
SignHash ==
  /\ At("sign") /\ setting.key
  /\ hash_signed_queue' = hash_signed_queue \o
       [i \in 1..Len(hash_queue) |-> Sign(hash_queue[i])]
  /\ GoTo("reset")
  /\ UNCHANGED <<world, round, mats, updVars, taken, yuv420_queue, y_queue,
                 G_queue, feature_vector_queue, hash_queue>>

\* RSASign without a key leaves its results unset: signMessage encodes and
\* frees whatever the stack holds, or the process ends
SignWithoutKey ==
  /\ At("sign") /\ ~setting.key
  /\ \/ up' = FALSE /\ UNCHANGED <<pc, hash_signed_queue>>
     \/ /\ hash_signed_queue' = hash_signed_queue \o
              [i \in 1..Len(hash_queue) |->
                 [key |-> FALSE, signs |-> <<>>, of |-> hash_queue[i]]]
        /\ GoTo("reset")
        /\ UNCHANGED up
  /\ UNCHANGED <<setting, now, round, mats, updVars, taken, yuv420_queue,
                 y_queue, G_queue, feature_vector_queue, hash_queue>>

\* init_all_settings: init_queue, which does not know G_queue
Reset ==
  /\ At("reset")
  /\ bgr_queue' = <<>> /\ yuv420_queue' = <<>> /\ y_queue' = <<>>
  /\ feature_vector_queue' = <<>> /\ hash_queue' = <<>> /\ hash_signed_queue' = <<>>
  /\ cid_queue' = <<>>
  /\ Keep(Referred(frame, currentFrame, <<>>))
  /\ GoTo("init")
  /\ UNCHANGED <<world, round, frame, currentFrame, updVars, shots, G_queue>>

\* the clock goes on
Tick ==
  /\ up
  /\ \E t \in Instant : t > now /\ now' = t
  /\ UNCHANGED <<setting, up, pc, round, mats, updVars, taken, hashes>>

-----------------------------------------------------------------------------
Capture == StartCapture \/ Lock \/ CopyFrame \/ Look \/ Cancel \/ Join
Pipeline ==
  Convert \/ DetectEdges \/ MakeHash \/ SignHash \/ SignWithoutKey \/ Reset

Main == InitRound \/ Capture \/ Pipeline

Next == Main \/ UpdateFrame \/ Tick

Spec == Init /\ [][Next]_vars

\* Neither thread is starved of frameLocker, and UpdateFrame, once cancelled,
\* does not find a frame ready for ever instead of waiting for one.
FairSpec ==
  /\ Spec
  /\ WF_vars(Main) /\ SF_vars(Lock)
  /\ WF_vars(UpdateFrame) /\ SF_vars(UpdLock)
  /\ SF_vars(End)

-----------------------------------------------------------------------------
(* Properties.                                                             *)

Places == {"init", "start", "lock", "copy", "look", "cancel", "join", "convert",
           "edges", "hash", "sign", "reset"}
EdgeImage == [of : {"bgr", "y"}, image : Image]
HashText == [sha256 : EdgeImage]
Signature == [key : BOOLEAN, signs : {<<>>}, of : HashText]

TypeOK ==
  /\ setting \in Settings
  /\ up \in BOOLEAN /\ pc \in Places /\ round \in 0..MaxRounds /\ now \in Instant
  /\ DOMAIN memory \subseteq Buffer
  /\ \A b \in DOMAIN memory : memory[b] \in Image
  /\ frame \in DOMAIN memory /\ currentFrame \in DOMAIN memory \cup {0}
  /\ frameLocker \in {"free", "main", "upd"}
  /\ upd \in {"gone", "grab", "lock", "assign"}
  /\ tempFrame \in Image /\ cancelled \in BOOLEAN
  /\ bgr_queue \in Seq(DOMAIN memory)
  /\ yuv420_queue \in Seq(Image) /\ y_queue \in Seq(Image) /\ G_queue \in Seq(Image)
  /\ feature_vector_queue \in Seq(EdgeImage)
  /\ hash_queue \in Seq(HashText)
  /\ hash_signed_queue \in Seq(Signature)
  /\ cid_queue \in Seq(0..999)
  /\ shots \in Seq([image : Image, cid : 0..999])

\* the global frame is never read by capture while UpdateFrame replaces it
NoRace == ~(pc = "copy" /\ upd = "assign")

\* a frame in bgr_queue still shows what it showed when it was taken, however
\* many frames the camera delivered since: frame and its entries share buffers
FramesKept ==
  /\ Len(bgr_queue) <= Len(shots)
  /\ \A i \in 1..Len(bgr_queue) : memory[bgr_queue[i]] = shots[i].image

\* the frames of a round were taken by the camera with the settings of that
\* round, none is left from the round before
FramesOfThisRound == \A i \in 1..Len(shots) : shots[i].image.round = round

\* when capture() destroys frameLocker, nobody holds it: the cancelled thread
\* did not die with the lock
UnlockedAtJoin == (pc = "join" /\ upd = "gone") \/ pc = "convert" => frameLocker = "free"

\* at the end of a round there are frame_count hashes, signed hashes and CIDs:
\* the i-th hash is that of the i-th frame taken, the i-th signature was made
\* for that hash, and the i-th CID when that frame was taken
Paired ==
  pc = "reset" =>
    /\ Len(shots) = FrameCount
    /\ Len(hash_queue) = FrameCount /\ Len(hash_signed_queue) = FrameCount
    /\ Len(cid_queue) = FrameCount
    /\ \A i \in 1..FrameCount :
         /\ hash_queue[i].sha256.image = shots[i].image
         /\ hash_signed_queue[i].of = hash_queue[i]
         /\ cid_queue[i] = shots[i].cid

Capturing == {"lock", "copy", "look", "cancel", "join"}
Taken == {"cancel", "join", "convert", "edges", "hash", "sign", "reset"}

\* who holds frameLocker, and when there is an UpdateFrame
LockInv ==
  /\ frameLocker = "main" <=> pc = "copy"
  /\ frameLocker = "upd" <=> upd = "assign"
  /\ pc \notin Capturing => upd = "gone"
  /\ currentFrame # 0 <=> pc = "look"

\* what the threads have in hand is of this round
RoundInv ==
  /\ pc # "init" => memory[frame].round = round
  /\ pc = "look" => memory[currentFrame].round = round
  /\ upd \in {"lock", "assign"} => tempFrame.round = round
  /\ FramesOfThisRound

\* how many frames are taken, each with its CID
TakenInv ==
  /\ FramesKept
  /\ pc = "init" => bgr_queue = <<>> /\ cid_queue = <<>>
  /\ pc = "start" => shots = <<>>
  /\ pc \in {"lock", "copy", "look"} => Len(shots) < FrameCount
  /\ pc \in Taken => Len(shots) = FrameCount
  /\ pc \notin {"init", "hash", "sign", "reset"} => Len(bgr_queue) = Len(shots)
  /\ pc # "init" =>
       /\ Len(cid_queue) = Len(shots)
       /\ \A i \in 1..Len(shots) : cid_queue[i] = shots[i].cid

\* a queue is empty until its stage fills it with what belongs to the frames
StageInv ==
  /\ pc \notin {"edges", "hash", "sign", "reset"} => y_queue = <<>>
  /\ pc \notin {"hash", "sign", "reset"} => feature_vector_queue = <<>>
  /\ pc \notin {"sign", "reset"} => hash_queue = <<>>
  /\ pc # "reset" => hash_signed_queue = <<>>
  /\ pc = "edges" /\ setting.yuv =>
       /\ Len(y_queue) = FrameCount
       /\ \A i \in 1..FrameCount : y_queue[i] = shots[i].image
  /\ pc = "hash" =>
       /\ Len(feature_vector_queue) = FrameCount
       /\ \A i \in 1..FrameCount : feature_vector_queue[i].image = shots[i].image
  /\ pc = "sign" =>
       /\ Len(hash_queue) = FrameCount
       /\ \A i \in 1..FrameCount : hash_queue[i].sha256.image = shots[i].image
  /\ Paired

\* the strengthening the proofs use
IInv == TypeOK /\ LockInv /\ RoundInv /\ TakenInv /\ StageInv

\* the camera is not unplugged, nor in the dark, for ever
CameraSees == <>[][\A view \in View \ Scene : ~Grab(view)]_vars

\* every round comes to its end, in particular capture() does: the thread it
\* cancelled ends, and neither waits for the other
RoundsEnd == CameraSees => (pc = "start" ~> (pc = "reset" \/ ~up))

\* "Sign hash using Private Key": what is signed verifies for the hash
SignedHashVerifies ==
  \A i \in 1..Len(hash_signed_queue) : Verifies(hash_signed_queue[i], hash_queue[i])

=============================================================================
