----------------------------- MODULE LoggerProofs -----------------------------
(***************************************************************************)
(* The invariants of Logger, for every number of frames and rounds, either *)
(* value of YUV_switch, and with or without a key.                         *)
(***************************************************************************)
EXTENDS Logger, TLAPS, SequenceTheorems

\* A function on 1..n into S is a sequence of length n.
LEMMA MakeSeq ==
  ASSUME NEW S, NEW n \in Nat, NEW s \in [1..n -> S]
  PROVE  s \in Seq(S) /\ Len(s) = n
OBVIOUS

\* A sequence whose elements are in T is a sequence over T.
LEMMA SeqInto ==
  ASSUME NEW S, NEW T, NEW s \in Seq(S), \A i \in 1..Len(s) : s[i] \in T
  PROVE  s \in Seq(T)
<1>1. Len(s) \in Nat /\ s \in [1..Len(s) -> T]
  OBVIOUS
<1> QED
  BY <1>1, MakeSeq

\* The buffers of bgr_queue are in use as long as the queue refers to them.
LEMMA QueueReferred ==
  ASSUME NEW f \in Buffer, NEW c \in Buffer \cup {0}, NEW queue \in Seq(Buffer)
  PROVE  /\ Referred(f, c, queue) \subseteq Buffer
         /\ f \in Referred(f, c, queue)
         /\ c \in Referred(f, c, queue) \cup {0}
         /\ queue \in Seq(Referred(f, c, queue))
<1>1. 0 \notin Buffer
  BY LoggerAssumption DEF Buffer
<1>2. \A i \in 1..Len(queue) : queue[i] \in Buffer /\ queue[i] \in Range(queue)
  BY DEF Range
<1>3. \A i \in 1..Len(queue) : queue[i] \in Referred(f, c, queue)
  BY <1>1, <1>2 DEF Referred
<1>4. queue \in Seq(Referred(f, c, queue))
  BY <1>3, SeqInto
<1>5. Range(queue) \subseteq Buffer
  BY DEF Range
<1> QED
  BY <1>1, <1>4, <1>5 DEF Referred

\* What a queue's buffers hold is a sequence of images.
LEMMA PixelsSeq ==
  ASSUME TypeOK
  PROVE  Pixels(bgr_queue) \in Seq(Image) /\ Len(Pixels(bgr_queue)) = Len(bgr_queue)
<1>1. Len(bgr_queue) \in Nat /\ \A i \in 1..Len(bgr_queue) : bgr_queue[i] \in DOMAIN memory
  BY DEF TypeOK
<1>2. Pixels(bgr_queue) \in [1..Len(bgr_queue) -> Image]
  BY <1>1 DEF Pixels, TypeOK
<1> QED
  BY <1>1, <1>2, MakeSeq

\* Edge detection gives as many edge images as there are frames.
LEMMA EdgesSeq ==
  ASSUME NEW of \in {"bgr", "y"}, NEW images \in Seq(Image)
  PROVE  /\ AllEdges(of, images) \in Seq(EdgeImage)
         /\ Len(AllEdges(of, images)) = Len(images)
<1>1. \A i \in 1..Len(images) : images[i] \in Image
  OBVIOUS
<1>2. \A i \in 1..Len(images) : Edges(of, images[i]) \in EdgeImage
  BY <1>1 DEF Edges, EdgeImage
<1>3. AllEdges(of, images) \in [1..Len(images) -> EdgeImage]
  BY <1>2 DEF AllEdges
<1> QED
  BY <1>3, MakeSeq

\* A CID's milliseconds are three digits.
LEMMA CidRange == ASSUME NEW ms \in Instant PROVE Cid(ms) \in 0..999
BY LoggerAssumption DEF Cid

-----------------------------------------------------------------------------
\* main begins with empty queues, a free lock and no second thread.
LEMMA InitIInv == Init => IInv
<1> SUFFICES ASSUME Init PROVE IInv
  OBVIOUS
<1> USE LoggerAssumption DEF Init
<1>1. TypeOK
  <2>1. 1 \in Buffer /\ 0 \in 0..MaxRounds
    BY DEF Buffer
  <2>2. [view |-> "empty", round |-> 0] \in Image
    BY <2>1 DEF Image, View
  <2>3. DOMAIN memory = {1} /\ memory[1] \in Image
    BY <2>2
  <2>4. "init" \in Places
    BY DEF Places
  <2>5. /\ bgr_queue \in Seq(DOMAIN memory)
        /\ yuv420_queue \in Seq(Image) /\ y_queue \in Seq(Image) /\ G_queue \in Seq(Image)
        /\ feature_vector_queue \in Seq(EdgeImage)
        /\ hash_queue \in Seq(HashText)
        /\ hash_signed_queue \in Seq(Signature)
        /\ cid_queue \in Seq(0..999)
        /\ shots \in Seq([image : Image, cid : 0..999])
    OBVIOUS
  <2>6. DOMAIN memory \subseteq Buffer /\ \A b \in DOMAIN memory : memory[b] \in Image
    BY <2>1, <2>3
  <2>7. frame \in DOMAIN memory /\ currentFrame \in DOMAIN memory \cup {0}
    BY <2>3
  <2> QED
    BY <2>1, <2>2, <2>4, <2>5, <2>6, <2>7, Zenon DEF TypeOK
<1>2. LockInv
  BY DEF LockInv, Capturing
<1>3. RoundInv
  BY DEF RoundInv, FramesOfThisRound
<1>4. TakenInv
  BY DEF TakenInv, FramesKept, Taken
<1>5. StageInv
  BY DEF StageInv, Paired
<1> QED
  BY <1>1, <1>2, <1>3, <1>4, <1>5 DEF IInv

-----------------------------------------------------------------------------
(* The lock.                                                               *)

\* Every step keeps track of the lock's holder.
LEMMA LockStep == ASSUME TypeOK, LockInv, [Next]_vars PROVE LockInv'
<1> USE DEF LockInv, Capturing, At, GoTo, mats, updVars
<1>1. CASE InitRound
  BY <1>1 DEF InitRound
<1>2. CASE Capture
  <2>1. CASE StartCapture
    BY <2>1 DEF StartCapture
  <2>2. CASE Lock
    BY <2>2 DEF Lock
  <2>3. CASE CopyFrame
    <3>1. frame # 0
      BY LoggerAssumption DEF TypeOK, Buffer
    <3> QED
      BY <2>3, <3>1 DEF CopyFrame
  <2>4. CASE Look
    <3>1. pc' \in {"cancel", "lock"}
      BY <2>4 DEF Look
    <3> QED
      BY <2>4, <3>1 DEF Look
  <2>5. CASE Cancel
    BY <2>5 DEF Cancel
  <2>6. CASE Join
    BY <2>6 DEF Join
  <2> QED
    BY <1>2, <2>1, <2>2, <2>3, <2>4, <2>5, <2>6 DEF Capture
<1>3. CASE Pipeline
  BY <1>3 DEF Pipeline, Convert, DetectEdges, MakeHash, SignHash, SignWithoutKey, Reset
<1>4. CASE UpdateFrame
  BY <1>4 DEF UpdateFrame, Grab, UpdLock, Assign, End
<1>5. CASE Tick
  BY <1>5 DEF Tick
<1>6. CASE UNCHANGED vars
  BY <1>6 DEF vars
<1> QED
  BY <1>1, <1>2, <1>3, <1>4, <1>5, <1>6 DEF Next, Main

-----------------------------------------------------------------------------
(* Types.                                                                  *)

\* After a step that keeps the buffers referred to, memory is well typed.
LEMMA KeepTypes ==
  ASSUME TypeOK, NEW f \in DOMAIN memory, NEW c \in DOMAIN memory \cup {0},
         NEW queue \in Seq(DOMAIN memory),
         Keep(Referred(f, c, queue))
  PROVE  /\ DOMAIN memory' = Referred(f, c, queue)
         /\ DOMAIN memory' \subseteq Buffer
         /\ DOMAIN memory' \subseteq DOMAIN memory
         /\ \A b \in DOMAIN memory' : memory'[b] \in Image /\ memory'[b] = memory[b]
         /\ f \in DOMAIN memory' /\ c \in DOMAIN memory' \cup {0}
         /\ queue \in Seq(DOMAIN memory')
<1>1. queue \in Seq(Buffer) /\ f \in Buffer /\ c \in Buffer \cup {0}
  <2>1. DOMAIN memory \subseteq Buffer
    BY DEF TypeOK
  <2>2. \A i \in 1..Len(queue) : queue[i] \in Buffer
    BY <2>1
  <2> QED
    BY <2>1, <2>2, SeqInto
<1>2. DOMAIN memory' = Referred(f, c, queue)
  BY DEF Keep
<1>3. DOMAIN memory' \subseteq DOMAIN memory
  <2>1. Range(queue) \subseteq DOMAIN memory
    BY DEF Range
  <2> QED
    BY <1>2, <2>1 DEF Referred
<1>4. \A b \in DOMAIN memory' : memory'[b] = memory[b]
  BY <1>2 DEF Keep
<1>5. /\ f \in Referred(f, c, queue) /\ c \in Referred(f, c, queue) \cup {0}
      /\ queue \in Seq(Referred(f, c, queue)) /\ Referred(f, c, queue) \subseteq Buffer
  BY <1>1, QueueReferred
<1>6. \A b \in DOMAIN memory' : memory'[b] \in Image
  BY <1>3, <1>4 DEF TypeOK
<1> QED
  BY <1>2, <1>3, <1>4, <1>5, <1>6

\* Without a queue, only the buffers of the two frames are kept.
LEMMA KeepNone ==
  ASSUME TypeOK, Keep(Referred(frame, currentFrame, <<>>))
  PROVE  /\ DOMAIN memory' \subseteq Buffer
         /\ \A b \in DOMAIN memory' : memory'[b] \in Image /\ memory'[b] = memory[b]
         /\ frame \in DOMAIN memory' /\ currentFrame \in DOMAIN memory' \cup {0}
         /\ <<>> \in Seq(DOMAIN memory')
<1>1. frame \in DOMAIN memory /\ currentFrame \in DOMAIN memory \cup {0}
  BY DEF TypeOK
<1> DEFINE none == <<>>
<1>2. none \in Seq(DOMAIN memory)
  OBVIOUS
<1>3. Keep(Referred(frame, currentFrame, none))
  OBVIOUS
<1> HIDE DEF none
<1>4. /\ DOMAIN memory' \subseteq Buffer
      /\ \A b \in DOMAIN memory' : memory'[b] \in Image /\ memory'[b] = memory[b]
      /\ frame \in DOMAIN memory' /\ currentFrame \in DOMAIN memory' \cup {0}
  BY <1>1, <1>2, <1>3, KeepTypes
<1> QED
  BY <1>4

\* A buffer allocated for frame holds its image, and every other buffer that
\* is referred to holds what it held.
LEMMA AllocateTypes ==
  ASSUME TypeOK, NEW b \in Buffer, New(b), NEW image \in Image,
         Allocate(b, image, Referred(b, currentFrame, bgr_queue))
  PROVE  /\ DOMAIN memory' \subseteq Buffer
         /\ \A d \in DOMAIN memory' : memory'[d] \in Image
         /\ b \in DOMAIN memory' /\ memory'[b] = image
         /\ currentFrame \in DOMAIN memory' \cup {0}
         /\ currentFrame # 0 => memory'[currentFrame] = memory[currentFrame]
         /\ bgr_queue \in Seq(DOMAIN memory')
         /\ \A i \in 1..Len(bgr_queue) : memory'[bgr_queue[i]] = memory[bgr_queue[i]]
<1> DEFINE R == Referred(b, currentFrame, bgr_queue)
<1>1. /\ bgr_queue \in Seq(Buffer) /\ currentFrame \in Buffer \cup {0}
      /\ \A i \in 1..Len(bgr_queue) : bgr_queue[i] \in DOMAIN memory
  <2>1. DOMAIN memory \subseteq Buffer /\ bgr_queue \in Seq(DOMAIN memory)
    BY DEF TypeOK
  <2>2. \A i \in 1..Len(bgr_queue) : bgr_queue[i] \in DOMAIN memory
    BY <2>1
  <2> QED
    BY <2>1, <2>2, SeqInto DEF TypeOK
<1>2. /\ b \in R /\ currentFrame \in R \cup {0} /\ bgr_queue \in Seq(R)
      /\ R \subseteq Buffer
  BY <1>1, QueueReferred
<1>3. DOMAIN memory' = R
  BY DEF Allocate
<1>4. \A d \in R : d # b => d \in DOMAIN memory /\ memory'[d] = memory[d]
  <2>1. Range(bgr_queue) \subseteq DOMAIN memory
    BY <1>1 DEF Range
  <2>2. \A d \in R : d # b => d \in DOMAIN memory
    BY <2>1 DEF Referred, TypeOK
  <2> QED
    BY <2>2 DEF Allocate
<1>5. memory'[b] = image
  BY <1>2 DEF Allocate
<1>6. b \notin DOMAIN memory
  BY DEF New
<1>7. \A d \in R : memory'[d] \in Image
  BY <1>4, <1>5 DEF TypeOK
<1>8. \A i \in 1..Len(bgr_queue) : memory'[bgr_queue[i]] = memory[bgr_queue[i]]
  <2> SUFFICES ASSUME NEW i \in 1..Len(bgr_queue)
               PROVE  memory'[bgr_queue[i]] = memory[bgr_queue[i]]
    OBVIOUS
  <2>1. bgr_queue[i] \in R
    BY <1>2
  <2> QED
    BY <1>1, <1>4, <1>6, <2>1
<1>9. currentFrame # 0 => currentFrame # b /\ currentFrame \in R
  BY <1>2, <1>6 DEF TypeOK
<1> QED
  BY <1>2, <1>3, <1>4, <1>5, <1>7, <1>8, <1>9

\* What Look does to the queue, the CIDs and the history.
LEMMA LookTypes ==
  ASSUME TypeOK, LockInv, Look
  PROVE  /\ currentFrame \in DOMAIN memory
         /\ bgr_queue' \in Seq(DOMAIN memory) /\ cid_queue' \in Seq(0..999)
         /\ shots' \in Seq([image : Image, cid : 0..999])
         /\ \/ bgr_queue' = bgr_queue /\ cid_queue' = cid_queue /\ shots' = shots
            \/ /\ bgr_queue' = Append(bgr_queue, currentFrame)
               /\ cid_queue' = Append(cid_queue, Cid(now))
               /\ shots' = Append(shots, [image |-> memory[currentFrame],
                                          cid |-> Cid(now)])
<1>1. currentFrame \in DOMAIN memory /\ memory[currentFrame] \in Image
  BY DEF TypeOK, LockInv, Look, At
<1>2. Cid(now) \in 0..999
  BY CidRange DEF TypeOK
<1>3. [image |-> memory[currentFrame], cid |-> Cid(now)] \in [image : Image, cid : 0..999]
  BY <1>1, <1>2
<1>4. \/ bgr_queue' = bgr_queue /\ cid_queue' = cid_queue /\ shots' = shots
      \/ /\ bgr_queue' = Append(bgr_queue, currentFrame)
         /\ cid_queue' = Append(cid_queue, Cid(now))
         /\ shots' = Append(shots, [image |-> memory[currentFrame], cid |-> Cid(now)])
  BY DEF Look
<1> DEFINE Shot == [image : Image, cid : 0..999]
<1>0. bgr_queue \in Seq(DOMAIN memory) /\ cid_queue \in Seq(0..999) /\ shots \in Seq(Shot)
  BY DEF TypeOK
<1> HIDE DEF Shot
<1>5. /\ Append(bgr_queue, currentFrame) \in Seq(DOMAIN memory)
      /\ Append(cid_queue, Cid(now)) \in Seq(0..999)
      /\ Append(shots, [image |-> memory[currentFrame], cid |-> Cid(now)]) \in Seq(Shot)
  <2>1. Append(bgr_queue, currentFrame) \in Seq(DOMAIN memory)
    BY <1>0, <1>1
  <2>2. Append(cid_queue, Cid(now)) \in Seq(0..999)
    BY <1>0, <1>2
  <2>3. [image |-> memory[currentFrame], cid |-> Cid(now)] \in Shot
    BY <1>3 DEF Shot
  <2>4. Append(shots, [image |-> memory[currentFrame], cid |-> Cid(now)]) \in Seq(Shot)
    BY <1>0, <2>3
  <2> QED
    BY <2>1, <2>2, <2>4
<1>6. /\ bgr_queue' \in Seq(DOMAIN memory) /\ cid_queue' \in Seq(0..999)
      /\ shots' \in Seq(Shot)
  <2>1. CASE bgr_queue' = bgr_queue /\ cid_queue' = cid_queue /\ shots' = shots
    BY <1>0, <2>1
  <2>2. CASE /\ bgr_queue' = Append(bgr_queue, currentFrame)
             /\ cid_queue' = Append(cid_queue, Cid(now))
             /\ shots' = Append(shots, [image |-> memory[currentFrame], cid |-> Cid(now)])
    BY <1>5, <2>2
  <2> QED
    BY <1>4, <2>1, <2>2
<1> QED
  BY <1>1, <1>4, <1>6 DEF Shot

\* The parts of TypeOK that actions change separately.
WorldOK ==
  setting \in Settings /\ up \in BOOLEAN /\ pc \in Places /\ round \in 0..MaxRounds
  /\ now \in Instant
BuffersOK ==
  /\ DOMAIN memory \subseteq Buffer
  /\ \A b \in DOMAIN memory : memory[b] \in Image
  /\ frame \in DOMAIN memory /\ currentFrame \in DOMAIN memory \cup {0}
  /\ bgr_queue \in Seq(DOMAIN memory)
UpdOK ==
  /\ frameLocker \in {"free", "main", "upd"}
  /\ upd \in {"gone", "grab", "lock", "assign"}
  /\ tempFrame \in Image /\ cancelled \in BOOLEAN
FramesOK ==
  yuv420_queue \in Seq(Image) /\ y_queue \in Seq(Image) /\ G_queue \in Seq(Image)
EdgesOK == feature_vector_queue \in Seq(EdgeImage)
HashOK == hash_queue \in Seq(HashText)
SignedOK == hash_signed_queue \in Seq(Signature)
ShotsOK == cid_queue \in Seq(0..999) /\ shots \in Seq([image : Image, cid : 0..999])

Types ==
  /\ WorldOK /\ BuffersOK /\ UpdOK /\ FramesOK /\ EdgesOK /\ HashOK /\ SignedOK
  /\ ShotsOK

\* Every step keeps the parts, and so the types.
LEMMA TypesStep == ASSUME TypeOK, LockInv, [Next]_vars PROVE Types'
<1>0. Types
  BY Zenon DEF Types, TypeOK, WorldOK, BuffersOK, UpdOK, FramesOK, EdgesOK, HashOK,
               SignedOK, ShotsOK
<1> USE DEF Types
<1> USE LoggerAssumption DEF At, GoTo, Places
<1>1. CASE InitRound
  <2>1. WorldOK'
    BY <1>0, <1>1 DEF InitRound, WorldOK, world
  <2>2. BuffersOK'
    <3>1. round' \in 0..MaxRounds
      BY <2>1 DEF WorldOK
    <3>2. [view |-> "black", round |-> round'] \in Image
      BY <3>1 DEF Image, View
    <3>3. PICK b \in Buffer :
            /\ New(b) /\ frame' = b
            /\ Allocate(b, [view |-> "black", round |-> round'],
                        Referred(b, currentFrame, bgr_queue))
      BY <1>1 DEF InitRound
    <3>4. bgr_queue' = bgr_queue /\ currentFrame' = currentFrame
      BY <1>1 DEF InitRound
    <3> HIDE <1>1 DEF InitRound
    <3> QED
      BY <3>2, <3>3, <3>4, AllocateTypes DEF BuffersOK
  <2>3. UpdOK' /\ FramesOK' /\ EdgesOK' /\ HashOK' /\ SignedOK'
    BY <1>0, <1>1 DEF InitRound, UpdOK, FramesOK, EdgesOK, HashOK, SignedOK,
                      updVars, hashes
  <2>4. ShotsOK'
    BY <1>0, <1>1 DEF InitRound, ShotsOK
  <2> QED
    BY <2>1, <2>2, <2>3, <2>4
<1>2. CASE StartCapture \/ Lock \/ Cancel \/ Join
  <2>1. WorldOK'
    BY <1>0, <1>2 DEF StartCapture, Lock, Cancel, Join, WorldOK, world
  <2>2. UpdOK'
    <3>1. CASE StartCapture
      BY <1>0, <3>1 DEF StartCapture, UpdOK
    <3>2. CASE Lock
      BY <1>0, <3>2 DEF Lock, UpdOK
    <3>3. CASE Cancel
      BY <1>0, <3>3 DEF Cancel, UpdOK
    <3>4. CASE Join
      BY <1>0, <3>4 DEF Join, UpdOK, updVars
    <3> QED
      BY <1>2, <3>1, <3>2, <3>3, <3>4
  <2>3. BuffersOK' /\ ShotsOK'
    BY <1>0, <1>2 DEF StartCapture, Lock, Cancel, Join, BuffersOK, ShotsOK, mats, taken
  <2>4. FramesOK' /\ EdgesOK' /\ HashOK' /\ SignedOK'
    BY <1>0, <1>2 DEF StartCapture, Lock, Cancel, Join, FramesOK, EdgesOK, HashOK,
                      SignedOK, hashes
  <2> QED
    BY <2>1, <2>2, <2>3, <2>4
<1>3. CASE CopyFrame
  <2>1. WorldOK' /\ UpdOK' /\ ShotsOK'
    BY <1>0, <1>3 DEF CopyFrame, WorldOK, UpdOK, ShotsOK, world, taken
  <2>2. FramesOK' /\ EdgesOK' /\ HashOK' /\ SignedOK'
    BY <1>0, <1>3 DEF CopyFrame, FramesOK, EdgesOK, HashOK, SignedOK, hashes
  <2>3. BuffersOK'
    <3>1. /\ frame' = frame /\ currentFrame' = frame /\ bgr_queue' = bgr_queue
          /\ Keep(Referred(frame, frame, bgr_queue))
      BY <1>3 DEF CopyFrame, taken
    <3> QED
      BY <1>0, <3>1, KeepTypes DEF BuffersOK
  <2> QED
    BY <2>1, <2>2, <2>3
<1>4. CASE Look
  <2>1. WorldOK' /\ UpdOK'
    BY <1>0, <1>4 DEF Look, WorldOK, UpdOK, world, updVars
  <2>2. FramesOK' /\ EdgesOK' /\ HashOK' /\ SignedOK'
    BY <1>0, <1>4 DEF Look, FramesOK, EdgesOK, HashOK, SignedOK, hashes
  <2>3. ShotsOK'
    BY <1>4, LookTypes DEF ShotsOK
  <2>4. BuffersOK'
    <3>1. /\ frame' = frame /\ currentFrame' = 0
          /\ Keep(Referred(frame, 0, bgr_queue'))
      BY <1>4 DEF Look
    <3>2. bgr_queue' \in Seq(DOMAIN memory)
      BY <1>4, LookTypes
    <3> QED
      BY <1>0, <3>1, <3>2, KeepTypes DEF BuffersOK
  <2> QED
    BY <2>1, <2>2, <2>3, <2>4
<1>5. CASE Convert
  <2>1. WorldOK' /\ UpdOK' /\ BuffersOK' /\ ShotsOK'
    BY <1>0, <1>5 DEF Convert, WorldOK, UpdOK, BuffersOK, ShotsOK, world, updVars, mats,
                      taken
  <2>2. EdgesOK' /\ HashOK' /\ SignedOK'
    BY <1>0, <1>5 DEF Convert, EdgesOK, HashOK, SignedOK
  <2>3. FramesOK'
    <3>1. Pixels(bgr_queue) \in Seq(Image)
      BY PixelsSeq
    <3>2. /\ yuv420_queue \o Pixels(bgr_queue) \in Seq(Image)
          /\ y_queue \o Pixels(bgr_queue) \in Seq(Image)
          /\ G_queue \o Pixels(bgr_queue) \in Seq(Image)
      BY <1>0, <3>1 DEF FramesOK
    <3> QED
      BY <1>0, <1>5, <3>2 DEF Convert, FramesOK
  <2> QED
    BY <2>1, <2>2, <2>3
<1>6. CASE DetectEdges
  <2>1. WorldOK' /\ UpdOK' /\ ShotsOK' /\ FramesOK' /\ HashOK' /\ SignedOK'
    BY <1>0, <1>6 DEF DetectEdges, WorldOK, UpdOK, ShotsOK, FramesOK, HashOK, SignedOK,
                      world, updVars
  <2>2. BuffersOK'
    <3>1. CASE setting.yuv
      BY <1>0, <1>6, <3>1 DEF DetectEdges, BuffersOK
    <3>2. CASE ~setting.yuv
      <4>1. /\ frame' = frame /\ currentFrame' = currentFrame /\ bgr_queue' = <<>>
            /\ Keep(Referred(frame, currentFrame, <<>>))
        BY <1>6, <3>2 DEF DetectEdges
      <4> QED
        BY <4>1, KeepNone DEF BuffersOK
    <3> QED
      BY <3>1, <3>2
  <2>3. EdgesOK'
    <3>1. /\ AllEdges("y", y_queue) \in Seq(EdgeImage)
          /\ AllEdges("bgr", Pixels(bgr_queue)) \in Seq(EdgeImage)
      BY <1>0, PixelsSeq, EdgesSeq DEF FramesOK
    <3>2. /\ feature_vector_queue \o AllEdges("y", y_queue) \in Seq(EdgeImage)
          /\ feature_vector_queue \o AllEdges("bgr", Pixels(bgr_queue)) \in Seq(EdgeImage)
      BY <1>0, <3>1 DEF EdgesOK
    <3> QED
      BY <1>6, <3>2 DEF DetectEdges, EdgesOK
  <2> QED
    BY <2>1, <2>2, <2>3
<1>7. CASE MakeHash
  <2>1. /\ WorldOK' /\ UpdOK' /\ BuffersOK' /\ ShotsOK' /\ FramesOK' /\ EdgesOK'
        /\ SignedOK'
    BY <1>0, <1>7 DEF MakeHash, WorldOK, UpdOK, BuffersOK, ShotsOK, FramesOK, EdgesOK,
                      SignedOK, world, updVars, mats, taken
  <2>2. HashOK'
    <3> DEFINE n == Len(feature_vector_queue)
               new == [i \in 1..n |-> Hash(feature_vector_queue[i])]
    <3>1. n \in Nat /\ \A i \in 1..n : Hash(feature_vector_queue[i]) \in HashText
      BY <1>0 DEF EdgesOK, Hash, HashText
    <3>2. new \in [1..n -> HashText]
      BY <3>1
    <3>3. new \in Seq(HashText)
      BY <3>1, <3>2, MakeSeq
    <3>4. hash_queue' = hash_queue \o new
      BY <1>7 DEF MakeHash
    <3> QED
      BY <1>0, <3>3, <3>4 DEF HashOK
  <2> QED
    BY <2>1, <2>2
<1>8. CASE SignHash \/ SignWithoutKey
  <2>1. WorldOK' /\ UpdOK' /\ BuffersOK' /\ ShotsOK'
    <3>1. UNCHANGED <<mats, updVars, taken>>
      BY <1>8 DEF SignHash, SignWithoutKey
    <3>2. UpdOK' /\ BuffersOK' /\ ShotsOK'
      BY <1>0, <3>1 DEF UpdOK, BuffersOK, ShotsOK, updVars, mats, taken
    <3>3. up' \in BOOLEAN /\ pc' \in Places
      BY <1>0, <1>8 DEF SignHash, SignWithoutKey, WorldOK, world
    <3>4. WorldOK'
      BY <1>0, <1>8, <3>3 DEF SignHash, SignWithoutKey, WorldOK, world
    <3> QED
      BY <3>2, <3>4
  <2>2. FramesOK' /\ EdgesOK' /\ HashOK'
    BY <1>0, <1>8 DEF SignHash, SignWithoutKey, FramesOK, EdgesOK, HashOK
  <2>3. SignedOK'
    <3> DEFINE n == Len(hash_queue)
               good == [i \in 1..n |-> Sign(hash_queue[i])]
               junk == [i \in 1..n |->
                          [key |-> FALSE, signs |-> <<>>, of |-> hash_queue[i]]]
    <3>1. n \in Nat /\ \A i \in 1..n : hash_queue[i] \in HashText
      BY <1>0 DEF HashOK
    <3>2. good \in [1..n -> Signature] /\ junk \in [1..n -> Signature]
      BY <3>1 DEF Sign, Signature
    <3> HIDE DEF good, junk
    <3>3. good \in Seq(Signature) /\ junk \in Seq(Signature)
      BY <3>1, <3>2, MakeSeq
    <3>4. hash_signed_queue \in Seq(Signature)
      BY <1>0 DEF SignedOK
    <3>5. hash_signed_queue \o good \in Seq(Signature) /\ hash_signed_queue \o junk \in Seq(Signature)
      BY <3>3, <3>4
    <3>6. hash_signed_queue' \in {hash_signed_queue, hash_signed_queue \o good,
                                  hash_signed_queue \o junk}
      BY <1>8 DEF SignHash, SignWithoutKey, good, junk
    <3> QED
      BY <3>4, <3>5, <3>6 DEF SignedOK
  <2> QED
    BY <2>1, <2>2, <2>3
<1>9. CASE Reset
  <2>1. /\ WorldOK' /\ UpdOK' /\ FramesOK' /\ EdgesOK' /\ HashOK' /\ SignedOK' /\ ShotsOK'
    BY <1>0, <1>9 DEF Reset, WorldOK, UpdOK, FramesOK, EdgesOK, HashOK, SignedOK, ShotsOK,
                      world, updVars
  <2>2. BuffersOK'
    <3>1. /\ frame' = frame /\ currentFrame' = currentFrame /\ bgr_queue' = <<>>
          /\ Keep(Referred(frame, currentFrame, <<>>))
      BY <1>9 DEF Reset
    <3> QED
      BY <3>1, KeepNone DEF BuffersOK
  <2> QED
    BY <2>1, <2>2
<1>10. CASE UpdateFrame
  <2>1. WorldOK'
    BY <1>0, <1>10 DEF UpdateFrame, Grab, UpdLock, Assign, End, WorldOK, world
  <2>2. FramesOK' /\ EdgesOK' /\ HashOK' /\ SignedOK' /\ ShotsOK'
    BY <1>0, <1>10 DEF UpdateFrame, Grab, UpdLock, Assign, End, FramesOK, EdgesOK, HashOK,
                       SignedOK, ShotsOK, hashes, taken
  <2>3. UpdOK'
    <3>1. \A view \in View : [view |-> view, round |-> round] \in Image
      BY <1>0 DEF WorldOK, Image
    <3> QED
      BY <1>0, <1>10, <3>1 DEF UpdateFrame, Grab, UpdLock, Assign, End, UpdOK
  <2>4. BuffersOK'
    <3>1. CASE Assign
      <4>1. PICK b \in Buffer :
              /\ New(b) /\ frame' = b
              /\ Allocate(b, tempFrame, Referred(b, currentFrame, bgr_queue))
        BY <3>1 DEF Assign
      <4>2. bgr_queue' = bgr_queue /\ currentFrame' = currentFrame /\ tempFrame \in Image
        BY <1>0, <3>1 DEF Assign, taken, UpdOK
      <4> QED
        BY <4>1, <4>2, AllocateTypes DEF BuffersOK
    <3>2. CASE ~Assign
      BY <1>0, <1>10, <3>2 DEF UpdateFrame, Grab, UpdLock, End, BuffersOK, mats, taken
    <3> QED
      BY <3>1, <3>2
  <2> QED
    BY <2>1, <2>2, <2>3, <2>4
<1>11. CASE Tick \/ UNCHANGED vars
  <2>1. now' \in Instant
    BY <1>0, <1>11 DEF Tick, WorldOK, vars, world
  <2> QED
    BY <1>0, <1>11, <2>1 DEF Tick, vars, world, mats, updVars, taken, hashes, WorldOK,
        BuffersOK, UpdOK, FramesOK, EdgesOK, HashOK, SignedOK, ShotsOK
<1> QED
  BY <1>1, <1>2, <1>3, <1>4, <1>5, <1>6, <1>7, <1>8, <1>9, <1>10, <1>11
     DEF Next, Main, Capture, Pipeline

\* Every step of main and of UpdateFrame keeps the types; that the queue refers only to
\* buffers in use is the reference counting of cv::Mat.
LEMMA TypeStep == ASSUME TypeOK, LockInv, [Next]_vars PROVE TypeOK'
<1>1. Types'
  BY TypesStep
<1> QED
  BY <1>1, Zenon DEF Types, TypeOK, WorldOK, BuffersOK, UpdOK, FramesOK, EdgesOK, HashOK,
                     SignedOK, ShotsOK

-----------------------------------------------------------------------------
(* Frames and rounds.                                                      *)

\* Buffers outlive every step that keeps those referred to.
LEMMA KeepFrames ==
  ASSUME TypeOK, LockInv, Next, ~InitRound, ~Assign
  PROVE  /\ frame' = frame /\ memory'[frame] = memory[frame]
         /\ \A i \in 1..Len(bgr_queue') : memory'[bgr_queue'[i]] = memory[bgr_queue'[i]]
<1> USE DEF At, GoTo
<1>0. /\ frame \in DOMAIN memory /\ currentFrame \in DOMAIN memory \cup {0}
      /\ bgr_queue \in Seq(DOMAIN memory)
  BY DEF TypeOK
<1>1. CASE CopyFrame
  <2>1. /\ frame' = frame /\ bgr_queue' = bgr_queue
        /\ Keep(Referred(frame, frame, bgr_queue))
    BY <1>1 DEF CopyFrame, taken
  <2>2. \A i \in 1..Len(bgr_queue) : bgr_queue[i] \in DOMAIN memory'
    BY <1>0, <2>1, KeepTypes
  <2> QED
    BY <1>0, <2>1, <2>2, KeepTypes
<1>2. CASE Look
  <2>1. frame' = frame /\ Keep(Referred(frame, 0, bgr_queue'))
    BY <1>2 DEF Look
  <2>2. bgr_queue' \in Seq(DOMAIN memory)
    BY <1>2, LookTypes
  <2>3. bgr_queue' \in Seq(DOMAIN memory') /\ frame \in DOMAIN memory'
        /\ \A b \in DOMAIN memory' : memory'[b] = memory[b]
    BY <1>0, <2>1, <2>2, KeepTypes
  <2>4. \A i \in 1..Len(bgr_queue') : bgr_queue'[i] \in DOMAIN memory'
    BY <2>3
  <2> QED
    BY <2>1, <2>3, <2>4
<1>3. CASE DetectEdges \/ Reset
  <2>1. CASE UNCHANGED <<bgr_queue, mats>>
    BY <2>1 DEF mats
  <2>2. CASE ~UNCHANGED <<bgr_queue, mats>>
    <3>1. frame' = frame /\ bgr_queue' = <<>> /\ Keep(Referred(frame, currentFrame, <<>>))
      BY <1>3, <2>2 DEF DetectEdges, Reset, mats
    <3>2. memory'[frame] = memory[frame]
      BY <3>1, KeepNone
    <3> QED
      BY <3>1, <3>2
  <2> QED
    BY <2>1, <2>2
<1>4. CASE ~(CopyFrame \/ Look \/ DetectEdges \/ Reset)
  <2>1. mats' = mats /\ bgr_queue' = bgr_queue
    BY <1>4 DEF Next, Main, Capture, Pipeline, UpdateFrame, StartCapture, Lock, Cancel,
       Join, Convert, MakeHash, SignHash, SignWithoutKey, Grab, UpdLock, End, Tick, taken
  <2> QED
    BY <2>1 DEF mats
<1> QED
  BY <1>1, <1>2, <1>3, <1>4

\* The buffer frame gets in init() or from UpdateFrame disturbs no other.
LEMMA NewFrame ==
  ASSUME TypeOK, InitRound \/ Assign
  PROVE  /\ memory'[frame'] = IF InitRound THEN [view |-> "black", round |-> round']
                                          ELSE tempFrame
         /\ currentFrame' = currentFrame /\ bgr_queue' = bgr_queue
         /\ currentFrame # 0 => memory'[currentFrame] = memory[currentFrame]
         /\ \A i \in 1..Len(bgr_queue) : memory'[bgr_queue[i]] = memory[bgr_queue[i]]
<1> USE DEF At, GoTo
<1>1. CASE InitRound
  <2>1. round \in 0..MaxRounds /\ round' = round + 1 /\ round < MaxRounds
    BY <1>1 DEF InitRound, TypeOK
  <2>2. [view |-> "black", round |-> round'] \in Image
    BY <2>1, LoggerAssumption DEF Image, View
  <2>3. PICK b \in Buffer :
          /\ New(b) /\ frame' = b
          /\ Allocate(b, [view |-> "black", round |-> round'],
                      Referred(b, currentFrame, bgr_queue))
    BY <1>1 DEF InitRound
  <2>4. bgr_queue' = bgr_queue /\ currentFrame' = currentFrame
    BY <1>1 DEF InitRound
  <2> HIDE DEF InitRound
  <2> QED
    BY <1>1, <2>2, <2>3, <2>4, AllocateTypes
<1>2. CASE Assign /\ ~InitRound
  <2>1. PICK b \in Buffer :
          /\ New(b) /\ frame' = b
          /\ Allocate(b, tempFrame, Referred(b, currentFrame, bgr_queue))
    BY <1>2 DEF Assign
  <2>2. bgr_queue' = bgr_queue /\ currentFrame' = currentFrame /\ tempFrame \in Image
    BY <1>2 DEF Assign, taken, TypeOK
  <2> QED
    BY <1>2, <2>1, <2>2, AllocateTypes
<1> QED
  BY <1>1, <1>2

\* What the threads have in hand stays of this round.
LEMMA RoundStep ==
  ASSUME TypeOK, LockInv, RoundInv, [Next]_vars
  PROVE  RoundInv'
<1> USE DEF At, GoTo
<1>1. CASE InitRound
  <2>1. memory'[frame'].round = round'
    BY <1>1, NewFrame
  <2>2. pc' = "start" /\ upd' = "gone" /\ shots' = <<>>
    BY <1>1 DEF InitRound, LockInv, Capturing, updVars
  <2> QED
    BY <2>1, <2>2 DEF RoundInv, FramesOfThisRound
<1>2. CASE Assign /\ ~InitRound
  <2>1. /\ memory'[frame'] = tempFrame /\ currentFrame' = currentFrame
        /\ currentFrame # 0 => memory'[currentFrame] = memory[currentFrame]
    BY <1>2, NewFrame
  <2>2. pc' = pc /\ round' = round /\ upd = "assign" /\ upd' = "grab" /\ shots' = shots
    BY <1>2 DEF Assign, taken
  <2> QED
    BY <2>1, <2>2 DEF RoundInv, FramesOfThisRound, LockInv
<1>3. CASE Next /\ ~InitRound /\ ~Assign
  <2>1. frame' = frame /\ memory'[frame] = memory[frame] /\ round' = round
    BY <1>3, KeepFrames DEF Next, Main, Capture, Pipeline, UpdateFrame, StartCapture,
       Lock, CopyFrame, Look, Cancel, Join, Convert, DetectEdges, MakeHash, SignHash,
       SignWithoutKey, Reset, Grab, UpdLock, End, Tick
  <2>2. pc' # "init" => memory'[frame'].round = round'
    <3>1. pc' # "init" => pc # "init"
      BY <1>3 DEF Next, Main, Capture, Pipeline, UpdateFrame, StartCapture,
         Lock, CopyFrame, Look, Cancel, Join, Convert, DetectEdges, MakeHash, SignHash,
         SignWithoutKey, Reset, Grab, UpdLock, End, Tick
    <3> QED
      BY <2>1, <3>1 DEF RoundInv
  <2>3. pc' = "look" => memory'[currentFrame'].round = round'
    <3>1. CASE CopyFrame
      BY <2>1, <3>1 DEF CopyFrame, RoundInv
    <3>2. CASE ~CopyFrame /\ pc' = "look"
      <4>1. pc = "look" /\ UNCHANGED mats
        BY <1>3, <3>2 DEF Next, Main, Capture, Pipeline, UpdateFrame, StartCapture,
           Lock, Look, Cancel, Join, Convert, DetectEdges, MakeHash, SignHash,
           SignWithoutKey, Reset, Grab, UpdLock, End, Tick
      <4> QED
        BY <2>1, <4>1 DEF RoundInv, mats
    <3> QED
      BY <3>1, <3>2
  <2>4. upd' \in {"lock", "assign"} => tempFrame'.round = round'
    BY <1>3, <2>1 DEF RoundInv, Next, Main, Capture, Pipeline, UpdateFrame, StartCapture,
       Lock, CopyFrame, Look, Cancel, Join, Convert, DetectEdges, MakeHash, SignHash,
       SignWithoutKey, Reset, Grab, UpdLock, End, Tick, updVars
  <2>5. FramesOfThisRound'
    <3>1. CASE Look
      <4>1. memory[currentFrame].round = round /\ round' = round
        BY <2>1, <3>1 DEF RoundInv, Look
      <4>2. shots \in Seq([image : Image, cid : 0..999])
        BY DEF TypeOK
      <4>3. \/ shots' = shots
            \/ shots' = Append(shots, [image |-> memory[currentFrame], cid |-> Cid(now)])
        BY <3>1, LookTypes
      <4> QED
        BY <4>1, <4>2, <4>3 DEF RoundInv, FramesOfThisRound
    <3>2. CASE ~Look
      <4>1. shots' = shots
        BY <1>3, <3>2 DEF Next, Main, Capture, Pipeline, UpdateFrame, StartCapture,
           Lock, CopyFrame, Cancel, Join, Convert, DetectEdges, MakeHash, SignHash,
           SignWithoutKey, Reset, Grab, UpdLock, End, Tick, taken
      <4> QED
        BY <2>1, <4>1 DEF RoundInv, FramesOfThisRound
    <3> QED
      BY <3>1, <3>2
  <2> QED
    BY <2>2, <2>3, <2>4, <2>5 DEF RoundInv
<1>4. CASE UNCHANGED vars
  BY <1>4 DEF vars, mats, updVars, taken, RoundInv, FramesOfThisRound
<1> QED
  BY <1>1, <1>2, <1>3, <1>4

-----------------------------------------------------------------------------
(* Frames, CIDs and hashes pair up.                                        *)

\* Every frame taken is counted, and keeps what it showed.
LEMMA TakenStep ==
  ASSUME TypeOK, LockInv, TakenInv, [Next]_vars
  PROVE  TakenInv'
<1> USE LoggerAssumption DEF At, GoTo, Taken
<1>0. /\ bgr_queue \in Seq(DOMAIN memory) /\ cid_queue \in Seq(0..999)
      /\ shots \in Seq([image : Image, cid : 0..999])
  BY DEF TypeOK
<1>1. CASE InitRound
  <2>1. pc' = "start" /\ shots' = <<>> /\ bgr_queue' = <<>> /\ cid_queue' = <<>>
    BY <1>1 DEF InitRound, TakenInv
  <2> QED
    BY <2>1 DEF TakenInv, FramesKept
<1>2. CASE Assign /\ ~InitRound
  <2>1. pc' = pc /\ shots' = shots /\ cid_queue' = cid_queue /\ bgr_queue' = bgr_queue
    BY <1>2 DEF Assign, taken
  <2>2. \A i \in 1..Len(bgr_queue) : memory'[bgr_queue[i]] = memory[bgr_queue[i]]
    BY <1>2, NewFrame
  <2> QED
    BY <2>1, <2>2 DEF TakenInv, FramesKept
<1>3. CASE Look
  <2>1. /\ pc = "look" /\ Len(shots) < FrameCount
        /\ Len(bgr_queue) = Len(shots) /\ Len(cid_queue) = Len(shots)
    BY <1>3 DEF Look, TakenInv
  <2>2. pc' = IF Len(bgr_queue') = FrameCount THEN "cancel" ELSE "lock"
    BY <1>3 DEF Look
  <2>3. \A i \in 1..Len(bgr_queue') : memory'[bgr_queue'[i]] = memory[bgr_queue'[i]]
    BY <1>3, KeepFrames DEF Next, Main, Capture, InitRound, Assign, Look, LockInv
  <2>4. CASE bgr_queue' = bgr_queue /\ cid_queue' = cid_queue /\ shots' = shots
    <3>1. pc' = "lock"
      BY <2>1, <2>2, <2>4
    <3> QED
      BY <2>1, <2>3, <2>4, <3>1 DEF TakenInv, FramesKept
  <2>5. CASE /\ bgr_queue' = Append(bgr_queue, currentFrame)
             /\ cid_queue' = Append(cid_queue, Cid(now))
             /\ shots' = Append(shots, [image |-> memory[currentFrame], cid |-> Cid(now)])
    <3>1. /\ Len(bgr_queue') = Len(shots) + 1 /\ Len(cid_queue') = Len(shots) + 1
          /\ Len(shots') = Len(shots) + 1 /\ Len(shots) \in Nat
      BY <1>0, <2>1, <2>5
    <3>2. \/ pc' = "cancel" /\ Len(shots') = FrameCount
          \/ pc' = "lock" /\ Len(shots') < FrameCount
      BY <2>1, <2>2, <3>1
    <3>3. \A i \in 1..Len(shots) :
            /\ bgr_queue'[i] = bgr_queue[i] /\ cid_queue'[i] = cid_queue[i]
            /\ shots'[i] = shots[i]
      BY <1>0, <2>1, <2>5
    <3>4. /\ bgr_queue'[Len(shots) + 1] = currentFrame
          /\ cid_queue'[Len(shots) + 1] = Cid(now)
          /\ shots'[Len(shots) + 1].image = memory[currentFrame]
          /\ shots'[Len(shots) + 1].cid = Cid(now)
      BY <1>0, <2>1, <2>5
    <3>5. \A i \in 1..Len(shots) :
            memory[bgr_queue[i]] = shots[i].image /\ cid_queue[i] = shots[i].cid
      BY <2>1 DEF TakenInv, FramesKept
    <3>6. \A i \in 1..(Len(shots) + 1) : i \in 1..Len(shots) \/ i = Len(shots) + 1
      BY <3>1
    <3>7. \A i \in 1..Len(bgr_queue') : memory'[bgr_queue'[i]] = shots'[i].image
      BY <2>3, <3>1, <3>3, <3>4, <3>5, <3>6
    <3>8. \A i \in 1..Len(shots') : cid_queue'[i] = shots'[i].cid
      BY <3>1, <3>3, <3>4, <3>5, <3>6
    <3> QED
      BY <3>1, <3>2, <3>7, <3>8 DEF TakenInv, FramesKept
  <2> QED
    BY <1>3, <2>4, <2>5, LookTypes
<1>4. CASE Next /\ ~InitRound /\ ~Assign /\ ~Look
  <2>1. \A i \in 1..Len(bgr_queue') : memory'[bgr_queue'[i]] = memory[bgr_queue'[i]]
    BY <1>4, KeepFrames
  <2>2. shots' = shots
    BY <1>4 DEF Next, Main, Capture, Pipeline, UpdateFrame, StartCapture, Lock,
       CopyFrame, Cancel, Join, Convert, DetectEdges, MakeHash, SignHash,
       SignWithoutKey, Reset, Grab, UpdLock, End, Tick, taken
  <2>3. CASE Reset
    <3>1. bgr_queue' = <<>> /\ cid_queue' = <<>> /\ pc' = "init"
      BY <2>3 DEF Reset
    <3> QED
      BY <1>0, <2>2, <3>1 DEF TakenInv, FramesKept
  <2>4. CASE DetectEdges
    <3>1. pc = "edges" /\ pc' = "hash" /\ cid_queue' = cid_queue
          /\ bgr_queue' \in {bgr_queue, <<>>}
      BY <2>4 DEF DetectEdges
    <3>2. Len(<<>>) = 0 /\ Len(shots) \in Nat
      BY <1>0
    <3>3. CASE bgr_queue' = bgr_queue
      <4>1. FramesKept'
        BY <2>1, <2>2, <3>3 DEF TakenInv, FramesKept
      <4> QED
        BY <2>2, <3>1, <3>3, <4>1 DEF TakenInv
    <3>4. CASE bgr_queue' = <<>>
      <4>1. FramesKept'
        BY <3>2, <3>4 DEF FramesKept
      <4> QED
        BY <2>2, <3>1, <3>2, <3>4, <4>1 DEF TakenInv
    <3> QED
      BY <3>1, <3>3, <3>4
  <2>5. CASE ~Reset /\ ~DetectEdges
    <3>1. bgr_queue' = bgr_queue /\ cid_queue' = cid_queue
      BY <1>4, <2>5 DEF Next, Main, Capture, Pipeline, UpdateFrame, StartCapture, Lock,
         CopyFrame, Cancel, Join, Convert, MakeHash, SignHash, SignWithoutKey, Grab,
         UpdLock, End, Tick, taken
    <3>2. \/ pc' = pc
          \/ pc = "start" /\ pc' = "lock"
          \/ pc \in {"lock", "copy"} /\ pc' \in {"copy", "look"}
          \/ pc = "cancel" /\ pc' = "join"
          \/ pc = "join" /\ pc' = "convert"
          \/ pc = "convert" /\ pc' = "edges"
          \/ pc \in {"hash", "sign"} /\ pc' \in {"sign", "reset"}
      BY <1>4, <2>5 DEF Next, Main, Capture, Pipeline, UpdateFrame, StartCapture, Lock,
         CopyFrame, Cancel, Join, Convert, MakeHash, SignHash, SignWithoutKey, Grab,
         UpdLock, End, Tick
    <3>3. FramesKept'
      BY <2>1, <2>2, <3>1 DEF TakenInv, FramesKept
    <3>4. Len(<<>>) = 0
      OBVIOUS
    <3> QED
      BY <2>2, <3>1, <3>2, <3>3, <3>4 DEF TakenInv
  <2> QED
    BY <2>3, <2>4, <2>5
<1>5. CASE UNCHANGED vars
  BY <1>5 DEF vars, mats, taken, TakenInv, FramesKept
<1> QED
  BY <1>1, <1>2, <1>3, <1>4, <1>5

\* An empty queue that a list is appended to is that list.
LEMMA ConcatEmpty ==
  ASSUME NEW S, NEW new \in Seq(S)
  PROVE  <<>> \o new = new
OBVIOUS

\* Each stage fills its queue with what belongs to the frames taken.
LEMMA StageStep ==
  ASSUME TypeOK, TakenInv, StageInv, [Next]_vars
  PROVE  StageInv'
<1> USE LoggerAssumption DEF At, GoTo
<1>1. CASE InitRound \/ Capture
  <2>1. UNCHANGED hashes /\ pc' \in {"start", "lock", "copy", "look", "cancel", "join", "convert"}
        /\ pc \notin {"edges", "hash", "sign", "reset"}
    BY <1>1 DEF InitRound, Capture, StartCapture, Lock, CopyFrame, Look, Cancel, Join
  <2> QED
    BY <2>1 DEF StageInv, Paired, hashes
<1>2. CASE Convert
  <2>1. /\ pc = "convert" /\ pc' = "edges" /\ shots' = shots
        /\ UNCHANGED <<feature_vector_queue, hash_queue, hash_signed_queue>>
        /\ setting.yuv => y_queue' = y_queue \o Pixels(bgr_queue)
        /\ setting' = setting
    BY <1>2 DEF Convert, taken, world
  <2>2. y_queue = <<>> /\ feature_vector_queue = <<>> /\ hash_queue = <<>>
        /\ hash_signed_queue = <<>>
    BY <2>1 DEF StageInv
  <2>3. setting.yuv => y_queue' = Pixels(bgr_queue)
    BY <2>1, <2>2, PixelsSeq, ConcatEmpty
  <2>4. Len(Pixels(bgr_queue)) = FrameCount
    BY <2>1, PixelsSeq DEF TakenInv, Taken
  <2>5. \A i \in 1..FrameCount : Pixels(bgr_queue)[i] = shots[i].image
    <3>1. Len(bgr_queue) = FrameCount
      BY <2>4, PixelsSeq
    <3> QED
      BY <3>1 DEF Pixels, TakenInv, FramesKept
  <2> QED
    BY <2>1, <2>2, <2>3, <2>4, <2>5 DEF StageInv, Paired
<1>3. CASE DetectEdges
  <2>1. /\ pc = "edges" /\ pc' = "hash" /\ shots' = shots
        /\ UNCHANGED <<hash_queue, hash_signed_queue, setting>>
    BY <1>3 DEF DetectEdges, world
  <2>2. feature_vector_queue = <<>> /\ hash_queue = <<>> /\ hash_signed_queue = <<>>
    BY <2>1 DEF StageInv
  <2>3. /\ AllEdges("y", y_queue) \in Seq(EdgeImage)
        /\ Len(AllEdges("y", y_queue)) = Len(y_queue)
        /\ AllEdges("bgr", Pixels(bgr_queue)) \in Seq(EdgeImage)
        /\ Len(AllEdges("bgr", Pixels(bgr_queue))) = Len(bgr_queue)
    BY PixelsSeq, EdgesSeq DEF TypeOK
  <2>4. /\ Len(feature_vector_queue') = FrameCount
        /\ \A i \in 1..FrameCount : feature_vector_queue'[i].image = shots[i].image
    <3>1. CASE setting.yuv
      <4>1. feature_vector_queue' = AllEdges("y", y_queue)
        BY <1>3, <2>2, <2>3, <3>1, ConcatEmpty DEF DetectEdges
      <4>2. Len(y_queue) = FrameCount /\ \A i \in 1..FrameCount : y_queue[i] = shots[i].image
        BY <2>1, <3>1 DEF StageInv
      <4> QED
        BY <2>3, <4>1, <4>2 DEF AllEdges, Edges
    <3>2. CASE ~setting.yuv
      <4>1. feature_vector_queue' = AllEdges("bgr", Pixels(bgr_queue))
        BY <1>3, <2>2, <2>3, <3>2, ConcatEmpty DEF DetectEdges
      <4>2. Len(bgr_queue) = FrameCount
            /\ \A i \in 1..FrameCount : Pixels(bgr_queue)[i] = shots[i].image
        BY <2>1 DEF TakenInv, Taken, FramesKept, Pixels
      <4>3. Len(Pixels(bgr_queue)) = FrameCount
        BY <4>2, PixelsSeq
      <4> QED
        BY <2>3, <4>1, <4>2, <4>3 DEF AllEdges, Edges
    <3> QED
      BY <3>1, <3>2
  <2> QED
    BY <2>1, <2>2, <2>4 DEF StageInv, Paired
<1>4. CASE MakeHash
  <2> DEFINE new == [i \in 1..Len(feature_vector_queue) |-> Hash(feature_vector_queue[i])]
  <2>1. /\ pc = "hash" /\ pc' = "sign" /\ shots' = shots
        /\ UNCHANGED hash_signed_queue /\ hash_queue' = hash_queue \o new
    BY <1>4 DEF MakeHash, taken
  <2>2. hash_queue = <<>> /\ hash_signed_queue = <<>>
        /\ Len(feature_vector_queue) = FrameCount
        /\ \A i \in 1..FrameCount : feature_vector_queue[i].image = shots[i].image
    BY <2>1 DEF StageInv
  <2>3. hash_queue' = new /\ Len(new) = FrameCount
    <3>1. new \in Seq({Hash(feature_vector_queue[i]) : i \in 1..FrameCount})
      BY <2>2
    <3>2. Len(new) = FrameCount
      BY <2>2
    <3> HIDE DEF new
    <3> QED
      BY <2>1, <2>2, <3>1, <3>2, ConcatEmpty
  <2>4. \A i \in 1..FrameCount : new[i].sha256.image = shots[i].image
    BY <2>2 DEF Hash
  <2> HIDE DEF new
  <2> QED
    BY <2>1, <2>2, <2>3, <2>4 DEF StageInv, Paired
<1>5. CASE SignHash \/ SignWithoutKey
  <2>1. /\ pc = "sign" /\ shots' = shots /\ hash_queue' = hash_queue
        /\ cid_queue' = cid_queue /\ pc' \in {"sign", "reset"}
        /\ pc' = "sign" => hash_signed_queue' = hash_signed_queue
    BY <1>5 DEF SignHash, SignWithoutKey, taken
  <2>2. /\ hash_signed_queue = <<>> /\ Len(hash_queue) = FrameCount
        /\ \A i \in 1..FrameCount : hash_queue[i].sha256.image = shots[i].image
    BY <2>1 DEF StageInv
  <2>3. pc' = "reset" => /\ Len(hash_signed_queue') = FrameCount
                         /\ \A i \in 1..FrameCount : hash_signed_queue'[i].of = hash_queue[i]
    <3> DEFINE good == [i \in 1..Len(hash_queue) |-> Sign(hash_queue[i])]
               junk == [i \in 1..Len(hash_queue) |->
                          [key |-> FALSE, signs |-> <<>>, of |-> hash_queue[i]]]
    <3>1. \A i \in 1..Len(hash_queue) : hash_queue[i] \in HashText
      BY DEF TypeOK
    <3>2. good \in [1..FrameCount -> Signature] /\ junk \in [1..FrameCount -> Signature]
      BY <2>2, <3>1 DEF Sign, Signature
    <3>3. \A i \in 1..FrameCount : good[i].of = hash_queue[i] /\ junk[i].of = hash_queue[i]
      BY <2>2 DEF Sign
    <3> HIDE DEF good, junk
    <3>4. /\ good \in Seq(Signature) /\ Len(good) = FrameCount
          /\ junk \in Seq(Signature) /\ Len(junk) = FrameCount
      BY <3>2, MakeSeq
    <3>5. pc' = "reset" => hash_signed_queue' \in {<<>> \o good, <<>> \o junk}
      BY <1>5, <2>1, <2>2 DEF SignHash, SignWithoutKey, good, junk
    <3>6. pc' = "reset" => hash_signed_queue' \in {good, junk}
      BY <3>4, <3>5, ConcatEmpty
    <3> QED
      BY <3>3, <3>4, <3>6
  <2>4. /\ Len(shots) = FrameCount /\ Len(cid_queue) = FrameCount
        /\ \A i \in 1..FrameCount : cid_queue[i] = shots[i].cid
    BY <2>1 DEF TakenInv, Taken
  <2> QED
    BY <2>1, <2>2, <2>3, <2>4 DEF StageInv, Paired
<1>6. CASE Reset
  <2>1. /\ pc' = "init" /\ y_queue' = <<>> /\ feature_vector_queue' = <<>>
        /\ hash_queue' = <<>> /\ hash_signed_queue' = <<>>
    BY <1>6 DEF Reset
  <2> QED
    BY <2>1 DEF StageInv, Paired
<1>7. CASE UpdateFrame \/ Tick \/ UNCHANGED vars
  <2>1. UNCHANGED <<pc, taken, hashes, setting>>
    BY <1>7 DEF UpdateFrame, Grab, UpdLock, Assign, End, Tick, vars, world
  <2> QED
    BY <2>1 DEF StageInv, Paired, taken, hashes
<1> QED
  BY <1>1, <1>2, <1>3, <1>4, <1>5, <1>6, <1>7 DEF Next, Main, Pipeline

-----------------------------------------------------------------------------
\* The invariant of the logger: Init establishes it and every step keeps it.
THEOREM Invariance == Spec => []IInv
<1>1. Init => IInv
  BY InitIInv
<1>2. IInv /\ [Next]_vars => IInv'
  BY LockStep, TypeStep, RoundStep, TakenStep, StageStep DEF IInv
<1> QED
  BY <1>1, <1>2, PTL DEF Spec

\* The logger's state keeps its types: in particular no queue refers to a
\* buffer that was freed.
THEOREM TypeCorrect == Spec => []TypeOK
BY Invariance, PTL DEF IInv

\* capture() never reads the global frame while UpdateFrame replaces it.
THEOREM FrameLocked == Spec => []NoRace
<1>1. IInv => NoRace
  BY DEF IInv, LockInv, NoRace
<1> QED
  BY <1>1, Invariance, PTL

\* When capture() destroys frameLocker nobody holds it.
THEOREM LockSurvivesCancel == Spec => []UnlockedAtJoin
<1>1. IInv => UnlockedAtJoin
  BY DEF IInv, LockInv, UnlockedAtJoin, TypeOK, Capturing
<1> QED
  BY <1>1, Invariance, PTL

\* What is in bgr_queue stays what it was when it was taken.
THEOREM FramesStay == Spec => []FramesKept
BY Invariance, PTL DEF IInv, TakenInv

\* A round's frames are its own.
THEOREM FramesFresh == Spec => []FramesOfThisRound
BY Invariance, PTL DEF IInv, RoundInv

\* At the end of a round the i-th hash and CID are those of the i-th frame, and
\* the i-th signature is the one sign_hash made for that hash.
THEOREM HashesPair == Spec => []Paired
BY Invariance, PTL DEF IInv, StageInv

=============================================================================
