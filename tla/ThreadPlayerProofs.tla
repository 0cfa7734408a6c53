-------------------------- MODULE ThreadPlayerProofs --------------------------
(***************************************************************************)
(* What holds of the player's threads for every capacity of the queues,    *)
(* every number of packets, frames and closings: decoders are published    *)
(* before they are used, every thread that ends is counted once, and the   *)
(* main loop ends after the threads and after the last frame.              *)
(***************************************************************************)
EXTENDS ThreadPlayer, Integers, FiniteSetTheorems, FunctionTheorems,
        SequenceTheorems, TLAPS

\* The stages of the demuxer before the clock runs.
Early == {"open", "publishAudio", "pushLoad", "startClock"}

\* What the demuxer has published when it stands at a stage.
Published ==
  /\ remux \in {"publishAudio", "pushLoad", "startClock"} => video_decoder
  /\ remux \in {"poll", "read", "enqueueVideo", "enqueueAudio", "pushQuit"} \/ video = "check"
       => video_decoder /\ start_time_ms
  /\ audio_decoder => WithAudio
  /\ remux \in Early =>
       /\ video_queue = 0 /\ frame_queue = 0
       /\ video \in {"poll", "dequeue", "pushQuit", "done"}

\* VIDEO_LOAD_EVENT is pushed once, before the first frame can be announced.
LoadComesFirst ==
  /\ remux \in Early => Pending("VIDEO_NEW_FRAME") = {}
  /\ remux \in Early \ {"startClock"} => Pending("VIDEO_LOAD_EVENT") = {}
  /\ \A i, j \in Pending("VIDEO_LOAD_EVENT") : i = j
  /\ \A i \in Pending("VIDEO_LOAD_EVENT"), j \in Pending("VIDEO_NEW_FRAME") : i < j

\* A frame in the queue is announced even while the texture is still to come.
FramesKnown ==
  (texture \/ Pending("VIDEO_LOAD_EVENT") # {}) /\ frame_queue > 0
    => video = "pace" \/ Pending("VIDEO_NEW_FRAME") # {}

\* The decoder thread's own THREAD_QUIT is behind all its frames.
QuitComesLast ==
  video = "done" =>
    \A j \in Pending("VIDEO_NEW_FRAME") : \E k \in Pending("THREAD_QUIT") : j < k

\* The loop runs until wg reaches WaitFor.
LoopCounts ==
  /\ main = "loop" => wg < WaitFor
  /\ main \in {"ending", "closeAudio", "exited"} => wg = WaitFor
  /\ main = "exited" => audio = "idle"

IInv ==
  /\ TypeOK /\ Published /\ DecodersPublished /\ LoadComesFirst
  /\ FramesKnown /\ QuitComesLast /\ ThreadQuitCounted /\ LoopCounts

-------------------------------------------------------------------------------
(* The event queue as sets of places                                           *)

\* The places of a type of event are finitely many numbers.
LEMMA PendingIsFinite ==
  ASSUME TypeOK, NEW type
  PROVE  /\ IsFiniteSet(Pending(type)) /\ Cardinality(Pending(type)) \in Nat
         /\ Pending(type) \subseteq 1..Len(events)
         /\ Len(events) \in Nat
<1>1. Len(events) \in Nat /\ DOMAIN events = 1..Len(events)
  BY LenProperties DEF TypeOK
<1>2. Pending(type) \subseteq 1..Len(events)
  BY <1>1 DEF Pending
<1>3. IsFiniteSet(1..Len(events))
  BY <1>1, FS_Interval
<1>4. QED BY <1>1, <1>2, <1>3, FS_Subset, FS_CardinalityType

\* Pushing an event adds the last place, and nothing else moves.
LEMMA PushPending ==
  ASSUME TypeOK, NEW type \in EventTypes, SDL_PushEvent(type)
  PROVE  /\ events' \in Seq(EventTypes)
         /\ \A t : Pending(t)' = Pending(t) \cup (IF t = type THEN {Len(events) + 1} ELSE {})
<1>1. /\ events \in Seq(EventTypes) /\ events' = Append(events, type)
      /\ Len(events) \in Nat /\ DOMAIN events = 1..Len(events)
  BY LenProperties DEF TypeOK, SDL_PushEvent
<1>2. /\ events' \in Seq(EventTypes) /\ Len(events') = Len(events) + 1
      /\ \A i \in 1..Len(events) : events'[i] = events[i]
      /\ events'[Len(events) + 1] = type
  BY <1>1, AppendProperties
<1>3. DOMAIN events' = 1..(Len(events) + 1)
  BY <1>2, LenProperties
<1>4. QED BY <1>1, <1>2, <1>3 DEF Pending

\* Taking the oldest event moves every other one place down.
LEMMA PopPending ==
  ASSUME TypeOK, NEW type, WaitEvent(type)
  PROVE  /\ events' \in Seq(EventTypes) /\ type \in EventTypes
         /\ 1 \in Pending(type)
         /\ \A t : t # type => 1 \notin Pending(t)
         /\ \A t : \A i \in Nat : i \in Pending(t)' <=> i # 0 /\ i + 1 \in Pending(t)
<1>1. /\ events \in Seq(EventTypes) /\ events # <<>> /\ events' = Tail(events)
      /\ Head(events) = type
  BY DEF TypeOK, WaitEvent
<1>2. /\ events' \in Seq(EventTypes) /\ type \in EventTypes /\ Len(events') = Len(events) - 1
      /\ \A i \in 1..Len(events') : events'[i] = events[i + 1]
  BY <1>1, HeadTailProperties
<1>3. /\ DOMAIN events = 1..Len(events) /\ DOMAIN events' = 1..(Len(events) - 1)
      /\ Len(events) \in Nat \ {0} /\ events[1] = type
  BY <1>1, <1>2, LenProperties, EmptySeq
<1>4. QED BY <1>2, <1>3 DEF Pending

\* And takes one from the count of its type.
LEMMA PopCount ==
  ASSUME TypeOK, NEW type, WaitEvent(type), NEW t
  PROVE  Cardinality(Pending(t)')
           = Cardinality(Pending(t)) - (IF t = type THEN 1 ELSE 0)
<1> DEFINE rest == Pending(t) \ {1}
           down == [i \in rest |-> i - 1]
<1>1. /\ IsFiniteSet(rest)
      /\ Cardinality(rest) = Cardinality(Pending(t)) - (IF t = type THEN 1 ELSE 0)
      /\ Cardinality(Pending(t)) \in Nat
  <2>1. IsFiniteSet(Pending(t)) /\ Cardinality(Pending(t)) \in Nat
    BY PendingIsFinite
  <2>2. CASE t = type
    <3>1. 1 \in Pending(t)
      BY <2>2, PopPending
    <3>2. IsFiniteSet(rest) /\ Cardinality(rest) = Cardinality(Pending(t)) - 1
      BY <2>1, <3>1, FS_RemoveElement
    <3>3. QED BY <2>1, <2>2, <3>2
  <2>3. CASE t # type
    <3>1. 1 \notin Pending(t)
      BY <2>3, PopPending
    <3>2. rest = Pending(t)
      BY <3>1
    <3>3. QED BY <2>1, <2>3, <3>2
  <2>4. QED BY <2>2, <2>3
<1>2. \A i \in rest : i \in Nat /\ i > 1
  BY PendingIsFinite
<1>3. Pending(t)' \subseteq Nat \ {0}
  <2>1. events' \in Seq(EventTypes)
    BY PopPending
  <2>2. DOMAIN events' \subseteq Nat \ {0}
    BY <2>1, LenProperties
  <2>3. QED BY <2>2 DEF Pending
<1>4. down \in Bijection(rest, Pending(t)')
  <2>1. down \in [rest -> Pending(t)']
    BY <1>2, PopPending
  <2>2. \A a, b \in rest : down[a] = down[b] => a = b
    BY <1>2
  <2>3. \A j \in Pending(t)' : \E a \in rest : down[a] = j
    <3> TAKE j \in Pending(t)'
    <3>1. j \in Nat \ {0} /\ j + 1 \in Pending(t)
      BY <1>3, PopPending
    <3>2. j + 1 \in rest /\ down[j + 1] = j
      BY <3>1
    <3>3. QED BY <3>2
  <2>4. QED BY <2>1, <2>2, <2>3 DEF Bijection, Injection, Surjection, IsInjective
<1>5. Cardinality(Pending(t)') = Cardinality(rest)
  BY <1>1, <1>4, FS_Bijection DEF ExistsBijection
<1>6. QED BY <1>1, <1>5

\* How many of two stages are "done".
LEMMA CountDone ==
  ASSUME NEW a, NEW b
  PROVE  Cardinality({x \in {<<"remux", a>>, <<"video", b>>} : x[2] = "done"})
           = (IF a = "done" THEN 1 ELSE 0) + (IF b = "done" THEN 1 ELSE 0)
<1> DEFINE S == {x \in {<<"remux", a>>, <<"video", b>>} : x[2] = "done"}
<1>1. CASE a # "done" /\ b # "done"
  <2>1. S = {}
    BY <1>1
  <2>2. QED BY <1>1, <2>1, FS_EmptySet
<1>2. CASE a = "done" /\ b # "done"
  <2>1. S = {<<"remux", a>>}
    BY <1>2
  <2>2. Cardinality(S) = 1
    BY <2>1, FS_Singleton
  <2>3. QED BY <1>2, <2>2
<1>3. CASE a # "done" /\ b = "done"
  <2>1. S = {<<"video", b>>}
    BY <1>3
  <2>2. Cardinality(S) = 1
    BY <2>1, FS_Singleton
  <2>3. QED BY <1>3, <2>2
<1>4. CASE a = "done" /\ b = "done"
  <2>1. S = {<<"remux", a>>} \cup {<<"video", b>>} /\ <<"video", b>> \notin {<<"remux", a>>}
    BY <1>4
  <2>2. IsFiniteSet({<<"remux", a>>}) /\ Cardinality({<<"remux", a>>}) = 1
    BY FS_Singleton
  <2>3. Cardinality({<<"remux", a>>} \cup {<<"video", b>>}) = 1 + 1
    <3> DEFINE first == {<<"remux", a>>}
               second == <<"video", b>>
    <3>1. second \notin first /\ IsFiniteSet(first) /\ Cardinality(first) = 1
      BY <2>1, <2>2
    <3> HIDE DEF first, second
    <3>2. Cardinality(first \cup {second}) = 1 + 1
      BY <3>1, FS_AddElement
    <3>3. QED BY <3>2 DEF first, second
  <2>4. Cardinality(S) = 2
    BY <2>1, <2>3
  <2>5. QED BY <1>4, <2>4
<1>5. QED BY <1>1, <1>2, <1>3, <1>4

-------------------------------------------------------------------------------
(* The steps by what they do to the event queue                                *)

RemuxQuiet ==
  \/ RemuxOpenFails \/ RemuxOpen \/ RemuxPublishAudio \/ RemuxStartClock \/ RemuxPoll
  \/ RemuxRead \/ RemuxEof \/ RemuxEnqueueVideo \/ RemuxEnqueueAudio

VideoQuiet ==
  \/ VideoPoll \/ VideoDequeue \/ VideoTimeout \/ VideoCheckQuit
  \/ VideoSendPacket \/ VideoReceiveFrame \/ VideoReceiveEnds

RestQuiet == AudioStep \/ DestroyWindow \/ CloseAudio \/ UNCHANGED vars

Quiet == RemuxQuiet \/ VideoQuiet \/ RestQuiet

Pushes == RemuxPushLoad \/ RemuxPushQuit \/ VideoPace \/ VideoPushQuit \/ UserCloses

Pops == HandleQuit \/ HandleThreadQuit \/ HandleLoad \/ HandleNewFrame

Moves == Quiet \/ Pushes \/ Pops

\* Every step is of one of the three kinds.
LEMMA Kinds == [Next]_vars => Moves
  BY DEF Next, RemuxStep, VideoStep, MainStep, Moves, Quiet, RemuxQuiet, VideoQuiet, RestQuiet,
     Pushes, Pops

\* A quiet step moves no event.
LEMMA QuietPending ==
  ASSUME Quiet
  PROVE  events' = events /\ \A t : Pending(t)' = Pending(t)
<1>1. CASE RemuxQuiet
  BY <1>1 DEF Pending, RemuxQuiet, RemuxOpenFails, RemuxOpen, RemuxPublishAudio,
       RemuxStartClock, RemuxPoll, RemuxRead, RemuxEof, RemuxEnqueueVideo,
       RemuxEnqueueAudio, RemuxAt, Running, mainVars, streamVars, queueVars, boundVars
<1>2. CASE VideoQuiet
  BY <1>2 DEF Pending, VideoQuiet, VideoPoll, VideoDequeue, VideoTimeout, VideoCheckQuit,
     VideoSendPacket, VideoReceiveFrame, VideoReceiveEnds, VideoAt, Running,
     mainVars, streamVars, queueVars, boundVars
<1>3. CASE RestQuiet
  BY <1>3 DEF Pending, RestQuiet, AudioStep, AudioCallback, AudioDequeue, AudioDecode,
       DestroyWindow, CloseAudio, AudioAt, Running, vars, mainVars, streamVars, queueVars,
       boundVars
<1>4. QED BY <1>1, <1>2, <1>3 DEF Quiet

\* The events after any step are events.
LEMMA MovedEvents ==
  ASSUME TypeOK, Moves
  PROVE  events' \in Seq(EventTypes)
<1>1. CASE Quiet
  BY <1>1, QuietPending DEF TypeOK
<1>2. CASE Pushes
  <2>1. PICK type \in EventTypes : SDL_PushEvent(type)
    BY <1>2 DEF Pushes, RemuxPushLoad, RemuxPushQuit, VideoPace, VideoPushQuit, UserCloses,
       EventTypes
  <2>2. QED BY <2>1, PushPending
<1>3. CASE Pops
  <2>1. PICK type : WaitEvent(type)
    BY <1>3 DEF Pops, HandleQuit, HandleThreadQuit, HandleLoad, HandleNewFrame
  <2>2. QED BY <2>1, PopPending
<1>4. QED BY <1>1, <1>2, <1>3 DEF Moves

-------------------------------------------------------------------------------
(* The steps keep the invariant, conjunct by conjunct                          *)

\* TypeOK in three parts: the stages of the threads, the flags, the counters.
StagesOK ==
  /\ main \in {"loop", "ending", "closeAudio", "exited", "aborted"}
  /\ remux \in {"open", "publishAudio", "pushLoad", "startClock", "poll", "read",
                "enqueueVideo", "enqueueAudio", "pushQuit", "done"}
  /\ video \in {"poll", "dequeue", "check", "send", "receive", "pace", "pushQuit", "done"}
  /\ audio \in {"idle", "dequeue", "decode"}
FlagsOK ==
  /\ quit \in BOOLEAN /\ texture \in BOOLEAN
  /\ video_decoder \in BOOLEAN /\ audio_decoder \in BOOLEAN /\ start_time_ms \in BOOLEAN
CountersOK ==
  /\ video_queue \in 0..QueueMaxSize /\ audio_queue \in 0..QueueMaxSize
  /\ frame_queue \in Nat
  /\ reads \in 0..MaxReads /\ frames \in 0..MaxFrames /\ closes \in 0..MaxCloses

\* Every step leaves a thread at one of its stages.
LEMMA StagesStep ==
  ASSUME StagesOK, Moves
  PROVE  StagesOK'
<1> USE PlayerAssumption
<1>1. CASE RemuxQuiet
  BY <1>1 DEF StagesOK, RemuxQuiet, RemuxOpenFails, RemuxOpen, RemuxPublishAudio,
       RemuxStartClock, RemuxPoll, RemuxRead, RemuxEof, RemuxEnqueueVideo,
       RemuxEnqueueAudio, RemuxAt, mainVars, streamVars, queueVars, boundVars
<1>2. CASE VideoQuiet
  BY <1>2 DEF StagesOK, VideoQuiet, VideoPoll, VideoDequeue, VideoTimeout, VideoCheckQuit,
       VideoSendPacket, VideoReceiveFrame, VideoReceiveEnds, VideoAt, mainVars,
       streamVars, queueVars, boundVars
<1>3. CASE RestQuiet
  BY <1>3 DEF StagesOK, RestQuiet, AudioStep, AudioCallback, AudioDequeue, AudioDecode,
       DestroyWindow, CloseAudio, AudioAt, vars, mainVars, streamVars, queueVars, boundVars
<1>4. CASE Pushes
  BY <1>4 DEF StagesOK, Pushes, RemuxPushLoad, RemuxPushQuit, VideoPace, VideoPushQuit,
       UserCloses, RemuxAt, VideoAt, mainVars, streamVars, queueVars, boundVars
<1>5. CASE Pops
  BY <1>5 DEF StagesOK, Pops, HandleQuit, HandleThreadQuit, HandleLoad, HandleNewFrame,
       mainVars, streamVars, queueVars, boundVars
<1>6. QED BY <1>1, <1>2, <1>3, <1>4, <1>5 DEF Moves, Quiet

\* Flags stay Boolean; texture is whatever SDL_CreateTexture gives.
LEMMA FlagsStep ==
  ASSUME FlagsOK, Moves
  PROVE  FlagsOK'
<1> USE PlayerAssumption
<1>1. CASE RemuxQuiet
  BY <1>1 DEF FlagsOK, RemuxQuiet, RemuxOpenFails, RemuxOpen, RemuxPublishAudio,
       RemuxStartClock, RemuxPoll, RemuxRead, RemuxEof, RemuxEnqueueVideo,
       RemuxEnqueueAudio, RemuxAt, mainVars, streamVars, queueVars, boundVars
<1>2. CASE VideoQuiet
  BY <1>2 DEF FlagsOK, VideoQuiet, VideoPoll, VideoDequeue, VideoTimeout, VideoCheckQuit,
       VideoSendPacket, VideoReceiveFrame, VideoReceiveEnds, VideoAt, mainVars,
       streamVars, queueVars, boundVars
<1>3. CASE RestQuiet
  BY <1>3 DEF FlagsOK, RestQuiet, AudioStep, AudioCallback, AudioDequeue, AudioDecode,
       DestroyWindow, CloseAudio, AudioAt, vars, mainVars, streamVars, queueVars, boundVars
<1>4. CASE Pushes
  BY <1>4 DEF FlagsOK, Pushes, RemuxPushLoad, RemuxPushQuit, VideoPace, VideoPushQuit,
       UserCloses, RemuxAt, VideoAt, mainVars, streamVars, queueVars, boundVars
<1>5. CASE Pops
  BY <1>5 DEF FlagsOK, Pops, HandleQuit, HandleThreadQuit, HandleLoad, HandleNewFrame,
       mainVars, streamVars, queueVars, boundVars
<1>6. QED BY <1>1, <1>2, <1>3, <1>4, <1>5 DEF Moves, Quiet

\* The guards of the queues and of the bounds keep the counters in range.
LEMMA CountersStep ==
  ASSUME CountersOK, Moves
  PROVE  CountersOK'
<1> USE PlayerAssumption
<1>1. CASE RemuxQuiet
  BY <1>1 DEF CountersOK, RemuxQuiet, RemuxOpenFails, RemuxOpen, RemuxPublishAudio,
       RemuxStartClock, RemuxPoll, RemuxRead, RemuxEof, RemuxEnqueueVideo,
       RemuxEnqueueAudio, RemuxAt, mainVars, streamVars, queueVars, boundVars
<1>2. CASE VideoQuiet
  BY <1>2 DEF CountersOK, VideoQuiet, VideoPoll, VideoDequeue, VideoTimeout,
       VideoCheckQuit, VideoSendPacket, VideoReceiveFrame, VideoReceiveEnds, VideoAt,
       mainVars, streamVars, queueVars, boundVars
<1>3. CASE RestQuiet
  BY <1>3 DEF CountersOK, RestQuiet, AudioStep, AudioCallback, AudioDequeue, AudioDecode,
       DestroyWindow, CloseAudio, AudioAt, vars, mainVars, streamVars, queueVars, boundVars
<1>4. CASE Pushes
  BY <1>4 DEF CountersOK, Pushes, RemuxPushLoad, RemuxPushQuit, VideoPace, VideoPushQuit,
       UserCloses, RemuxAt, VideoAt, mainVars, streamVars, queueVars, boundVars
<1>5. CASE Pops
  BY <1>5 DEF CountersOK, Pops, HandleQuit, HandleThreadQuit, HandleLoad, HandleNewFrame,
       mainVars, streamVars, queueVars, boundVars
<1>6. QED BY <1>1, <1>2, <1>3, <1>4, <1>5 DEF Moves, Quiet

\* wg stays in its range because the loop stops at WaitFor.
LEMMA TypeStep ==
  ASSUME IInv, Moves
  PROVE  TypeOK'
<1>1. TypeOK /\ LoopCounts /\ events' \in Seq(EventTypes)
  BY MovedEvents DEF IInv
<1>2. StagesOK' /\ FlagsOK' /\ CountersOK'
  BY <1>1, StagesStep, FlagsStep, CountersStep DEF TypeOK, StagesOK, FlagsOK, CountersOK
<1>3. wg' = wg \/ (main = "loop" /\ wg' = wg + 1)
  <2>1. CASE Quiet
    BY <2>1 DEF Quiet, RemuxQuiet, RemuxOpenFails, RemuxOpen, RemuxPublishAudio,
         RemuxStartClock, RemuxPoll, RemuxRead, RemuxEof, RemuxEnqueueVideo,
         RemuxEnqueueAudio, RemuxAt, mainVars, streamVars, queueVars, boundVars,
         VideoQuiet, VideoPoll, VideoDequeue, VideoTimeout, VideoCheckQuit,
         VideoSendPacket, VideoReceiveFrame, VideoReceiveEnds, VideoAt, RestQuiet,
         AudioStep, AudioCallback, AudioDequeue, AudioDecode, DestroyWindow, CloseAudio,
         AudioAt, vars
  <2>2. CASE Pushes
    BY <2>2 DEF Pushes, RemuxPushLoad, RemuxPushQuit, VideoPace, VideoPushQuit,
       UserCloses, RemuxAt, VideoAt, mainVars, streamVars, queueVars, boundVars
  <2>3. CASE Pops
    BY <2>3 DEF Pops, HandleQuit, HandleThreadQuit, HandleLoad, HandleNewFrame, mainVars,
         streamVars, queueVars, boundVars, WaitEvent
  <2>4. QED BY <2>1, <2>2, <2>3 DEF Moves
<1>4. wg' \in 0..2
  BY <1>1, <1>3, PlayerAssumption DEF TypeOK, LoopCounts
<1>5. QED BY <1>1, <1>2, <1>4 DEF TypeOK, StagesOK, FlagsOK, CountersOK

\* The main loop's count.
LEMMA LoopStep ==
  ASSUME IInv, Moves
  PROVE  LoopCounts'
<1> USE PlayerAssumption
<1>1. TypeOK /\ LoopCounts
  BY DEF IInv
<1>2. CASE RemuxQuiet
  BY <1>1, <1>2 DEF LoopCounts, RemuxQuiet, RemuxOpenFails, RemuxOpen, RemuxPublishAudio,
       RemuxStartClock, RemuxPoll, RemuxRead, RemuxEof, RemuxEnqueueVideo,
       RemuxEnqueueAudio, RemuxAt, Running, mainVars, streamVars, queueVars, boundVars
<1>3. CASE VideoQuiet
  BY <1>1, <1>3 DEF LoopCounts, VideoQuiet, VideoPoll, VideoDequeue, VideoTimeout,
       VideoCheckQuit, VideoSendPacket, VideoReceiveFrame, VideoReceiveEnds, VideoAt,
       Running, mainVars, streamVars, queueVars, boundVars
<1>4. CASE RestQuiet
  BY <1>1, <1>4 DEF LoopCounts, RestQuiet, AudioStep, AudioCallback, AudioDequeue,
       AudioDecode, DestroyWindow, CloseAudio, AudioAt, Running, vars, mainVars,
       streamVars, queueVars, boundVars
<1>5. CASE Pushes
  BY <1>1, <1>5 DEF LoopCounts, Pushes, RemuxPushLoad, RemuxPushQuit, VideoPace,
       VideoPushQuit, UserCloses, RemuxAt, VideoAt, Running, mainVars, streamVars,
       queueVars, boundVars
<1>6. CASE Pops
  BY <1>1, <1>6 DEF TypeOK, LoopCounts, Pops, HandleQuit, HandleThreadQuit, HandleLoad,
       HandleNewFrame, WaitEvent, mainVars, streamVars, queueVars, boundVars
<1>7. QED BY <1>2, <1>3, <1>4, <1>5, <1>6 DEF Moves, Quiet

\* Where the demuxer stands tells what is published.
LEMMA PublishedStep ==
  ASSUME IInv, Moves
  PROVE  Published'
<1> USE PlayerAssumption
<1>1. StagesOK /\ Published /\ DecodersPublished /\ video_queue \in Nat
  BY DEF IInv, TypeOK, StagesOK
<1>2. CASE RemuxQuiet
  BY <1>1, <1>2 DEF StagesOK, Published, Early, RemuxQuiet, RemuxOpenFails, RemuxOpen,
       RemuxPublishAudio, RemuxStartClock, RemuxPoll, RemuxRead, RemuxEof,
       RemuxEnqueueVideo, RemuxEnqueueAudio, RemuxAt, Running, mainVars, streamVars,
       queueVars, boundVars
<1>3. CASE VideoQuiet
  BY <1>1, <1>3 DEF StagesOK, Published, DecodersPublished, Early, VideoQuiet, VideoPoll,
       VideoDequeue, VideoTimeout, VideoCheckQuit, VideoSendPacket, VideoReceiveFrame,
       VideoReceiveEnds, VideoAt, Running, mainVars, streamVars, queueVars, boundVars
<1>4. CASE RestQuiet
  BY <1>1, <1>4 DEF Published, Early, RestQuiet, AudioStep, AudioCallback, AudioDequeue,
       AudioDecode, DestroyWindow, CloseAudio, AudioAt, Running, vars, mainVars,
       streamVars, queueVars, boundVars
<1>5. CASE Pushes
  BY <1>1, <1>5 DEF Published, Early, Pushes, RemuxPushLoad, RemuxPushQuit, VideoPace,
       VideoPushQuit, UserCloses, RemuxAt, VideoAt, Running, mainVars, streamVars,
       queueVars, boundVars
<1>6. CASE Pops
  BY <1>1, <1>6 DEF Published, Early, Pops, HandleQuit, HandleThreadQuit, HandleLoad,
       HandleNewFrame, WaitEvent, mainVars, streamVars, queueVars, boundVars
<1>7. QED BY <1>2, <1>3, <1>4, <1>5, <1>6 DEF Moves, Quiet

\* The decoders and the clock are in place before the others use them.
LEMMA DecodersStep ==
  ASSUME IInv, Moves
  PROVE  DecodersPublished'
<1> USE PlayerAssumption
<1>1. TypeOK /\ Published /\ DecodersPublished
  BY DEF IInv
<1> DEFINE Load == Pending("VIDEO_LOAD_EVENT")
<1>2. Load' # {} => Load # {} \/ (RemuxAt("pushLoad", "startClock") /\ UNCHANGED streamVars)
  <2>1. CASE Quiet
    BY <2>1, QuietPending
  <2>2. CASE Pushes
    <3>1. CASE RemuxPushLoad
      BY <3>1 DEF RemuxPushLoad
    <3>2. ASSUME NEW type \in EventTypes, SDL_PushEvent(type), type # "VIDEO_LOAD_EVENT"
          PROVE  Load' = Load
      <4>1. Load' = Load \cup (IF "VIDEO_LOAD_EVENT" = type THEN {Len(events) + 1} ELSE {})
        BY <1>1, <3>2, PushPending
      <4>2. QED BY <3>2, <4>1
    <3>3. QED BY <2>2, <3>1, <3>2 DEF Pushes, RemuxPushQuit, VideoPace, VideoPushQuit,
                 UserCloses, EventTypes
  <2>3. CASE Pops
    <3>1. PICK type : WaitEvent(type)
      BY <2>3 DEF Pops, HandleQuit, HandleThreadQuit, HandleLoad, HandleNewFrame
    <3>2. ASSUME NEW i \in Load' PROVE Load # {}
      <4>1. events' \in Seq(EventTypes)
        BY <1>1, MovedEvents
      <4>2. i \in Nat
        BY <4>1, LenProperties DEF Pending
      <4>3. QED BY <1>1, <3>1, <3>2, <4>2, PopPending
    <3>3. QED BY <3>2
  <2>4. QED BY <2>1, <2>2, <2>3 DEF Moves
<1>3. video_decoder => video_decoder'
  <2>1. CASE Quiet
    BY <2>1 DEF Quiet, RemuxQuiet, RemuxOpenFails, RemuxOpen, RemuxPublishAudio,
         RemuxStartClock, RemuxPoll, RemuxRead, RemuxEof, RemuxEnqueueVideo,
         RemuxEnqueueAudio, RemuxAt, Running, VideoQuiet, VideoPoll, VideoDequeue,
         VideoTimeout, VideoCheckQuit, VideoSendPacket, VideoReceiveFrame,
         VideoReceiveEnds, VideoAt, RestQuiet, AudioStep, AudioCallback, AudioDequeue,
         AudioDecode, DestroyWindow, CloseAudio, AudioAt, vars, mainVars, streamVars,
         queueVars, boundVars
  <2>2. CASE Pushes \/ Pops
    BY <2>2 DEF Pushes, RemuxPushLoad, RemuxPushQuit, VideoPace, VideoPushQuit, UserCloses,
       Pops, HandleQuit, HandleThreadQuit, HandleLoad, HandleNewFrame, WaitEvent,
     mainVars, streamVars, queueVars, boundVars
  <2>3. QED BY <2>1, <2>2 DEF Moves
<1>4. (Load # {} => video_decoder)'
  BY <1>1, <1>2, <1>3 DEF DecodersPublished, Published, RemuxAt, streamVars
<1>5. CASE RemuxQuiet
  BY <1>1, <1>4, <1>5 DEF TypeOK, Published, DecodersPublished, RemuxQuiet,
       RemuxOpenFails, RemuxOpen, RemuxPublishAudio, RemuxStartClock, RemuxPoll,
       RemuxRead, RemuxEof, RemuxEnqueueVideo, RemuxEnqueueAudio, RemuxAt, Running,
       mainVars, streamVars, queueVars, boundVars
<1>6. CASE VideoQuiet
  BY <1>1, <1>4, <1>6 DEF TypeOK, Published, DecodersPublished, VideoQuiet, VideoPoll,
       VideoDequeue, VideoTimeout, VideoCheckQuit, VideoSendPacket, VideoReceiveFrame,
       VideoReceiveEnds, VideoAt, Running, mainVars, streamVars, queueVars, boundVars
<1>7. CASE RestQuiet
  BY <1>1, <1>4, <1>7 DEF DecodersPublished, RestQuiet, AudioStep, AudioCallback,
       AudioDequeue, AudioDecode, DestroyWindow, CloseAudio, AudioAt, Running, vars,
       mainVars, streamVars, queueVars, boundVars
<1>8. CASE Pushes
  BY <1>1, <1>4, <1>8 DEF DecodersPublished, Pushes, RemuxPushLoad, RemuxPushQuit,
       VideoPace, VideoPushQuit, UserCloses, RemuxAt, VideoAt, Running, mainVars,
       streamVars, queueVars, boundVars
<1>9. CASE Pops
  BY <1>1, <1>4, <1>9 DEF DecodersPublished, Pops, HandleQuit, HandleThreadQuit,
       HandleLoad, HandleNewFrame, WaitEvent, mainVars, streamVars, queueVars, boundVars
<1>10. QED BY <1>5, <1>6, <1>7, <1>8, <1>9 DEF Moves, Quiet

\* The places before and after an event is pushed.
LEMMA PushPlaces ==
  ASSUME TypeOK, NEW type \in EventTypes, SDL_PushEvent(type), NEW t
  PROVE  /\ t # type => Pending(t)' = Pending(t)
         /\ t = type => Pending(t)' = Pending(t) \cup {Len(events) + 1}
         /\ \A i \in Pending(t) : i \in Nat /\ i < Len(events) + 1
         /\ Len(events) + 1 \in Nat
<1>1. Pending(t)' = Pending(t) \cup (IF t = type THEN {Len(events) + 1} ELSE {})
  BY PushPending
<1>2. Pending(t) \subseteq 1..Len(events) /\ Len(events) \in Nat
  BY PendingIsFinite
<1>3. QED BY <1>1, <1>2

\* The places before and after the oldest event is taken.
LEMMA PopPlaces ==
  ASSUME TypeOK, NEW type, WaitEvent(type), NEW t
  PROVE  /\ \A i \in Pending(t)' : i \in Nat /\ i > 0 /\ i + 1 \in Pending(t)
         /\ \A i \in Pending(t) : i \in Nat /\ i > 0 /\ (i > 1 => i - 1 \in Pending(t)')
         /\ t # type => 1 \notin Pending(t)
         /\ 1 \in Pending(type)
<1>1. events' \in Seq(EventTypes)
  BY PopPending
<1>2. Pending(t)' \subseteq Nat \ {0}
  BY <1>1, LenProperties DEF Pending
<1>3. Pending(t) \subseteq 1..Len(events) /\ Len(events) \in Nat
  BY PendingIsFinite
<1>4. /\ 1 \in Pending(type) /\ (t # type => 1 \notin Pending(t))
      /\ \A i \in Nat : i \in Pending(t)' <=> i # 0 /\ i + 1 \in Pending(t)
  BY PopPending
<1>5. ASSUME NEW i \in Pending(t), i > 1
      PROVE  i - 1 \in Pending(t)'
  <2>1. i - 1 \in Nat /\ i - 1 # 0 /\ (i - 1) + 1 = i
    BY <1>3, <1>5
  <2>2. QED BY <1>4, <1>5, <2>1
<1>6. QED BY <1>2, <1>3, <1>4, <1>5

\* Which event a pushing step pushes, and where its thread stands.
LEMMA PushedBy ==
  ASSUME Pushes
  PROVE  \E type \in EventTypes :
           /\ SDL_PushEvent(type)
           /\ type = "VIDEO_LOAD_EVENT" => remux = "pushLoad" /\ remux' = "startClock"
           /\ type = "VIDEO_NEW_FRAME" => video = "pace" /\ video' = "receive"
           /\ type # "VIDEO_NEW_FRAME" =>
                video = video' \/ (video = "pushQuit" /\ video' = "done")
           /\ video # video' /\ video' = "done" => type = "THREAD_QUIT"
           /\ remux \notin Early => remux' \notin Early
           /\ remux' \in Early \ {"startClock"} => remux' = remux
           /\ UNCHANGED <<texture, frame_queue>>
<1>1. CASE RemuxPushLoad
  BY <1>1 DEF RemuxPushLoad, RemuxAt, EventTypes, Early, mainVars, streamVars, queueVars,
       boundVars
<1>2. CASE RemuxPushQuit
  BY <1>2 DEF RemuxPushQuit, RemuxAt, EventTypes, Early, mainVars, streamVars, queueVars,
       boundVars
<1>3. CASE VideoPace
  BY <1>3 DEF VideoPace, VideoAt, EventTypes, Early, mainVars, streamVars, queueVars,
       boundVars
<1>4. CASE VideoPushQuit
  BY <1>4 DEF VideoPushQuit, VideoAt, EventTypes, Early, mainVars, streamVars, queueVars,
       boundVars
<1>5. CASE UserCloses
  BY <1>5 DEF UserCloses, EventTypes, Early, mainVars, streamVars, queueVars, boundVars
<1>6. QED BY <1>1, <1>2, <1>3, <1>4, <1>5 DEF Pushes

\* Only the handler of the event taken changes the texture or the frames.
LEMMA PoppedBy ==
  ASSUME Pops
  PROVE  \E type \in EventTypes :
           /\ WaitEvent(type) /\ UNCHANGED <<remux, video>>
           /\ type # "VIDEO_LOAD_EVENT" => texture' = texture
           /\ IF type = "VIDEO_NEW_FRAME"
                THEN frame_queue' = IF texture THEN 0 ELSE frame_queue
                ELSE frame_queue' = frame_queue
  BY DEF Pops, HandleQuit, HandleThreadQuit, HandleLoad, HandleNewFrame, EventTypes,
     mainVars, streamVars, queueVars, boundVars

\* What a quiet step leaves of the stages the invariant speaks of.
LEMMA QuietMoves ==
  ASSUME Quiet
  PROVE  /\ remux \notin Early => remux' \notin Early
         /\ remux' \in Early => remux \in Early
         /\ remux' \in Early \ {"startClock"} => remux \in Early \ {"startClock"}
         /\ video' = "done" <=> video = "done"
         /\ texture' = texture
         /\ video = "pace" => video' = "pace"
         /\ frame_queue' = frame_queue \/ video' = "pace"
<1>1. CASE RemuxQuiet
  BY <1>1 DEF Early, RemuxQuiet, RemuxOpenFails, RemuxOpen, RemuxPublishAudio,
       RemuxStartClock, RemuxPoll, RemuxRead, RemuxEof, RemuxEnqueueVideo,
       RemuxEnqueueAudio, RemuxAt, mainVars, streamVars, queueVars, boundVars
<1>2. CASE VideoQuiet
  BY <1>2 DEF Early, VideoQuiet, VideoPoll, VideoDequeue, VideoTimeout, VideoCheckQuit,
       VideoSendPacket, VideoReceiveFrame, VideoReceiveEnds, VideoAt, mainVars,
       streamVars, queueVars, boundVars
<1>3. CASE RestQuiet
  BY <1>3 DEF Early, RestQuiet, AudioStep, AudioCallback, AudioDequeue, AudioDecode,
       DestroyWindow, CloseAudio, AudioAt, vars, mainVars, streamVars, queueVars, boundVars
<1>4. QED BY <1>1, <1>2, <1>3 DEF Quiet

\* The load event stays ahead of the frames' events.
LEMMA LoadStep ==
  ASSUME IInv, Moves
  PROVE  LoadComesFirst'
<1> DEFINE Load == Pending("VIDEO_LOAD_EVENT")
           New == Pending("VIDEO_NEW_FRAME")
<1>1. TypeOK /\ Published /\ LoadComesFirst
  BY DEF IInv
<1>2. CASE Quiet
  <2>1. Load' = Load /\ New' = New
    BY <1>2, QuietPending
  <2>2. QED BY <1>1, <1>2, <2>1, QuietMoves DEF LoadComesFirst
<1>3. CASE Pushes
  <2>1. PICK type \in EventTypes :
          /\ SDL_PushEvent(type)
          /\ type = "VIDEO_LOAD_EVENT" => remux = "pushLoad" /\ remux' = "startClock"
          /\ type = "VIDEO_NEW_FRAME" => video = "pace"
          /\ remux \notin Early => remux' \notin Early
          /\ remux' \in Early \ {"startClock"} => remux' = remux
    BY <1>3, PushedBy
  <2>2. /\ "VIDEO_LOAD_EVENT" # type => Load' = Load
        /\ "VIDEO_LOAD_EVENT" = type => Load' = Load \cup {Len(events) + 1}
        /\ \A i \in Load : i \in Nat /\ i < Len(events) + 1
    BY <1>1, <2>1, PushPlaces
  <2>3. /\ "VIDEO_NEW_FRAME" # type => New' = New
        /\ "VIDEO_NEW_FRAME" = type => New' = New \cup {Len(events) + 1}
    BY <1>1, <2>1, PushPlaces
  <2>4. CASE type = "VIDEO_LOAD_EVENT"
    <3>1. Load = {} /\ New = {}
      BY <1>1, <2>1, <2>4 DEF LoadComesFirst, Early
    <3>2. Load' = {Len(events) + 1} /\ New' = {}
      BY <2>2, <2>3, <2>4, <3>1
    <3>3. QED BY <2>1, <2>4, <3>2 DEF LoadComesFirst, Early
  <2>5. CASE type = "VIDEO_NEW_FRAME"
    <3>1. remux \notin Early /\ remux' \notin Early
      BY <1>1, <2>1, <2>5 DEF Published
    <3>2. Load' = Load /\ New' = New \cup {Len(events) + 1}
      BY <2>2, <2>3, <2>5
    <3>3. QED BY <1>1, <2>2, <3>1, <3>2 DEF LoadComesFirst
  <2>6. CASE type \notin {"VIDEO_LOAD_EVENT", "VIDEO_NEW_FRAME"}
    <3>1. Load' = Load /\ New' = New
      BY <2>2, <2>3, <2>6
    <3>2. remux' \in Early => remux \in Early
      BY <2>1
    <3>3. QED BY <1>1, <2>1, <3>1, <3>2 DEF LoadComesFirst
  <2>7. QED BY <2>4, <2>5, <2>6
<1>4. CASE Pops
  <2>1. PICK type \in EventTypes : WaitEvent(type) /\ UNCHANGED remux
    BY <1>4, PoppedBy
  <2>2. \A i \in Load' : i \in Nat /\ i > 0 /\ i + 1 \in Load
    BY <1>1, <2>1, PopPlaces
  <2>3. \A i \in New' : i \in Nat /\ i > 0 /\ i + 1 \in New
    BY <1>1, <2>1, PopPlaces
  <2>4. \A i, j \in Load' : i = j
    <3> TAKE i, j \in Load'
    <3>1. i \in Nat /\ j \in Nat /\ i + 1 = j + 1
      BY <1>1, <2>2 DEF LoadComesFirst
    <3>2. QED BY <3>1
  <2>5. \A i \in Load', j \in New' : i < j
    <3> TAKE i \in Load', j \in New'
    <3>1. i \in Nat /\ j \in Nat /\ i + 1 < j + 1
      BY <1>1, <2>2, <2>3 DEF LoadComesFirst
    <3>2. QED BY <3>1
  <2>6. QED BY <1>1, <2>1, <2>2, <2>3, <2>4, <2>5 DEF LoadComesFirst
<1>5. QED BY <1>2, <1>3, <1>4 DEF Moves

\* A frame that waits stays announced: its event is taken with the texture there.
LEMMA FramesStep ==
  ASSUME IInv, Moves
  PROVE  FramesKnown'
<1> DEFINE Load == Pending("VIDEO_LOAD_EVENT")
           New == Pending("VIDEO_NEW_FRAME")
<1>1. TypeOK /\ Published /\ LoadComesFirst /\ FramesKnown
  BY DEF IInv
<1>2. CASE Quiet
  <2>1. Load' = Load /\ New' = New
    BY <1>2, QuietPending
  <2>2. QED BY <1>1, <1>2, <2>1, QuietMoves DEF FramesKnown
<1>3. CASE Pushes
  <2>1. PICK type \in EventTypes :
          /\ SDL_PushEvent(type)
          /\ type = "VIDEO_LOAD_EVENT" => remux = "pushLoad"
          /\ type # "VIDEO_NEW_FRAME" => video = video' \/ video = "pushQuit"
          /\ UNCHANGED <<texture, frame_queue>>
    BY <1>3, PushedBy
  <2>2. /\ "VIDEO_LOAD_EVENT" # type => Load' = Load
    BY <1>1, <2>1, PushPlaces
  <2>3. /\ "VIDEO_NEW_FRAME" # type => New' = New
        /\ "VIDEO_NEW_FRAME" = type => New' = New \cup {Len(events) + 1}
    BY <1>1, <2>1, PushPlaces
  <2>4. CASE type = "VIDEO_LOAD_EVENT"
    <3>1. frame_queue' = 0
      BY <1>1, <2>1, <2>4 DEF Published, Early
    <3>2. QED BY <3>1 DEF FramesKnown
  <2>5. CASE type = "VIDEO_NEW_FRAME"
    BY <2>3, <2>5 DEF FramesKnown
  <2>6. CASE type \notin {"VIDEO_LOAD_EVENT", "VIDEO_NEW_FRAME"}
    BY <1>1, <2>1, <2>2, <2>3, <2>6 DEF FramesKnown
  <2>7. QED BY <2>4, <2>5, <2>6
<1>4. CASE Pops
  <2>1. PICK type \in EventTypes :
          /\ WaitEvent(type) /\ UNCHANGED video
          /\ type # "VIDEO_LOAD_EVENT" => texture' = texture
          /\ IF type = "VIDEO_NEW_FRAME"
               THEN frame_queue' = IF texture THEN 0 ELSE frame_queue
               ELSE frame_queue' = frame_queue
    BY <1>4, PoppedBy
  <2>2. /\ \A i \in Load' : i \in Nat /\ i > 0 /\ i + 1 \in Load
        /\ 1 \in Pending(type)
    BY <1>1, <2>1, PopPlaces
  <2>3. /\ \A i \in New : i \in Nat /\ i > 0 /\ (i > 1 => i - 1 \in New')
        /\ "VIDEO_NEW_FRAME" # type => 1 \notin New
    BY <1>1, <2>1, PopPlaces
  <2>4. CASE type = "VIDEO_NEW_FRAME"
    <3>1. Load' = {}
      <4>1. \A i \in Load : i < 1
        BY <1>1, <2>2, <2>4 DEF LoadComesFirst
      <4>2. SUFFICES ASSUME NEW i \in Load' PROVE FALSE
        OBVIOUS
      <4>3. i \in Nat /\ i > 0 /\ i + 1 < 1
        BY <2>2, <4>1
      <4>4. QED BY <4>3
    <3>2. CASE texture
      BY <2>1, <2>4, <3>2 DEF FramesKnown
    <3>3. CASE ~texture
      BY <2>1, <2>4, <3>1, <3>3 DEF FramesKnown
    <3>4. QED BY <3>2, <3>3
  <2>5. CASE type # "VIDEO_NEW_FRAME"
    <3>1. New # {} => New' # {}
      <4>1. ASSUME NEW i \in New PROVE i - 1 \in New'
        <5>1. i \in Nat /\ i > 1
          BY <2>3, <2>5
        <5>2. QED BY <2>3, <5>1
      <4>2. QED BY <4>1
    <3>2. texture' \/ Load' # {} => texture \/ Load # {}
      BY <2>1, <2>2
    <3>3. QED BY <1>1, <2>1, <2>5, <3>1, <3>2 DEF FramesKnown
  <2>6. QED BY <2>4, <2>5
<1>5. QED BY <1>2, <1>3, <1>4 DEF Moves

\* The decoder thread's THREAD_QUIT stays behind its frames.
LEMMA QuitStep ==
  ASSUME IInv, Moves
  PROVE  QuitComesLast'
<1> DEFINE New == Pending("VIDEO_NEW_FRAME")
           Ended == Pending("THREAD_QUIT")
<1>1. TypeOK /\ QuitComesLast
  BY DEF IInv
<1>2. CASE Quiet
  <2>1. Ended' = Ended /\ New' = New
    BY <1>2, QuietPending
  <2>2. QED BY <1>1, <1>2, <2>1, QuietMoves DEF QuitComesLast
<1>3. CASE Pushes
  <2>1. PICK type \in EventTypes :
          /\ SDL_PushEvent(type)
          /\ type = "VIDEO_NEW_FRAME" => video' = "receive"
          /\ video # video' /\ video' = "done" => type = "THREAD_QUIT"
    BY <1>3, PushedBy
  <2>2. /\ "VIDEO_NEW_FRAME" # type => New' = New
        /\ \A i \in New : i < Len(events) + 1
    BY <1>1, <2>1, PushPlaces
  <2>3. /\ "THREAD_QUIT" # type => Ended' = Ended
        /\ "THREAD_QUIT" = type => Ended' = Ended \cup {Len(events) + 1}
    BY <1>1, <2>1, PushPlaces
  <2>4. CASE type = "VIDEO_NEW_FRAME"
    BY <2>1, <2>4 DEF QuitComesLast
  <2>5. CASE type = "THREAD_QUIT"
    BY <2>2, <2>3, <2>5 DEF QuitComesLast
  <2>6. CASE type \notin {"VIDEO_NEW_FRAME", "THREAD_QUIT"}
    BY <1>1, <2>1, <2>2, <2>3, <2>6 DEF QuitComesLast
  <2>7. QED BY <2>4, <2>5, <2>6
<1>4. CASE Pops
  <2>1. PICK type \in EventTypes : WaitEvent(type) /\ UNCHANGED video
    BY <1>4, PoppedBy
  <2>2. \A j \in New' : j \in Nat /\ j > 0 /\ j + 1 \in New
    BY <1>1, <2>1, PopPlaces
  <2>3. \A k \in Ended : k \in Nat /\ k > 0 /\ (k > 1 => k - 1 \in Ended')
    BY <1>1, <2>1, PopPlaces
  <2>4. SUFFICES ASSUME video = "done", NEW j \in New'
                 PROVE  \E k \in Ended' : j < k
    BY <2>1 DEF QuitComesLast
  <2>5. PICK k \in Ended : j + 1 < k
    BY <1>1, <2>2, <2>4 DEF QuitComesLast
  <2>6. k - 1 \in Ended' /\ j < k - 1
    BY <2>2, <2>3, <2>5
  <2>7. QED BY <2>6
<1>5. QED BY <1>2, <1>3, <1>4 DEF Moves

\* How many threads have ended.
EndedThreads == (IF remux = "done" THEN 1 ELSE 0) + (IF video = "done" THEN 1 ELSE 0)

\* ThreadsDone counts as EndedThreads, before and after a step.
LEMMA ThreadsDoneCount ==
  Cardinality(ThreadsDone) = EndedThreads /\ Cardinality(ThreadsDone') = EndedThreads'
<1>1. Cardinality(ThreadsDone) = EndedThreads
  BY CountDone DEF ThreadsDone, EndedThreads
<1>2. Cardinality(ThreadsDone') = EndedThreads'
  BY CountDone DEF ThreadsDone, EndedThreads
<1>3. QED BY <1>1, <1>2

\* A THREAD_QUIT is pushed by exactly the step that ends its thread.
LEMMA CountedPush ==
  ASSUME Pushes
  PROVE  \E type \in EventTypes :
           /\ SDL_PushEvent(type) /\ UNCHANGED <<wg, main>>
           /\ EndedThreads' = EndedThreads + (IF type = "THREAD_QUIT" THEN 1 ELSE 0)
<1>1. CASE RemuxPushLoad
  BY <1>1 DEF RemuxPushLoad, RemuxAt, EventTypes, EndedThreads, mainVars, streamVars,
       queueVars, boundVars
<1>2. CASE RemuxPushQuit
  BY <1>2 DEF RemuxPushQuit, RemuxAt, EventTypes, EndedThreads, mainVars, streamVars,
       queueVars, boundVars
<1>3. CASE VideoPace
  BY <1>3 DEF VideoPace, VideoAt, EventTypes, EndedThreads, mainVars, streamVars,
       queueVars, boundVars
<1>4. CASE VideoPushQuit
  BY <1>4 DEF VideoPushQuit, VideoAt, EventTypes, EndedThreads, mainVars, streamVars,
       queueVars, boundVars
<1>5. CASE UserCloses
  BY <1>5 DEF UserCloses, EventTypes, EndedThreads, mainVars, streamVars, queueVars,
       boundVars
<1>6. QED BY <1>1, <1>2, <1>3, <1>4, <1>5 DEF Pushes

\* And counted by the step that takes it.
LEMMA CountedPop ==
  ASSUME Pops
  PROVE  \E type \in EventTypes :
           /\ WaitEvent(type) /\ main # "aborted"
           /\ wg' = (IF type = "THREAD_QUIT" THEN wg + 1 ELSE wg)
           /\ EndedThreads' = EndedThreads
  BY DEF Pops, HandleQuit, HandleThreadQuit, HandleLoad, HandleNewFrame, WaitEvent,
     EventTypes, EndedThreads, mainVars, streamVars, queueVars, boundVars

\* A quiet step ends no thread, unless it aborts the program.
LEMMA CountedQuiet ==
  ASSUME Quiet
  PROVE  main' # "aborted" => main # "aborted" /\ wg' = wg /\ EndedThreads' = EndedThreads
<1>1. CASE RemuxQuiet
  BY <1>1 DEF EndedThreads, RemuxQuiet, RemuxOpenFails, RemuxOpen, RemuxPublishAudio,
       RemuxStartClock, RemuxPoll, RemuxRead, RemuxEof, RemuxEnqueueVideo,
       RemuxEnqueueAudio, RemuxAt, Running, mainVars, streamVars, queueVars, boundVars
<1>2. CASE VideoQuiet
  BY <1>2 DEF EndedThreads, VideoQuiet, VideoPoll, VideoDequeue, VideoTimeout,
       VideoCheckQuit, VideoSendPacket, VideoReceiveFrame, VideoReceiveEnds, VideoAt,
       mainVars, streamVars, queueVars, boundVars
<1>3. CASE RestQuiet
  BY <1>3 DEF EndedThreads, RestQuiet, AudioStep, AudioCallback, AudioDequeue, AudioDecode,
       DestroyWindow, CloseAudio, AudioAt, vars, mainVars, streamVars, queueVars, boundVars
<1>4. QED BY <1>1, <1>2, <1>3 DEF Quiet

\* Every ended thread stays counted once.
LEMMA CountStep ==
  ASSUME IInv, Moves
  PROVE  ThreadQuitCounted'
<1> DEFINE Queued == Pending("THREAD_QUIT")
<1>1. TypeOK /\ (main # "aborted" => wg + Cardinality(Queued) = EndedThreads)
  BY ThreadsDoneCount DEF IInv, ThreadQuitCounted
<1>2. IsFiniteSet(Queued) /\ Cardinality(Queued) \in Nat
      /\ wg \in Nat /\ EndedThreads \in Nat
  BY <1>1, PendingIsFinite DEF TypeOK, EndedThreads
<1>3. SUFFICES main' # "aborted" => wg' + Cardinality(Queued') = EndedThreads'
  BY ThreadsDoneCount DEF ThreadQuitCounted
<1>4. CASE Quiet
  <2>1. Queued' = Queued
    BY <1>4, QuietPending
  <2>2. QED BY <1>1, <1>4, <2>1, CountedQuiet
<1>5. CASE Pushes
  <2>1. PICK type \in EventTypes :
          /\ SDL_PushEvent(type) /\ UNCHANGED <<wg, main>>
          /\ EndedThreads' = EndedThreads + (IF type = "THREAD_QUIT" THEN 1 ELSE 0)
    BY <1>5, CountedPush
  <2>2. /\ "THREAD_QUIT" # type => Queued' = Queued
        /\ "THREAD_QUIT" = type => Queued' = Queued \cup {Len(events) + 1}
        /\ \A i \in Queued : i \in Nat /\ i < Len(events) + 1
        /\ Len(events) + 1 \in Nat
    BY <1>1, <2>1, PushPlaces
  <2>3. CASE type = "THREAD_QUIT"
    <3>1. Len(events) + 1 \notin Queued
      BY <2>2
    <3>2. Cardinality(Queued') = Cardinality(Queued) + 1
      BY <1>2, <2>2, <2>3, <3>1, FS_AddElement
    <3>3. QED BY <1>1, <1>2, <2>1, <2>3, <3>2
  <2>4. CASE type # "THREAD_QUIT"
    <3>1. Queued' = Queued /\ wg' = wg /\ main' = main
      BY <2>1, <2>2, <2>4
    <3>2. EndedThreads' = EndedThreads
      BY <1>2, <2>1, <2>4
    <3>3. Cardinality(Queued') = Cardinality(Queued)
      BY <3>1
    <3>4. QED BY <1>1, <3>1, <3>2, <3>3
  <2>5. QED BY <2>3, <2>4
<1>6. CASE Pops
  <2>1. PICK type \in EventTypes :
          /\ WaitEvent(type) /\ main # "aborted"
          /\ wg' = (IF type = "THREAD_QUIT" THEN wg + 1 ELSE wg)
          /\ EndedThreads' = EndedThreads
    BY <1>6, CountedPop
  <2>2. Cardinality(Queued') = Cardinality(Queued) - (IF "THREAD_QUIT" = type THEN 1 ELSE 0)
    BY <1>1, <2>1, PopCount
  <2>3. QED BY <1>1, <1>2, <2>1, <2>2
<1>7. QED BY <1>4, <1>5, <1>6 DEF Moves

-------------------------------------------------------------------------------
(* The invariant, and what follows from it                                     *)

\* The player starts with no event, no packet and no frame.
LEMMA InitIInv == Init => IInv
<1> SUFFICES ASSUME Init PROVE IInv
  OBVIOUS
<1>1. \A t : Pending(t) = {}
  BY DEF Init, Pending
<1>2. TypeOK
  <2>1. events \in Seq(EventTypes)
    BY EmptySeq DEF Init
  <2>2. StagesOK /\ FlagsOK
    BY DEF Init, StagesOK, FlagsOK
  <2>3. CountersOK /\ wg \in 0..2
    BY PlayerAssumption DEF Init, CountersOK
  <2>4. QED BY <2>1, <2>2, <2>3 DEF TypeOK, StagesOK, FlagsOK, CountersOK
<1>3. ThreadQuitCounted
  BY <1>1, FS_EmptySet, ThreadsDoneCount DEF Init, ThreadQuitCounted, EndedThreads
<1>4. Published /\ DecodersPublished /\ LoadComesFirst /\ FramesKnown /\ QuitComesLast
  BY <1>1 DEF Init, Published, Early, DecodersPublished, LoadComesFirst, FramesKnown,
     QuitComesLast
<1>5. LoopCounts
  BY PlayerAssumption DEF Init, LoopCounts
<1>6. QED BY <1>2, <1>3, <1>4, <1>5 DEF IInv

\* Every step keeps the invariant.
LEMMA Inductive == IInv /\ [Next]_vars => IInv'
<1> SUFFICES ASSUME IInv, Moves PROVE IInv'
  BY Kinds
<1>1. TypeOK' /\ Published' /\ DecodersPublished' /\ LoadComesFirst'
  BY TypeStep, PublishedStep, DecodersStep, LoadStep
<1>2. FramesKnown' /\ QuitComesLast' /\ ThreadQuitCounted' /\ LoopCounts'
  BY FramesStep, QuitStep, CountStep, LoopStep
<1>3. QED BY <1>1, <1>2 DEF IInv

\* The invariant holds in every behaviour.
LEMMA Invariance == Spec => []IInv
  BY InitIInv, Inductive, PTL DEF Spec

\* Every variable keeps its type: no queue grows past its capacity and wg not
\* past the number of threads.
THEOREM TypeCorrect == Spec => []TypeOK
<1>1. IInv => TypeOK
  BY DEF IInv
<1>2. QED BY <1>1, Invariance, PTL

\* No thread meets a decoder or a clock that is not there, whatever the other
\* threads have done so far.
THEOREM DecodersInPlace == Spec => []DecodersPublished
<1>1. IInv => DecodersPublished
  BY DEF IInv
<1>2. QED BY <1>1, Invariance, PTL

\* Every thread that has ended is counted in wg or queued to be, once.
THEOREM ThreadsCounted == Spec => []ThreadQuitCounted
<1>1. IInv => ThreadQuitCounted
  BY DEF IInv
<1>2. QED BY <1>1, Invariance, PTL

\* A frame that waits for the main thread is about to be announced, or is: an
\* event taken early has drawn every frame that was there.
THEOREM NoFrameForgotten == Spec => []FramesAnnounced
<1>1. IInv => FramesAnnounced
  BY DEF IInv, FramesKnown, FramesAnnounced
<1>2. QED BY <1>1, Invariance, PTL

\* With WaitFor = 2 the main loop ends only when both threads have ended, and
\* then no THREAD_QUIT is left.
LEMMA LoopOutlivesThreads ==
  ASSUME WaitFor = 2, IInv, main \in {"ending", "closeAudio", "exited"}
  PROVE  remux = "done" /\ video = "done" /\ Pending("THREAD_QUIT") = {}
<1>1. wg = 2 /\ wg + Cardinality(Pending("THREAD_QUIT")) = EndedThreads
  BY ThreadsDoneCount DEF IInv, LoopCounts, ThreadQuitCounted
<1>2. /\ IsFiniteSet(Pending("THREAD_QUIT"))
      /\ Cardinality(Pending("THREAD_QUIT")) \in Nat
  BY PendingIsFinite DEF IInv
<1>3. EndedThreads = 2 /\ Cardinality(Pending("THREAD_QUIT")) = 0
  BY <1>1, <1>2 DEF EndedThreads
<1>4. Pending("THREAD_QUIT") = {}
  BY <1>2, <1>3, FS_EmptySet
<1>5. QED BY <1>3, <1>4 DEF EndedThreads

\* main waits for two THREAD_QUIT events and closes the audio device before its
\* queues go: no thread is left to use them.
THEOREM QueuesSafe ==
  ASSUME WaitFor = 2
  PROVE  Spec => []QueuesOutliveThreads
<1>1. IInv => QueuesOutliveThreads
  BY LoopOutlivesThreads DEF QueuesOutliveThreads, IInv, LoopCounts
<1>2. QED BY <1>1, Invariance, PTL

\* The last frame is drawn before the loop ends: its event was pushed before the
\* THREAD_QUIT that ends the loop.
THEOREM LastFrameDrawn ==
  ASSUME WaitFor = 2
  PROVE  Spec => []NoFrameLeftBehind
<1>1. ASSUME IInv, main \in {"ending", "closeAudio", "exited"}, texture
      PROVE  frame_queue = 0
  <2>1. video = "done" /\ Pending("THREAD_QUIT") = {}
    BY <1>1, LoopOutlivesThreads
  <2>2. Pending("VIDEO_NEW_FRAME") = {}
    BY <1>1, <2>1 DEF IInv, QuitComesLast
  <2>3. ~(frame_queue > 0)
    BY <1>1, <2>1, <2>2 DEF IInv, FramesKnown
  <2>4. QED BY <1>1, <2>3 DEF IInv, TypeOK
<1>2. IInv => NoFrameLeftBehind
  BY <1>1 DEF NoFrameLeftBehind
<1>3. QED BY <1>2, Invariance, PTL

===============================================================================
