----------------------------- MODULE ThreadPlayer -----------------------------
(***************************************************************************)
(* code/sdl/thread_player.cpp: a demuxer thread, a video decoder thread,   *)
(* SDL's audio thread and the main thread that owns the window, joined by  *)
(* two bounded packet queues, a queue of decoded frames and SDL's event    *)
(* queue. PacketQueue shows that a packet queue is a bounded first-in      *)
(* first-out buffer, so that here a queue is the number of its packets.    *)
(* With WithAudio = FALSE and WaitFor = 1 it is the variant of             *)
(* code/sdl/thread_player_video_only.cpp.                                  *)
(***************************************************************************)
EXTENDS Naturals, Sequences, FiniteSets

CONSTANTS
  QueueMaxSize,   \* capacity of each packet queue (128)
  WaitFor,        \* THREAD_QUIT events after which the main loop ends
  WithAudio,      \* whether the player opens the audio device
  MaxReads,       \* bound: packets in the file
  MaxFrames,      \* bound: frames decoded from one packet
  MaxCloses       \* bound: times the user closes the window

ASSUME PlayerAssumption ==
  /\ QueueMaxSize \in Nat \ {0}
  /\ WaitFor \in {1, 2} /\ WithAudio \in BOOLEAN
  /\ MaxReads \in Nat /\ MaxFrames \in Nat /\ MaxCloses \in Nat

VARIABLES
  quit, wg,                       \* locals of main, quit shared by address
  events,                         \* SDL's event queue
  texture,                        \* main has a texture
  main, remux, video, audio,      \* where each thread stands
  video_decoder, audio_decoder,   \* VideoStream: the decoder is published
  start_time_ms,                  \* VideoStream: the clock has been started
  video_queue, audio_queue,       \* packets in each Queue
  frame_queue,                    \* frames in the FrameQueue
  reads, frames, closes           \* what the bounds count

mainVars == <<quit, wg, texture, main>>
streamVars == <<video_decoder, audio_decoder, start_time_ms>>
queueVars == <<video_queue, audio_queue, frame_queue>>
boundVars == <<reads, frames, closes>>
vars == <<mainVars, events, remux, video, audio, streamVars, queueVars, boundVars>>

EventTypes == {"SDL_QUIT", "THREAD_QUIT", "VIDEO_LOAD_EVENT", "VIDEO_NEW_FRAME"}

\* What main does before its loop: the audio device runs before there is a
\* decoder or a queue, then the two threads start.
Init ==
  /\ quit = FALSE /\ wg = 0 /\ texture = FALSE /\ main = "loop"
  /\ events = <<>>
  /\ remux = "open" /\ video = "poll" /\ audio = "idle"
  /\ video_decoder = FALSE /\ audio_decoder = FALSE /\ start_time_ms = FALSE
  /\ video_queue = 0 /\ audio_queue = 0 /\ frame_queue = 0
  /\ reads = 0 /\ frames = 0 /\ closes = 0

\* exit(-1) and the return of main end every thread.
Running == main \notin {"exited", "aborted"}

SDL_PushEvent(type) == events' = Append(events, type)

------------------------------------------------------------------------------
(* remux_thread *)

RemuxAt(here, next) == Running /\ remux = here /\ remux' = next

\* The file, a stream or a decoder is missing: exit(-1).
RemuxOpenFails ==
  /\ RemuxAt("open", "done")
  /\ main' = "aborted"
  /\ UNCHANGED <<quit, wg, texture, events, video, audio, streamVars, queueVars, boundVars>>

RemuxOpen ==
  /\ RemuxAt("open", "publishAudio")
  /\ video_decoder' = TRUE
  /\ UNCHANGED <<mainVars, events, video, audio, audio_decoder, start_time_ms,
                 queueVars, boundVars>>

RemuxPublishAudio ==
  /\ RemuxAt("publishAudio", "pushLoad")
  /\ audio_decoder' = WithAudio
  /\ UNCHANGED <<mainVars, events, video, audio, video_decoder, start_time_ms,
                 queueVars, boundVars>>

RemuxPushLoad ==
  /\ RemuxAt("pushLoad", "startClock")
  /\ SDL_PushEvent("VIDEO_LOAD_EVENT")
  /\ UNCHANGED <<mainVars, video, audio, streamVars, queueVars, boundVars>>

RemuxStartClock ==
  /\ RemuxAt("startClock", "poll")
  /\ start_time_ms' = TRUE
  /\ UNCHANGED <<mainVars, events, video, audio, video_decoder, audio_decoder,
                 queueVars, boundVars>>

\* The two conjuncts of the loop condition, in their order.
RemuxPoll ==
  /\ RemuxAt("poll", IF quit THEN "pushQuit" ELSE "read")
  /\ UNCHANGED <<mainVars, events, video, audio, streamVars, queueVars, boundVars>>

\* av_read_frame gives a packet of the video, the audio or another stream.
RemuxRead ==
  /\ reads < MaxReads
  /\ \/ RemuxAt("read", "enqueueVideo")
     \/ WithAudio /\ RemuxAt("read", "enqueueAudio")
     \/ RemuxAt("read", "poll")
  /\ reads' = reads + 1
  /\ UNCHANGED <<mainVars, events, video, audio, streamVars, queueVars, frames, closes>>

\* End of file or a read error.
RemuxEof ==
  /\ RemuxAt("read", "pushQuit")
  /\ UNCHANGED <<mainVars, events, video, audio, streamVars, queueVars, boundVars>>

\* Queue::enqueue blocks while the queue is full.
RemuxEnqueueVideo ==
  /\ RemuxAt("enqueueVideo", "poll")
  /\ video_queue < QueueMaxSize
  /\ video_queue' = video_queue + 1
  /\ UNCHANGED <<mainVars, events, video, audio, streamVars, audio_queue, frame_queue,
                 boundVars>>

RemuxEnqueueAudio ==
  /\ RemuxAt("enqueueAudio", "poll")
  /\ audio_queue < QueueMaxSize
  /\ audio_queue' = audio_queue + 1
  /\ UNCHANGED <<mainVars, events, video, audio, streamVars, video_queue, frame_queue,
                 boundVars>>

RemuxPushQuit ==
  /\ RemuxAt("pushQuit", "done")
  /\ SDL_PushEvent("THREAD_QUIT")
  /\ UNCHANGED <<mainVars, video, audio, streamVars, queueVars, boundVars>>

RemuxStep ==
  \/ RemuxOpenFails \/ RemuxOpen \/ RemuxPublishAudio \/ RemuxPushLoad
  \/ RemuxStartClock \/ RemuxPoll \/ RemuxRead \/ RemuxEof
  \/ RemuxEnqueueVideo \/ RemuxEnqueueAudio \/ RemuxPushQuit

------------------------------------------------------------------------------
(* video_decode_thread *)

VideoAt(here, next) == Running /\ video = here /\ video' = next

VideoPoll ==
  /\ VideoAt("poll", IF quit THEN "pushQuit" ELSE "dequeue")
  /\ UNCHANGED <<mainVars, events, remux, audio, streamVars, queueVars, boundVars>>

VideoDequeue ==
  /\ VideoAt("dequeue", "check")
  /\ video_queue > 0
  /\ video_queue' = video_queue - 1
  /\ UNCHANGED <<mainVars, events, remux, audio, streamVars, audio_queue, frame_queue,
                 boundVars>>

\* 500 ms without a packet.
VideoTimeout ==
  /\ VideoAt("dequeue", "poll")
  /\ video_queue = 0
  /\ UNCHANGED <<mainVars, events, remux, audio, streamVars, queueVars, boundVars>>

\* quit may have been set during the wait: the packet is dropped.
VideoCheckQuit ==
  /\ VideoAt("check", IF quit THEN "pushQuit" ELSE "send")
  /\ UNCHANGED <<mainVars, events, remux, audio, streamVars, queueVars, boundVars>>

\* avcodec_send_packet; an error ends the thread.
VideoSendPacket ==
  /\ VideoAt("send", "receive") \/ VideoAt("send", "pushQuit")
  /\ frames' = 0
  /\ UNCHANGED <<mainVars, events, remux, audio, streamVars, queueVars, reads, closes>>

\* avcodec_receive_frame gives a frame, which goes to the frame queue at once.
VideoReceiveFrame ==
  /\ VideoAt("receive", "pace")
  /\ frames < MaxFrames
  /\ frames' = frames + 1
  /\ frame_queue' = frame_queue + 1
  /\ UNCHANGED <<mainVars, events, remux, audio, streamVars, video_queue, audio_queue,
                 reads, closes>>

\* The decoder wants another packet, or fails, which ends the thread.
VideoReceiveEnds ==
  /\ VideoAt("receive", "poll") \/ VideoAt("receive", "pushQuit")
  /\ UNCHANGED <<mainVars, events, remux, audio, streamVars, queueVars, boundVars>>

\* Mutant: the frame's event is not pushed.
VideoPaceSilently ==
  /\ VideoAt("pace", "receive")
  /\ UNCHANGED <<mainVars, events, remux, audio, streamVars, queueVars, boundVars>>

\* Sleep until the frame is due, then announce it.
VideoPace ==
  /\ VideoAt("pace", "receive")
  /\ SDL_PushEvent("VIDEO_NEW_FRAME")
  /\ UNCHANGED <<mainVars, remux, audio, streamVars, queueVars, boundVars>>

\* Mutant: the thread returns without its event.
VideoReturns ==
  /\ VideoAt("pushQuit", "done")
  /\ UNCHANGED <<mainVars, events, remux, audio, streamVars, queueVars, boundVars>>

VideoPushQuit ==
  /\ VideoAt("pushQuit", "done")
  /\ SDL_PushEvent("THREAD_QUIT")
  /\ UNCHANGED <<mainVars, remux, audio, streamVars, queueVars, boundVars>>

VideoStep ==
  \/ VideoPoll \/ VideoDequeue \/ VideoTimeout \/ VideoCheckQuit
  \/ VideoSendPacket \/ VideoReceiveFrame \/ VideoReceiveEnds
  \/ VideoPace \/ VideoPushQuit

------------------------------------------------------------------------------
(* read_audio_callback and audio_decode, in the thread SDL runs them in *)

AudioAt(here, next) == Running /\ WithAudio /\ audio = here /\ audio' = next

\* SDL calls back until SDL_CloseAudio tells its thread to stop; without a
\* decoder the callback returns silence at once.
AudioCallback ==
  /\ AudioAt("idle", "dequeue")
  /\ main # "closeAudio" /\ audio_decoder
  /\ UNCHANGED <<mainVars, events, remux, video, streamVars, queueVars, boundVars>>

\* dequeue(&packet, 1) waits without a time limit.
AudioDequeue ==
  /\ AudioAt("dequeue", "decode")
  /\ audio_queue > 0
  /\ audio_queue' = audio_queue - 1
  /\ UNCHANGED <<mainVars, events, remux, video, streamVars, video_queue, frame_queue,
                 boundVars>>

\* The packet fills the rest of SDL's buffer, or gives nothing, or fails to
\* decode: the callback returns. Otherwise it goes for another packet.
AudioDecode ==
  /\ AudioAt("decode", "idle") \/ AudioAt("decode", "dequeue")
  /\ UNCHANGED <<mainVars, events, remux, video, streamVars, queueVars, boundVars>>

AudioStep == AudioCallback \/ AudioDequeue \/ AudioDecode

------------------------------------------------------------------------------
(* main *)

\* The window system reports that the user closed the window.
UserCloses ==
  /\ main = "loop" /\ closes < MaxCloses
  /\ closes' = closes + 1
  /\ SDL_PushEvent("SDL_QUIT")
  /\ UNCHANGED <<mainVars, remux, video, audio, streamVars, queueVars, reads, frames>>

\* SDL_WaitEvent returns the oldest event.
WaitEvent(type) ==
  /\ main = "loop"
  /\ events # <<>> /\ Head(events) = type
  /\ events' = Tail(events)

HandleQuit ==
  /\ WaitEvent("SDL_QUIT")
  /\ quit' = TRUE
  /\ UNCHANGED <<wg, texture, main, remux, video, audio, streamVars, queueVars, boundVars>>

\* Mutants: the first thread that ends closes the player; the count is compared
\* before it is raised.
HandleFirstThreadQuit ==
  /\ WaitEvent("THREAD_QUIT")
  /\ wg' = wg + 1
  /\ main' = "ending"
  /\ UNCHANGED <<quit, texture, remux, video, audio, streamVars, queueVars, boundVars>>
HandleThreadQuitLate ==
  /\ WaitEvent("THREAD_QUIT")
  /\ wg' = wg + 1
  /\ main' = IF wg = WaitFor THEN "ending" ELSE main
  /\ UNCHANGED <<quit, texture, remux, video, audio, streamVars, queueVars, boundVars>>

HandleThreadQuit ==
  /\ WaitEvent("THREAD_QUIT")
  /\ wg' = wg + 1
  /\ main' = IF wg' = WaitFor THEN "ending" ELSE main
  /\ UNCHANGED <<quit, texture, remux, video, audio, streamVars, queueVars, boundVars>>

\* SDL_CreateTexture may fail.
HandleLoad ==
  /\ WaitEvent("VIDEO_LOAD_EVENT")
  /\ texture' \in BOOLEAN
  /\ UNCHANGED <<quit, wg, main, remux, video, audio, streamVars, queueVars, boundVars>>

\* Every frame in the queue is taken out and drawn over the one before.
HandleNewFrame ==
  /\ WaitEvent("VIDEO_NEW_FRAME")
  /\ frame_queue' = IF texture THEN 0 ELSE frame_queue
  /\ UNCHANGED <<mainVars, remux, video, audio, streamVars, video_queue, audio_queue,
                 boundVars>>

\* The renderer and the texture go first, while the audio thread still runs.
DestroyWindow ==
  /\ main = "ending"
  /\ main' = "closeAudio"
  /\ UNCHANGED <<quit, wg, texture, events, remux, video, audio, streamVars, queueVars,
                 boundVars>>

\* SDL_CloseAudio waits for the audio thread, which returns between two
\* callbacks; then main returns and its queues are destroyed.
CloseAudio ==
  /\ main = "closeAudio" /\ audio = "idle"
  /\ main' = "exited"
  /\ UNCHANGED <<quit, wg, texture, events, remux, video, audio, streamVars, queueVars,
                 boundVars>>

MainStep ==
  \/ HandleQuit \/ HandleThreadQuit \/ HandleLoad \/ HandleNewFrame
  \/ DestroyWindow \/ CloseAudio

Next == RemuxStep \/ VideoStep \/ AudioStep \/ MainStep \/ UserCloses

\* Each thread keeps taking its next step when it can; the user may never
\* close the window.
Fairness ==
  /\ WF_vars(RemuxStep) /\ WF_vars(VideoStep)
  /\ WF_vars(AudioStep) /\ WF_vars(MainStep)

Spec == Init /\ [][Next]_vars /\ Fairness

------------------------------------------------------------------------------
(* Properties *)

TypeOK ==
  /\ quit \in BOOLEAN /\ wg \in 0..2 /\ texture \in BOOLEAN
  /\ main \in {"loop", "ending", "closeAudio", "exited", "aborted"}
  /\ events \in Seq(EventTypes)
  /\ remux \in {"open", "publishAudio", "pushLoad", "startClock", "poll", "read",
                "enqueueVideo", "enqueueAudio", "pushQuit", "done"}
  /\ video \in {"poll", "dequeue", "check", "send", "receive", "pace", "pushQuit", "done"}
  /\ audio \in {"idle", "dequeue", "decode"}
  /\ video_decoder \in BOOLEAN /\ audio_decoder \in BOOLEAN /\ start_time_ms \in BOOLEAN
  /\ video_queue \in 0..QueueMaxSize /\ audio_queue \in 0..QueueMaxSize
  /\ frame_queue \in Nat
  /\ reads \in 0..MaxReads /\ frames \in 0..MaxFrames /\ closes \in 0..MaxCloses

Pending(type) == {i \in DOMAIN events : events[i] = type}
ThreadsDone == {x \in {<<"remux", remux>>, <<"video", video>>} : x[2] = "done"}

\* Nothing but the order of the demuxer's assignments, its event and its first
\* enqueue protects the other threads from using a decoder or a clock that is
\* not there: the decoder thread uses both, the audio callback and the handler
\* of VIDEO_LOAD_EVENT a decoder.
DecodersPublished ==
  /\ video \in {"send", "receive", "pace"} \/ video_queue > 0
       => video_decoder /\ start_time_ms
  /\ audio # "idle" => audio_decoder
  /\ Pending("VIDEO_LOAD_EVENT") # {} => video_decoder

\* A thread that has ended is counted in wg or still has its THREAD_QUIT event
\* queued, once.
ThreadQuitCounted ==
  main # "aborted" =>
    wg + Cardinality(Pending("THREAD_QUIT")) = Cardinality(ThreadsDone)

\* main returns, and the queues on its stack are destroyed, only when no thread
\* can use them any more.
QueuesOutliveThreads ==
  main = "exited" => remux = "done" /\ video = "done" /\ audio = "idle"

\* A decoded frame is not forgotten: while it waits, the decoder thread is going
\* to announce it or its event is in the queue.
FramesAnnounced ==
  texture /\ frame_queue > 0 => video = "pace" \/ Pending("VIDEO_NEW_FRAME") # {}

\* The event queue keeps the frames' events ahead of the decoder thread's
\* THREAD_QUIT: the main loop never ends with a frame it could have drawn.
NoFrameLeftBehind == main \in {"ending", "closeAudio", "exited"} /\ texture => frame_queue = 0

\* The demuxer waits for a place in a queue whose consumer has gone.
RemuxStranded ==
  remux = "enqueueVideo" /\ video_queue = QueueMaxSize /\ video = "done"

\* Closing the window ends the main loop, unless the demuxer is stranded.
QuitEndsLoopOrStrands == quit ~> main # "loop" \/ RemuxStranded

\* A frame that waits for the main thread is drawn.
FramesAreDrawn == texture /\ frame_queue > 0 ~> frame_queue = 0 \/ ~Running

\* What "需要通知子线程退出" and "子线程退出通知主线程" (lines 695 and 698)
\* ask for: after SDL_QUIT both threads end and the main loop with them.
QuitEndsLoop == quit ~> main # "loop"

==============================================================================
