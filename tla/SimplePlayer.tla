----------------------------- MODULE SimplePlayer ----------------------------
(* code/sdl/simple_player2.cpp, a player whose main thread reads the file and *)
(* decodes the video, while the audio device calls back for samples; and      *)
(* simple_player.c, the same without audio.  Which of them runs is chosen at  *)
(* the start.  One step per turn of main's loop and per critical section of   *)
(* the packet queue, with what follows it.                                    *)
EXTENDS Integers, Sequences, FiniteSets, SequencesExt

CONSTANTS
    Files,          \* sequences over "video", "audio", "other": a file's packets
    Delay,          \* frames the video decoder may hold back
    PacketSamples,  \* samples of an audio packet
    CallSamples,    \* samples a call of read_audio_callback must fill in
    MaxCloses       \* bound: SDL_QUIT events

ASSUME PlayerAssumption ==
    /\ Delay \in Nat /\ MaxCloses \in Nat
    /\ {PacketSamples, CallSamples} \subseteq Nat \ {0}

VARIABLES
    player,         \* "simple_player" or "simple_player2"
    main,           \* where main is
    file,           \* packets not yet read
    event,          \* main's SDL_Event: what lies in it
    events,         \* SDL_QUIT events that nobody has polled
    closes,         \* those there have been
    held, rendered, \* frames in the video decoder, and shown
    sent,           \* video packets the decoder was given
    failures,       \* history: calls of the decoder for a packet that failed
    flush,          \* history: the calls for the rest: "none", "done" or "failed"
    queue,          \* m_data: the audio packets, numbered from 1
    audio,          \* history: the audio packets that were enqueued
    callback,       \* the audio thread: "off"; "idle": between two calls;
                    \* "lock": about to lock in dequeue; "wait": in SDL_CondWait;
                    \* "decode": with a packet
    packet,         \* the packet it has
    need,           \* samples still to fill in
    heard,          \* history: the samples of this call, as <<packet, sample>>
    decoded         \* history: the packets that audio_decode took
vars == <<player, main, file, event, events, closes, held, rendered, sent,
          failures, flush, queue, audio, callback, packet, need, heard, decoded>>

video == <<held, rendered, sent, failures, flush>>
sound == <<callback, packet, need, heard, decoded>>

Init ==
    /\ player \in {"simple_player", "simple_player2"}
    /\ main = "open"
    /\ file \in Files
    /\ event \in {"quit", "other"}          \* not initialised
    /\ events = 0 /\ closes = 0
    /\ held = 0 /\ rendered = 0 /\ sent = 0
    /\ failures = 0 /\ flush = "none"
    /\ queue = <<>> /\ audio = <<>>
    /\ callback = "off" /\ packet = 0 /\ need = 0
    /\ heard = <<>> /\ decoded = <<>>

HasAudio == player = "simple_player2"

-----------------------------------------------------------------------------
(* main                                                                       *)

\* Everything opens; the audio device begins to call.
Open ==
    /\ main = "open"
    /\ main' = "read"
    /\ callback' = IF HasAudio THEN "idle" ELSE "off"
    /\ UNCHANGED <<player, file, event, events, closes, video, queue, audio,
                   packet, need, heard, decoded>>

\* Something does not: main returns, or, in simple_player.c, jumps to the end and
\* frees pointers that it has not set.
OpenFails ==
    /\ main = "open"
    /\ main' \in (IF HasAudio THEN {"exited"} ELSE {"exited", "crashed"})
    /\ UNCHANGED <<player, file, event, events, closes, video, queue, audio, sound>>

\* With n frames inside, avcodec_receive_frame fails after the first few were shown;
\* the frame that it fails for is lost or still comes, the others stay inside.
ReceiveFails(n) ==
    \E shown \in 0..n :
        /\ rendered' = rendered + shown
        /\ held' \in {n - shown, n - shown - 1} \cap Nat

\* video_decode with a packet: avcodec_send_packet fails, which costs a frame; or
\* all frames are shown that the decoder does not hold back; or a receive fails.
VideoDecode ==
    /\ sent' = sent + 1
    /\ flush' = flush
    /\ \/ UNCHANGED <<held, rendered>> /\ failures' = failures + 1
       \/ /\ held' \in 0..Delay
          /\ held' <= held + 1
          /\ rendered' = rendered + held + 1 - held'
          /\ failures' = failures
       \/ ReceiveFails(held + 1) /\ failures' = failures + 1

\* Mutant of Enqueue: without SDL_CondSignal.
EnqueueSilently(p) ==
    /\ queue' = Append(queue, p)
    /\ audio' = Append(audio, p)
    /\ UNCHANGED callback

\* PacketQueue::enqueue: SDL_CondSignal wakes a thread that waits.
Enqueue(p) ==
    /\ queue' = Append(queue, p)
    /\ audio' = Append(audio, p)
    /\ callback' = IF callback = "wait" THEN "lock" ELSE callback

\* The number of an audio packet is its place among the file's audio packets.
ReadFrame ==
    /\ main = "read"
    /\ file # <<>>
    /\ file' = Tail(file)
    /\ main' = "poll"
    /\ CASE Head(file) = "video" ->
              VideoDecode /\ UNCHANGED <<queue, audio, callback>>
         [] Head(file) = "audio" /\ HasAudio ->
              \/ Enqueue(Len(audio) + 1) /\ UNCHANGED video
              \/ UNCHANGED <<video, queue, audio, callback>>    \* av_packet_alloc fails
         [] OTHER -> UNCHANGED <<video, queue, audio, callback>>
    /\ UNCHANGED <<player, event, events, closes, packet, need, heard, decoded>>

\* SDL_PollEvent leaves the event as it is when there is none.
PollEvent ==
    /\ main = "poll"
    /\ IF events > 0
       THEN events' = events - 1 /\ event' = "quit"
       ELSE events' = events /\ event' \in {event, "other"}
    /\ main' = IF event' = "quit" THEN "frames" ELSE "read"
    /\ UNCHANGED <<player, file, closes, video, queue, audio, sound>>

\* Mutant of EndOfFile: the decoder is not asked for the rest.
EndOfFileNoFlush ==
    /\ main = "read"
    /\ file = <<>>
    /\ main' = "frames"
    /\ UNCHANGED <<player, file, event, events, closes, video, queue, audio, sound>>

\* The file has ended: video_decode without a packet gives the frames held back, up
\* to the first call that fails.
EndOfFile ==
    /\ main = "read"
    /\ file = <<>>
    /\ main' = "frames"
    /\ \/ held' = 0 /\ rendered' = rendered + held /\ flush' = "done"
       \/ ReceiveFails(held) /\ flush' = "failed"
    /\ UNCHANGED <<player, file, event, events, closes, sent, failures, queue, audio, sound>>

\* The end of main: av_frame_free and avcodec_free_context; the window; delete is,
\* with the queue; and only then SDL_CloseAudio, which waits for the callback.
FreeFrames ==
    /\ main = "frames"
    /\ main' = "window"
    /\ UNCHANGED <<player, file, event, events, closes, video, queue, audio, sound>>

\* Mutant of DestroyWindow: the player without audio closes it, too.
DestroyWindowAlways ==
    /\ main = "window"
    /\ main' = "state"
    /\ UNCHANGED <<player, file, event, events, closes, video, queue, audio, sound>>

DestroyWindow ==
    /\ main = "window"
    /\ main' = IF HasAudio THEN "state" ELSE "exited"
    /\ UNCHANGED <<player, file, event, events, closes, video, queue, audio, sound>>

DeleteState ==
    /\ main = "state"
    /\ main' = "audio"
    /\ queue' = <<>>
    /\ UNCHANGED <<player, file, event, events, closes, video, audio, sound>>

CloseAudio ==
    /\ main = "audio"
    /\ callback = "idle"
    /\ callback' = "off"
    /\ main' = "exited"
    /\ UNCHANGED <<player, file, event, events, closes, video, queue, audio,
                   packet, need, heard, decoded>>

Main ==
    \/ Open \/ OpenFails
    \/ ReadFrame \/ PollEvent \/ EndOfFile
    \/ FreeFrames \/ DestroyWindow \/ DeleteState \/ CloseAudio

-----------------------------------------------------------------------------
(* The audio thread                                                           *)

Alive == main \notin {"exited", "crashed"}
FramesFreed == main \in {"window", "state", "audio"}
StateDeleted == main = "audio"

\* The device calls read_audio_callback.
Callback ==
    /\ Alive /\ callback = "idle"
    /\ callback' = "lock"
    /\ need' = CallSamples
    /\ heard' = <<>>
    /\ UNCHANGED <<player, main, file, event, events, closes, video, queue, audio,
                   packet, decoded>>

\* PacketQueue::dequeue, which is told to block.
Dequeue ==
    /\ Alive /\ callback = "lock" /\ ~StateDeleted
    /\ IF queue = <<>>
       THEN callback' = "wait" /\ UNCHANGED <<queue, packet, decoded>>
       ELSE /\ packet' = Head(queue)
            /\ queue' = Tail(queue)
            /\ decoded' = Append(decoded, packet')
            /\ callback' = "decode"
    /\ UNCHANGED <<player, main, file, event, events, closes, video, audio, need, heard>>

\* Mutant of Fill: samples are copied although the call is full.
FillAll(n) == n

\* How many of n samples are copied: copy_num.
Fill(n) == IF need >= n THEN n ELSE need

\* audio_decode: the packet's samples, or none.  None are silence for the rest of
\* the call; what is left of the packet at the end of the call is forgotten.
Decode(n) ==
    /\ Alive /\ callback = "decode" /\ ~FramesFreed
    /\ heard' = heard \o [i \in 1..Fill(n) |-> <<packet, i>>]
    /\ need' = IF n = 0 THEN 0 ELSE need - Fill(n)
    /\ callback' = IF need' = 0 THEN "idle" ELSE "lock"
    /\ packet' = 0
    /\ UNCHANGED <<player, main, file, event, events, closes, video, queue, audio, decoded>>

\* main has freed what the callback uses.
UseFreed ==
    /\ Alive
    /\ \/ callback = "lock" /\ StateDeleted
       \/ callback = "decode" /\ FramesFreed
    /\ main' = "crashed"
    /\ UNCHANGED <<player, file, event, events, closes, video, queue, audio, sound>>

AudioThread == Callback \/ Dequeue \/ (\E n \in {0, PacketSamples} : Decode(n)) \/ UseFreed

UserCloses ==
    /\ Alive
    /\ closes < MaxCloses
    /\ closes' = closes + 1
    /\ events' = events + 1
    /\ UNCHANGED <<player, main, file, event, video, queue, audio, sound>>

Next == Main \/ AudioThread \/ UserCloses

Spec == Init /\ [][Next]_vars /\ WF_vars(Main) /\ WF_vars(AudioThread)

-----------------------------------------------------------------------------
(* Properties                                                                 *)

(* The queue hands the callback the audio packets in the order of the file,   *)
(* each once, until main deletes it; and the callback does not sleep while    *)
(* there is one, although only one signal is given per packet                 *)
(* (simple_player2.cpp:51-57, 62-83).                                         *)
PacketsHandedOver ==
    /\ main \notin {"audio", "exited", "crashed"} => decoded \o queue = audio
    /\ IsPrefix(decoded, audio)
    /\ callback = "wait" => queue = <<>>

(* Within a call the samples follow one another without a gap or an overlap:  *)
(* a packet of which some are missing is the last of its call, and its rest   *)
(* is never heard, since the next call begins with the next packet            *)
(* (simple_player2.cpp:236-262: AUDIO_SIZE and AUDIO_INDEX are locals).       *)
SoundInOrder ==
    /\ Len(heard) <= CallSamples
    /\ \A i \in 1..(Len(heard) - 1) :
           LET s == heard[i] t == heard[i + 1]
           IN  t = <<s[1], s[2] + 1>> \/ (t = <<s[1] + 1, 1>> /\ s[2] = PacketSamples)

(* When the file was read to its end, no more frames are missing than calls   *)
(* of the decoder failed, and none when none did: a frame that a failed       *)
(* receive left inside, behind the exit of video_decode, is shown with a later*)
(* packet or by the flush.  Only when the flush itself fails do frames stay   *)
(* inside: nobody asks again (simple_player2.cpp:281-302, 490;                *)
(* simple_player.c:37-55, 182).                                               *)
EveryFrameShown ==
    main \in {"frames", "window", "state", "audio"} /\ file = <<>> /\ event # "quit"
        /\ flush # "failed" =>
            held = 0 /\ rendered \in (sent - failures)..sent

(* The player ends, unless main waits in SDL_CloseAudio for a callback that   *)
(* waits for a packet: at the end nobody is left to wake it, and without      *)
(* audio this cannot happen (simple_player2.cpp:79, 531).                     *)
PlayerEnds ==
    <>(~Alive \/ (HasAudio /\ main = "audio" /\ callback = "wait"))
=============================================================================
