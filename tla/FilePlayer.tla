------------------------------ MODULE FilePlayer -----------------------------
(* The players of raw files, code/sdl/pcm_player.c and yuv_player.c.  In the  *)
(* first the audio device calls back for samples; in the second a thread asks *)
(* for one frame after another.  Both talk to main through SDL's event queue. *)
EXTENDS Integers, Sequences

CONSTANTS
    MaxBlocks,      \* bound: whole blocks (of samples, of a frame) of the file
    MaxEvents,      \* what SDL's event queue holds; it drops what comes then
    MaxCloses       \* bound: SDL_QUIT events from the user

VARIABLES
    program,        \* "pcm" or "yuv"
    blocks,         \* whole blocks that fread has not given
    rest,           \* whether part of a block follows them
    loop,           \* main: "wait": in SDL_WaitEvent; "close": in SDL_CloseAudio;
                    \* "files": about to close the file; "exited"
    pending,        \* SDL's event queue
    isWorking,
    ticker,         \* timeTickerFunc: "test" isWorking; "push"; "last": about to
                    \* push THREAD_QUIT; "ended"
    device,         \* the audio device: "idle"; "read": in its callback; "off"
    lost,           \* history: the queue has dropped an event
    clicks          \* history: SDL_QUIT events from the user
vars == <<program, blocks, rest, loop, pending, isWorking, ticker, device, lost, clicks>>

file == <<blocks, rest>>

Init ==
    /\ program \in {"pcm", "yuv"}
    /\ blocks \in 0..MaxBlocks /\ rest \in BOOLEAN
    /\ loop = "wait" /\ pending = <<>> /\ isWorking = TRUE
    /\ ticker = IF program = "yuv" THEN "test" ELSE "ended"
    /\ device = IF program = "pcm" THEN "idle" ELSE "off"
    /\ lost = FALSE /\ clicks = 0

SDL_PushEvent(event) ==
    IF Len(pending) < MaxEvents
    THEN pending' = Append(pending, event) /\ lost' = lost
    ELSE pending' = pending /\ lost' = TRUE

-----------------------------------------------------------------------------
(* yuv_player.c                                                               *)

TickerTests ==
    /\ loop # "exited" /\ ticker = "test"
    /\ ticker' = IF isWorking THEN "push" ELSE "last"
    /\ UNCHANGED <<program, file, loop, pending, isWorking, device, lost, clicks>>

TickerPushes ==
    /\ loop # "exited" /\ ticker = "push"
    /\ SDL_PushEvent("REFRESH_EVENT")
    /\ ticker' = "test"
    /\ UNCHANGED <<program, file, loop, isWorking, device, clicks>>

\* Mutant of TickerEnds: the thread ends without a word.
TickerEndsSilently ==
    /\ loop # "exited" /\ ticker = "last"
    /\ ticker' = "ended"
    /\ UNCHANGED <<program, file, loop, pending, isWorking, device, lost, clicks>>

TickerEnds ==
    /\ loop # "exited" /\ ticker = "last"
    /\ SDL_PushEvent("THREAD_QUIT")
    /\ ticker' = "ended"
    /\ UNCHANGED <<program, file, loop, isWorking, device, clicks>>

Ticker == TickerTests \/ TickerPushes \/ TickerEnds

\* The event that SDL_WaitEvent gives main.
Event(e) ==
    /\ loop = "wait" /\ pending # <<>>
    /\ Head(pending) = e
    /\ pending' = Tail(pending)

\* A frame is read and drawn; main returns when it is not whole, and exits when the
\* texture does not take it.
DrawFrame ==
    /\ Event("REFRESH_EVENT")
    /\ IF blocks = 0
       THEN loop' = "exited" /\ rest' = FALSE /\ UNCHANGED blocks
       ELSE loop' \in {"wait", "exited"} /\ blocks' = blocks - 1 /\ UNCHANGED rest
    /\ UNCHANGED <<program, isWorking, ticker, device, lost, clicks>>

ThreadHasQuit ==
    /\ Event("THREAD_QUIT")
    /\ loop' = "files"
    /\ UNCHANGED <<program, file, isWorking, ticker, device, lost, clicks>>

-----------------------------------------------------------------------------
(* pcm_player.c                                                               *)

\* None begins when SDL_CloseAudio was called.
DeviceCalls ==
    /\ loop = "wait" /\ device = "idle"
    /\ device' = "read"
    /\ UNCHANGED <<program, file, loop, pending, isWorking, ticker, lost, clicks>>

\* read_audio_callback: what fread gives is played, and nothing asks main to quit.
ReadAudio ==
    /\ loop # "exited" /\ device = "read"
    /\ IF blocks > 0 THEN blocks' = blocks - 1 /\ UNCHANGED <<rest, pending, lost>>
       ELSE IF rest THEN rest' = FALSE /\ UNCHANGED <<blocks, pending, lost>>
       ELSE SDL_PushEvent("SDL_QUIT") /\ UNCHANGED file
    /\ device' = "idle"
    /\ UNCHANGED <<program, loop, isWorking, ticker, clicks>>

Device == DeviceCalls \/ ReadAudio

\* Mutant of CloseDevice: main goes on while a callback runs.
CloseDeviceAtOnce ==
    /\ loop = "close"
    /\ loop' = "files"
    /\ UNCHANGED <<program, file, pending, isWorking, ticker, device, lost, clicks>>

\* SDL_CloseAudio returns when no callback runs.
CloseDevice ==
    /\ loop = "close" /\ device = "idle"
    /\ loop' = "files" /\ device' = "off"
    /\ UNCHANGED <<program, file, pending, isWorking, ticker, lost, clicks>>

-----------------------------------------------------------------------------
(* Both                                                                       *)

\* SDL_QUIT ends the loop of pcm_player.c; yuv_player.c tells its thread and goes on.
Quit ==
    /\ Event("SDL_QUIT")
    /\ IF program = "pcm"
       THEN loop' = "close" /\ UNCHANGED isWorking
       ELSE loop' = loop /\ isWorking' = FALSE
    /\ UNCHANGED <<program, file, ticker, device, lost, clicks>>

\* fclose, the rest of the teardown, and the end of main.
CloseFile ==
    /\ loop = "files"
    /\ loop' = "exited"
    /\ UNCHANGED <<program, file, pending, isWorking, ticker, device, lost, clicks>>

MainLoop == DrawFrame \/ ThreadHasQuit \/ Quit \/ CloseDevice \/ CloseFile

UserQuits ==
    /\ loop # "exited" /\ clicks < MaxCloses
    /\ SDL_PushEvent("SDL_QUIT")
    /\ clicks' = clicks + 1
    /\ UNCHANGED <<program, file, loop, isWorking, ticker, device>>

Next == Ticker \/ Device \/ MainLoop \/ UserQuits

Fairness == WF_vars(Ticker) /\ WF_vars(Device) /\ WF_vars(MainLoop)

Spec == Init /\ [][Next]_vars /\ Fairness

-----------------------------------------------------------------------------
(* Properties                                                                 *)

(* When main closes the file and frees what the others use, the thread has    *)
(* ended and the device calls no more; and unless the user has closed the     *)
(* player, the samples were read to the end of the file                       *)
(* (pcm_player.c:14-20, 93-102, yuv_player.c:65-70, 127-133).                 *)
OthersHaveEnded ==
    loop = "files" =>
        /\ ticker = "ended" /\ device = "off"
        /\ program = "pcm" /\ clicks = 0 => blocks = 0 /\ ~rest

(* The player ends: with its file, or when the user closes it.  Only an event *)
(* that SDL dropped from a full queue can keep main waiting for the thread's  *)
(* last word.                                                                 *)
PlayerEnds ==
    <>(\/ loop = "exited"
       \/ program = "yuv" /\ lost /\ ticker = "ended" /\ pending = <<>>)
=============================================================================
