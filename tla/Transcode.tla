------------------------------ MODULE Transcode ------------------------------
(* The tools that decode or encode: frames go through a codec that takes one  *)
(* unit, keeps some of them for a while and gives them back later             *)
(* (code/basic/encode_decode, decodeVideo.cpp, audio_resample.cpp, the        *)
(* drawbox filter, audioEncoder, codecEncoderAndMutex and h264ToTs of         *)
(* code/excercise, and playVideo of the Android player).  The codec is a      *)
(* library; the tools differ in how often they ask it for output, in what     *)
(* they do when a call fails and in whether they empty it at the end.         *)
EXTENDS Integers, Sequences, FiniteSets, SequencesExt

CONSTANTS
    Sources,        \* what may be read: for a decoder the packets, each with the
                    \* stream and the number of its frames; for an encoder one
                    \* packet per frame of its file
    Delays,         \* how many frames a codec may keep before it must give one
    Frames,         \* the frames that an encoding tool makes: 56, 150, 200, ...
    MaxFailures     \* bound: calls of a codec that fail

VARIABLES
    tool,           \* the course of the tool that runs
    source, delay,
    pc,             \* "open"; "next"; "decoder", "encoder": asks it for output;
                    \* "done"; "failed": left main early
    n,              \* packets read, or frames made
    taken,          \* history: frames that were meant for the first codec
    dec, enc,       \* the frames in the decoder and in the encoder
    emptying,       \* the codecs that were told to give what they keep
    buf,            \* the buffer of frame
    content,        \* what each buffer holds
    pos,            \* h264ToTs.cpp: pos
    out,            \* the output: pts and content of each unit
    failures,       \* history: calls that failed
    broken          \* the codec fails for good
vars == <<tool, source, delay, pc, n, taken, dec, enc, emptying, buf, content, pos,
          out, failures, broken>>

-----------------------------------------------------------------------------
(* The tools                                                                  *)

encode_video ==
    [name |-> "encode_video", decodes |-> FALSE, encodes |-> TRUE, once |-> {},
     buffer |-> "writable", atEnd |-> "old", onError |-> "failed", onFlush |-> "done"]

audioEncoder == [encode_video EXCEPT !.name = "audioEncoder", !.atEnd = "made"]

audio_resample ==
    [encode_video EXCEPT !.name = "audio_resample", !.buffer = "same", !.atEnd = "stop"]

codecEncoderAndMutex ==
    [audioEncoder EXCEPT !.name = "codecEncoderAndMutex", !.once = {"encoder"}]

encode_with_libx264 ==
    [encode_video EXCEPT !.name = "encode_with_libx264", !.once = {"encoder"},
                         !.buffer = "copied", !.onFlush = "again"]

h264ToTs ==
    [name |-> "h264ToTs", decodes |-> TRUE, encodes |-> TRUE, once |-> {},
     buffer |-> "copied", atEnd |-> "flush", onError |-> "failed", onFlush |-> "done"]

decodeVideo ==
    [name |-> "decodeVideo", decodes |-> TRUE, encodes |-> FALSE, once |-> {},
     buffer |-> "copied", atEnd |-> "failed", onError |-> "next", onFlush |-> "done"]

drawbox_filter ==
    [decodeVideo EXCEPT !.name = "drawbox_filter", !.once = {"decoder"}, !.atEnd = "done",
                        !.onError = "done"]

playVideo == [drawbox_filter EXCEPT !.name = "playVideo", !.onError = "next"]

Tools == {encode_video, audioEncoder, audio_resample, codecEncoderAndMutex,
          encode_with_libx264, h264ToTs, decodeVideo, drawbox_filter, playVideo}

\* The streams of pictures; sound has stream 0.
Videos == {source[i].stream : i \in DOMAIN source} \ {0}

\* The stream that is decoded: the best one, the first, or for playVideo the last.
\* decodeVideo.cpp gives the decoder every packet.
Chosen ==
    CASE tool.name = "playVideo" -> {s \in Videos : \A t \in Videos : t <= s}
      [] tool.name = "decodeVideo" -> Videos
      [] OTHER -> {s \in Videos : \A t \in Videos : s <= t}

\* A raw H.264 file has one stream, a file of pictures is counted in pictures, and
\* two tools do not read at all.
Fits ==
    /\ tool.name = "h264ToTs" => \A i, j \in DOMAIN source : source[i].stream = source[j].stream
    /\ ~tool.decodes => \A i \in DOMAIN source : source[i] = [stream |-> 1, frames |-> 1]
    /\ tool.atEnd = "made" => source = <<>>

Init ==
    /\ tool \in Tools /\ source \in Sources /\ delay \in Delays /\ Fits
    /\ pc = "open" /\ n = 0 /\ taken = 0
    /\ dec = <<>> /\ enc = <<>> /\ emptying = {}
    /\ buf = 0 /\ content = [b \in 0..(delay + 2) |-> 0]
    /\ pos = 0 /\ out = <<>> /\ failures = 0 /\ broken = FALSE

\* The files and the codecs are opened, or main returns.
Open ==
    /\ pc = "open"
    /\ pc' \in (IF tool.decodes /\ Videos = {} THEN {"failed"} ELSE {"next", "failed"})
    /\ UNCHANGED <<tool, source, delay, n, taken, dec, enc, emptying, buf, content, pos,
                   out, failures, broken>>

Fail == /\ failures < MaxFailures \/ broken
        /\ failures' = IF broken THEN failures ELSE failures + 1

-----------------------------------------------------------------------------
(* A codec: it must be asked for output when it keeps more than its delay     *)

Full(codec) == Len(codec) > delay

\* x264 gives nothing before it was given more frames than its delay.
NeverFilled == tool.onFlush = "again" /\ taken <= delay /\ out = <<>>

\* A codec that was told to give what it keeps gives nothing when it keeps nothing;
\* x264 also as long as it was not filled.
MayGiveNone(codec, name) ==
    IF name \in emptying THEN codec = <<>> \/ NeverFilled ELSE ~Full(codec)

\* The buffers that the encoder refers to.
Held == {enc[i].buf : i \in DOMAIN enc}
Unused == CHOOSE b \in DOMAIN content : b \notin Held

\* Mutant of Buffer: the frame that the encoder may still hold is filled again.
BufferAgain == buf

\* The buffer that the next frame is put into: av_frame_make_writable takes
\* another if the encoder holds this one; a decoded frame has one of its own, and
\* x264 copies the picture; audio_resample.cpp fills the same always.
Buffer ==
    IF tool.buffer = "same" \/ (tool.buffer = "writable" /\ buf \notin Held)
    THEN buf ELSE Unused

-----------------------------------------------------------------------------
(* Encoding                                                                   *)

\* A file that is too short leaves in the frame what was there; the result of
\* fread is never below 0, which is all that createOneFrameFromFile looks at.
Made == IF tool.atEnd = "old" /\ n >= Len(source) THEN content[buf] ELSE n + 1

More == n < Frames /\ (tool.atEnd = "stop" => n < Len(source))

\* A frame is made and sent; the encoder is empty enough, unless it was not asked.
SendFrame ==
    /\ pc = "next" /\ ~tool.decodes /\ More /\ ~Full(enc)
    /\ n' = n + 1 /\ taken' = taken + 1
    /\ buf' = Buffer
    /\ content' = [content EXCEPT ![Buffer] = Made]
    /\ enc' = Append(enc, [pts |-> n, buf |-> Buffer])
    /\ pc' = "encoder"
    /\ UNCHANGED <<tool, source, delay, dec, emptying, pos, out, failures, broken>>

\* The encoder refuses the frame, or fails.
SendFrameFails ==
    /\ pc = "next" /\ ~tool.decodes /\ More
    /\ IF Full(enc) THEN UNCHANGED failures ELSE Fail
    /\ taken' = taken + 1
    /\ pc' = tool.onError
    /\ UNCHANGED <<tool, source, delay, n, dec, enc, emptying, buf, content, pos, out,
                   broken>>

\* All frames are made: the encoder is sent NULL.
FlushEncoder ==
    /\ pc = "next" /\ ~tool.decodes /\ ~More
    /\ emptying' = {"encoder"}
    /\ pc' = "encoder"
    /\ UNCHANGED <<tool, source, delay, n, taken, dec, enc, buf, content, pos, out,
                   failures, broken>>

\* Two tools ask the decoder for one frame after each packet.
AfterFrame == IF "decoder" \in tool.once THEN "next" ELSE "decoder"

\* Where it goes on once the encoder gave what it could.
AfterEncoder ==
    IF "encoder" \in emptying THEN "done" ELSE IF tool.decodes THEN AfterFrame ELSE "next"

\* Mutant of AfterPacket: one call empties the encoder.
AfterPacketOnce == IF "encoder" \in tool.once THEN AfterEncoder ELSE "encoder"

\* After a packet a tool asks again; with the calls that take a frame and give a
\* packet at once it does so only at the end.
AfterPacket ==
    IF "encoder" \in tool.once \ emptying THEN AfterEncoder ELSE "encoder"

\* A packet comes out, of any frame the encoder keeps, and is written.
ReceivePacket ==
    /\ pc = "encoder" /\ ~broken
    /\ \E i \in DOMAIN enc :
           /\ out' = Append(out, [pts |-> enc[i].pts, content |-> content[enc[i].buf]])
           /\ enc' = RemoveAt(enc, i)
    /\ pc' = AfterPacket
    /\ UNCHANGED <<tool, source, delay, n, taken, dec, emptying, buf, content, pos,
                   failures, broken>>

\* EAGAIN or the end.
NoPacket ==
    /\ pc = "encoder" /\ ~broken /\ MayGiveNone(enc, "encoder")
    /\ pc' = AfterEncoder
    /\ UNCHANGED <<tool, source, delay, n, taken, dec, enc, emptying, buf, content, pos,
                   out, failures, broken>>

IgnoresEncoder == tool.name = "h264ToTs" \/ "decoder" \in emptying

\* Mutant of AfterError: the emptying of an encoder is tried until it succeeds.
AfterErrorAgain ==
    IF "encoder" \in emptying THEN "encoder"
    ELSE IF IgnoresEncoder THEN AfterEncoder ELSE tool.onError

\* h264ToTs.cpp does not look at the result of encode, no tool does at the end;
\* encode_with_libx264.cpp then waits for 0 packets and asks again.
AfterError ==
    IF "encoder" \in emptying
    THEN IF tool.onFlush = "again" THEN "encoder" ELSE "done"
    ELSE IF IgnoresEncoder THEN AfterEncoder ELSE tool.onError

\* An encoder that failed while it was emptied goes on failing.
EncoderFails ==
    /\ pc = "encoder" /\ Fail
    /\ broken' = (broken \/ "encoder" \in emptying)
    /\ pc' = AfterError
    /\ UNCHANGED <<tool, source, delay, n, taken, dec, enc, emptying, buf, content, pos,
                   out>>

-----------------------------------------------------------------------------
(* Decoding                                                                   *)

Reads == pc = "next" /\ tool.decodes /\ n < Len(source)
Ours  == source[n + 1].stream \in Chosen

\* A packet of another stream; decodeVideo.cpp gives sound to the decoder too and does
\* not look at the error.
SkipPacket ==
    /\ Reads /\ ~Ours
    /\ n' = n + 1
    /\ UNCHANGED <<tool, source, delay, pc, taken, dec, enc, emptying, buf, content, pos,
                   out, failures, broken>>

SendPacket ==
    /\ Reads /\ Ours /\ ~Full(dec)
    /\ n' = n + 1
    /\ taken' = taken + source[n + 1].frames
    /\ dec' = dec \o [i \in 1..source[n + 1].frames |-> taken + i - 1]
    /\ pc' = "decoder"
    /\ UNCHANGED <<tool, source, delay, enc, emptying, buf, content, pos, out, failures,
                   broken>>

\* The decoder refuses the packet, or fails: the packet is lost.
SendPacketFails ==
    /\ Reads /\ Ours
    /\ IF Full(dec) THEN UNCHANGED failures ELSE Fail
    /\ n' = n + 1
    /\ taken' = taken + source[n + 1].frames
    /\ pc' = tool.onError
    /\ UNCHANGED <<tool, source, delay, dec, enc, emptying, buf, content, pos, out,
                   broken>>

\* A frame is saved, shown or filtered and written.
ReceiveFrame ==
    /\ pc = "decoder" /\ dec # <<>> /\ ~tool.encodes
    /\ out' = Append(out, [pts |-> Head(dec), content |-> Head(dec) + 1])
    /\ dec' = Tail(dec)
    /\ pc' = AfterFrame
    /\ UNCHANGED <<tool, source, delay, n, taken, enc, emptying, buf, content, pos,
                   failures, broken>>

\* drawbox_filter.cpp: the graph does not take the frame, which main cannot see:
\* ret is the result of the comparison, 1.
FilterFails ==
    /\ pc = "decoder" /\ dec # <<>> /\ tool.name = "drawbox_filter" /\ Fail
    /\ dec' = Tail(dec)
    /\ pc' = AfterFrame
    /\ UNCHANGED <<tool, source, delay, n, taken, enc, emptying, buf, content, pos, out,
                   broken>>

\* The frame is sent to the encoder, by h264ToTs.cpp with a number of its own; or
\* that fails.
Reencode ==
    /\ pc = "decoder" /\ dec # <<>> /\ tool.encodes
    /\ dec' = Tail(dec)
    /\ pos' = pos + 1
    /\ \/ /\ ~Full(enc)
          /\ buf' = Buffer
          /\ content' = [content EXCEPT ![Buffer] = Head(dec) + 1]
          /\ enc' = Append(enc, [pts |-> IF tool.name = "h264ToTs" THEN pos ELSE Head(dec),
                                 buf |-> Buffer])
          /\ pc' = "encoder"
          /\ UNCHANGED failures
       \/ /\ IF Full(enc) THEN UNCHANGED failures ELSE Fail
          /\ pc' = AfterError
          /\ UNCHANGED <<enc, buf, content>>
    /\ UNCHANGED <<tool, source, delay, n, taken, emptying, out, broken>>

\* EAGAIN or the end; then a tool that emptied its decoder empties the encoder.
NoFrame ==
    /\ pc = "decoder" /\ MayGiveNone(dec, "decoder")
    /\ IF "decoder" \in emptying
       THEN pc' = "encoder" /\ emptying' = emptying \cup {"encoder"}
       ELSE pc' = "next" /\ UNCHANGED emptying
    /\ UNCHANGED <<tool, source, delay, n, taken, dec, enc, buf, content, pos, out,
                   failures, broken>>

DecoderFails ==
    /\ pc = "decoder" /\ Fail
    /\ pc' = tool.onError
    /\ UNCHANGED <<tool, source, delay, n, taken, dec, enc, emptying, buf, content, pos,
                   out, broken>>

\* The end of the file: h264ToTs.cpp empties its decoder; decodeVideo.cpp returns
\* before the line that would.
EndOfFile ==
    /\ pc = "next" /\ tool.decodes /\ n = Len(source)
    /\ \/ tool.atEnd # "flush" /\ pc' = tool.atEnd /\ UNCHANGED emptying
       \/ tool.atEnd = "flush" /\ pc' = "decoder" /\ emptying' = {"decoder"}
    /\ UNCHANGED <<tool, source, delay, n, taken, dec, enc, buf, content, pos, out,
                   failures, broken>>

Next ==
    \/ Open \/ SendFrame \/ SendFrameFails \/ FlushEncoder
    \/ ReceivePacket \/ NoPacket \/ EncoderFails
    \/ SkipPacket \/ SendPacket \/ SendPacketFails
    \/ ReceiveFrame \/ FilterFails \/ Reencode \/ NoFrame \/ DecoderFails \/ EndOfFile

\* A tool is one thread that never waits for another.
Spec == Init /\ [][Next]_vars /\ WF_vars(Next)

-----------------------------------------------------------------------------
(* Properties                                                                 *)

Ended == pc \in {"done", "failed"}

\* A packet has more than one frame.
Bursts == \E i \in DOMAIN source : source[i].frames > 1

(* No frame comes out twice; and when a tool ended in which no call failed,   *)
(* every frame it read or made came out, however the codecs keep frames and   *)
(* give them in bursts: none was refused because output was waiting, and none *)
(* is left inside.  Left inside are only the last frames of the decoders that *)
(* are not flushed, in decodeVideo.cpp, whose flush is behind an endless      *)
(* loop, in drawbox_filter.cpp and in playVideo, and all frames of x264 when  *)
(* they are no more than its delay: encode_with_libx264.cpp stops at the      *)
(* first 0, for which line 27 asks for 56 frames; refused, packets behind     *)
(* one of several frames in the two that ask once for each packet             *)
(* (encode_video.cpp:263, codecEncoderAndMutex.cpp:171-185,                   *)
(* h264ToTs.cpp:227-249, encode_with_libx264.cpp:27, 82-93,                   *)
(* drawbox_filter.cpp:169, native-lib.cpp:266).                               *)
NothingHeldBack ==
    /\ \A i, j \in DOMAIN out : i # j => out[i].pts # out[j].pts
    /\ Ended /\ failures = 0 /\ ~("decoder" \in tool.once /\ Bursts) =>
           /\ NeverFilled \/ enc = <<>>
           /\ tool.encodes => dec = <<>>
           /\ {out[i].pts : i \in DOMAIN out} \cup {enc[i].pts : i \in DOMAIN enc} \cup Range(dec)
              = 0..(taken - 1)

(* What is encoded under a time is the frame that was made for it, though the *)
(* encoder keeps frames while the next ones are made: a frame that it holds   *)
(* is not written into (encode_video.cpp:251-255, audioEncoder.cpp:225-228).  *)
(* A file that is too short repeats its last frame.  audio_resample.cpp       *)
(* copies into the frame without asking whether it is held (336).             *)
EncodedAsMade ==
    tool.name # "audio_resample" /\ failures = 0 =>
        \A i \in DOMAIN out :
            out[i].content = IF tool.atEnd = "old" /\ out[i].pts >= Len(source)
                             THEN Len(source) ELSE out[i].pts + 1

(* Every tool ends, also when a codec fails; except encode_with_libx264.cpp,  *)
(* which waits for the result 0 (82-93), when the encoder fails at the end.   *)
ToolsEnd == <>(Ended \/ (broken /\ tool.onFlush = "again"))
=============================================================================
