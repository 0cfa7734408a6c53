-------------------------------- MODULE Remux --------------------------------
(* The tools that copy the packets of files into another container:           *)
(* code/basic/remux, code/excercise/{concat,merge,split}.c and the recorders  *)
(* of code/device.  They share a course: open the inputs, make the output's   *)
(* streams, write its header, copy packet by packet, write its trailer; and   *)
(* differ in what goes where, with which time, and in which results they look *)
(* at.  Which tool runs, on which files, is chosen at the start.              *)
EXTENDS Integers, Sequences, FiniteSets, SequencesExt

CONSTANTS
    Cases,          \* [tool, files]: a file has the types of its streams and its
                    \* packets, each with stream, dts and pts, and may not open;
                    \* num / den is its time base over the output's
    AudioStart,     \* concat.c: offsetAudio at the start, 13000
    EndTime,        \* cutVideo.cpp: endtime
    MaxReads,       \* remuxing-h264.cpp, record_*.cpp: packets read
    MaxFailures     \* bound: writes that fail

ASSUME RemuxAssumption ==
    /\ AudioStart \in Nat /\ EndTime \in Nat /\ {MaxReads, MaxFailures} \subseteq Nat

Programs == {"remuxing", "cutVideo", "remuxing-h264", "remuxing-from-memory",
             "extractAudio", "extractVideo", "concat", "merge", "split",
             "record_audio", "record_video"}

Input == [types : Seq({"video", "audio", "other"}), opens : BOOLEAN,
          packets : Seq([stream : Nat, dts : Int, pts : Int]),
          num : Nat \ {0}, den : Nat \ {0}]

\* A file has streams, and the packets of a stream have rising decoding times.  Tools
\* other than concat and merge take one file, and the device of a recorder has one
\* stream.
ASSUME CasesAssumption ==
    \A c \in Cases :
        /\ c.tool \in Programs
        /\ c.files \in Seq(Input) /\ c.files # <<>>
        /\ c.tool \notin {"concat", "merge"} => Len(c.files) = 1
        /\ \A f \in DOMAIN c.files :
               LET types   == c.files[f].types
                   packets == c.files[f].packets
               IN  /\ types # <<>>
                   /\ c.tool \in {"record_audio", "record_video"} => Len(types) = 1
                   /\ \A n \in DOMAIN packets : packets[n].stream \in DOMAIN types
                   /\ \A m, n \in DOMAIN packets :
                          m < n /\ packets[m].stream = packets[n].stream
                              => packets[m].dts < packets[n].dts

VARIABLES
    tool, files,
    phase,          \* "open", "header", "copy", "trailer"; "done"; "failed": ended
                    \* without a trailer; "crashed": what follows is undefined
    streams,        \* the output's streams: the types their parameters were copied from
    header,         \* whether writing the header succeeded
    cur,            \* the file being read
    at,             \* packets read of each file
    round,          \* merge.c: hasRemaining
    reads,          \* packets read
    steps,          \* remuxing-h264.cpp: steps
    offset,         \* concat.c: offsetAudio and offsetVideo, by output stream
    duration,       \* concat.c: audioDuration and videoDuration
    out,            \* what was given to the muxer, and its result
    leaked          \* history: packets that were never released
vars == <<tool, files, phase, streams, header, cur, at, round, reads, steps,
          offset, duration, out, leaked>>

Init ==
    /\ \E c \in Cases : tool = c.tool /\ files = c.files
    /\ phase = "open" /\ streams = <<>> /\ header = FALSE
    /\ cur = 1 /\ at = [f \in DOMAIN files |-> 0] /\ round = FALSE
    /\ reads = 0 /\ steps = 0
    /\ offset = <<AudioStart, 0>> /\ duration = <<0, 0>>
    /\ out = <<>> /\ leaked = 0

-----------------------------------------------------------------------------
(* Streams                                                                    *)

Types == files[cur].types

\* avformat_query_codec.
Supported(type) == type \in {"video", "audio"}

\* av_find_best_stream: the first of its type, or none.
Best(types, type) == SelectInSeq(types, LAMBDA t : t = type)

\* The one stream that a tool copies.
Selected(types) ==
    CASE tool = "extractAudio" -> Best(types, "audio")
      [] tool = "split" -> IF Len(types) > 1 THEN 2 ELSE 0
      [] OTHER -> Best(types, "video")

SelectsOne == tool \in {"remuxing-h264", "remuxing-from-memory", "extractAudio",
                        "extractVideo", "split"}

Opened == {f \in DOMAIN files : files[f].opens}

\* The k-th of a set of numbers.
Nth(S, k) == CHOOSE i \in S : Cardinality({j \in S : j <= i}) = k

\* The streams that are not left out.
Kept == {s \in DOMAIN Types : Supported(Types[s])}

\* The calls of avformat_new_stream.
NewStreams ==
    CASE tool \in {"remuxing", "cutVideo"} ->
           [i \in 1..Cardinality(Kept) |-> Types[Nth(Kept, i)]]
      [] SelectsOne -> IF Selected(Types) = 0 THEN <<>> ELSE <<Types[Selected(Types)]>>
      [] tool = "concat" -> <<"audio", "video">>
      [] tool = "merge" ->
           [i \in 1..Cardinality(Opened) |-> files[Nth(Opened, i)].types[1]]
      [] OTHER -> <<Types[1]>>

\* Mutant of Mapped: streams that are left out keep their numbers.
MappedByIndex(types, s) == IF Supported(types[s]) THEN s ELSE 0

\* stream_mapping, counted from 1; 0 for a stream that is left out.
Mapped(types, s) ==
    IF Supported(types[s]) THEN Cardinality({r \in 1..s : Supported(types[r])}) ELSE 0

\* The output stream of a packet of stream s, or 0.
Target(s) ==
    CASE tool \in {"remuxing", "cutVideo"} -> Mapped(Types, s)
      [] SelectsOne -> IF s = Selected(Types) THEN 1 ELSE 0
      [] tool = "concat" -> IF s = Best(Types, "audio") THEN 1 ELSE 2
      [] tool = "merge" -> cur
      [] OTHER -> s

-----------------------------------------------------------------------------
(* Opening                                                                    *)

\* getInput of merge.c and main of split.c give avformat_open_input a pointer that
\* they have not set.
OpensUnset == tool \in {"merge", "split"}

\* An index that av_find_best_stream did not find is used.
UsesMissingStream ==
    \/ tool = "remuxing-h264" /\ Best(Types, "video") = 0
    \/ tool = "concat" /\ 0 \in {Best(Types, "audio"), Best(Types, "video")}

\* stream_mapping has four places.
OverflowsMapping == tool \in {"remuxing", "cutVideo"} /\ Len(Types) > 4

MissingStreamChecked == tool \in {"remuxing-from-memory", "extractAudio", "extractVideo"}

\* The inputs open and the output's streams are made; concat and merge do without
\* inputs that do not open, concat not without the first.
Open ==
    /\ phase = "open"
    /\ IF (tool # "merge" /\ 1 \notin Opened) \/ (MissingStreamChecked /\ NewStreams = <<>>)
       THEN phase' = "failed" /\ UNCHANGED streams
       ELSE /\ streams' = NewStreams
            /\ phase' \in (IF UsesMissingStream \/ OverflowsMapping THEN {"crashed"}
                           ELSE {"header", "failed"})
    /\ UNCHANGED <<tool, files, header, cur, at, round, reads, steps, offset, duration,
                   out, leaked>>

\* extractVideo.c closes its output, which it has not set, when the input does not open.
ClosesUnset == tool = "extractVideo" /\ 1 \notin Opened

OpenCrashes ==
    /\ phase = "open" /\ (OpensUnset \/ ClosesUnset)
    /\ phase' = "crashed"
    /\ UNCHANGED <<tool, files, streams, header, cur, at, round, reads, steps, offset,
                   duration, out, leaked>>

\* A plain file has neither header nor trailer.
PlainFile == tool \in {"extractVideo", "record_video"}
IgnoresHeader == tool \in {"extractAudio", "split", "concat", "merge", "record_audio"}

\* Mutant of HeaderFails: every tool goes on.
HeaderFailsUnseen ==
    /\ phase = "header" /\ ~PlainFile
    /\ phase' = "copy"
    /\ UNCHANGED <<tool, files, streams, header, cur, at, round, reads, steps, offset,
                   duration, out, leaked>>

HeaderFails ==
    /\ phase = "header" /\ ~PlainFile
    /\ phase' = IF IgnoresHeader THEN "copy" ELSE "failed"
    /\ UNCHANGED <<tool, files, streams, header, cur, at, round, reads, steps, offset,
                   duration, out, leaked>>

\* avformat_write_header, which a muxer without streams refuses.
WriteHeader ==
    /\ phase = "header"
    /\ streams # <<>> \/ PlainFile
    /\ header' = TRUE
    /\ phase' = IF tool = "cutVideo" THEN "seek" ELSE "copy"
    /\ UNCHANGED <<tool, files, streams, cur, at, round, reads, steps, offset, duration,
                   out, leaked>>

\* av_seek_frame: reading goes on at any packet, or it fails.
Seek ==
    /\ phase = "seek"
    /\ \/ /\ phase' = "copy"
          /\ \E n \in 0..Len(files[1].packets) : at' = <<n>>
       \/ phase' = "failed" /\ UNCHANGED at
    /\ UNCHANGED <<tool, files, streams, header, cur, round, reads, steps, offset,
                   duration, out, leaked>>

-----------------------------------------------------------------------------
(* Copying                                                                    *)

\* The nearest, and of two the one away from zero.
av_rescale_q(t, num, den) ==
    LET Nearest(n) == (2 * n * num + den) \div (2 * den)
    IN  IF t < 0 THEN -Nearest(-t) ELSE Nearest(t)

\* From the time base of a file to the output's.
Rescale(f, t) == av_rescale_q(t, files[f].num, files[f].den)

Packet == files[cur].packets[at[cur] + 1]

Counts == tool \in {"remuxing-h264", "record_audio", "record_video"}

Reads ==
    /\ phase = "copy" /\ tool # "merge"
    /\ files[cur].opens
    /\ at[cur] < Len(files[cur].packets)
    /\ Counts => reads < MaxReads
    /\ at' = [at EXCEPT ![cur] = @ + 1]
    /\ reads' = reads + 1

\* A packet of another stream: released, except by split.c.
Skip ==
    /\ Reads /\ Target(Packet.stream) = 0
    /\ leaked' = IF tool = "split" THEN leaked + 1 ELSE leaked
    /\ UNCHANGED <<tool, files, phase, streams, header, cur, round, steps, offset,
                   duration, out>>

BehindEnd == tool = "cutVideo" /\ Packet.pts > EndTime

\* cutVideo ends at the first packet behind the end, and does not release it.
CutHere ==
    /\ Reads /\ Target(Packet.stream) # 0 /\ BehindEnd
    /\ phase' = "trailer"
    /\ leaked' = leaked + 1
    /\ UNCHANGED <<tool, files, streams, header, cur, round, steps, offset, duration, out>>

\* The time that a time t of the packet becomes.
Time(t) ==
    CASE tool = "remuxing-h264" -> Rescale(cur, steps)
      [] tool = "concat" -> offset[Target(Packet.stream)] + Rescale(cur, t)
      [] tool \in {"record_audio", "record_video", "extractVideo"} -> t
      [] OTHER -> Rescale(cur, t)

\* The packet as it is given to the muxer.
Written(ok) ==
    [stream |-> Target(Packet.stream), file |-> cur, n |-> at[cur] + 1,
     pts |-> Time(Packet.pts),
     dts |-> Time(IF tool = "extractAudio" THEN Packet.pts ELSE Packet.dts), ok |-> ok]

MayFail == Cardinality({i \in DOMAIN out : ~out[i].ok}) < MaxFailures

StopsAtFailure == tool \in {"remuxing", "cutVideo", "remuxing-h264", "remuxing-from-memory"}

\* Mutant of EndOfPacket: concat.c takes the start of the last packet for its end.
EndOfPacketAtStart(p) == p.pts

\* When the packet ends, for the offsets of concat.c.
EndOfPacket(p) == p.pts + Rescale(cur, 1)

\* A packet is written; av_write_frame does not take one that it cannot write.
Copy(ok) ==
    /\ Reads /\ Target(Packet.stream) # 0 /\ ~BehindEnd
    /\ ok \/ MayFail
    /\ out' = Append(out, Written(ok))
    /\ steps' = steps + 1
    /\ duration' = IF tool = "concat"
                   THEN [duration EXCEPT ![Target(Packet.stream)] = EndOfPacket(Written(ok))]
                   ELSE duration
    /\ phase' = IF ~ok /\ StopsAtFailure THEN "trailer" ELSE phase
    /\ leaked' = IF ~ok /\ tool = "remuxing-from-memory" THEN leaked + 1 ELSE leaked
    /\ UNCHANGED <<tool, files, streams, header, cur, round, offset>>

\* The last packet, or the last that is asked for; concat goes on with the next file.
EndOfFile ==
    /\ phase = "copy" /\ tool # "merge"
    /\ \/ ~files[cur].opens
       \/ at[cur] = Len(files[cur].packets)
       \/ Counts /\ reads = MaxReads
    /\ IF tool = "concat" /\ cur < Len(files)
       THEN cur' = cur + 1 /\ UNCHANGED phase
       ELSE phase' = "trailer" /\ UNCHANGED cur
    /\ IF tool = "concat" /\ files[cur].opens
       THEN offset' = duration /\ duration' = <<0, 0>>
       ELSE UNCHANGED <<offset, duration>>
    /\ UNCHANGED <<tool, files, streams, header, at, round, reads, steps, out, leaked>>

\* merge.c counts the inputs that opened, and looks at as many from the first on.
MixSize == Cardinality(Opened)

MergeCopies(ok) ==
    /\ phase = "copy" /\ tool = "merge" /\ cur \in 1..MixSize \cap Opened
    /\ IF at[cur] = Len(files[cur].packets)
       THEN ok /\ UNCHANGED <<at, round, reads, out>>
       ELSE /\ ok \/ MayFail
            /\ out' = Append(out, Written(ok))
            /\ at' = [at EXCEPT ![cur] = @ + 1]
            /\ round' = TRUE
            /\ reads' = reads + 1
    /\ cur' = cur + 1
    /\ UNCHANGED <<tool, files, phase, streams, header, steps, offset, duration, leaked>>

\* One of the inputs did not open: the place of its context was never set.
MergeMeetsHole ==
    /\ phase = "copy" /\ tool = "merge" /\ cur \in 1..MixSize \ Opened
    /\ phase' = "crashed"
    /\ UNCHANGED <<tool, files, streams, header, cur, at, round, reads, steps, offset,
                   duration, out, leaked>>

MergeRoundEnds ==
    /\ phase = "copy" /\ tool = "merge" /\ cur = MixSize + 1
    /\ phase' = IF round THEN phase ELSE "trailer"
    /\ cur' = 1
    /\ round' = FALSE
    /\ UNCHANGED <<tool, files, streams, header, at, reads, steps, offset, duration,
                   out, leaked>>

\* av_write_trailer, and the contexts are freed.
WriteTrailer ==
    /\ phase = "trailer"
    /\ phase' = "done"
    /\ UNCHANGED <<tool, files, streams, header, cur, at, round, reads, steps, offset,
                   duration, out, leaked>>

Begin == Open \/ HeaderFails \/ WriteHeader
CopyAll == (\E ok \in BOOLEAN : Copy(ok)) \/ EndOfFile \/ WriteTrailer

\* The programs: the main of each tool.
remuxing == tool = "remuxing" /\ (Begin \/ Skip \/ CopyAll)
cutVideo == tool = "cutVideo" /\ (Begin \/ Seek \/ Skip \/ CutHere \/ CopyAll)
remuxing_h264 == tool = "remuxing-h264" /\ (Begin \/ Skip \/ CopyAll)
remuxing_from_memory == tool = "remuxing-from-memory" /\ (Begin \/ Skip \/ CopyAll)
extractAudio == tool = "extractAudio" /\ (Begin \/ Skip \/ CopyAll)
extractVideo == tool = "extractVideo" /\ (Begin \/ OpenCrashes \/ Skip \/ CopyAll)
concat == tool = "concat" /\ (Begin \/ CopyAll)
split == tool = "split" /\ (Begin \/ OpenCrashes \/ Skip \/ CopyAll)
record_audio == tool = "record_audio" /\ (Begin \/ CopyAll)
record_video == tool = "record_video" /\ (Begin \/ CopyAll)

MergeRounds == (\E ok \in BOOLEAN : MergeCopies(ok)) \/ MergeMeetsHole \/ MergeRoundEnds
merge == tool = "merge" /\ (Begin \/ OpenCrashes \/ MergeRounds \/ WriteTrailer)

Next ==
    \/ remuxing \/ cutVideo \/ remuxing_h264 \/ remuxing_from_memory
    \/ extractAudio \/ extractVideo \/ concat \/ merge \/ split
    \/ record_audio \/ record_video

Spec == Init /\ [][Next]_vars

-----------------------------------------------------------------------------
(* Properties                                                                 *)

Source(w) == files[w.file].packets[w.n]
SourceType(w) == files[w.file].types[Source(w).stream]

\* concat.c takes every stream but the audio for video, merge.c every stream of a
\* file for its first.
Strays(w) ==
    LET types == files[w.file].types
    IN  \/ tool = "concat" /\ Source(w).stream \notin {Best(types, "audio"), Best(types, "video")}
        \/ tool = "merge" /\ Source(w).stream # 1

(* A packet goes to an output stream that was made with the parameters of its *)
(* own stream, and within that stream packets keep the order of their file    *)
(* and none comes twice, also when streams are left out, inputs do not open   *)
(* or writes fail (remuxing.cpp:104-131, 165-172, merge.c:25-38, 54-72,       *)
(* concat.c:98-112, 136-156).                                                 *)
PacketsInTheirStreams ==
    /\ \A i \in DOMAIN out :
           /\ out[i].stream \in DOMAIN streams
           /\ streams[out[i].stream] = SourceType(out[i]) \/ Strays(out[i])
    /\ \A i, j \in DOMAIN out : i < j =>
           /\ out[i].file = out[j].file => out[i].n < out[j].n
           /\ tool = "concat" => out[i].file <= out[j].file

\* The packets of these types are stored in the order in which they are shown.
ShownAsStored(f, types) ==
    \A p \in Range(f.packets) : f.types[p.stream] \in types => p.pts = p.dts

\* Files for which the times of concat.c and merge.c can follow one another; sound is
\* always shown as it is stored.
Follow ==
    \A f \in Opened :
        /\ tool = "extractAudio" => ShownAsStored(files[f], {"audio"})
        /\ tool = "concat" => /\ {files[f].types[p.stream] : p \in Range(files[f].packets)}
                                    = {"video", "audio"}
                              /\ IsInjective(files[f].types)
                              /\ ShownAsStored(files[f], {"video", "audio"})
                              /\ \A p \in Range(files[f].packets) : p.pts >= 0
        /\ tool = "merge" => Cardinality({p.stream : p \in Range(files[f].packets)}) <= 1

\* The output counts time at least as finely as the inputs.
Finer == \A f \in Opened : files[f].num >= files[f].den

(* The times of a stream never fall, and they rise where the output counts    *)
(* time at least as finely as the inputs; where it counts more coarsely, as   *)
(* the FLV of split.c mostly does, packets may get one time.  In a            *)
(* concatenation this needs that each file has one stream of each kind with   *)
(* packets, since a stream without packets starts at 0 again, and that        *)
(* pictures are stored as they are shown (concat.c:135-159); in a merged      *)
(* file, that the inputs have one stream each.                                *)
TimesRise ==
    Follow =>
        \A i, j \in DOMAIN out :
            i < j /\ out[i].stream = out[j].stream =>
                /\ out[i].dts <= out[j].dts
                /\ Finer => out[i].dts < out[j].dts

(* A trailer ends a file only if its header was written, unless the result is *)
(* not looked at; and then, if no write failed and the tool read to the end,  *)
(* it holds every packet whose type has a stream, where a tool that looks for *)
(* one stream finds no second of its type.  Nothing but what split.c skips,   *)
(* one packet behind the end of the cut and one that was not written stays    *)
(* unreleased.                                                                *)
FileComplete ==
    /\ phase = "done" => header \/ IgnoresHeader
    /\ phase = "done" /\ (\A i \in DOMAIN out : out[i].ok)
         /\ tool # "cutVideo" /\ ~(Counts /\ reads = MaxReads)
         /\ (SelectsOne => IsInjective(files[1].types)) =>
           \A f \in Opened : \A n \in DOMAIN files[f].packets :
               files[f].types[files[f].packets[n].stream] \in Range(streams) =>
                   \E i \in DOMAIN out : out[i].file = f /\ out[i].n = n
    /\ leaked = 0 \/ tool = "split" \/ (leaked = 1 /\ phase \in {"trailer", "done"})
=============================================================================
