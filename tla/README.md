# Verification of ffmpeg_learning

TLA+ models of the stateful parts of this repository, the TLC configurations
that check them on small instances, and TLAPS proofs for the parts where a small
instance is not enough. The repository is a collection of programs that grew out
of learning FFmpeg, SDL and network programming; most of its files are one
`main` each. Modelled are the programs that keep state across threads, callbacks,
sockets, messages or calls of a codec.

Run everything from this directory:

    tlc -config PacketQueue.cfg PacketQueue.tla      # and so on, see the table of runs
    tlapm PacketQueueProofs.tla                      # likewise the other *Proofs modules

`PROJECT.json` lists the components, the runs, the mutants that show that each
property can fail, which lines of the source every definition stands for, the
hazards of the code and the theorems.

## 1. The system

| Component | Source | State it keeps | Operations | What is hard | What makes it right |
|---|---|---|---|---|---|
| Packet queue | `code/sdl/thread_player.cpp` 119-197 | a vector, two counting semaphores, a mutex | `enqueue`, `dequeue` (blocking, or 500 ms), `flush`, destructor | the semaphores and the lock are taken in separate steps by several threads | bounded, first in first out, nothing lost or doubled |
| Threaded player | `code/sdl/thread_player.cpp` | `quit`, `wg`, `VideoStream`, two packet queues, a frame queue, SDL's events | `remux_thread`, `video_decode_thread`, `read_audio_callback`, the event loop of `main` | four threads; publication without locks; ending in the right order | the end waits for the threads; frames are drawn; the window closes |
| The same without audio | `code/sdl/thread_player_video_only.cpp` | the same less audio | the same; the loop ends at the first `THREAD_QUIT` | the return of `main` under a running thread | the window closes |
| Single-thread players | `code/sdl/simple_player.c`, `simple_player2.cpp`, `pcm_player.c`, `yuv_player.c` | a queue with a condition variable, a decoder, the samples of a call | read loop, audio callback, frame timer, teardown | the callback against the teardown; sizes that do not match; calls of the decoder that fail; the flush | what was read is heard and shown in order; nothing is closed under a thread |
| Select echo server | `webrtc/basic/async/tcp_server_select.cpp` | `IO_Set`: slots, two maxima, two sets, two counts | `select`, `accept` + `add_client`, `check_clients`, `echo` | clients come and go between the calls; numbers of descriptors are reused | every client is watched and looked at; no starvation |
| Epoll echo server | `webrtc/basic/async/tcp_server_epoll.cpp` | the epoll set, a client count | `epoll_wait`, `accept`, `echo`, `remove_client` | edge-triggered events against single reads | no stale event; who leaves is removed |
| RTP packetizer, NAL reader | `webrtc/rtsp_server/rtp.h`, `rtsp_*server*.cpp` | sequence number, timestamp, position in the file | `copy_nal_from_file`, `h264nal2rtp_send` | sizes at the edge of a packet, wrap-around, reset | units reassemble to what was in the file |
| RTSP servers | the same three programs | one client's session, a global reply buffer | OPTIONS, DESCRIBE, SETUP, PLAY | requests cut by `recv`, a client that leaves at any point | each is answered what it asked; the server survives and serves the next |
| RTSP relay | `webrtc/rtsp_server/proxy.cpp`, `network_io.cpp` | framing position, fragments, `g_inception` | relay thread, `RTSPReader`, command connection | packets cut by reads, a flag set by another thread, sends that block | packets are found where they are; each packet has its number; the thread ends with its peers |
| H.264 reader | `code/basic/h264` | a buffer and a file position | `ReadNalu`, `GetRBSP`, bit reads | start codes across reads, escaped bytes | the units are the ones in the file; payloads read back |
| Tools that copy packets | `code/basic/remux`, `code/excercise/{concat,merge,split}.c`, `code/device` | streams, offsets and times, a position in each input | open, header, packet, trailer | streams left out, inputs of different length, failing writes, times across files | packets in their streams, in order, all of them, with times that do not fall |
| Tools that code | `code/basic/encode_decode`, `decodeVideo.cpp`, `audio_resample.cpp`, `filter/drawbox_filter.cpp`, `code/excercise/{audioEncoder,codecEncoderAndMutex,h264ToTs}.cpp`, the Android player's `playVideo` | what a codec holds, the frame's buffer | send, receive, flush | a codec gives none, one or several outputs and keeps some | every frame comes out once, as it was made; the tool ends |

Not modelled: see section 6. Interaction: within a program the parts share memory
(`VideoStream`, the queues, `quit`, `g_inception`, `g_buffer`) or SDL's event
queue; the servers talk to peers over sockets; the tools call a codec or a muxer
that keeps state of its own. No two programs share state, so each program has its
own modules; where several programs are variants of one course, one module has
the course and a variable, chosen at the start, says which of them runs.

## 2. The modules

| Module | What it is |
|---|---|
| `BoundedFifo` | Abstract specification: what a packet queue promises, without semaphores, locks or calls. |
| `PacketQueue` | `class Queue`, one step per SDL call; refines `BoundedFifo`. |
| `ThreadPlayer` | The four threads of the player, with a queue reduced to the number of its packets, which is what `PacketQueue` justifies. |
| `ThreadPlayerVideoOnly` | The variant without audio: `ThreadPlayer` with its two parameters fixed. |
| `SimplePlayer` | `simple_player.c` and `simple_player2.cpp`: main loop, decoder, audio callback, teardown. |
| `FilePlayer` | `pcm_player.c` and `yuv_player.c`: the device or the timer thread, SDL's events, the end. |
| `MCSimplePlayer` | Both, with the files TLC plays. |
| `SelectServer` | The select echo server and its peers. |
| `EpollServer` | The epoll echo server, the kernel's ready list, and its peers. |
| `MCEchoServers` | One of the two, chosen at the start (`polls`); the other keeps its initial state. |
| `NalReader` | `RTSPSource`: a file cut into NAL units at its start codes, one step per byte. |
| `AnnexBReader` | The same job as `code/basic/h264` does it, in blocks, and what it reads from a unit. |
| `MCNalReader` | Both readers on the same files. |
| `RtpStream` | The loop that answers PLAY, and `h264nal2rtp_send`, in its three copies, and a receiver. |
| `RtspServer` | The three RTSP servers and their clients. |
| `RtspRelay`, `MCRtspRelay` | The relay with its reader, its interception and its commands; the streams TLC plays. |
| `MCRtspServers` | The servers or the relay, chosen by `Relays`; the other keeps its initial state. |
| `Remux` | The eleven tools that copy packets. |
| `Mp4ToAnnexB` | `utils.c`: the form in which `extractVideo.c` writes a packet, as operators. |
| `MCRemux` | The files TLC gives to `Remux`. |
| `Transcode` | The nine tools that decode or encode. |
| `MCTools` | `Remux` or `Transcode`, chosen at the start. |
| `*Proofs` | Inductive invariants and theorems of the module they are named for; `EchoServerProofs` of `SelectServer` and `EpollServer`, `RtspServerProofs` of `RtspServer` and `RtspRelay`, `ToolsProofs` of `MCTools` (section 4). |

### PacketQueue

`enqueue` and `dequeue` are cut at every SDL call: `Enqueue` (allocation and
`av_packet_move_ref`), `WaitSlot`, `Lock`, `AppendPacket`, `Unlock`, `PostItem`;
`Dequeue`, `WaitItem` or `WaitItemTimedOut`, `Lock`, `TakePacket`, `Unlock`,
`PostSlot`. `pc[t]` is the call thread t is about to make. `fresh`, `hand`,
`delivered` and `discarded` follow each packet from the demuxer to its release;
they are the history that the properties speak of. `EnqueueNoMemory` is the
branch in which `av_packet_alloc` fails. `Destroy` is `~Queue`, which its owner
may call only when no thread is inside a call: `QueuesOutliveThreads` of
`ThreadPlayer` is that obligation.

### ThreadPlayer

| Model | Code |
|---|---|
| `remux`, `Remux...` | `remux_thread`, 385-506 |
| `video`, `Video...` | `video_decode_thread`, 508-584 |
| `audio`, `Audio...` | `read_audio_callback` and `audio_decode`, in SDL's audio thread |
| `main`, `Handle...`, `DestroyWindow`, `CloseAudio` | `main`, 623-760 |
| `events` | SDL's event queue, in order |
| `video_decoder`, `audio_decoder`, `start_time_ms` | the fields of `VideoStream` that the demuxer publishes |
| `video_queue`, `audio_queue`, `frame_queue` | how many packets or frames each queue holds |

Every assignment to a shared field is a step of its own. `quit` and the fields
of `VideoStream` are plain variables shared without a lock; the model takes each
read and write as atomic and in program order, which is what the builds of this
program on x86 and ARM do for aligned words with an opaque call in between. What
the decoders return is nondeterministic: a frame, no frame, or an error.

`ThreadPlayerVideoOnly` sets `WithAudio = FALSE` and `WaitFor = 1`; a diff of the
two source files shows no other change that a step of the model could tell.

### SimplePlayer and FilePlayer

`SimplePlayer` takes one step per turn of main's loop and one per critical section
of the packet queue, with what follows it. `event` is the `SDL_Event` of main,
which it reads uninitialised when nothing was polled: any value at the start. The
audio thread is `idle`, about to `lock`, asleep in `SDL_CondWait` (`wait`) or with
a packet (`decode`); one `SDL_CondSignal` per packet wakes it. `Decode` copies
samples until the call's buffer or the packet is at its end; `need` and `heard`
are the `AUDIO_SIZE`, `AUDIO_INDEX` and output of one call. `VideoDecode` is
`video_decode` for a packet: sending it may fail, and so may any of the receives
(`ReceiveFails`), which leaves the frames behind it in the decoder; main goes on either
way. `EndOfFile` is the same for the empty packet at the end, where nobody asks again.
`failures` counts the calls for a packet that failed, `flush` says how the last one went,
and `sent` how many packets had a frame to give. The teardown frees
frames, then the window, then the state with its queue, and calls
`SDL_CloseAudio` last: `UseFreed` is the callback meeting what is gone, and ends
the process as a crash. `simple_player.c` is the same course without the audio
thread and with early returns that go through the same end.

`FilePlayer` has SDL's event queue with a capacity, because `yuv_player.c`'s
thread pushes an event per frame whether or not main keeps up, and an event that
is dropped may be the last one (`lost`). A block that `fread` does not fill ends
`yuv_player.c` at once, with no teardown (line 79).

### SelectServer

Each system call is a step, and `PeerConnects` and `PeerActs` may come between
any two. A descriptor is `free`, `silent`, or has `data`, `eof` or a `reset`
waiting. `accept` returns the lowest free descriptor, as POSIX says, so numbers
are reused at once. When `accept` fails, -1 goes through `add_client`:
`FD_SET(-1)` is undefined, and the model lets it either kill the process or mark
a bit that no `select` of this server looks at. A read from a reset connection
is followed by a `send`, whose SIGPIPE kills the server (`killed`).

### EpollServer

One step per system call of `main`, `echo`, `add_client` and `remove_client`;
`pc` is the next one. What the code cannot see is modelled from the rules of the
kernel: a descriptor is put on `ready` when something happens to it (`Wake`) or
when it is added with something already there; `epoll_wait` takes the first
`MAX_EVENTS` of the list that still have something, returns the level-triggered
listener to its end and lets the clients go, whose next entry needs a new event.
`life` follows a connection from `accept` to `close`; a reset is reported to one
call (`rst`), and the `send` after that raises SIGPIPE (`broken`). The sockets
are blocking, because `set_fd_noblock` uses `F_SETFD`: `Accept`, `Recv` and
`Send` have the guards of blocking calls. `polite` is chosen at the start: peers
that read the reply to each message, of at most one chunk, before they send,
close or reset; or peers that do as they like.

### NalReader, AnnexBReader and RtpStream

| Model | Code |
|---|---|
| `buffer`, `buffer_pos`, `Init`, `Reset` | `RTSPSource`, rtp.h 91-111 and 204-206 |
| `fread1`, `CanRead`, `Consume` | `fread1`, 119-128: the byte after the one it accounts for |
| `flag`, `HoldZero`, `KeepByte`, `ReturnUnit`, `ReturnError` | the switch of `copy_nal_from_file`, 143-197 |
| `ReadFromFile`, `EndPositions`, `ReadNalu`, `ReadLastNalu` | `AnnexBReader`, 32-131 |
| `Skipped`, `GetRBSP`, `ReadU`, `ReadUE`, `ReadSE` | `EBSP` 41-57, `BitStream` 21-65 |
| `variant`, `BytesToCut`, `Continues` | the three copies of `h264nal2rtp_send` |
| `seq_num`, `ts_current`, `ResetsClock`, `ReadUnit` | the statics and `init`, rtsp_tcp_server.cpp 202-221 and 443 |
| `NextSeq`, `Packet` | `init_rtsp_header`, 156-172 |
| `fu_pack_num`, `last_fu_pack_size`, `Payload`, `SendPacket` | the fragments, 223-290 |

A byte of `NalReader` is 0, 1 or 2, which stands for every other value: the
automaton tells no more apart. `fread1` at the last position reads past the buffer,
so its byte is any. A unit of `RtpStream` is its length and a payload an interval of
its bytes, which is all that fragmentation depends on. `FirstLens = {0}`: the first
call of `copy_nal_from_file` returns an empty unit for a file that opens with a
four-byte start code (`UnitsAreTheFile`), and it is this empty unit that makes
`init==1` at the second call harmless. `variant` is chosen at the start and says which
copy of `h264nal2rtp_send` runs; the copies differ in how many bytes they cut
(`BytesToCut`), in whether the clock is ever reset (`ResetsClock`) and in whether a
failed `send` ends the unit (`Continues`). `got` and `part` are a receiver of the
packets as RFC 6184 has it, which drops a unit when a packet of it is missing: no code
of this repository, but what the packets are for.

### RtspServer

One step per `recv` with the handler it leads to, and per NAL unit streamed. A request
is two pieces, its first line and its headers, and a `recv` returns any number of the
pieces that have come: part of a request, one, or several run together, of which only
the first line counts and the last header of a name wins (`Requested`, `HeadersIn`,
`CSeq`, `Transport`). `g_buffer` is the global `Buffer`; `fault` is what the kernel will
report next on the served connection: an error once, then SIGPIPE, which the TCP servers
handle and the UDP server does not. `m_client_rtp` is not initialised: any port. The UDP
server's `RTSP` object opens a socket that nothing closes (`RtspSocket`).

### RtspRelay

One step per turn of a thread around its `recv`, which returns any number of
bytes, and one for the return of each send. `set_fd_noblock` puts `O_NONBLOCK` where it
has no effect (network_io.cpp 9-12), so the sockets block: in `send` and `write` the
thread is in a send to the player, of what it read or of a packet of the file, in
`forward` in one to the server. A send to an end that has gone returns or fails
(`Relay`); one to an open end returns when that end reads, which nobody can make it do
(`Taken`).

Sizes and numbers of an interleaved packet are one byte each, so that a header can be
cut; numbers wrap (`Wrap`). Bytes that stand before `in_buf` in memory and that the code
reads are `Garbage`. The channel byte is left out, because the relay never looks at it.
`Streams` is what the server sends, `StreamsAssumption` what the reader takes for
granted of it: packets whose size bytes are right, and text without a '$'. The packets may
be of any channel, RTP of several tracks or RTCP, with any number where an RTP packet has
its own. `synced` is where the reader took up the stream. `clean` is whether it did so
at a packet and no switch of `g_inception` fell while part of a header waited in
`prepend_buf`; other switches, also those inside a packet, are clean. `got` has what the
player was sent: of each packet the number and, for one of the file, where the interception
began that it belongs to (`since`).

### Remux, Mp4ToAnnexB and Transcode

`Remux` is the course the tools share: `Open`, `WriteHeader`, `Seek`, packet by
packet `Skip` or `Copy`, `EndOfFile`, `WriteTrailer`; operators named for a
decision (`Selected`, `Mapped`, `Target`, `Time`, `StopsAtFailure`, ...) say how a
tool differs, and one operator per tool (`remuxing`, `cutVideo`, ...) which of the
steps its `main` takes. Files are sequences of packets with stream, dts and pts;
any input may fail to open and any write may fail. A file carries its time base over
the output's as a ratio, `num / den`, above or below 1, and `av_rescale_q` rounds as the
library does. Memory that is read before it is set (the contexts of `merge.c` and
`split.c`, `dst_fd` of `extractVideo.c`) and a fifth stream behind `stream_mapping[4]` make
a crash possible (`OpenCrashes`, `ClosesUnset`, `OverflowsMapping`, `MergeMeetsHole`).

`Mp4ToAnnexB` computes on bytes: packets with length fields in, units with start
codes out; `NextUnit` is a turn of the loop of `h264_mp4toannexb`. `UnitsComeBack`
compares the output, cut at its start codes by an independent definition (`Cut`), with
the units that went in: over short lists in the `tools` run, for all in section 4. It asks
for the parameter sets where the comment at utils.c 212 does, before the first unit of type
5 if none are present, and allows them before further ones, where the code puts them too.
Lengths have four bytes, as the loop reads them: `length_size` is computed and not used.
When `h264_extradata_to_annexb` fails, what is written is `Undefined`.

`Transcode` has the tools as records, which say how often a codec is asked, what happens
when a call fails and at the end of the input. A codec is the sequence of frames it
keeps; it refuses input when it keeps more than its delay, may give none before that,
and gives the encoder's in any order. When it is emptied it gives none only when it
keeps none: libavcodec's wrappers, that of x264 too, go on until they have a packet or
the end. encode_with_libx264.cpp calls x264 itself, which returns 0 also with frames in
its pipeline, as long as it was given no more than its delay (`NeverFilled`). `content`
and `buf` follow what a frame's buffer holds, because the encoder refers to it until it
is done.

## 3. The runs

| Run | Instance | What it shows |
|---|---|---|
| `packet_queue` | 2 producers, 2 consumers, 3 packets, capacity 2, fair | places are accounted for in every interleaving, each step is a step of `BoundedFifo` or stutters, and every packet enqueued comes out or is released with the queue |
| `thread_player` | queues of 2, 3 packets, 2 frames a packet, 1 close, fair | queues outlive the threads that use them; after a close the loop ends or the demuxer is stranded; frames are drawn |
| `thread_player_quit` | queues of 1, 2 packets, without audio, violated | quit does not end the loop: the finding of section 5 |
| `video_only` | queues of 2, 3 packets, 2 frames, fair | in the variant the window always closes |
| `echo_servers` | select: 2 slots, 3 descriptors, backlog 2, 1 failure of `accept`; epoll: 2 descriptors, batches of 2 events, reads of 2 of at most 3; fair | clients lie below both maxima and the watched set is theirs; nobody is starved; no event of a batch is stale; with polite peers leavers are removed |
| `nal_reader` | every file of up to 8 bytes, and of up to 10 that open with 0001; blocks of 3; payloads of up to 6 bytes, numbers up to 62 | no byte is lost or doubled; both readers cut where an independent definition does; payloads and Exp-Golomb codes read back |
| `rtp_stream` | three copies, payload 3, 16-bit numbers cut to 3 bits, units of 0 to 8 bytes, 4 units, 2 streams, failing sends | a receiver puts together the units that were read, or what a copy is known to add; numbers and time stamps follow |
| `rtsp_server` | three programs, 2 clients, 3 methods, 2 ports, 2 requests a session, 3 sessions, 4 descriptors, fair | replies match requests, the UDP stream goes where it was asked, the TCP servers survive, who waits is served |
| `rtsp_relay` | three streams of 3 units, 3 commands, 2 sessions, fair | the relay ends, whatever its threads are doing when one side closes, unless it stays in a send to the other |
| `interception` | three such streams with text, misleading bytes, numbers that wrap and of two tracks, and one of 7 packets; a file of 5 fragments (a unit that fits, three fragments, one), 4 commands, 2 sessions | units found once wherever the reads cut; one packet for each of the server's, with the right number, across switches, also inside a packet; what is put in is the file from its beginning, each time it is switched on, and again when it ends |
| `simple_player` | four programs, files of up to 4 packets, delay 1, packets of 2 samples against calls of 3, fair | packets and samples in order, all frames shown but for those of failed calls, an orderly end |
| `tools` | eleven tools on all files of up to 3 packets with six layouts, and on some of five streams, to a finer output (3/2), and on some to a coarser one (1/2); nine tools with delays of 0, 1 and 3, files of up to 4 packets and 3 frames to make; 1 failure | packets in their streams, times that rise or, coarser, do not fall, complete files, units in the right form, nothing held back, frames as made, an end |

Bounds. Two producers and two consumers are the least for which two threads of
the same role race; three packets against a capacity of two fill the queue and
block a producer. The player's queues hold two packets so that full, half full
and empty differ; three packets fill a queue and leave one more to strand the
demuxer; one close is enough because `quit` never goes back. The select server has
one descriptor more than slots, so that the table is full and a number is reused,
and two slots so that the removed one is, and is not, the last. Two descriptors
of the epoll server and the listener are three candidates for a batch of two, so
that an event waits for the next batch while a number is closed and given away.
Eight bytes hold two start codes and a run of zeros longer than either; the
files of ten open with a code, so that two units fit behind it; blocks of 3 are
shorter than a start code, so that one lies across two or three of them. A payload
of 3 with units of 2, 3, 4, 5, 7 and 8 bytes has units that fit, that fill a packet,
that are cut into one, two and three fragments, with and without a rest; nine
packets wrap the number. Two clients of the RTSP servers are one that is served and
one that waits; two requests are SETUP and PLAY, or one that leaves something
behind for the next; a session and its socket less than `MaxFds` lets the UDP server
run out of descriptors in the third session. `From` and `To` (200 and 700 in the
code) are small so that both sources of the UDP server are read. Reads of at most 6
or 7 bytes in the relay are longer than a unit and shorter than two. Packets of 2 samples
against calls of 3 leave a rest in every second packet. Three packets of a file give
each order of two streams, before and behind the end of a cut; four of one stream
show what a delay of one holds back at the end; three frames against a delay of three are
never enough to fill x264, and one failure hits every call. With a ratio of 3/2 a rounded
time may only be stretched, with 1/2 two times become one.

`CHECK_DEADLOCK FALSE` is set everywhere: the programs end, or wait in `accept`,
`select` or `SDL_WaitEvent` for someone who may never come, or, as in the finding,
hang; liveness is what the temporal properties say.

Fairness. `PacketQueue`: a thread inside a call goes on when it can, and an idle
consumer calls `dequeue` again, as the loops of the decoder thread and the audio
callback do; no producer has to call. Of SDL's semaphores and mutex nothing
more is assumed than that a thread which can go on for ever does so: there are
finitely many packets, so no waiter is overtaken without end. `ThreadPlayer`,
`SimplePlayer`, `FilePlayer`: each thread, and the audio device, goes on when it can;
the user need not close the window. `SelectServer`, `EpollServer`, `RtspServer`,
`RtspRelay`: the server's thread goes on when its call can return; peers need do nothing, and
where a property needs them to leave (`EveryoneServed`) or one of them to have closed
(`RelayEnds`) it says so. A send of the relay to a peer that has gone can return; that one
to an open peer returns (`Taken`) is assumed nowhere, and `RelayEnds` names the thread that
stays in it for ever. `Transcode`: one thread, no waiting.

## 4. The proofs

`PacketQueueProofs` assumes `QueueAssumption`: finite, disjoint sets of
producers and consumers, and a positive capacity. The safety invariants are not
inductive on their own: that `m_data` is not empty at `take` follows from
counting, and the count is disturbed by every step. `IInv` is

- `TypeOK`,
- `Lifecycle`: a thread runs its own role's calls, `hand` is set exactly between
  allocation and append, and a destroyed queue has no thread inside,
- `Accounting`: free slots + counted items + threads between their `SemWait` and
  `SemPost` = capacity, and the length of the vector = counted items + threads
  whose packet is in it but not counted,
- `MutexOwned`.

`CountMove` says how the number of threads at a set of stages changes when one
thread moves, and every counting step rests on it. From `IInv`:
`NeverTakeFromEmpty` (the thread at `take` is itself counted in the length),
`WithinCapacity`, and the refinement `Spec => ImplementsFifo`, step by step
(`StepRefines`).

`ThreadPlayerProofs` assumes `PlayerAssumption`, and `WaitFor = 2` (the player
with audio) for the last two theorems. An event queue is treated as the set of
places of each type of event (`Pending`): `PushPending`, `PopPending` and
`PopCount` say what a push and a pop do to the places, and every step is a quiet
one, a push or a pop (`Kinds`). `IInv` adds to the checked invariants
- `Published`: what the demuxer has put in place at each of its stages, and that
  nothing is queued before the clock runs,
- `LoadComesFirst`: VIDEO_LOAD_EVENT is queued once and ahead of every frame's
  event, so that no frame's event is taken without a texture to draw it with,
- `FramesKnown`: `FramesAnnounced` also while the texture is still to come,
- `QuitComesLast`: the decoder thread's THREAD_QUIT is behind its frames' events,
- `LoopCounts`: the loop runs while `wg` is below `WaitFor`.

`QueuesSafe` and `LastFrameDrawn` follow by counting: `wg = 2` leaves no
THREAD_QUIT queued, so both threads have ended and nothing is in front of it.

`EchoServerProofs` is about the specifications of `SelectServer` and of `EpollServer`,
which `MCEchoServers` puts side by side. For the first it assumes `ServerAssumption`;
`IInv` adds to the checked invariants what `check_clients` keeps in its locals: a
removed slot is free and a removed descriptor is nobody's (`RemovedAreGone`), and what
`select` reported was watched (`ReportedWereWatched`). `HasMaximum` (a finite set of
numbers has a largest element, from the well-foundedness of strict inclusion) gives the
two `CHOOSE` expressions their meaning. `ReportedAreSlots` puts the reported descriptors
in bijection with slots, which is what `nReady` counts.

For the second it assumes `EpollParameters`, the `EpollAssumption` and
`ListenerAssumption` of `EpollServer`: finitely many descriptors, the listener below all
of them, and a positive batch. That no event of a batch is stale is kept by no step
alone: `accept` may put the number of a client closed a moment ago back into use.
`EpollInv` says why it does not matter:

- `ListsSound`: `epoll` lists a descriptor once and only while it is watched, except
  between `EPOLL_CTL_DEL` and `close`,
- `AtHand`: whether the descriptor at hand is watched, at each place of the server,
- `BatchCurrent`: what follows in the batch has something to read and is not at hand,
- `Counted`: `client_num` is the number of the watched and of the one being removed.

A number that `accept` returns was closed, so it is neither watched nor in a list. What
`epoll_wait` keeps of its list is a `SelectSeq`, an operator that takes an operator; the
model states what the proof needs of it as a relation (`Kept`: same members, same order).
`RemovalsSucceed` also follows: `EPOLL_CTL_DEL` never fails, which would end the server.

`NalReaderProofs` assumes that a file is a sequence of bytes, a block at least one
byte, payloads are sequences of bytes and numbers lie in 0..2^31-2
(`PayloadAssumption`). It has three invariants.

- `IInv` adds to `TypeOK` and `NothingLost` that the history `seen` is as long as
  `buffer_pos` and that a call's bytes lie behind its start. Each branch of the
  switch gives back exactly the zeros it holds, which is `NothingLost` in the step; at a
  return it becomes `ReturnsAtStartCode`, an action property.
- `UnitsInv` places the reader in the file: between two calls `buffer_pos` is the byte in
  front of the last byte of a start code, or of the file (`Located`); inside a call the
  bytes collected, then the zeros held back, are those behind the call's start, which is
  a start code or the opening of the file; and the units so far are those of the codes
  passed, by rank (`AsInFile`). A return adds one code to the codes passed, behind all
  others, so the ranks of the others stay. `UnitsAreTheFile`, and this part of the
  invariant, speak of the files the reader is made for (`Regular`): they open with 0001,
  have no four zeros in a row and do not end in two zeros. The other files are among the
  findings.
- `BlocksInv` places `AnnexBReader`: what it returned and what it has in its buffer are
  what it read, the cuts behind it are the file's, and in the buffer a unit begins with
  a start code. `CutsFound` is the step: the least position at which the buffer has a
  start code behind the first is the file's next cut, although the code's first zeros may
  have come with the block before. There is no exception here: every file is cut
  where its start codes are. That one of the readers always moves alone (`BesideAnnexB`)
  carries what holds of `NalReader` over to the module in which both run.

`PayloadsBack` has no invariant: it says of every payload and of every two numbers that
what `EBSP` and `BitStream` read is what was written. The operators are recursive
functions, and the induction theorems of the library cannot be instantiated; `CountingUp`
derives induction from the well-foundedness of `<`, and `Recursion` that a function
with the step of the definition exists, so that `CHOOSE` finds it.

- `GetRBSP` copies byte by byte, and whether it leaves one out depends on the two bytes
  before and the one behind. What `Escape` makes never ends in 0 0 3 (`Escapes`), so the
  byte behind decides of a 3 that was put in, and of no other (`NextByteCopied`).
- A code of n zeros holds n bits behind its first one: quotients by powers of two halve
  (`Halves`), so what is read so far is always a quotient of the number (`RestIsRead`).
- 2^31-2 is the largest number for which `1 << zero_cnt` stays within an int.

`RtpStreamProofs` assumes `StreamAssumption`. `FragmentsTile` is arithmetic: with
quotient and remainder in hand, the fragments of a unit of any length lie end to
end from behind its header to `HeaderSize + BytesToCut(len)`. For the TCP server
of H.264 that is the unit's end; for the copies in `rtsp_server.cpp` (179) and
`rtsp_tcp_server_h265.cpp` (237), which add where the first subtracts, it is 2
and 4 bytes past it. Two invariants rest on it:

- `RInv`: a fragment is due as long as there is one (`PacketDue`); every packet is of a unit
  read, and a unit that is just begun has none (`SentUnits`); the receiver has the units
  behind the sender of which nothing was lost (`Reassembled`), and of the present one what
  was sent, or it knows that some of it was lost (`Underway`). It gives `UnitsArrive` for
  every copy and every pattern of failed sends.
- `SInv`: `seq_num` and `ts_current` are those of the last packet, except behind a reset,
  before which nothing of the stream was sent. It gives `SeqInOrder` and `StaticsFollow`.
  The H.264 server over TCP alone resets its clock, at the second unit, so there the
  theorems need that the first unit is empty (`Regular`), which `UnitsCut` above shows of
  the reader that delivers the units.

`RtspServerProofs` assumes `RtspAssumption`. `Survives` needs `IInv` only: that `pc` is
one of its three places, because the number of descriptors depends on it. Its content is
in `SendsKeepsTcpUp` (whatever a `send` meets, the process goes on) and in that only
`Accept` and `Leave` touch a descriptor. `RepliesOwn` and `StreamAimed` need
`SessionInv`: who is not served has asked nothing yet and left nothing behind
(`OthersFresh`, and an empty buffer between two messages in `Shapes`); of a client that
waits for its answers, either nothing is underway or exactly the two pieces of its last
request are, and replies are as many as the requests handled (`InStep`); and
`m_client_rtp` is the port of the last SETUP handled (`Aimed`), which a request without
a port must not disturb (`PortsInSetups`).

Of `RtspRelay` it assumes `RelayAssumption`, units are not empty and a packet holds more
than a header, and `StreamsAssumption`. `RelaySteps` sorts the steps by what they do to
`Fragments`: nothing, start anew, or give the next part. `InjectionInv` is that what was
sent is a beginning of the file (`FileOrder`) and that `m_pos` and `m_fragments` are at
the fragment sent last (`AtLastSent`), without which a step may skip one.
`FragmentsFollow` is about the cutting: at least one part, each begins where the one
before ends, the last ends with the unit (a division with rest, in both cases of the
rest). It needs nothing of the reader, so it holds wherever the switch falls.

`RelayInv` is about the reader. The stream is cut into units in one way only (`Framed`),
and `Sent` says that what has come of it is a beginning of that. A scan finds the next
unit of which the rest of the buffer holds enough (`ScanFinds`, by induction on the
length of the rest); it stops in front of a unit that is not there yet (`ReadUpTo`), and
a read appends behind it, so the place where the next scan starts is a unit's beginning
(`ReadingInv`). `UnitsFoundOnce` follows for every stream and every way to cut it into
reads. `NumbersInv` counts: while packets are replaced, those the player has got and
those that are due add up to the packets found, otherwise it has got as many as have
come; each of them `Fits` its place, and the number in the header `Follows` from the one
the interception began with, which the code read in the first packet found (`RankIs`:
the packet that is next). A switch that finds no part of a header held back finds as
many packets as have come, also inside a packet (`SearchedAll`). It gives `NumbersRunOn`
for packets of any numbers.

`SimplePlayerProofs` assumes `PlayerAssumption` and `FileAssumption`: sizes are positive
and files are sequences of packets. `HandedOver` is `PacketsHandedOver` for every set of
files; `IInv` adds only that the packets are sequences of numbers and where `main` may
be. `QuietStep` is the step that leaves the packets alone, as most do: the others append
behind (`AppendBehind`), take the head (`MoveHead`) or delete the queue, after which
what was handed over remains a prefix of what was read. `FramesShown` follows the frames
through the decoder (`Frames`): shown and held are at most those sent, and no fewer than
those less the calls that failed, as long as the flush did not; `SoundOrdered` the
samples: in a call, what is `heard` and what is `need`ed add up to the device's buffer
(`CallFills`), the packet at hand is the last handed over (`PacketIsLast`), and those
before it were heard to their end (`HeardToEnd`). `NoneInUse` is about the players of
raw files: `LastWord` says that the quit event of the file's thread is the last thing
the thread does, so that taking it means that the thread is at its end, and
`DeviceClosed` and `QuitAtEnd` the same of the audio device.

`ToolsProofs` assumes of the tools that decode or encode only that packets have a
number of frames and that delays and `Frames` are natural numbers (`CodingAssumption`).
The nine tools are taken by what their courses have in common (`Course`). `CodecInv` is
- `Phases`: where a tool may be, and what a codec that was emptied still holds,
- `RoomLeft`: a codec is full only where the tool asks it for output next, as long as no call
  failed, and the encoder never holds more than its delay and one; so there is always a
  buffer that it does not hold (`BufferIsFree`, a pigeonhole),
- `NoRepeat`: the numbers in the encoder and in the output are different ones of `Used`, to which
  every step only adds, and the next frame's number is not among them (`NumberIsNew`),
- `DecodedInOrder`: the decoder's frames are in order, and h264ToTs.cpp, which numbers them
  again, gives them the same numbers while nothing fails,
- `Accounted`: every frame taken came out or is in a codec,
- `Emptied`: at the end a codec that was emptied keeps nothing, but x264 all, as long as it
  got no more than its delay,
- `ContentRight`: the encoder's frames have buffers of their own, with what was made for them.

A codec may give its frames in any order, so what comes out is followed by number and not by
place. The tools that ask once for each packet are in the theorem as they are in the
property: where packets have several frames it says nothing of them but that nothing repeats.

Of the tools that copy, it assumes `RemuxAssumption` (the bounds are numbers) and
`CasesAssumption` (files have streams, the packets of a stream have rising decoding times,
and time bases are positive). Of the time base of the output it assumes nothing.
`CopyInv`, which TLC found to hold on the `tools` instance before, is
- `AtFile`: which file is read, and that merge has come to no file behind one that did not open,
- `StreamsFit`: the stream that a packet will get exists and was made for its stream. `OpenFits`
  shows it where the streams are made: the stream numbers of remuxing.cpp are ranks among the
  streams kept (`MappedIs`, `NthIs`), the place of an input in merge.c is its rank among those
  opened as long as all in front of it opened (`FirstOpened`), and what `av_find_best_stream`
  finds has the type looked for (`BestIs`),
- `WrittenRight` and `InOrder`: what the output holds was read, is where it belongs and in order,
- `Stamped` and `PartsFollow`: the time of each packet written, by tool; in a concatenation, that
  the packets of earlier files end before `offset` and those of the present one by `duration`.
  With them `LaterTime` says that the packet at hand is later than those of its stream: two
  packets of a stream of the output come from one stream (`SameStream`), whose times rise;
  `av_rescale_q` never turns them round (`RescaleRises`, integer division) and keeps them
  apart where the output is no coarser (`Stretched`),
- `Copied`, `ReadToEnd` and `Ending`: what was read and has a stream is in the output, a trailer
  means that the files are read unless a write failed, and what may be unreleased.

`CopySteps` sorts the steps of all eleven tools into those that append a packet and
those that leave the output alone, and most of the parts need no more of them.

`UnitsReadBack` is `UnitsComeBack` of `Mp4ToAnnexB` for every packet (`PacketLists`: one or
more units of less than 2^31 bytes) and all parameter sets (`SpsLists`, `PpsLists`: up to
31 and 255, of at most 65535 bytes). Of a unit it assumes what the standard grants (`Units`):
it is not empty, does not end in 0, and there is no 0 0 1 in it; another unit would not come
back. It has no invariant either, and takes induction from `CountingUp` and `Recursion`, here
with a base case, as above.

- `Flattened` and `Pieces` say what `FlattenSeq`, a fold, makes of a list: the members lie
  end to end, each where those before it end.
- Reading: a number lies in the bytes written for it (`FourBytesRead`, `TwoBytesRead`), so the
  walk through extradata steps from set to set (`SetsInTurn`, `ExtradataRead`), and a turn
  of the loop takes the unit at its place (`UnitRead`, `TurnNext`) or stops where the packet ends
  inside it (`TurnFails`). After k turns the loop stands behind unit k (`TurnsHold`).
- Writing: `Holds` says that a stream is units behind start codes of three or four bytes. It holds
  of what is appended in a turn (`TurnHolds`) and of two such streams joined (`HoldsBoth`).
- Cutting: such a stream has its start codes in front of its units and nowhere else
  (`CodesFound`: neither in a unit nor across its end, as it does not end in 0), and so `Cut`
  finds the units (`CutIsUnits`); a fourth byte of a start code is a zero that `Trim` takes off.

`UnitsOfToolsComeBack` concludes that the property of the run holds in every state.

Only model-checked:

- all liveness (the prover has no rule for fairness and ENABLED that its installed
  backends support): `EveryPacketComesOut`, `FramesAreDrawn`, `EveryoneServed` and the others.

## 5. Findings

*The window stays open* (`thread_player_quit`). On quit the decoder thread leaves; a
demuxer blocked in `enqueue` on the full video queue is never woken, never sees
`quit`, and `wg` stays at 1.

Seen on the way and in the models, with no run of their own:

Players. The comments at thread_player.cpp 341 and simple_player2.cpp 192 call
`dequeue(&packet,1)` non-blocking, and it waits without a limit: after the end of the
file the callback never returns and `SDL_CloseAudio` waits for it (the exception of
`PlayersEnd`). simple_player2.cpp frees the frame, the packet and the queue before it
stops the callback that uses them. The rest of a decoded packet is lost at the end of a
callback. When the flush of the decoder fails, nobody asks for the frames left
(simple_player2.cpp 294, 490). A frame of the threaded player is queued before the sleep
meant for it, and the event of the frame before it draws both (thread_player.cpp 555).

Servers. A failed `accept` raises `client_num` (tcp_server_select.cpp 227). The epoll
server reads at most 1024 bytes per edge, so the rest of a longer message is never
read (tcp_server_epoll.cpp 106, 208); its sockets block, because `F_SETFD` is not
`F_SETFL` (53; also rtsp_server.cpp 42 and network_io.cpp 11); a reset right after a
request spends the one edge on the request, and the client is never removed. The UDP
RTSP server keeps a socket of every session and dies of SIGPIPE.

H.264 and RTP. `fread1` copies from one byte after the one it accounts for, so a file
that opens with 001 loses its first start code (rtp.h 125, against the comment at
129), and the last byte is read from one past the buffer; four zeros before a 1 hide
a start code (187). A unit of `RTP_PAYLOAD_MAX_SIZE + 1` bytes is one fragment with a
start mark and no end mark (rtsp_tcp_server.cpp 252, 270). 0 is sent twice at the wrap
(167). Two copies of the packetizer send bytes behind the unit (rtsp_server.cpp 179,
rtsp_tcp_server_h265.cpp 236).

Relay. A switch of `g_inception` inside a unit breaks the framing for the player; while
packets are replaced, text of the server is swallowed, and RTCP and other tracks are
replaced and counted like the track of the file, since nobody looks at the channel
(proxy.cpp 469, 580); a player that does not read holds the thread in `send`, which then does
not see the server close (583, 654; network_io.cpp 11, 100); a header cut by a read
is completed from bytes before `in_buf`; a failed connect leaves a socket open; of
commands that arrive together the first byte counts.

Tools. The times of `concat.c` go back when a file lacks a stream or has reordered
pictures; `merge.c` with a failed input that is not the last reads a context that was
never set, and it and `split.c` pass `avformat_open_input` an uninitialised pointer;
`split.c` 68 skips without releasing; `extractVideo.c` closes an output it has not set
when the input does not open (53, 94). A fifth stream is written behind
`stream_mapping[4]` (remuxing.cpp 100, cutVideo.cpp 74). `split.c` writes FLV, whose
milliseconds may give packets of a finer input one time. `h264_extradata_to_annexb` may
fail unseen and leave the parameter sets unset; they are put before every unit of type
5, where the comment at utils.c 212 says only before the first, if none are present. The
length size of the extradata is read and not used (utils.c 75, 156): only lengths of
four bytes work. `audio_resample.cpp` 336 writes into a frame the encoder may hold.
decodeVideo.cpp's flush (224) is behind an endless loop, drawbox_filter.cpp and the
Android player have none and ask once per packet: the last frames are lost.
drawbox_filter.cpp 174 compares before it assigns. encode_with_libx264.cpp's flush never
ends when the encoder fails, and ends at once, with nothing written, when there were no
more frames than x264 delays: hence the 56 frames of line 27. A short input of
encode_video.cpp repeats its last frame, since `fread` is never below 0.

## 6. Not modelled, and the plan

Left out within modelled programs: the bits of RTP headers and the wording of RTSP
replies; opening a listening socket; what pictures and samples hold, resampling and
drawing; metadata of containers; `NaluSPS` and `NaluPPS`, which read a list of fields
into a record; the libevent server, which registers callbacks of that library.

Not modelled: packet_view.cpp (its `main` calls `packageView` alone, which prints what
it reads; `transcode` and `outPackage` are called nowhere), the examples of fork,
signals, pipes and daemons (one system call each; the forking server, whose SIGCHLD
handler waits for all children, is listed under hazards), the MP4 parser (it prints
while it reads), the RTMP publisher (a read loop around librtmp), vf_newfilter.c (pixels
inside FFmpeg), the WebRTC page and its server (JavaScript around promises of the
browser), the STUN server (one table that a datagram sets an entry of), the other socket
examples, documents and shell scripts.

Next: the FIFO of `SimplePlayer`'s queue stated as a refinement of an
unbounded `BoundedFifo`; the forking server.
