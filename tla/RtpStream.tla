------------------------------ MODULE RtpStream ------------------------------
(* The answer to PLAY in webrtc/rtsp_server: the loop of client_handler and   *)
(* h264nal2rtp_send, which puts each NAL unit into one RTP packet or cuts it  *)
(* into fragments.  One step per unit read and per packet sent.               *)
(*                                                                            *)
(* The function exists three times: "h264_tcp" in rtsp_tcp_server.cpp,        *)
(* "h265_tcp" in rtsp_tcp_server_h265.cpp and "h264_udp" in rtsp_server.cpp.  *)
(* Which of the programs runs is chosen at the start.  A unit is its length;  *)
(* byte 0 is the first of its header.                                         *)
EXTENDS Integers, Sequences, SequencesExt

CONSTANTS
    RTP_PAYLOAD_MAX_SIZE,
    UINT16_MAX,
    Ticks,              \* 90000 / framerate
    TsModulus,          \* 2^32: the width of the time stamp
    FirstLens,          \* the lengths of the first unit of a file
    Lens,               \* the lengths of the others
    MaxUnits,           \* bound: units in a file
    MaxPlays            \* bound: PLAY requests

ASSUME StreamAssumption ==
    /\ {RTP_PAYLOAD_MAX_SIZE, UINT16_MAX, Ticks, TsModulus} \subseteq Nat \ {0}
    /\ FirstLens \subseteq Nat /\ Lens \subseteq Nat
    /\ {MaxUnits, MaxPlays} \subseteq Nat

VARIABLES
    variant,        \* the program
    pc,             \* "idle": no stream; "read": at the top of the loop;
                    \* "send": inside h264nal2rtp_send, a packet is due
    cnt,            \* calls of h264nal2rtp_send in this stream
    seq_num,        \* static uint16_t
    ts_current,     \* static uint32_t
    fu_seq,         \* the fragment that is due
    units,          \* the lengths of the units read in this stream
    sent,           \* the packets given to send in this stream
    got, part,      \* of a receiver: the units it has put together, each with its
                    \* length and the unit it was read as, and how much of the
                    \* next one has come
    plays           \* the streams begun
vars == <<variant, pc, cnt, seq_num, ts_current, fu_seq, units, sent, got, part, plays>>

receiver == <<got, part>>

-----------------------------------------------------------------------------
(* Fragmentation                                                              *)

\* The bytes of the unit's header, which the fragments' own headers replace.
HeaderSize(v) == IF v = "h265_tcp" THEN 2 ELSE 1

\* nalu_len_minus_one, nalu_len_minus_two: what is cut into fragments.
BytesToCut(v, len) ==
    CASE v = "h264_tcp" -> len - 1
      [] v = "h264_udp" -> len + 1
      [] v = "h265_tcp" -> len + 2

\* Mutant of fu_pack_num: no fragment for the rest.
WholeFragments(v, len) == BytesToCut(v, len) \div RTP_PAYLOAD_MAX_SIZE

fu_pack_num(v, len) ==
    LET n == BytesToCut(v, len)
    IN  (n \div RTP_PAYLOAD_MAX_SIZE) + (IF n % RTP_PAYLOAD_MAX_SIZE # 0 THEN 1 ELSE 0)

last_fu_pack_size(v, len) ==
    LET rest == BytesToCut(v, len) % RTP_PAYLOAD_MAX_SIZE
    IN  IF rest # 0 THEN rest ELSE RTP_PAYLOAD_MAX_SIZE

Fits(len) == len <= RTP_PAYLOAD_MAX_SIZE

IsLastPacket(v, len, i) == Fits(len) \/ i = fu_pack_num(v, len) - 1

\* The payload of packet i of a unit: the bytes from..from+size-1 of nal_buf and
\* the marks of init_fragment_header.  A packet with a whole unit has both marks.
Payload(v, len, i) ==
    IF Fits(len)
    THEN [start |-> TRUE, end |-> TRUE, from |-> 0, size |-> len]
    ELSE [start |-> i = 0,
          end   |-> i # 0 /\ i = fu_pack_num(v, len) - 1,
          from  |-> HeaderSize(v) + RTP_PAYLOAD_MAX_SIZE * i,
          size  |-> IF i = fu_pack_num(v, len) - 1 THEN last_fu_pack_size(v, len)
                                                ELSE RTP_PAYLOAD_MAX_SIZE]

-----------------------------------------------------------------------------
(* The stream                                                                 *)

None == -1

Init ==
    /\ variant \in {"h264_tcp", "h265_tcp", "h264_udp"}
    /\ pc = "idle"
    /\ cnt = 0
    /\ seq_num = 0
    /\ ts_current = 0
    /\ fu_seq = 0
    /\ units = <<>>
    /\ sent = <<>>
    /\ got = <<>> /\ part = None
    /\ plays = 0

Play ==
    /\ pc = "idle"
    /\ plays < MaxPlays
    /\ plays' = plays + 1
    /\ pc' = "read"
    /\ cnt' = 0
    /\ units' = <<>>
    /\ sent' = <<>>
    /\ got' = <<>> /\ part' = None
    /\ UNCHANGED <<variant, seq_num, ts_current, fu_seq>>

\* Mutant of ResetsClock: the statics go on from one stream to the next.
ResetsClockNever == FALSE

\* The parameter init, which the caller sets to cnt++: only the second call.
ResetsClock == variant = "h264_tcp" /\ cnt = 1

\* copy_nal_from_file returns a unit and h264nal2rtp_send begins on it.  An
\* empty unit is not sent, but its time passes.
ReadUnit(len) ==
    /\ pc = "read"
    /\ Len(units) < MaxUnits
    /\ len \in (IF units = <<>> THEN FirstLens ELSE Lens)
    /\ units' = Append(units, len)
    /\ cnt' = cnt + 1
    /\ ts_current' = IF ResetsClock THEN 0 ELSE (ts_current + Ticks) % TsModulus
    /\ seq_num' = IF ResetsClock THEN 0 ELSE seq_num
    /\ fu_seq' = 0
    /\ pc' = IF len < 1 THEN "read" ELSE "send"
    /\ UNCHANGED <<variant, sent, receiver, plays>>

\* copy_nal_from_file returns -1.
EndOfFile ==
    /\ pc = "read"
    /\ pc' = "idle"
    /\ UNCHANGED <<variant, cnt, seq_num, ts_current, fu_seq, units, sent, receiver, plays>>

Unit == Last(units)

\* Mutant of NextSeq: the number is incremented once per unit.
NextSeqOfUnit == (seq_num + (IF fu_seq = 0 THEN 1 ELSE 0)) % (UINT16_MAX + 1)

\* ++seq_num, in 16 bits.
NextSeq == (seq_num + 1) % (UINT16_MAX + 1)

\* init_rtsp_header: the sequence number is taken modulo UINT16_MAX again.  ok:
\* send takes the packet.
Packet(ok) ==
    [seq_no    |-> NextSeq % UINT16_MAX,
     timestamp |-> ts_current,
     unit      |-> Len(units),
     payload   |-> Payload(variant, Unit, fu_seq),
     ok        |-> ok]

\* When send fails the stream ends over TCP; over UDP nobody looks at the result.
Continues(ok) == ok \/ variant = "h264_udp"

\* The receiver puts units together as RFC 6184 says; a lost packet shows as a gap
\* in the numbers.
Receive(packet) ==
    LET p     == packet.payload
        begun == IF p.start THEN (IF p.end THEN 0 ELSE HeaderSize(variant)) ELSE part
        whole == [unit |-> packet.unit, len |-> begun + p.size]
        fits  == packet.ok /\ begun = p.from
    IN  /\ got'  = IF fits /\ p.end THEN Append(got, whole) ELSE got
        /\ part' = IF fits /\ ~p.end THEN begun + p.size ELSE None

SendPacket(ok) ==
    /\ pc = "send"
    /\ sent' = Append(sent, Packet(ok))
    /\ Receive(Packet(ok))
    /\ seq_num' = NextSeq
    /\ fu_seq' = fu_seq + 1
    /\ pc' = IF ~Continues(ok) THEN "idle"
             ELSE IF IsLastPacket(variant, Unit, fu_seq) THEN "read" ELSE "send"
    /\ UNCHANGED <<variant, cnt, ts_current, units, plays>>

StreamStep ==
    \/ Play
    \/ \E len \in FirstLens \cup Lens : ReadUnit(len)
    \/ EndOfFile
    \/ \E ok \in BOOLEAN : SendPacket(ok)

\* The three programs.
H264TcpStream == variant = "h264_tcp" /\ StreamStep
H265TcpStream == variant = "h265_tcp" /\ StreamStep
H264UdpStream == variant = "h264_udp" /\ StreamStep

Next == H264TcpStream \/ H265TcpStream \/ H264UdpStream

Spec == Init /\ [][Next]_vars

-----------------------------------------------------------------------------
(* Properties                                                                 *)

TypeOK ==
    /\ pc \in {"idle", "read", "send"}
    /\ cnt = Len(units)
    /\ seq_num \in 0..UINT16_MAX
    /\ ts_current \in 0..(TsModulus - 1)
    /\ pc = "send" => ~(Fits(Unit) /\ fu_seq > 0)
    /\ pc = "send" /\ ~Fits(Unit) => fu_seq < fu_pack_num(variant, Unit)
    /\ plays \in 0..MaxPlays

\* A unit of which the fragments are one: it gets a start and no end.
OneFragment(v, len) == ~Fits(len) /\ fu_pack_num(v, len) = 1

\* What two of the programs send behind a unit they cut: what the buffer holds there.
Surplus(v, len) ==
    CASE Fits(len) \/ v = "h264_tcp" -> 0
      [] ~Fits(len) /\ v = "h264_udp" -> 2
      [] ~Fits(len) /\ v = "h265_tcp" -> 4

NoneLost(k) == \A j \in DOMAIN sent : sent[j].unit = k => sent[j].ok

\* A unit that can arrive: with an end, and no packet lost.
Arrives(k) == units[k] > 0 /\ ~OneFragment(variant, units[k]) /\ NoneLost(k)

(* Fragmentation loses and doubles nothing: whenever the sender is between    *)
(* two units, a receiver has put together exactly the units read so far of    *)
(* which no packet was lost, each once and in order, save those cut into a    *)
(* single fragment.  Their lengths are right in rtsp_tcp_server.cpp           *)
(* (252-276); the two other programs add what lies behind the unit            *)
(* (rtsp_server.cpp:179 adds one where one is to be taken off,                *)
(* rtsp_tcp_server_h265.cpp:236 two).  The first unit of a file is empty:     *)
(* UnitsAreTheFile of NalReader.                                              *)
UnitsArrive ==
    pc = "read" =>
        /\ {got[i].unit : i \in DOMAIN got} = {k \in DOMAIN units : Arrives(k)}
        /\ \A i \in DOMAIN got :
               LET len == units[got[i].unit] IN got[i].len = len + Surplus(variant, len)
        /\ \A i, j \in DOMAIN got : i < j => got[i].unit < got[j].unit

(* Sequence numbers of a stream follow one another, except next to the wrap,  *)
(* although the statics outlive a stream and are reset inside the next one    *)
(* (rtsp_tcp_server.cpp:167, 204-211, 443).                                   *)
SeqInOrder ==
    \A i \in 1..(Len(sent) - 1) :
        sent[i].seq_no \in 1..(UINT16_MAX - 2)
            => sent[i + 1].seq_no = sent[i].seq_no + 1

(* A stream's first packet has sequence number 1, whatever the streams before *)
(* it left in the statics (rtsp_tcp_server.cpp:201: init resets them).        *)
StreamStartsAfresh ==
    sent # <<>> => sent[1].seq_no = 1 % UINT16_MAX

(* Packets of one unit share a time stamp (rtsp_tcp_server.cpp:198), and      *)
(* those of different units are as far apart as the units, empty ones         *)
(* included, modulo the width of the field.                                   *)
TimestampsFollowUnits ==
    \A i, j \in DOMAIN sent :
        i < j => sent[j].timestamp
                   = (sent[i].timestamp + Ticks * (sent[j].unit - sent[i].unit)) % TsModulus

(* The statics of the sender: TimestampsFollowUnits; and StreamStartsAfresh   *)
(* in rtsp_tcp_server.cpp, which alone resets them, at the second call of a   *)
(* stream (201-211, 443).                                                     *)
StaticsFollow ==
    TimestampsFollowUnits /\ (variant = "h264_tcp" => StreamStartsAfresh)
=============================================================================
