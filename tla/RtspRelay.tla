------------------------------ MODULE RtspRelay ------------------------------
(* webrtc/rtsp_server/proxy.cpp: a relay between a player and an RTSP server. *)
(* A thread per player forwards what the server sends; while g_inception is   *)
(* set, it sends packets of a file of its own in place of the server's.  One  *)
(* step per turn of a thread around its recv.                                 *)
(*                                                                            *)
(* The server sends units, a '$', the size of what follows and a packet, and  *)
(* text between them.  Sizes and numbers are one byte here, so that a header  *)
(* can be split; the channel, which the relay does not look at, is left out.  *)
(* recv returns any number of bytes.  set_fd_noblock sets O_NONBLOCK with     *)
(* F_SETFD, which does not take it: every send waits until the other end      *)
(* takes the bytes or has gone.                                               *)
EXTENDS Integers, Sequences, FiniteSets, SequencesExt

CONSTANTS
    Streams,                \* what the server may send: sequences of units and texts,
                            \* each a sequence of bytes
    MAGIC_SIZE,             \* bytes that must follow a '$' for its header to be read
    RTP_PAYLOAD_MAX_SIZE,
    FileLens,               \* the lengths of the units of the file
    Garbage,                \* numbers that may stand before in_buf
    MaxRecv,                \* bound: bytes a recv returns
    MaxCommands,            \* bound: commands
    MaxSessions             \* bound: players, one after the other

Dollar == 36
RSTP_INTERLEAVE_SIZE == 2

ASSUME RelayAssumption ==
    /\ MAGIC_SIZE \in Nat /\ MAGIC_SIZE > RSTP_INTERLEAVE_SIZE
    /\ RTP_PAYLOAD_MAX_SIZE \in Nat /\ RTP_PAYLOAD_MAX_SIZE > 2   \* a header of H.265
    /\ FileLens \in Seq(Nat \ {0}) /\ FileLens # <<>>

\* What the server sends: packets with their sizes, of RTP or RTCP, of one track or
\* several, with any numbers; and text without a '$'.
ASSUME StreamsAssumption ==
    \A s \in Streams :
        /\ s \in Seq(Seq(Nat) \ {<<>>})
        /\ \A k \in DOMAIN s :
               IF s[k][1] = Dollar
               THEN /\ MAGIC_SIZE < Len(s[k]) /\ s[k][2] <= 127
                    /\ Len(s[k]) = s[k][2] + RSTP_INTERLEAVE_SIZE
               ELSE \A i \in DOMAIN s[k] : s[k][i] # Dollar

VARIABLES
    g_inception,            \* the switch that all threads share
    commands,               \* commands received
    link,                   \* the player's thread: "none", "connect", "relay"; "send"
                            \* and "write": in a send to the player, of what it read
                            \* or of a packet of the file; "forward": to the server
    player, server,         \* the ends of the connections: "open", "closed"
    stream,                 \* what the server sends in this session
    received,               \* how much of it has been received
    position, prepend,      \* of RTSPReader; prepend_buf is prepend
    m_previous_status,      \* of Inceptor: does it replace packets?
    m_rtp_header,           \* the number in it
    m_fragments, m_pos,     \* of Fragments
    source_pos,             \* units read from the file since Reset
    due,                    \* packets to replace of those in the last read
    synced,                 \* history: where RTSPReader took up the stream, or -1
    found,                  \* history: where in the stream it has found units
    got,                    \* history: the packets sent to the player: their number, and
                            \* since, 0 or where the interception that sent it began
    since,                  \* history: where in got the last interception began
    injected,               \* history: the fragments sent since the last Reset
    clean,                  \* history: the status never changed while a part of a
                            \* header was held back, and RTSPReader took up the
                            \* stream at a unit
    sessions                \* players so far
reader == <<position, prepend>>
inceptor == <<m_previous_status, m_rtp_header, m_fragments, m_pos, source_pos, due>>
history == <<synced, found, got, since, injected, clean>>
vars == <<g_inception, commands, link, player, server, stream, received, reader,
          inceptor, history, sessions>>

-----------------------------------------------------------------------------
(* RTSPReader::read                                                           *)

\* The first '$' of b from p on, or the last byte.
NextDollar(b, p) ==
    LET at == {q \in p..(Len(b) - 1) : b[q + 1] = Dollar \/ q = Len(b) - 1}
    IN  CHOOSE q \in at : \A r \in at : q <= r

\* Not enough follows p for a header.
TooShort(b, p) == p + MAGIC_SIZE >= Len(b)

\* The search of b from p on: the units found and where it stops.  A size of
\* more than 15 bits is negative and stops it.
Scan(b) ==
    LET scan[p \in Nat] ==
            LET q    == NextDollar(b, p)
                size == b[q + 2]
                rest == scan[q + size + RSTP_INTERLEAVE_SIZE]
            IN  IF TooShort(b, p) THEN [units |-> <<>>, stop |-> p, bad |-> FALSE]
                ELSE IF TooShort(b, q) THEN [units |-> <<>>, stop |-> q, bad |-> FALSE]
                ELSE IF size > 127 THEN [units |-> <<q>>, stop |-> 0, bad |-> TRUE]
                ELSE [rest EXCEPT !.units = <<q>> \o @]
    IN  scan

\* Mutant of Read: what was kept of the last read is left out.
ReadAnew(buf) ==
    LET from == IF position = -1 THEN 0 ELSE position
        s    == Scan(buf)[from]
    IN  IF position = -1 /\ buf[1] # Dollar
        THEN [begins |-> <<>>, position |-> -1, prepend |-> prepend]
        ELSE IF from >= Len(buf)
        THEN [begins |-> <<>>, position |-> from - Len(buf), prepend |-> <<>>]
        ELSE IF s.stop >= Len(buf)
        THEN [begins |-> s.units, position |-> s.stop - Len(buf), prepend |-> <<>>]
        ELSE [begins |-> s.units, position |-> 0, prepend |-> SubSeq(buf, s.stop + 1, Len(buf))]

\* Where in buf the units begin that read reports (before it, when their headers
\* were split), and the reader's state afterwards.
Read(buf) ==
    LET b     == prepend \o buf
        from  == IF position = -1 THEN 0 ELSE position
        s     == Scan(b)[from]
        begin == [k \in DOMAIN s.units |-> s.units[k] - Len(prepend)]
    IN  IF position = -1 /\ buf[1] # Dollar
        THEN [begins |-> <<>>, position |-> -1, prepend |-> prepend]
        ELSE IF from >= Len(b)
        THEN [begins |-> <<>>, position |-> from - Len(b), prepend |-> <<>>]
        ELSE IF s.bad
        THEN [begins |-> begin, position |-> 0, prepend |-> <<>>]
        ELSE IF s.stop >= Len(b)
        THEN [begins |-> begin, position |-> s.stop - Len(b), prepend |-> <<>>]
        ELSE [begins |-> begin, position |-> 0, prepend |-> SubSeq(b, s.stop + 1, Len(b))]

-----------------------------------------------------------------------------
(* Inceptor: the packets of the file                                          *)

\* What getFragment cuts a unit into: the bytes from..from+size-1 and the marks.
\* (is265 is set: two bytes of header.)  Only an end mark brings the shorter size.
Fragments(len) ==
    IF len < RTP_PAYLOAD_MAX_SIZE
    THEN <<[from |-> 0, size |-> len, start |-> TRUE, end |-> TRUE]>>
    ELSE LET n    == len - 2
             rest == n % RTP_PAYLOAD_MAX_SIZE
             num  == (n \div RTP_PAYLOAD_MAX_SIZE) + (IF rest # 0 THEN 1 ELSE 0)
         IN  [i \in 1..num |->
                [from  |-> 2 + RTP_PAYLOAD_MAX_SIZE * (i - 1),
                 size  |-> IF i # 1 /\ i = num /\ rest # 0 THEN rest ELSE RTP_PAYLOAD_MAX_SIZE,
                 start |-> i = 1,
                 end   |-> i # 1 /\ i = num]]

Unit(k) == FileLens[((k - 1) % Len(FileLens)) + 1]

-----------------------------------------------------------------------------
(* The player's thread: client_request_handler                                *)

Init ==
    /\ g_inception = FALSE
    /\ commands = 0
    /\ link = "none"
    /\ player = "closed" /\ server = "closed"
    /\ stream = <<>> /\ received = 0
    /\ position = -1 /\ prepend = <<>>
    /\ m_previous_status = FALSE /\ m_rtp_header = 0
    /\ m_fragments = <<>> /\ m_pos = 0 /\ source_pos = 0
    /\ due = 0
    /\ synced = -1 /\ found = <<>> /\ got = <<>> /\ since = 0
    /\ injected = <<>> /\ clean = TRUE
    /\ sessions = 0

\* main: AcceptConnection and a new thread, with a new Inceptor.
AcceptConnection ==
    /\ link = "none"
    /\ sessions < MaxSessions
    /\ sessions' = sessions + 1
    /\ link' = "connect"
    /\ player' = "open"
    /\ UNCHANGED <<g_inception, commands, server, stream, received, reader, inceptor, history>>

\* open_connect_fd.
ConnectServer ==
    /\ link = "connect"
    /\ link' = "relay"
    /\ server' = "open"
    /\ stream' \in Streams
    /\ UNCHANGED <<g_inception, commands, player, received, reader, inceptor, history, sessions>>

\* The thread ends: both descriptors are closed.
CloseBoth ==
    /\ link' = "none"
    /\ player' = "closed" /\ server' = "closed"
    /\ stream' = <<>> /\ received' = 0
    /\ position' = -1 /\ prepend' = <<>>
    /\ m_previous_status' = FALSE /\ m_rtp_header' = 0
    /\ m_fragments' = <<>> /\ m_pos' = 0 /\ source_pos' = 0
    /\ due' = 0
    /\ synced' = -1 /\ found' = <<>> /\ got' = <<>> /\ since' = 0
    /\ injected' = <<>> /\ clean' = TRUE
    /\ UNCHANGED <<g_inception, commands, sessions>>

ConnectFails == link = "connect" /\ CloseBoth

\* The stream: where its items and its units begin.
Bytes == FlattenSeq(stream)
Start(k) == Len(FlattenSeq(SubSeq(stream, 1, k - 1)))
IsUnit(k) == stream[k][1] = Dollar
UnitStarts == {Start(k) : k \in {j \in DOMAIN stream : IsUnit(j)}}

\* The i-th number of a set.
Nth(S, i) == CHOOSE k \in S : Cardinality({j \in S : j <= k}) = i

\* The number in a packet.
NumberIn(item) == item[RSTP_INTERLEAVE_SIZE + 1]

\* A number has one byte (in the code two), as uint16_t wraps.
Wrap(n) == n % 256

\* The packets whose units begin in the bytes from..to-1, as the player gets them.
Packets(from, to) ==
    LET items == {k \in DOMAIN stream : IsUnit(k) /\ Start(k) >= from /\ Start(k) < to}
    IN  [i \in 1..Cardinality(items) |->
            [number |-> NumberIn(stream[Nth(items, i)]), since |-> 0]]

\* send_data to the player of the bytes just read.
SendDirect(n) ==
    /\ got' = got \o Packets(received, received + n)
    /\ UNCHANGED <<m_rtp_header, m_fragments, m_pos, source_pos, due, since, injected>>
    /\ link' = "send"

\* The number that Inceptor::handle begins with: that of the first packet less 1.  A
\* header that began before buf is read from the bytes that lie there.
FirstNumber(buf, begins) ==
    LET at == Head(begins) + RSTP_INTERLEAVE_SIZE
    IN  IF at >= 0 THEN {Wrap(buf[at + 1] - 1)} ELSE Garbage

\* Mutant of Begin: the file goes on where the last interception left it.
BeginAgain(buf, begins) ==
    /\ m_rtp_header' \in FirstNumber(buf, begins)
    /\ UNCHANGED <<m_fragments, m_pos, source_pos>>
    /\ since' = Len(got) + 1
    /\ injected' = <<>>

\* Mutant of Begin: the header's number is not set back by one.
BeginAtNumber(buf, begins) ==
    /\ m_rtp_header' \in {Wrap(x + 1) : x \in FirstNumber(buf, begins)}
    /\ m_fragments' = <<>> /\ m_pos' = 0 /\ source_pos' = 0
    /\ since' = Len(got) + 1
    /\ injected' = <<>>

\* Inceptor::handle takes the number of the first packet and begins the file anew.
Begin(buf, begins) ==
    /\ m_rtp_header' \in FirstNumber(buf, begins)
    /\ m_fragments' = <<>> /\ m_pos' = 0 /\ source_pos' = 0
    /\ since' = Len(got) + 1
    /\ injected' = <<>>

\* receive_data from the server and Inceptor::handle.  canIncept looks at the
\* address of the packet and not at the packet: it may say anything.
Handle(n) ==
    LET buf    == SubSeq(Bytes, received + 1, received + n)
        r      == Read(buf)
        begins == g_inception /\ ~m_previous_status /\ r.begins # <<>>
    IN  /\ link = "relay"
        /\ server = "open"
        /\ received + n <= Len(Bytes)
        /\ received' = received + n
        /\ position' = r.position /\ prepend' = r.prepend
        /\ synced' = IF position = -1 /\ buf[1] = Dollar THEN received ELSE synced
        /\ found' = found \o [k \in DOMAIN r.begins |-> received + r.begins[k]]
        /\ \E canIncept \in (IF begins THEN BOOLEAN ELSE {FALSE}) :
              /\ m_previous_status' = (g_inception /\ (m_previous_status \/ canIncept))
              /\ IF ~m_previous_status' THEN SendDirect(n)
                 ELSE /\ due' = Len(r.begins)
                      /\ link' = IF due' = 0 THEN "relay" ELSE "write"
                      /\ UNCHANGED got
                      /\ IF m_previous_status
                         THEN UNCHANGED <<m_rtp_header, m_fragments, m_pos, source_pos, since,
                                          injected>>
                         ELSE Begin(buf, r.begins)
        /\ clean' = (clean /\ (m_previous_status' # m_previous_status => prepend = <<>>)
                           /\ (synced' # synced => received \in UnitStarts))
        /\ UNCHANGED <<g_inception, commands, player, server, stream, sessions>>

\* send_data returns: the player has taken the bytes, or, having gone, lets the first
\* send still succeed.
SendReturns ==
    /\ link = "send"
    /\ link' = "relay"
    /\ UNCHANGED <<g_inception, commands, player, server, stream, received, reader, inceptor,
                   history, sessions>>

\* The player has gone: it fails.
SendFails == link = "send" /\ player = "closed" /\ CloseBoth

\* write_rtp_packet, whose result nobody looks at, with getFragment, up to the return
\* of its send.
WriteRtpPacket ==
    /\ link = "write"
    /\ IF m_pos >= Len(m_fragments)
       THEN /\ source_pos' = source_pos + 1
            /\ m_fragments' = Fragments(Unit(source_pos'))
            /\ m_pos' = 1
       ELSE m_pos' = m_pos + 1 /\ UNCHANGED <<source_pos, m_fragments>>
    /\ m_rtp_header' = Wrap(m_rtp_header + 1)
    /\ injected' = Append(injected, [unit |-> source_pos', part |-> m_fragments'[m_pos']])
    /\ got' = Append(got, [number |-> m_rtp_header', since |-> since])
    /\ due' = due - 1
    /\ link' = IF due' = 0 THEN "relay" ELSE "write"
    /\ UNCHANGED <<g_inception, commands, player, server, stream, received, reader,
                   m_previous_status, synced, found, since, clean, sessions>>

\* redirect_data: what the player sends goes to the server as it is.  The server comes
\* first in a turn of the loop, so that one that has closed ends it.
Redirect ==
    /\ link = "relay"
    /\ player = "open" /\ server = "open"
    /\ link' = "forward"
    /\ UNCHANGED <<g_inception, commands, player, server, stream, received, reader, inceptor,
                   history, sessions>>

ForwardReturns ==
    /\ link = "forward"
    /\ link' = "relay"
    /\ UNCHANGED <<g_inception, commands, player, server, stream, received, reader, inceptor,
                   history, sessions>>

ForwardFails == link = "forward" /\ server = "closed" /\ CloseBoth

\* Mutant of Ends: the end of the player is not looked at.
EndsByServer == link = "relay" /\ server = "closed" /\ CloseBoth

\* recv returns 0: the server, or the player, has closed.
Ends ==
    /\ link = "relay"
    /\ "closed" \in {server, player}
    /\ CloseBoth

\* What the thread does by itself: a send to an end that has gone returns.
Relay ==
    \/ ConnectServer
    \/ ConnectFails
    \/ \E n \in 1..MaxRecv : Handle(n)
    \/ player = "closed" /\ (SendReturns \/ WriteRtpPacket)
    \/ server = "closed" /\ ForwardReturns
    \/ SendFails
    \/ ForwardFails
    \/ Ends

-----------------------------------------------------------------------------
(* The others                                                                 *)

\* A send to an open end returns when this end has read enough: nobody can make it.
Taken ==
    \/ player = "open" /\ (SendReturns \/ WriteRtpPacket)
    \/ server = "open" /\ ForwardReturns

\* client_command_handler: only the first byte of what a recv returns counts.
Command(c) ==
    /\ commands < MaxCommands
    /\ commands' = commands + 1
    /\ g_inception' = CASE c = "s" -> TRUE [] c = "e" -> FALSE [] OTHER -> g_inception
    /\ UNCHANGED <<link, player, server, stream, received, reader, inceptor, history, sessions>>

PlayerCloses ==
    /\ player = "open"
    /\ player' = "closed"
    /\ UNCHANGED <<g_inception, commands, link, server, stream, received, reader, inceptor,
                   history, sessions>>

ServerCloses ==
    /\ server = "open"
    /\ received = Len(Bytes)
    /\ server' = "closed"
    /\ UNCHANGED <<g_inception, commands, link, player, stream, received, reader, inceptor,
                   history, sessions>>

Next ==
    \/ AcceptConnection
    \/ Relay
    \/ Taken
    \/ Redirect
    \/ \E c \in {"s", "e"} : Command(c)
    \/ PlayerCloses
    \/ ServerCloses

Spec == Init /\ [][Next]_vars /\ WF_vars(Relay)

-----------------------------------------------------------------------------
(* Properties                                                                 *)

(* Once RTSPReader has begun at a unit, it finds every unit whose header has  *)
(* come, once and where it is, however the reads cut the stream and whatever  *)
(* text stands between units; and prepend_buf is large enough                 *)
(* (proxy.cpp:444-513, 536).                                                  *)
UnitsFoundOnce ==
    synced \in UnitStarts =>
        /\ ToSet(found) = {u \in UnitStarts : u >= synced /\ u + MAGIC_SIZE < received}
        /\ \A i \in 1..(Len(found) - 1) : found[i] < found[i + 1]
        /\ Len(prepend) <= MAGIC_SIZE

\* The number of the server's i-th packet.
Number(i) == NumberIn(stream[Nth({j \in DOMAIN stream : IsUnit(j)}, i)])

(* The player gets one packet for each packet of the server, in its place:    *)
(* the server's own, or one of the file, whose number is that of the first    *)
(* packet replaced, counted on from there.  So its numbers run on as the      *)
(* server's do, also where packets of the file begin and end, if the server   *)
(* sends one track and nothing else.  It is not so when other channels come   *)
(* between: their packets are replaced and counted as well, since nobody      *)
(* looks at the channel (proxy.cpp:469-488, 569-585).  Nor is it said for a   *)
(* switch while a part of a header waits in prepend_buf.  A switch inside a   *)
(* unit is: this unit is torn, but its number is right.                       *)
NumbersRunOn ==
    clean => \A i \in DOMAIN got :
        LET first == got[i].since
        IN  IF first = 0 THEN got[i].number = Number(i)
            ELSE first <= i /\ got[i].number = Wrap(Number(first) + (i - first))

(* Each interception shows the file from its beginning, over and over, unit   *)
(* by unit and fragment by fragment; and the fragments of a unit, if they are *)
(* several, are its bytes behind the header (proxy.cpp:354-425, 576).         *)
InjectedIsTheFile ==
    /\ injected # <<>> => injected[1].unit = 1 /\ injected[1].part.start
    /\ \A i \in 1..(Len(injected) - 1) :
           LET f == injected[i] g == injected[i + 1]
               cut == Fragments(Unit(f.unit))
           IN  IF f.part = Last(cut) THEN g.unit = f.unit + 1 /\ g.part.start
               ELSE g.unit = f.unit /\ g.part.from = f.part.from + f.part.size
    /\ \A k \in DOMAIN FileLens :
           LET cut == Fragments(FileLens[k])
           IN  Len(cut) > 1 => Last(cut).end /\ Last(cut).from + Last(cut).size = FileLens[k]

\* A send waits for an end that is open.
Blocked ==
    \/ link \in {"send", "write"} /\ player = "open"
    \/ link = "forward" /\ server = "open"

(* When the player or the server closes, the thread of the player ends and    *)
(* closes both connections, also in the middle of an interception, when what  *)
(* it sends fails and nobody looks (proxy.cpp:583, 702-716): unless it stays  *)
(* in a send to the other end, which is open and does not read.  The sockets  *)
(* block, whatever set_fd_noblock is called (network_io.cpp:9-12, 99-117).    *)
RelayEnds ==
    \/ link \notin {"none", "connect"} /\ "closed" \in {player, server} ~> link = "none"
    \/ <>[]Blocked
=============================================================================
