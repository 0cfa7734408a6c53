---------------------------- MODULE MCRtspServers ----------------------------
(* The RTSP servers, RtspServer, and the relay, RtspRelay.  One of them runs;  *)
(* the other stays as it was made.                                             *)
EXTENDS RtspServer

CONSTANTS
    Relays,         \* whether it is the relay
    Streams, MAGIC_SIZE, RTP_PAYLOAD_MAX_SIZE, FileLens, Garbage,
    MaxRecv, MaxCommands,
    MaxPlayers      \* bound: players of the relay

VARIABLES
    g_inception, commands, link, player, upstream, stream, received, position,
    prepend, m_previous_status, m_rtp_header, m_fragments, m_pos, source_pos,
    due, synced, found, got, since, injected, clean, players

relayVars == <<g_inception, commands, link, player, upstream, stream, received, position,
               prepend, m_previous_status, m_rtp_header, m_fragments, m_pos, source_pos,
               due, synced, found, got, since, injected, clean, players>>

Relay == INSTANCE RtspRelay WITH
             server <- upstream, sessions <- players, MaxSessions <- MaxPlayers

ASSUME RelayParameters == Relay!RelayAssumption /\ Relay!StreamsAssumption

OnServer(A) == ~Relays /\ A /\ UNCHANGED relayVars
OnRelay(A) == Relays /\ A /\ UNCHANGED vars

MCNext == OnServer(Next) \/ OnRelay(Relay!Next)

\* Beside the relay one server is enough.
MCInit == Init /\ Relay!Init /\ (Relays => variant = "h264_tcp")

\* The server's thread, and the player's, runs when its call can return.
MCSpec ==
    /\ MCInit
    /\ [][MCNext]_<<vars, relayVars>>
    /\ WF_<<vars, relayVars>>(OnServer(ServerStep) \/ OnRelay(Relay!Relay))

-----------------------------------------------------------------------------
(* The streams and the file TLC plays to the relay.                           *)

\* A unit with number k; its last byte may look like the beginning of another.
MCUnit(k, last) == <<36, 3, k, 0, last>>
MCText == <<1, 1>>

\* Text before and between packets, packets whose last bytes are a '$' and a size
\* that is none; numbers that wrap, and those of two tracks; and more packets than
\* the file has fragments, so that it is sent again from its beginning.
MCStreams ==
    { <<MCText, MCUnit(254, 0), MCUnit(255, 36), MCUnit(0, 0)>>,
      <<MCUnit(0, 0), MCText, MCUnit(1, 0), MCUnit(2, 0)>>,
      <<<<36, 3, 1, 36, 200>>, MCUnit(70, 36), MCUnit(2, 0)>>,
      [k \in 1..7 |-> <<36, 2, k, 0>>] }

\* A unit that fits, one of three fragments, one of a single fragment.
MCFileLens == <<2, 10, 3>>

-----------------------------------------------------------------------------
(* Properties: those of RtspServer, and of RtspRelay *)

(* UnitsFoundOnce of RtspRelay. *)
UnitsFoundOnce == Relay!UnitsFoundOnce

(* NumbersRunOn of RtspRelay. *)
NumbersRunOn == Relay!NumbersRunOn

(* InjectedIsTheFile of RtspRelay. *)
InjectedIsTheFile == Relay!InjectedIsTheFile
=============================================================================
