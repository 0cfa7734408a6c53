----------------------------- MODULE RtspServer ------------------------------
(* The three RTSP servers of webrtc/rtsp_server: rtsp_tcp_server.cpp          *)
(* ("h264_tcp"), rtsp_tcp_server_h265.cpp ("h265_tcp") and rtsp_server.cpp    *)
(* ("h264_udp"): main accepts one client after the other, client_handler      *)
(* takes its requests from recv and streams a file on PLAY.  Which of the     *)
(* three runs is chosen at the start.  One step per recv with the handler it  *)
(* leads to, and per NAL unit streamed; how a unit becomes RTP packets is     *)
(* module RtpStream's.                                                        *)
(*                                                                            *)
(* A request is sent in two pieces, its first line and its headers, and a     *)
(* recv returns the pieces that have come: a part of a request, or several.   *)
EXTENDS Integers, Sequences, FiniteSets, SequencesExt

CONSTANTS
    Client,
    Method,         \* what clients ask
    Port,           \* client_port of a SETUP
    NoPort,         \* a Transport header without two numbers, as other requests have
    NoClient,
    FileUnits,      \* NAL units in a file
    From, To,       \* rtsp_server.cpp: 200 and 700, the calls that read source_2
    MaxFds,         \* descriptors the process may hold
    MaxRequests,    \* bound: requests of a session
    MaxSessions     \* bound: connections

ASSUME RtspAssumption ==
    /\ Method \subseteq {"OPTIONS", "DESCRIBE", "SETUP", "PLAY", "TEARDOWN"}
    /\ NoPort \notin Port /\ Port # {} /\ NoClient \notin Client
    /\ {FileUnits, From, To, MaxRequests, MaxSessions} \subseteq Nat
    /\ MaxFds \in Nat /\ MaxFds >= 3

VARIABLES
    variant,        \* the program
    status,         \* "up", "killed" by SIGPIPE, "exited"
    pc,             \* "accept", "recv", "play"
    fds,            \* descriptors the process holds
    backlog,        \* connections not yet accepted
    cur,            \* the client served, or NoClient
    g_buffer,       \* the replies in Buffer
    m_client_rtp,   \* rtsp_server.cpp: of the RTSP object of this session
    pos,            \* units read from source_1 and source_2
    cnt,            \* of client_handler: units streamed
    fault,          \* the served connection, in the kernel: "none"; "error",
                    \* not yet reported; "pipe": every send raises SIGPIPE
    end,            \* what the client has done to its connection
    reading,        \* does the client read what it is sent?
    asked,          \* history: the requests of a client's session
    inbox,          \* the pieces of them the server has not received
    replies,        \* what the client has been answered
    tidy,           \* history: the client waited for every answer, and recv
                    \* returned its requests one by one
    sessions        \* connections made
vars == <<variant, status, pc, fds, backlog, cur, g_buffer, m_client_rtp, pos, cnt,
          fault, end, reading, asked, inbox, replies, tidy, sessions>>

server == <<pc, fds, cur, g_buffer, m_client_rtp, pos, cnt>>
clients == <<end, reading, asked, sessions>>

Variants == {"h264_tcp", "h265_tcp", "h264_udp"}
Udp == variant = "h264_udp"
Answered == {"OPTIONS", "DESCRIBE", "SETUP", "PLAY"}

\* main: new Buffer and open_listen_fd.
Init ==
    /\ variant \in Variants
    /\ status = "up"
    /\ pc = "accept"
    /\ fds = 1
    /\ backlog = <<>>
    /\ cur = NoClient
    /\ g_buffer = <<>>
    /\ m_client_rtp \in Port
    /\ pos = <<0, 0>>
    /\ cnt = 0
    /\ fault = "none"
    /\ end = [c \in Client |-> "open"]
    /\ reading = [c \in Client |-> TRUE]
    /\ asked = [c \in Client |-> <<>>]
    /\ inbox = [c \in Client |-> <<>>]
    /\ replies = [c \in Client |-> <<>>]
    /\ tidy = [c \in Client |-> TRUE]
    /\ sessions = 0

-----------------------------------------------------------------------------
(* The server                                                                 *)

\* The UDP server's RTSP object opens a socket that nothing closes.
RtspSocket == IF Udp THEN 1 ELSE 0

\* main: accept, then client_handler with its own RTSP object.
Accept ==
    /\ status = "up" /\ pc = "accept"
    /\ backlog # <<>>
    /\ backlog' = Tail(backlog)
    /\ cur' = Head(backlog)
    /\ fds' = fds + 1 + RtspSocket
    /\ IF fds' <= MaxFds
       THEN status' = status
       ELSE status' = "exited"              \* socket fails in RTSP::RTSP
    /\ m_client_rtp' \in Port               \* not initialised
    /\ fault' = IF end[cur'] = "reset" THEN "error" ELSE "none"
    /\ pc' = "recv"
    /\ UNCHANGED <<variant, g_buffer, pos, cnt, inbox, replies, tidy, clients>>

\* send to the client: whether it succeeds, and what becomes of the connection.
\* A client that has closed answers with a reset, at once or a little later.
Sends(ok) ==
    \/ end[cur] = "open" /\ ok /\ UNCHANGED <<fault, status>>
    \/ end[cur] = "closed" /\ fault = "none" /\ ok
        /\ fault' \in {"none", "pipe"} /\ UNCHANGED status
    \/ fault = "error" /\ ~ok /\ fault' = "pipe" /\ UNCHANGED status
    \/ fault = "pipe" /\ ~ok /\ UNCHANGED fault
        /\ status' = IF Udp THEN "killed" ELSE status

\* Mutant of BufferSend: the buffer is emptied only when the client got it.
BufferSendOnSuccess(reply) ==
    \E ok \in BOOLEAN :
        /\ Sends(ok)
        /\ replies' = IF ok THEN [replies EXCEPT ![cur] = @ \o g_buffer \o <<reply>>] ELSE replies
        /\ g_buffer' = IF ok THEN <<>> ELSE Append(g_buffer, reply)

\* The Writes of a handler and Buffer::Send, which ignores the result.
BufferSend(reply) ==
    \E ok \in BOOLEAN :
        /\ Sends(ok)
        /\ replies' = IF ok THEN [replies EXCEPT ![cur] = @ \o g_buffer \o <<reply>>] ELSE replies
        /\ g_buffer' = <<>>

\* The request whose first line opens the message, or 0.
Requested(message) == IF message[1].part = "line" THEN message[1].request ELSE 0

HeadersIn(message) == {i \in DOMAIN message : message[i].part = "headers"}

\* keyValueMap["CSeq"]: a later header overrides an earlier one; 0 if there is none.
CSeq(message) ==
    IF HeadersIn(message) = {} THEN 0 ELSE message[Max(HeadersIn(message))].request

\* keyValueMap["Transport"], of the last SETUP whose headers are in the message.
Transport(message) ==
    LET PortOf(i) == asked[cur][message[i].request].port
        setups    == {i \in HeadersIn(message) : PortOf(i) # NoPort}
    IN  IF setups = {} THEN NoPort ELSE PortOf(Max(setups))

\* Mutant of handler_setup: the header is only echoed, as the TCP servers do.
handler_setup_echo(message) == UNCHANGED m_client_rtp

\* The two TCP servers only echo the header.
handler_setup(message) ==
    m_client_rtp' = IF Udp /\ Transport(message) # NoPort
                    THEN Transport(message) ELSE m_client_rtp

\* PLAY opens the files and enters the loop.
handler_play ==
    /\ pc' = "play"
    /\ pos' = <<0, 0>>
    /\ cnt' = 0

Whole(message) == Len(message) = 2 /\ message[1].part = "line"

\* recv returns k pieces; client_handler parses them and calls one handler.
\* A method it does not know, or the middle of a request, gets no answer.
HandleMessage(k) ==
    /\ status = "up" /\ pc = "recv"
    /\ k \in DOMAIN inbox[cur]
    /\ LET message == SubSeq(inbox[cur], 1, k)
           n       == Requested(message)
           method  == IF n = 0 THEN "" ELSE asked[cur][n].method
       IN  /\ tidy' = [tidy EXCEPT ![cur] = @ /\ Whole(message)]
           /\ IF method \in Answered
              THEN BufferSend([method |-> method, cseq |-> CSeq(message)])
              ELSE UNCHANGED <<fault, status, replies, g_buffer>>
           /\ IF method = "SETUP" THEN handler_setup(message) ELSE UNCHANGED m_client_rtp
           /\ IF method = "PLAY" THEN handler_play ELSE UNCHANGED <<pc, pos, cnt>>
    /\ inbox' = [inbox EXCEPT ![cur] = SubSeq(@, k + 1, Len(@))]
    /\ UNCHANGED <<variant, fds, backlog, cur, clients>>

\* Mutant of RecvError: the error is reported again and again.
RecvErrorAgain ==
    /\ status = "up" /\ pc = "recv"
    /\ inbox[cur] = <<>>
    /\ fault = "error"
    /\ UNCHANGED vars

\* recv returns -1: the message is empty, no handler is called, recv again.
RecvError ==
    /\ status = "up" /\ pc = "recv"
    /\ inbox[cur] = <<>>
    /\ fault = "error"
    /\ fault' = "pipe"
    /\ UNCHANGED <<variant, status, server, backlog, inbox, replies, tidy, clients>>

\* The connection of c is over.
Forget(c) ==
    /\ end' = [end EXCEPT ![c] = "open"]
    /\ reading' = [reading EXCEPT ![c] = TRUE]
    /\ asked' = [asked EXCEPT ![c] = <<>>]
    /\ inbox' = [inbox EXCEPT ![c] = <<>>]
    /\ replies' = [replies EXCEPT ![c] = <<>>]
    /\ tidy' = [tidy EXCEPT ![c] = TRUE]

\* Mutant of Leave: the descriptor stays open.
LeaveOpen ==
    /\ status = "up" /\ pc = "recv"
    /\ inbox[cur] = <<>>
    /\ end[cur] # "open" /\ fault # "error"
    /\ cur' = NoClient
    /\ pc' = "accept"
    /\ fault' = "none"
    /\ Forget(cur)
    /\ UNCHANGED <<variant, status, fds, backlog, g_buffer, m_client_rtp, pos, cnt, sessions>>

\* recv returns 0; main accepts the next client.
Leave ==
    /\ status = "up" /\ pc = "recv"
    /\ inbox[cur] = <<>>
    /\ end[cur] # "open" /\ fault # "error"
    /\ fds' = fds - 1
    /\ cur' = NoClient
    /\ pc' = "accept"
    /\ fault' = "none"
    /\ Forget(cur)
    /\ UNCHANGED <<variant, status, backlog, g_buffer, m_client_rtp, pos, cnt, sessions>>

\* The source the next unit comes from: cnt++ > From && cnt < To.
Source == IF Udp /\ cnt > From /\ cnt + 1 < To THEN 2 ELSE 1

\* copy_nal_from_file returns -1.
EndOfFile ==
    /\ status = "up" /\ pc = "play"
    /\ pos[Source] = FileUnits
    /\ pc' = "recv"
    /\ UNCHANGED <<variant, status, fds, backlog, cur, g_buffer, m_client_rtp, pos, cnt,
                   fault, inbox, replies, tidy, clients>>

\* One unit: TCP blocks while the client does not read and ends the stream when
\* send fails; UDP sends to m_client_rtp, whatever has become of the client.
StreamUnit ==
    /\ status = "up" /\ pc = "play"
    /\ pos[Source] < FileUnits
    /\ pos' = [pos EXCEPT ![Source] = @ + 1]
    /\ cnt' = cnt + 1
    /\ IF Udp
       THEN UNCHANGED <<pc, fault, status>>
       ELSE /\ reading[cur] \/ end[cur] # "open"
            /\ \E ok \in BOOLEAN : Sends(ok) /\ pc' = IF ok THEN "play" ELSE "recv"
    /\ UNCHANGED <<variant, fds, backlog, cur, g_buffer, m_client_rtp,
                   inbox, replies, tidy, clients>>

ServerStep ==
    \/ Accept
    \/ \E k \in 1..(2 * MaxRequests) : HandleMessage(k)
    \/ RecvError
    \/ Leave
    \/ EndOfFile
    \/ StreamUnit

\* The three programs.
H264TcpServer == variant = "h264_tcp" /\ ServerStep
H265TcpServer == variant = "h265_tcp" /\ ServerStep
H264UdpServer == variant = "h264_udp" /\ ServerStep

-----------------------------------------------------------------------------
(* The clients                                                                *)

Away(c) == c # cur /\ c \notin Range(backlog)

Connect(c) ==
    /\ Away(c)
    /\ sessions < MaxSessions
    /\ sessions' = sessions + 1
    /\ backlog' = Append(backlog, c)
    /\ UNCHANGED <<variant, status, server, fault, end, reading, asked, inbox, replies, tidy>>

\* What a client sends before it is accepted is there when it is accepted: the
\* same as if it had sent it then.
Ask(c, m, p) ==
    /\ c = cur /\ end[c] = "open"
    /\ Len(asked[c]) < MaxRequests
    /\ m # "SETUP" => p = NoPort
    /\ asked' = [asked EXCEPT ![c] = Append(@, [method |-> m, port |-> p])]
    /\ inbox' = [inbox EXCEPT ![c] =
           @ \o <<[part |-> "line", request |-> Len(asked'[c])],
                  [part |-> "headers", request |-> Len(asked'[c])]>>]
    /\ tidy' = [tidy EXCEPT ![c] = @ /\ Len(replies[c]) = Len(asked[c])]
    /\ UNCHANGED <<variant, status, server, backlog, fault, end, reading, replies, sessions>>

StopReading(c) ==
    /\ c = cur /\ end[c] = "open"
    /\ reading' = [reading EXCEPT ![c] = FALSE]
    /\ UNCHANGED <<variant, status, server, backlog, fault, end, asked, inbox, replies, tidy, sessions>>

Depart(c, how) ==
    /\ ~Away(c) /\ end[c] = "open"
    /\ end' = [end EXCEPT ![c] = how]
    /\ fault' = IF c = cur /\ how = "reset" THEN "error" ELSE fault
    /\ UNCHANGED <<variant, status, server, backlog, reading, asked, inbox, replies, tidy, sessions>>

ClientStep ==
    \E c \in Client :
        \/ Connect(c)
        \/ \E m \in Method, p \in Port \cup {NoPort} : Ask(c, m, p)
        \/ StopReading(c)
        \/ \E how \in {"closed", "reset"} : Depart(c, how)

Next ==
    \/ H264TcpServer
    \/ H265TcpServer
    \/ H264UdpServer
    \/ ClientStep

Spec == Init /\ [][Next]_vars /\ WF_vars(ServerStep)

-----------------------------------------------------------------------------
(* Properties                                                                 *)

(* A client that sends its next request after the answer to the last one, and *)
(* whose requests recv returns whole, is answered each of them in order, with *)
(* its own method and CSeq, whoever was served before on the global buffer    *)
(* (rtsp_tcp_server.cpp:115-118, 406-429).                                    *)
RepliesMatchRequests ==
    \A c \in Client :
        tidy[c] =>
            /\ Len(replies[c]) <= Len(asked[c])
            /\ \A i \in DOMAIN replies[c] :
                   replies[c][i] = [method |-> asked[c][i].method, cseq |-> i]

\* The SETUPs among the first n requests of c that name ports.
SetupsOf(c, n) == {i \in DOMAIN asked[c] : i <= n /\ asked[c][i].port # NoPort}

(* While the UDP server streams to such a client, it streams to the port of   *)
(* the client's last SETUP before PLAY, and not to the one an earlier client  *)
(* left on the stack (rtsp_server.cpp:326-329, 357, 421).                     *)
StreamGoesWhereAsked ==
    pc = "play" /\ Udp /\ tidy[cur] =>
        LET setups == SetupsOf(cur, Len(replies[cur]))
        IN  \A i \in setups :
                (\A j \in setups : j <= i) => m_client_rtp = asked[cur][i].port

(* The TCP servers survive clients that leave in the middle of a reply or of  *)
(* a stream (rtsp_tcp_server.cpp:462: SIGPIPE is handled) and do not run out  *)
(* of descriptors; the UDP server may do both.                                *)
TcpServersSurvive == ~Udp => status = "up" /\ fds = (IF pc = "accept" THEN 1 ELSE 2)

(* A server takes the next connection as soon as the client before it has     *)
(* left: if every client leaves in the end, a client that waits is accepted,  *)
(* or the UDP server is dead: killed by SIGPIPE, or out of descriptors, having *)
(* kept a socket of every session (rtsp_server.cpp:37, 357, 431).             *)
EveryoneServed ==
    (\A c \in Client : []<>(end[c] # "open" \/ Away(c)))
        => \A c \in Client :
               c \in Range(backlog) ~>
                   c \notin Range(backlog) \/ (Udp /\ status # "up")
=============================================================================
