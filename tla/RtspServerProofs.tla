-------------------------- MODULE RtspServerProofs ---------------------------
(* For any number of clients, requests and sessions, and any length of file:  *)
(* the TCP servers stay up and hold no descriptor but the listening socket    *)
(* and that of the client they serve; a client that takes one answer after    *)
(* the other gets its own; the UDP server streams to where it asked; and what *)
(* the relay puts in is its file, for any file, stream and switching.          *)
EXTENDS MCRtspServers, SequenceTheorems, FiniteSetTheorems, WellFoundedInduction,
        NaturalsInduction, TLAPS

(* The places main and client_handler can be at.                              *)
Places == pc \in {"accept", "recv", "play"}

(* A server is told apart for good by its variant.                            *)
IInv ==
    /\ variant \in Variants
    /\ Places
    /\ TcpServersSurvive

(* Whatever becomes of a send, a TCP server is not killed: its SIGPIPE is     *)
(* handled (rtsp_tcp_server.cpp:462).                                         *)
LEMMA SendsKeepsTcpUp ==
    ASSUME NEW ok, Sends(ok), ~Udp
    PROVE  status' = status
    BY DEF Sends

(* A message is handled on the served connection, with the descriptors as     *)
(* they are.                                                                  *)
LEMMA HandleMessageKeeps ==
    ASSUME NEW k, HandleMessage(k), IInv
    PROVE  /\ pc = "recv" /\ pc' \in {"recv", "play"}
           /\ fds' = fds /\ variant' = variant
           /\ ~Udp => status' = status
<1> DEFINE message == SubSeq(inbox[cur], 1, k)
           n       == Requested(message)
           method  == IF n = 0 THEN "" ELSE asked[cur][n].method
<1>1. pc = "recv" /\ fds' = fds /\ variant' = variant
    BY DEF HandleMessage
<1>2. IF method = "PLAY" THEN handler_play ELSE UNCHANGED <<pc, pos, cnt>>
    BY DEF HandleMessage
<1>3. pc' \in {"recv", "play"}
    BY <1>1, <1>2 DEF handler_play
<1>4. IF method \in Answered
      THEN BufferSend([method |-> method, cseq |-> CSeq(message)])
      ELSE UNCHANGED <<fault, status, replies, g_buffer>>
    BY DEF HandleMessage
<1>5. ~Udp => status' = status
    <2> SUFFICES ASSUME ~Udp PROVE status' = status
        OBVIOUS
    <2>1. CASE method \in Answered
        <3>1. PICK ok \in BOOLEAN : Sends(ok)
            BY <1>4, <2>1 DEF BufferSend
        <3> QED
            BY <3>1, SendsKeepsTcpUp
    <2>2. CASE method \notin Answered
        BY <1>4, <2>2
    <2> QED
        BY <2>1, <2>2
<1> QED
    BY <1>1, <1>3, <1>5

(* One unit streamed: the server goes on, or is back at recv.                 *)
LEMMA StreamUnitKeeps ==
    ASSUME StreamUnit, IInv
    PROVE  /\ pc = "play" /\ pc' \in {"recv", "play"}
           /\ fds' = fds /\ variant' = variant
           /\ ~Udp => status' = status
<1>1. pc = "play" /\ fds' = fds /\ variant' = variant
    BY DEF StreamUnit
<1>2. CASE Udp
    BY <1>1, <1>2 DEF StreamUnit
<1>3. CASE ~Udp
    <2>1. PICK ok \in BOOLEAN : Sends(ok) /\ pc' = IF ok THEN "play" ELSE "recv"
        BY <1>3 DEF StreamUnit
    <2> QED
        BY <1>1, <1>3, <2>1, SendsKeepsTcpUp
<1> QED
    BY <1>2, <1>3

(* What the clients do changes nothing the server is made of.                 *)
LEMMA ClientStepKeeps ==
    ASSUME ClientStep
    PROVE  UNCHANGED <<variant, status, pc, fds>>
<1>1. ASSUME NEW c \in Client, Connect(c)
      PROVE  UNCHANGED <<variant, status, pc, fds>>
    BY <1>1 DEF Connect, server
<1>2. ASSUME NEW c \in Client, NEW m \in Method, NEW p \in Port \cup {NoPort}, Ask(c, m, p)
      PROVE  UNCHANGED <<variant, status, pc, fds>>
    BY <1>2 DEF Ask, server
<1>3. ASSUME NEW c \in Client, StopReading(c)
      PROVE  UNCHANGED <<variant, status, pc, fds>>
    BY <1>3 DEF StopReading, server
<1>4. ASSUME NEW c \in Client, NEW how \in {"closed", "reset"}, Depart(c, how)
      PROVE  UNCHANGED <<variant, status, pc, fds>>
    BY <1>4 DEF Depart, server
<1> QED
    BY <1>1, <1>2, <1>3, <1>4 DEF ClientStep

(* main starts with the listening socket.                                     *)
THEOREM InitEstablishes == Init => IInv
    BY DEF Init, IInv, Places, TcpServersSurvive

(* One step of a server keeps it.  Only Accept opens a descriptor and only    *)
(* Leave closes one; both are the connection's.                               *)
LEMMA ServerStepPreserves ==
    ASSUME IInv, ServerStep
    PROVE  IInv'
<1> USE DEF IInv, Places, TcpServersSurvive
<1>1. CASE Accept
    <2>1. /\ pc = "accept" /\ pc' = "recv" /\ variant' = variant
          /\ fds' = fds + 1 + RtspSocket
          /\ fds' <= MaxFds => status' = status
        BY <1>1 DEF Accept
    <2>2. ASSUME ~Udp PROVE fds' = 2 /\ status' = "up"
        BY <2>1, <2>2, RtspAssumption DEF RtspSocket
    <2> QED
        BY <2>1, <2>2 DEF Udp
<1>2. ASSUME NEW k \in 1..(2 * MaxRequests), HandleMessage(k) PROVE IInv'
    <2>1. /\ pc = "recv" /\ pc' \in {"recv", "play"}
          /\ fds' = fds /\ variant' = variant
          /\ ~Udp => status' = status
        BY <1>2, HandleMessageKeeps
    <2> QED
        BY <2>1 DEF Udp
<1>3. CASE RecvError
    BY <1>3 DEF RecvError, server, Udp
<1>4. CASE Leave
    <2>1. /\ pc = "recv" /\ pc' = "accept" /\ variant' = variant
          /\ fds' = fds - 1 /\ status' = status
        BY <1>4 DEF Leave
    <2> QED
        BY <2>1 DEF Udp
<1>5. CASE EndOfFile
    BY <1>5 DEF EndOfFile, Udp
<1>6. CASE StreamUnit
    <2>1. /\ pc = "play" /\ pc' \in {"recv", "play"}
          /\ fds' = fds /\ variant' = variant
          /\ ~Udp => status' = status
        BY <1>6, StreamUnitKeeps
    <2> QED
        BY <2>1 DEF Udp
<1> QED
    BY <1>1, <1>2, <1>3, <1>4, <1>5, <1>6 DEF ServerStep

(* So does every step, and a step of nobody.                                  *)
THEOREM StepPreserves == IInv /\ [Next]_vars => IInv'
<1> SUFFICES ASSUME IInv, [Next]_vars PROVE IInv'
    OBVIOUS
<1>1. CASE ServerStep
    BY <1>1, ServerStepPreserves
<1>2. CASE ClientStep
    BY <1>2, ClientStepKeeps DEF IInv, Places, TcpServersSurvive, Udp
<1>3. CASE UNCHANGED vars
    BY <1>3 DEF vars, IInv, Places, TcpServersSurvive, Udp
<1> QED
    BY <1>1, <1>2, <1>3 DEF Next, H264TcpServer, H265TcpServer, H264UdpServer

(* A TCP server survives every client (rtsp_tcp_server.cpp:462) and gives     *)
(* back every descriptor (rtsp_tcp_server.cpp:453).                           *)
THEOREM Survives == Spec => []TcpServersSurvive
<1>1. IInv => TcpServersSurvive
    BY DEF IInv
<1> QED
    BY <1>1, InitEstablishes, StepPreserves, PTL DEF Spec

-----------------------------------------------------------------------------
(* Requests and answers                                                       *)

Requests == [method : Method, port : Port \cup {NoPort}]
Pieces == [part : {"line", "headers"}, request : Nat]
Replies == [method : Answered, cseq : Nat]

(* The pieces of request n.                                                   *)
Pending(n) == <<[part |-> "line", request |-> n], [part |-> "headers", request |-> n]>>

(* What the histories and the served connection are made of.  The buffer is   *)
(* empty between two messages.                                                *)
Shapes ==
    /\ pc \in {"accept", "recv", "play"}
    /\ cur \in Client \cup {NoClient}
    /\ pc = "accept" <=> cur = NoClient
    /\ backlog \in Seq(Client)
    /\ g_buffer = <<>>
    /\ asked \in [Client -> Seq(Requests)]
    /\ inbox \in [Client -> Seq(Pieces)]
    /\ DOMAIN replies = Client
    /\ tidy \in [Client -> BOOLEAN]

(* Only a SETUP names a port.                                                 *)
PortsInSetups ==
    \A c \in Client : \A i \in DOMAIN asked[c] :
        asked[c][i].method # "SETUP" => asked[c][i].port = NoPort

(* Who is not served has asked nothing.                                       *)
Fresh(c) == asked[c] = <<>> /\ inbox[c] = <<>> /\ replies[c] = <<>>

OthersFresh == \A c \in Client \ {cur} : Fresh(c)

(* Of a client that waits for its answers, the request it waits for has not   *)
(* been received, or it has and all before it were answered.                  *)
Awaits(c) ==
    \/ inbox[c] = <<>> /\ Len(replies[c]) \in {Len(asked[c]), Len(asked[c]) - 1}
    \/ /\ inbox[c] = Pending(Len(asked[c]))
       /\ Len(asked[c]) # 0
       /\ Len(replies[c]) = Len(asked[c]) - 1

OwnReplies(c) ==
    /\ replies[c] \in Seq(Replies)
    /\ \A i \in DOMAIN replies[c] :
           replies[c][i] = [method |-> asked[c][i].method, cseq |-> i]

InStep == \A c \in Client : tidy[c] => Awaits(c) /\ OwnReplies(c)

(* The requests of such a client that were received.                          *)
Handled(c) == IF inbox[c] = <<>> THEN Len(asked[c]) ELSE Len(asked[c]) - 1

(* m_client_rtp is the port of the last SETUP of the session, if it had one.  *)
AimedAt(c, n) ==
    \A i \in SetupsOf(c, n) :
        (\A j \in SetupsOf(c, n) : j <= i) => m_client_rtp = asked[c][i].port

Aimed == Udp /\ cur # NoClient /\ tidy[cur] => AimedAt(cur, Handled(cur))

(* What is streamed was asked for last.                                       *)
Playing ==
    pc = "play" /\ tidy[cur] =>
        /\ Handled(cur) \in DOMAIN asked[cur]
        /\ asked[cur][Handled(cur)].method = "PLAY"

SessionInv == Shapes /\ PortsInSetups /\ OthersFresh /\ InStep /\ Aimed /\ Playing

LEMMA InitSession == Init => SessionInv
<1> SUFFICES ASSUME Init PROVE SessionInv
    OBVIOUS
<1>1. /\ pc = "accept" /\ cur = NoClient /\ backlog = <<>> /\ g_buffer = <<>>
      /\ asked = [c \in Client |-> <<>>]
      /\ inbox = [c \in Client |-> <<>>]
      /\ replies = [c \in Client |-> <<>>]
      /\ tidy = [c \in Client |-> TRUE]
    BY DEF Init
<1>2. Shapes
    BY <1>1, EmptySeq DEF Shapes
<1>3. \A c \in Client : Fresh(c)
    BY <1>1 DEF Fresh
<1>4. \A c \in Client : Awaits(c) /\ OwnReplies(c)
    <2>1. <<>> \in Seq(Replies) /\ Len(<<>>) = 0 /\ DOMAIN <<>> = {}
        BY EmptySeq
    <2> QED
        BY <1>3, <2>1 DEF Fresh, Awaits, OwnReplies
<1>5. PortsInSetups
    BY <1>3 DEF Fresh, PortsInSetups
<1> QED
    BY <1>1, <1>2, <1>3, <1>4, <1>5 DEF SessionInv, OthersFresh, InStep, Aimed, Playing

(* A step that is not about requests leaves it alone: the loop over the file  *)
(* only ends, and connections only arrive.                                    *)
Quiet ==
    /\ UNCHANGED <<variant, cur, g_buffer, m_client_rtp, asked, inbox, replies, tidy>>
    /\ backlog' \in Seq(Client)
    /\ pc' = pc \/ (pc # "accept" /\ pc' = "recv")

LEMMA QuietSession == SessionInv /\ Quiet => SessionInv'
<1> SUFFICES ASSUME SessionInv, Quiet PROVE SessionInv'
    OBVIOUS
<1> USE DEF SessionInv, Quiet
<1>1. Shapes'
    BY DEF Shapes
<1>2. PortsInSetups' /\ OthersFresh' /\ InStep'
    BY DEF PortsInSetups, OthersFresh, InStep, Fresh, Awaits, OwnReplies
<1>3. Aimed' /\ Playing'
    BY DEF Aimed, AimedAt, SetupsOf, Handled, Playing, Udp
<1> QED
    BY <1>1, <1>2, <1>3

LEMMA AcceptSession == SessionInv /\ Accept => SessionInv'
<1> SUFFICES ASSUME SessionInv, Accept PROVE SessionInv'
    OBVIOUS
<1>1. /\ pc = "accept" /\ pc' = "recv" /\ backlog # <<>>
      /\ backlog' = Tail(backlog) /\ cur' = Head(backlog)
      /\ UNCHANGED <<variant, g_buffer, asked, inbox, replies, tidy>>
    BY DEF Accept, clients
<1>2. Shapes /\ cur = NoClient
    BY <1>1 DEF SessionInv, Shapes
<1>3. cur' \in Client /\ backlog' \in Seq(Client)
    BY <1>1, <1>2, HeadTailProperties DEF Shapes
<1>4. cur' # NoClient
    BY <1>3, RtspAssumption
<1>5. Shapes'
    BY <1>1, <1>2, <1>3, <1>4 DEF Shapes
<1>6. \A c \in Client : Fresh(c)
    BY <1>2, RtspAssumption DEF SessionInv, OthersFresh
<1>7. \A c \in Client : Fresh(c)'
    BY <1>1, <1>6 DEF Fresh
<1>8. PortsInSetups' /\ OthersFresh' /\ InStep'
    BY <1>1, <1>7 DEF SessionInv, PortsInSetups, OthersFresh, InStep, Awaits, OwnReplies
<1>9. Aimed'
    <2>1. asked'[cur'] = <<>>
        BY <1>3, <1>7 DEF Fresh
    <2> QED
        BY <2>1 DEF Aimed, AimedAt, SetupsOf
<1> QED
    BY <1>1, <1>5, <1>8, <1>9 DEF SessionInv, Playing

LEMMA LeaveSession == SessionInv /\ Leave => SessionInv'
<1> SUFFICES ASSUME SessionInv, Leave PROVE SessionInv'
    OBVIOUS
<1>1. /\ cur' = NoClient /\ pc' = "accept" /\ pc = "recv"
      /\ asked' = [asked EXCEPT ![cur] = <<>>]
      /\ inbox' = [inbox EXCEPT ![cur] = <<>>]
      /\ replies' = [replies EXCEPT ![cur] = <<>>]
      /\ tidy' = [tidy EXCEPT ![cur] = TRUE]
      /\ UNCHANGED <<variant, backlog, g_buffer>>
    BY DEF Leave, Forget
<1>2. Shapes /\ cur \in Client
    BY <1>1 DEF SessionInv, Shapes
<1>3. Shapes'
    BY <1>1, <1>2, EmptySeq DEF Shapes
<1>4. ASSUME NEW c \in Client
      PROVE  /\ Fresh(c)'
             /\ c # cur => asked'[c] = asked[c] /\ inbox'[c] = inbox[c]
                           /\ replies'[c] = replies[c] /\ tidy'[c] = tidy[c]
    BY <1>1, <1>2 DEF Shapes, Fresh, SessionInv, OthersFresh
<1>5. PortsInSetups' /\ OthersFresh'
    BY <1>4 DEF PortsInSetups, OthersFresh, Fresh
<1>6. InStep'
    <2>1. <<>> \in Seq(Replies) /\ Len(<<>>) = 0 /\ DOMAIN <<>> = {}
        BY EmptySeq
    <2> QED
        BY <1>4, <2>1 DEF InStep, Fresh, Awaits, OwnReplies
<1> QED
    BY <1>1, <1>3, <1>5, <1>6 DEF SessionInv, Aimed, Playing

(* The next request of a client that has all its answers is the only thing    *)
(* in its inbox.                                                              *)
LEMMA AskSession ==
    ASSUME SessionInv, NEW c \in Client, NEW m \in Method, NEW p \in Port \cup {NoPort},
           Ask(c, m, p)
    PROVE  SessionInv'
<1> DEFINE new == [method |-> m, port |-> p]
<1>0. PICK n \in Nat : n = Len(asked[c])
    BY LenProperties DEF SessionInv, Shapes
<1> DEFINE two == Pending(n + 1)
<1>1. /\ c = cur
      /\ m # "SETUP" => p = NoPort
      /\ asked' = [asked EXCEPT ![c] = Append(@, new)]
      /\ inbox' = [inbox EXCEPT ![c] =
             @ \o <<[part |-> "line", request |-> Len(asked'[c])],
                    [part |-> "headers", request |-> Len(asked'[c])]>>]
      /\ tidy' = [tidy EXCEPT ![c] = @ /\ Len(replies[c]) = Len(asked[c])]
      /\ UNCHANGED <<variant, pc, cur, backlog, g_buffer, m_client_rtp, replies>>
    BY DEF Ask, server
<1>2. Shapes
    BY DEF SessionInv
<1>3. asked[c] \in Seq(Requests) /\ inbox[c] \in Seq(Pieces) /\ n = Len(asked[c])
    BY <1>0, <1>2 DEF Shapes
<1>4. new \in Requests
    BY DEF Requests
<1>5. /\ asked'[c] = Append(asked[c], new)
      /\ asked'[c] \in Seq(Requests)
      /\ Len(asked'[c]) = n + 1
      /\ \A i \in 1..n : asked'[c][i] = asked[c][i]
      /\ asked'[c][n + 1] = new
    <2>1. asked'[c] = Append(asked[c], new)
        BY <1>1, <1>2 DEF Shapes
    <2> QED
        BY <1>3, <1>4, <2>1, AppendProperties
<1>6. inbox'[c] = inbox[c] \o two /\ two \in Seq(Pieces)
    <2>1. inbox'[c] = inbox[c] \o two
        BY <1>1, <1>2, <1>5 DEF Shapes, Pending
    <2>2. two \in Seq(Pieces)
        BY <1>3 DEF Pending, Pieces
    <2> QED
        BY <2>1, <2>2
<1>7. \A d \in Client \ {c} :
          asked'[d] = asked[d] /\ inbox'[d] = inbox[d] /\ tidy'[d] = tidy[d]
    BY <1>1, <1>2 DEF Shapes
<1>8. tidy'[c] = (tidy[c] /\ Len(replies[c]) = Len(asked[c]))
    BY <1>1, <1>2, Zenon DEF Shapes
<1>9. Shapes'
    <2>1. asked' \in [Client -> Seq(Requests)]
        BY <1>1, <1>2, <1>5, <1>7 DEF Shapes
    <2>2. inbox' \in [Client -> Seq(Pieces)]
        <3>1. inbox'[c] \in Seq(Pieces)
            BY <1>3, <1>6, ConcatProperties
        <3> QED
            BY <1>1, <1>2, <1>7, <3>1 DEF Shapes
    <2>3. tidy' \in [Client -> BOOLEAN]
        BY <1>1, <1>2 DEF Shapes
    <2> QED
        BY <1>1, <1>2, <2>1, <2>2, <2>3 DEF Shapes
<1>10. DOMAIN asked[c] = 1..n /\ DOMAIN asked'[c] = 1..(n + 1)
    BY <1>3, <1>5, LenProperties
<1>11. PortsInSetups'
    <2>1. SUFFICES ASSUME NEW d \in Client, NEW i \in DOMAIN asked'[d],
                          asked'[d][i].method # "SETUP"
                   PROVE  asked'[d][i].port = NoPort
        BY DEF PortsInSetups
    <2>2. CASE d # c
        BY <1>7, <2>1, <2>2 DEF SessionInv, PortsInSetups
    <2>3. CASE d = c /\ i \in 1..n
        BY <1>5, <1>10, <2>1, <2>3 DEF SessionInv, PortsInSetups
    <2>4. CASE d = c /\ i = n + 1
        BY <1>1, <1>5, <2>1, <2>4
    <2> QED
        BY <1>3, <1>10, <2>1, <2>2, <2>3, <2>4
<1>12. OthersFresh'
    BY <1>1, <1>7 DEF SessionInv, OthersFresh, Fresh
<1>13. tidy'[c] => /\ tidy[c] /\ Len(replies[c]) = n /\ inbox[c] = <<>> /\ inbox'[c] = two
                   /\ OwnReplies(c)
    <2>1. SUFFICES ASSUME tidy'[c]
                   PROVE  /\ tidy[c] /\ Len(replies[c]) = n /\ inbox[c] = <<>> /\ inbox'[c] = two
                          /\ OwnReplies(c)
        OBVIOUS
    <2>2. tidy[c] /\ Len(replies[c]) = n
        BY <1>3, <1>8, <2>1
    <2>3. Awaits(c) /\ OwnReplies(c)
        BY <2>2 DEF SessionInv, InStep
    <2>4. inbox[c] = <<>>
        BY <1>3, <2>2, <2>3 DEF Awaits
    <2>5. <<>> \o two = two
        BY <1>6, ConcatEmptySeq
    <2> QED
        BY <1>6, <2>2, <2>3, <2>4, <2>5
<1>14. InStep'
    <2>1. SUFFICES ASSUME NEW d \in Client, tidy'[d]
                   PROVE  Awaits(d)' /\ OwnReplies(d)'
        BY DEF InStep
    <2>2. CASE d # c
        BY <1>1, <1>7, <2>1, <2>2 DEF SessionInv, InStep, Awaits, OwnReplies
    <2>3. CASE d = c
        <3>1. Awaits(c)'
            BY <1>1, <1>3, <1>5, <1>13, <2>1, <2>3 DEF Awaits
        <3>2. DOMAIN replies[c] = 1..n
            BY <1>3, <1>13, <2>1, <2>3, LenProperties DEF OwnReplies
        <3>3. OwnReplies(c)'
            BY <1>1, <1>5, <1>13, <2>1, <2>3, <3>2 DEF OwnReplies
        <3> QED
            BY <2>3, <3>1, <3>3
    <2> QED
        BY <2>2, <2>3
<1>15. tidy'[c] => Handled(c) = n /\ Handled(c)' = n
    <2>1. two # <<>>
        BY DEF Pending
    <2> QED
        BY <1>3, <1>5, <1>13, <2>1 DEF Handled
<1>16. Aimed'
    <2>1. SUFFICES ASSUME Udp, tidy'[c] PROVE AimedAt(c, n)'
        BY <1>1, <1>15 DEF Aimed, Udp
    <2>2. AimedAt(c, n)
        <3>1. tidy[c] /\ cur # NoClient
            BY <1>1, <1>13, <2>1, RtspAssumption
        <3> QED
            BY <1>1, <1>15, <2>1, <3>1 DEF SessionInv, Aimed
    <2>3. SetupsOf(c, n)' = SetupsOf(c, n)
        BY <1>3, <1>5, <1>10 DEF SetupsOf
    <2>4. \A i \in SetupsOf(c, n) : asked'[c][i] = asked[c][i]
        BY <1>5, <1>10 DEF SetupsOf
    <2> QED
        BY <1>1, <2>2, <2>3, <2>4 DEF AimedAt
<1>17. Playing'
    <2>1. SUFFICES ASSUME pc = "play", tidy'[c]
                   PROVE  n \in DOMAIN asked'[c] /\ asked'[c][n].method = "PLAY"
        BY <1>1, <1>15 DEF Playing
    <2>2. n \in DOMAIN asked[c] /\ asked[c][n].method = "PLAY"
        BY <1>1, <1>13, <1>15, <2>1 DEF SessionInv, Playing
    <2> QED
        BY <1>3, <1>5, <1>10, <2>2
<1> QED
    BY <1>9, <1>11, <1>12, <1>14, <1>16, <1>17 DEF SessionInv

(* A reply is the client's or it is lost, and the buffer is empty again.      *)
LEMMA Reply ==
    ASSUME Shapes, cur \in Client, NEW r \in Replies, BufferSend(r)
    PROVE  /\ g_buffer' = <<>>
           /\ DOMAIN replies' = Client
           /\ \A c \in Client \ {cur} : replies'[c] = replies[c]
           /\ replies[cur] \in Seq(Replies) =>
                \/ replies'[cur] = replies[cur]
                \/ replies'[cur] = Append(replies[cur], r)
<1>1. PICK ok \in BOOLEAN :
          replies' = IF ok THEN [replies EXCEPT ![cur] = @ \o g_buffer \o <<r>>] ELSE replies
    BY DEF BufferSend
<1>2. g_buffer = <<>> /\ g_buffer' = <<>> /\ DOMAIN replies = Client
    BY DEF Shapes, BufferSend
<1>3. ASSUME replies[cur] \in Seq(Replies)
      PROVE  replies[cur] \o g_buffer \o <<r>> = Append(replies[cur], r)
    BY <1>2, <1>3, ConcatEmptySeq, AppendIsConcat
<1>4. CASE ok
    BY <1>1, <1>2, <1>3, <1>4
<1>5. CASE ~ok
    BY <1>1, <1>2, <1>5
<1> QED
    BY <1>2, <1>4, <1>5

(* A request received whole has its own number and port.                      *)
LEMMA WholeRequest ==
    ASSUME Shapes, cur \in Client, NEW n \in Nat \ {0}
    PROVE  /\ Requested(Pending(n)) = n
           /\ CSeq(Pending(n)) = n
           /\ Transport(Pending(n)) = asked[cur][n].port
<1> DEFINE message == Pending(n)
<1>1. DOMAIN message = {1, 2} /\ message[1].part = "line" /\ message[1].request = n
      /\ message[2].part = "headers" /\ message[2].request = n
    BY DEF Pending
<1> HIDE DEF message
<1>2. HeadersIn(message) = {2}
    BY <1>1 DEF HeadersIn
<1>3. Max({2}) = 2
    BY DEF Max
<1>4. Requested(message) = n
    BY <1>1 DEF Requested
<1>5. CSeq(message) = n
    BY <1>1, <1>2, <1>3 DEF CSeq
<1>6. Transport(message) = asked[cur][n].port
    <2> DEFINE setups == {i \in HeadersIn(message) : asked[cur][message[i].request].port # NoPort}
    <2>1. Transport(message) = IF setups = {} THEN NoPort
                               ELSE asked[cur][message[Max(setups)].request].port
        BY DEF Transport
    <2>2. CASE asked[cur][n].port = NoPort
        <3>1. setups = {}
            BY <1>1, <1>2, <2>2
        <3> QED
            BY <2>1, <2>2, <3>1
    <2>3. CASE asked[cur][n].port # NoPort
        <3>1. setups = {2}
            BY <1>1, <1>2, <2>3
        <3> HIDE DEF setups
        <3> QED
            BY <1>1, <1>3, <2>1, <3>1
    <2> QED
        BY <2>2, <2>3
<1> QED
    BY <1>4, <1>5, <1>6 DEF message

(* What recv leaves and what it takes.                                        *)
LEMMA Pieced ==
    ASSUME NEW s \in Seq(Pieces), NEW k \in DOMAIN s
    PROVE  /\ Len(SubSeq(s, 1, k)) = k
           /\ SubSeq(s, k + 1, Len(s)) \in Seq(Pieces)
           /\ k = Len(s) => SubSeq(s, 1, k) = s /\ SubSeq(s, k + 1, Len(s)) = <<>>
<1>1. Len(s) \in Nat /\ DOMAIN s = 1..Len(s) /\ k \in 1..Len(s)
    BY LenProperties
<1>2. \A i \in 1..Len(s) : s[i] \in Pieces
    BY <1>1, ElementOfSeq
<1>3. Len(SubSeq(s, 1, k)) = k
    BY <1>1, <1>2, SubSeqProperties
<1>4. SubSeq(s, k + 1, Len(s)) \in Seq(Pieces)
    BY <1>1, <1>2, SubSeqProperties
<1>5. k = Len(s) => SubSeq(s, k + 1, Len(s)) = <<>>
    BY <1>1, SubSeqEmpty
<1>6. k = Len(s) => SubSeq(s, 1, k) = s
    BY SubSeqFull
<1> QED
    BY <1>3, <1>4, <1>5, <1>6

(* Of a client that waits for its answers recv takes one whole request; the   *)
(* reply to it, if there is one, carries its number.                          *)
LEMMA TidyMessage ==
    ASSUME SessionInv, NEW k, HandleMessage(k), tidy'[cur]
    PROVE  \E n \in Nat \ {0} :
           /\ n = Len(asked[cur])
           /\ tidy[cur]
           /\ inbox[cur] = Pending(n) /\ inbox'[cur] = <<>>
           /\ Len(replies[cur]) = n - 1
           /\ LET method == asked[cur][n].method
                  port   == asked[cur][n].port
              IN  /\ IF method \in Answered THEN BufferSend([method |-> method, cseq |-> n])
                     ELSE replies' = replies /\ g_buffer' = g_buffer
                  /\ Udp /\ method = "SETUP" =>
                        m_client_rtp' = IF port # NoPort THEN port ELSE m_client_rtp
                  /\ method # "SETUP" => m_client_rtp' = m_client_rtp
                  /\ pc' = IF method = "PLAY" THEN "play" ELSE "recv"
<1> DEFINE message == SubSeq(inbox[cur], 1, k)
<1>1. /\ pc = "recv" /\ k \in DOMAIN inbox[cur]
      /\ tidy' = [tidy EXCEPT ![cur] = @ /\ Whole(message)]
      /\ inbox' = [inbox EXCEPT ![cur] = SubSeq(@, k + 1, Len(@))]
    BY DEF HandleMessage
<1>2. Shapes /\ cur \in Client /\ inbox[cur] \in Seq(Pieces)
    BY <1>1 DEF SessionInv, Shapes
<1>3. tidy[cur] /\ Whole(message)
    <2>1. tidy'[cur] = (tidy[cur] /\ Whole(message))
        BY <1>1, <1>2, Zenon DEF Shapes
    <2> QED
        BY <2>1
<1>4. k = 2 /\ inbox[cur] # <<>>
    <2>1. Len(message) = 2
        BY <1>3 DEF Whole
    <2>2. Len(message) = k
        BY <1>1, <1>2, Pieced
    <2>3. DOMAIN <<>> = {}
        OBVIOUS
    <2> QED
        BY <1>1, <2>1, <2>2, <2>3
<1>5. PICK n \in Nat : n = Len(asked[cur])
    BY <1>2, LenProperties DEF Shapes
<1>6. n # 0 /\ inbox[cur] = Pending(n) /\ Len(replies[cur]) = n - 1
    BY <1>2, <1>3, <1>4, <1>5 DEF SessionInv, InStep, Awaits
<1>7. Len(inbox[cur]) = 2
    BY <1>6 DEF Pending
<1>8. message = Pending(n) /\ inbox'[cur] = <<>>
    <2>1. inbox'[cur] = SubSeq(inbox[cur], k + 1, Len(inbox[cur]))
        BY <1>1, <1>2 DEF Shapes
    <2> QED
        BY <1>1, <1>2, <1>4, <1>6, <1>7, <2>1, Pieced
<1>9. Requested(message) = n /\ CSeq(message) = n /\ Transport(message) = asked[cur][n].port
    BY <1>2, <1>6, <1>8, WholeRequest
<1> DEFINE method == asked[cur][n].method
<1>10. LET r == Requested(message)
           w == IF r = 0 THEN "" ELSE asked[cur][r].method
       IN  /\ IF w \in Answered THEN BufferSend([method |-> w, cseq |-> CSeq(message)])
              ELSE UNCHANGED <<fault, status, replies, g_buffer>>
           /\ IF w = "SETUP" THEN handler_setup(message) ELSE UNCHANGED m_client_rtp
           /\ IF w = "PLAY" THEN handler_play ELSE UNCHANGED <<pc, pos, cnt>>
    BY DEF HandleMessage
<1> HIDE DEF message
<1>11. /\ IF method \in Answered THEN BufferSend([method |-> method, cseq |-> n])
          ELSE UNCHANGED <<fault, status, replies, g_buffer>>
       /\ IF method = "SETUP" THEN handler_setup(message) ELSE UNCHANGED m_client_rtp
       /\ IF method = "PLAY" THEN handler_play ELSE UNCHANGED <<pc, pos, cnt>>
    BY <1>6, <1>9, <1>10
<1>12. handler_setup(message) /\ Udp =>
           m_client_rtp' = IF asked[cur][n].port # NoPort THEN asked[cur][n].port ELSE m_client_rtp
    BY <1>9 DEF handler_setup
<1>13. pc' = IF method = "PLAY" THEN "play" ELSE "recv"
    BY <1>1, <1>11 DEF handler_play
<1> HIDE DEF method
<1>14. IF method \in Answered THEN BufferSend([method |-> method, cseq |-> n])
       ELSE replies' = replies /\ g_buffer' = g_buffer
    BY <1>11
<1>15. Udp /\ method = "SETUP" =>
           m_client_rtp' = IF asked[cur][n].port # NoPort THEN asked[cur][n].port ELSE m_client_rtp
    BY <1>11, <1>12
<1>16. method # "SETUP" => m_client_rtp' = m_client_rtp
    BY <1>11
<1> QED
    BY <1>3, <1>5, <1>6, <1>8, <1>13, <1>14, <1>15, <1>16 DEF method

LEMMA HandleSession ==
    ASSUME SessionInv, NEW k, HandleMessage(k)
    PROVE  SessionInv'
<1> DEFINE message == SubSeq(inbox[cur], 1, k)
<1>1. /\ pc = "recv" /\ k \in DOMAIN inbox[cur]
      /\ tidy' = [tidy EXCEPT ![cur] = @ /\ Whole(message)]
      /\ inbox' = [inbox EXCEPT ![cur] = SubSeq(@, k + 1, Len(@))]
      /\ UNCHANGED <<variant, backlog, cur, asked>>
    BY DEF HandleMessage, clients
<1>2. Shapes /\ cur \in Client /\ inbox[cur] \in Seq(Pieces)
    BY <1>1 DEF SessionInv, Shapes
<1>3. /\ pc' \in {"recv", "play"}
      /\ g_buffer' = <<>> /\ DOMAIN replies' = Client
      /\ \A c \in Client \ {cur} : replies'[c] = replies[c]
    <2> DEFINE n == Requested(message)
               w == IF n = 0 THEN "" ELSE asked[cur][n].method
               r == [method |-> w, cseq |-> CSeq(message)]
    <2>1. /\ IF w \in Answered THEN BufferSend(r)
             ELSE UNCHANGED <<fault, status, replies, g_buffer>>
          /\ IF w = "PLAY" THEN handler_play ELSE UNCHANGED <<pc, pos, cnt>>
        BY DEF HandleMessage
    <2> HIDE DEF r, w
    <2>2. pc' \in {"recv", "play"}
        BY <1>1, <2>1 DEF handler_play
    <2>3. BufferSend(r) => /\ g_buffer' = <<>> /\ DOMAIN replies' = Client
                           /\ \A c \in Client \ {cur} : replies'[c] = replies[c]
        BY <1>2 DEF BufferSend, Shapes
    <2> QED
        BY <1>2, <2>1, <2>2, <2>3 DEF Shapes
<1>4. \A c \in Client \ {cur} : inbox'[c] = inbox[c] /\ tidy'[c] = tidy[c]
    BY <1>1, <1>2 DEF Shapes
<1>5. Shapes'
    <2>1. inbox' \in [Client -> Seq(Pieces)]
        <3>1. SubSeq(inbox[cur], k + 1, Len(inbox[cur])) \in Seq(Pieces)
            BY <1>1, <1>2, Pieced
        <3> QED
            BY <1>1, <1>2, <3>1 DEF Shapes
    <2>2. tidy' \in [Client -> BOOLEAN]
        <3>1. Whole(message) \in BOOLEAN
            BY DEF Whole
        <3> QED
            BY <1>1, <1>2, <3>1 DEF Shapes
    <2>3. cur # NoClient
        BY <1>2, RtspAssumption
    <2> QED
        BY <1>1, <1>2, <1>3, <2>1, <2>2, <2>3 DEF Shapes
<1>6. PortsInSetups'
    BY <1>1 DEF SessionInv, PortsInSetups
<1>7. OthersFresh'
    BY <1>1, <1>3, <1>4 DEF SessionInv, OthersFresh, Fresh
<1>8. \A c \in Client \ {cur} : tidy'[c] => Awaits(c)' /\ OwnReplies(c)'
    <2>1. SUFFICES ASSUME NEW c \in Client \ {cur}, tidy'[c]
                   PROVE  Awaits(c)' /\ OwnReplies(c)'
        OBVIOUS
    <2>2. asked' = asked /\ replies'[c] = replies[c] /\ inbox'[c] = inbox[c] /\ tidy[c]
        BY <1>1, <1>3, <1>4, <2>1
    <2>3. Awaits(c) /\ OwnReplies(c)
        BY <2>1, <2>2 DEF SessionInv, InStep
    <2> QED
        BY <2>2, <2>3 DEF Awaits, OwnReplies
<1>9. CASE ~tidy'[cur]
    BY <1>1, <1>5, <1>6, <1>7, <1>8, <1>9 DEF SessionInv, InStep, Aimed, Playing
<1>10. CASE tidy'[cur]
    <2>1. PICK n \in Nat \ {0} :
           /\ n = Len(asked[cur])
           /\ tidy[cur]
           /\ inbox[cur] = Pending(n) /\ inbox'[cur] = <<>>
           /\ Len(replies[cur]) = n - 1
           /\ LET method == asked[cur][n].method
                  port   == asked[cur][n].port
              IN  /\ IF method \in Answered THEN BufferSend([method |-> method, cseq |-> n])
                     ELSE replies' = replies /\ g_buffer' = g_buffer
                  /\ Udp /\ method = "SETUP" =>
                        m_client_rtp' = IF port # NoPort THEN port ELSE m_client_rtp
                  /\ method # "SETUP" => m_client_rtp' = m_client_rtp
                  /\ pc' = IF method = "PLAY" THEN "play" ELSE "recv"
        BY <1>10, TidyMessage
    <2> DEFINE method == asked[cur][n].method
               port   == asked[cur][n].port
               r      == [method |-> method, cseq |-> n]
    <2>2. /\ asked[cur] \in Seq(Requests) /\ DOMAIN asked[cur] = 1..n /\ n \in 1..n
          /\ Len(asked'[cur']) = n
        BY <1>1, <1>2, <2>1, LenProperties DEF Shapes
    <2>3. Awaits(cur) /\ OwnReplies(cur) /\ replies[cur] \in Seq(Replies)
        BY <1>2, <2>1 DEF SessionInv, InStep, OwnReplies
    <2>4. \/ replies'[cur] = replies[cur]
          \/ r \in Replies /\ replies'[cur] = Append(replies[cur], r)
        <3>1. CASE method \in Answered
            <4>1. r \in Replies
                BY <3>1 DEF Replies
            <4> QED
                BY <1>2, <2>1, <2>3, <3>1, <4>1, Reply
        <3> QED
            BY <2>1, <3>1
    <2>5. Awaits(cur)' /\ OwnReplies(cur)'
        <3>1. CASE replies'[cur] = replies[cur]
            BY <1>1, <2>1, <2>2, <2>3, <3>1 DEF Awaits, OwnReplies
        <3>2. CASE r \in Replies /\ replies'[cur] = Append(replies[cur], r)
            <4>1. /\ replies'[cur] \in Seq(Replies)
                  /\ Len(replies'[cur]) = n
                  /\ DOMAIN replies[cur] = 1..(n - 1) /\ DOMAIN replies'[cur] = 1..n
                  /\ \A i \in 1..(n - 1) : replies'[cur][i] = replies[cur][i]
                  /\ replies'[cur][n] = r
                <5>1. Len(replies[cur]) = n - 1 /\ (n - 1) + 1 = n
                    BY <2>1
                <5> QED
                    BY <2>3, <3>2, <5>1, AppendProperties, LenProperties
            <4>2. \A i \in 1..n : i \in 1..(n - 1) \/ i = n
                OBVIOUS
            <4>3. OwnReplies(cur)'
                BY <1>1, <2>3, <4>1, <4>2 DEF OwnReplies
            <4>4. Awaits(cur)'
                BY <1>1, <2>1, <2>2, <4>1 DEF Awaits
            <4> QED
                BY <4>3, <4>4
        <3> QED
            BY <2>4, <3>1, <3>2
    <2>6. InStep'
        BY <1>1, <1>8, <2>5 DEF InStep
    <2>7. Handled(cur) = n - 1 /\ Handled(cur)' = n
        <3>1. inbox[cur] # <<>>
            BY <2>1 DEF Pending
        <3> QED
            BY <1>1, <2>1, <2>2, <3>1 DEF Handled
    <2>8. Playing'
        BY <1>1, <2>1, <2>2, <2>7 DEF Playing
    <2>9. Aimed'
        <3>1. SUFFICES ASSUME Udp, NEW i \in SetupsOf(cur, n),
                              \A j \in SetupsOf(cur, n) : j <= i
                       PROVE  m_client_rtp' = asked[cur][i].port
            BY <1>1, <2>7 DEF Aimed, AimedAt, SetupsOf, Udp
        <3>2. AimedAt(cur, n - 1)
            BY <1>2, <2>1, <2>7, <3>1, RtspAssumption DEF SessionInv, Aimed
        <3>3. SetupsOf(cur, n - 1) = SetupsOf(cur, n) \ {n}
            BY <2>2 DEF SetupsOf
        <3>4. CASE port # NoPort
            <4>1. n \in SetupsOf(cur, n)
                BY <2>2, <3>4 DEF SetupsOf
            <4>2. i = n
                BY <2>2, <3>1, <4>1 DEF SetupsOf
            <4>3. method = "SETUP"
                BY <1>2, <2>2, <3>4 DEF SessionInv, PortsInSetups
            <4> QED
                BY <2>1, <3>1, <3>4, <4>2, <4>3
        <3>5. CASE port = NoPort
            <4>1. n \notin SetupsOf(cur, n)
                BY <3>5 DEF SetupsOf
            <4>2. m_client_rtp = asked[cur][i].port
                BY <3>1, <3>2, <3>3, <4>1 DEF AimedAt
            <4>3. m_client_rtp' = m_client_rtp
                BY <2>1, <3>1, <3>5
            <4> QED
                BY <4>2, <4>3
        <3> QED
            BY <3>4, <3>5
    <2> QED
        BY <1>5, <1>6, <1>7, <2>6, <2>8, <2>9 DEF SessionInv
<1> QED
    BY <1>9, <1>10

LEMMA ServerSession == SessionInv /\ ServerStep => SessionInv'
<1> SUFFICES ASSUME SessionInv, ServerStep PROVE SessionInv'
    OBVIOUS
<1>0. backlog \in Seq(Client)
    BY DEF SessionInv, Shapes
<1>1. CASE RecvError
    <2>1. Quiet
        BY <1>0, <1>1 DEF RecvError, server, clients, Quiet
    <2> QED
        BY <2>1, QuietSession
<1>2. CASE EndOfFile
    <2>1. Quiet
        BY <1>0, <1>2 DEF EndOfFile, clients, Quiet
    <2> QED
        BY <2>1, QuietSession
<1>3. CASE StreamUnit
    <2>1. pc = "play" /\ pc' \in {"play", "recv"}
        BY <1>3 DEF StreamUnit
    <2>2. Quiet
        BY <1>0, <1>3, <2>1 DEF StreamUnit, clients, Quiet
    <2> QED
        BY <2>2, QuietSession
<1> QED
    BY <1>1, <1>2, <1>3, AcceptSession, HandleSession, LeaveSession DEF ServerStep

LEMMA ClientSession == SessionInv /\ ClientStep => SessionInv'
<1> SUFFICES ASSUME SessionInv, NEW c \in Client,
                    \/ Connect(c)
                    \/ \E m \in Method, p \in Port \cup {NoPort} : Ask(c, m, p)
                    \/ StopReading(c)
                    \/ \E how \in {"closed", "reset"} : Depart(c, how)
             PROVE  SessionInv'
    BY DEF ClientStep
<1>0. backlog \in Seq(Client)
    BY DEF SessionInv, Shapes
<1>1. CASE Connect(c)
    <2>1. backlog' \in Seq(Client)
        BY <1>0, <1>1, AppendProperties DEF Connect
    <2>2. Quiet
        BY <1>1, <2>1 DEF Connect, server, Quiet
    <2> QED
        BY <2>2, QuietSession
<1>2. CASE StopReading(c)
    <2>1. Quiet
        BY <1>0, <1>2 DEF StopReading, server, Quiet
    <2> QED
        BY <2>1, QuietSession
<1>3. ASSUME NEW how \in {"closed", "reset"}, Depart(c, how) PROVE SessionInv'
    <2>1. Quiet
        BY <1>0, <1>3 DEF Depart, server, Quiet
    <2> QED
        BY <2>1, QuietSession
<1> QED
    BY <1>1, <1>2, <1>3, AskSession

LEMMA NextSession == SessionInv /\ [Next]_vars => SessionInv'
<1> SUFFICES ASSUME SessionInv, [Next]_vars PROVE SessionInv'
    OBVIOUS
<1>1. CASE UNCHANGED vars
    <2>1. Quiet
        BY <1>1 DEF vars, Quiet, SessionInv, Shapes
    <2> QED
        BY <2>1, QuietSession
<1> QED
    BY <1>1, ServerSession, ClientSession DEF Next, H264TcpServer, H265TcpServer, H264UdpServer

LEMMA Sessions == Spec => []SessionInv
    BY InitSession, NextSession, PTL DEF Spec

(* For any number of clients and requests, whoever was served before and      *)
(* however its session ended: a client that waits for every answer gets the   *)
(* answer to its own request, in order.                                       *)
THEOREM RepliesOwn == Spec => []RepliesMatchRequests
<1>1. ASSUME SessionInv PROVE RepliesMatchRequests
    <2>1. SUFFICES ASSUME NEW c \in Client, tidy[c]
                   PROVE  /\ Len(replies[c]) <= Len(asked[c])
                          /\ \A i \in DOMAIN replies[c] :
                                replies[c][i] = [method |-> asked[c][i].method, cseq |-> i]
        BY DEF RepliesMatchRequests
    <2>2. Awaits(c) /\ OwnReplies(c)
        BY <1>1, <2>1 DEF SessionInv, InStep
    <2>3. Len(asked[c]) \in Nat
        BY <1>1, LenProperties DEF SessionInv, Shapes
    <2> QED
        BY <2>2, <2>3 DEF Awaits, OwnReplies
<1> QED
    BY <1>1, Sessions, PTL

(* The UDP server streams to the port that was asked for last before PLAY,    *)
(* though its RTSP object begins with one that was never set.                 *)
THEOREM StreamAimed == Spec => []StreamGoesWhereAsked
<1>1. ASSUME SessionInv PROVE StreamGoesWhereAsked
    <2>1. SUFFICES ASSUME pc = "play", Udp, tidy[cur],
                          NEW i \in SetupsOf(cur, Len(replies[cur])),
                          \A j \in SetupsOf(cur, Len(replies[cur])) : j <= i
                   PROVE  m_client_rtp = asked[cur][i].port
        BY DEF StreamGoesWhereAsked
    <2>2. Shapes /\ cur \in Client /\ cur # NoClient
        BY <1>1, <2>1, RtspAssumption DEF SessionInv, Shapes
    <2>3. PICK n \in Nat : n = Len(asked[cur])
        BY <2>2, LenProperties DEF Shapes
    <2>4. DOMAIN asked[cur] = 1..n
        BY <2>2, <2>3, LenProperties DEF Shapes
    <2>5. Awaits(cur)
        BY <1>1, <2>1, <2>2 DEF SessionInv, InStep
    <2> DEFINE h == Handled(cur)
    <2>6. h \in 1..n /\ asked[cur][h].method = "PLAY"
        BY <1>1, <2>1, <2>4 DEF SessionInv, Playing
    <2>7. Len(replies[cur]) \in {h, h - 1}
        BY <2>3, <2>5 DEF Awaits, Handled
    <2>8. asked[cur][h].port = NoPort
        BY <1>1, <2>2, <2>4, <2>6 DEF SessionInv, PortsInSetups
    <2>9. AimedAt(cur, h)
        BY <1>1, <2>1, <2>2 DEF SessionInv, Aimed
    <2> HIDE DEF h
    <2>10. SetupsOf(cur, h) = SetupsOf(cur, Len(replies[cur]))
        BY <2>4, <2>6, <2>7, <2>8 DEF SetupsOf
    <2> QED
        BY <2>1, <2>9, <2>10 DEF AimedAt
<1> QED
    BY <1>1, Sessions, PTL

-----------------------------------------------------------------------------
(* RtspRelay: the fragments it puts in.                                       *)

(* Quotient and rest. *)
LEMMA Division ==
    ASSUME NEW n \in Nat, NEW d \in Nat, d > 0
    PROVE  /\ n \div d \in Nat /\ n % d \in 0..(d - 1)
           /\ n = d * (n \div d) + (n % d)
    BY Z3

LEMMA Times ==
    ASSUME NEW d \in Nat, NEW k \in Nat
    PROVE  d * (k + 1) = d * k + d /\ d * k \in Nat
    BY Z3

(* What getFragment cuts a unit into is at least one part; the parts follow one *)
(* another, and the last ends where the unit ends (proxy.cpp:357-425).         *)
LEMMA FragmentsFollow ==
    ASSUME NEW len \in Nat \ {0}
    PROVE  LET cut == Relay!Fragments(len) IN
           /\ Len(cut) \in Nat \ {0} /\ DOMAIN cut = 1..Len(cut)
           /\ cut[1].start
           /\ \A i \in 1..(Len(cut) - 1) :
                  cut[i + 1].from = cut[i].from + cut[i].size /\ cut[i] # cut[Len(cut)]
           /\ Len(cut) > 1 =>
                  cut[Len(cut)].end /\ cut[Len(cut)].from + cut[Len(cut)].size = len
<1> DEFINE M == RTP_PAYLOAD_MAX_SIZE
           n == len - 2
           rest == n % M
           num == (n \div M) + (IF rest # 0 THEN 1 ELSE 0)
           part == [i \in 1..num |->
                       [from  |-> 2 + M * (i - 1),
                        size  |-> IF i # 1 /\ i = num /\ rest # 0 THEN rest ELSE M,
                        start |-> i = 1,
                        end   |-> i # 1 /\ i = num]]
<1>1. M \in Nat /\ M > 2
    BY RelayParameters DEF Relay!RelayAssumption
<1>2. CASE len < M
    BY <1>2 DEF Relay!Fragments
<1>3. CASE ~(len < M)
  <2>1. Relay!Fragments(len) = part
    BY <1>3 DEF Relay!Fragments
  <2>2. n \in Nat /\ n > 0
    BY <1>1, <1>3
  <2>3. n \div M \in Nat /\ rest \in 0..(M - 1) /\ n = M * (n \div M) + rest
    BY <2>2, <1>1, Division
  <2> HIDE DEF rest
  <2> DEFINE q == n \div M
  <2>4. num \in Nat \ {0}
    <3>1. q \in Nat /\ num = q + (IF rest # 0 THEN 1 ELSE 0) /\ n = M * q + rest
        BY <2>3
    <3>2. M * 0 = 0
        BY <1>1
    <3> HIDE DEF q, num
    <3> QED BY <3>1, <3>2, <2>2, <2>3, <1>1
  <2>5. num > 1 => M * (num - 1) + (IF rest # 0 THEN rest ELSE M) = n
    <3>1. q \in Nat /\ num = q + (IF rest # 0 THEN 1 ELSE 0) /\ n = M * q + rest
        BY <2>3
    <3> HIDE DEF q, num
    <3>2. CASE rest # 0
        BY <3>1, <3>2, <2>3, <1>1
    <3>3. CASE rest = 0
      <4>1. num = q /\ n = M * q
        BY <3>1, <3>3, <1>1, <2>2
      <4>2. q - 1 \in Nat /\ M * q = M * (q - 1) + M
        BY <4>1, <2>4, <3>1, <1>1, Times
      <4> QED BY <4>1, <4>2, <3>3, <1>1, <2>2
    <3> QED BY <3>2, <3>3
  <2> HIDE DEF num
  <2>6. Len(part) = num /\ DOMAIN part = 1..num
    BY <2>4
  <2>7. part[1].start
    <3>1. 1 \in 1..num
        BY <2>4
    <3>2. part[1].start = (1 = 1)
        BY <3>1, Zenon
    <3> QED BY <3>2, Zenon
  <2>8. ASSUME NEW i \in 1..(num - 1)
        PROVE  part[i + 1].from = part[i].from + part[i].size /\ part[i] # part[num]
    <3>1. /\ part[i].from = 2 + M * (i - 1) /\ part[i].size = M
          /\ part[i + 1].from = 2 + M * i
          /\ part[num].from = 2 + M * (num - 1)
        BY <2>4, <2>8, <1>1
    <3>2. M * i = M * (i - 1) + M /\ M * (i - 1) \in Nat
        BY <1>1, <2>8, Times
    <3>3. M * (i - 1) # M * (num - 1)
        BY <1>1, <2>8, <2>4, Z3
    <3>4. M * (num - 1) \in Nat
        BY <1>1, <2>4, Times
    <3> QED BY <3>1, <3>2, <3>3, <3>4, <1>1
  <2>9. ASSUME num > 1
        PROVE  part[num].end /\ part[num].from + part[num].size = len
    <3>1. num \in 1..num /\ num # 1
        BY <2>4, <2>9
    <3>2. part[num].end = (num # 1 /\ num = num)
        BY <3>1, Zenon
    <3>3. part[num].end
        BY <3>1, <3>2, Zenon
    <3>4. /\ part[num].from = 2 + M * (num - 1)
          /\ part[num].size = IF rest # 0 THEN rest ELSE M
        BY <3>1
    <3>5. M * (num - 1) \in Nat
        BY <1>1, <2>4, Times
    <3>6. part[num].from + part[num].size = len
      <4> DEFINE begin == M * (num - 1)
                 size == IF rest # 0 THEN rest ELSE M
      <4>1. size \in Nat /\ begin \in Nat /\ begin + size = len - 2
        BY <3>5, <2>3, <2>5, <2>9, <1>1
      <4>2. part[num].from = 2 + begin /\ part[num].size = size
        BY <3>4
      <4> HIDE DEF begin, size, part
      <4> QED BY <4>1, <4>2
    <3> QED BY <3>3, <3>6
  <2> QED BY <2>1, <2>4, <2>6, <2>7, <2>8, <2>9
<1> QED BY <1>2, <1>3

(* Parts of units.                                                            *)
Parts == {Relay!Fragments(len)[i] : len \in Nat \ {0}, i \in Nat}

(* g is the fragment of the file that comes after f.                          *)
Comes(f, g) ==
    LET cut == Relay!Fragments(Relay!Unit(f.unit))
    IN  IF f.part = Relay!Last(cut) THEN g.unit = f.unit + 1 /\ g.part.start
        ELSE g.unit = f.unit /\ g.part.from = f.part.from + f.part.size

(* What was sent is a beginning of the file ...                               *)
FileOrder ==
    /\ injected \in Seq([unit : Nat, part : Parts])
    /\ injected # <<>> => injected[1].unit = 1 /\ injected[1].part.start
    /\ \A i \in 1..(Len(injected) - 1) : Comes(injected[i], injected[i + 1])

(* ... and the place in Fragments is that of the last fragment sent.          *)
AtLastSent ==
    IF injected = <<>> THEN m_fragments = <<>> /\ m_pos = 0 /\ source_pos = 0
    ELSE /\ source_pos \in Nat \ {0}
         /\ m_fragments = Relay!Fragments(Relay!Unit(source_pos))
         /\ m_pos \in 1..Len(m_fragments)
         /\ injected[Len(injected)] = [unit |-> source_pos, part |-> m_fragments[m_pos]]

InjectionInv == FileOrder /\ AtLastSent

(* What Fragments and its history may do in a step: nothing, be reset, or     *)
(* give the next fragment.                                                    *)
fragmentVars == <<m_fragments, m_pos, source_pos, injected>>

Reset == m_fragments' = <<>> /\ m_pos' = 0 /\ source_pos' = 0 /\ injected' = <<>>

LEMMA UnitsHaveLengths ==
    ASSUME NEW k \in Nat \ {0}
    PROVE  Relay!Unit(k) \in Nat \ {0}
<1>1. FileLens \in Seq(Nat \ {0}) /\ Len(FileLens) \in Nat \ {0}
    BY EmptySeq, RelayParameters DEF Relay!RelayAssumption
<1>2. (k - 1) % Len(FileLens) \in 0..(Len(FileLens) - 1)
    BY <1>1, Division
<1>3. ((k - 1) % Len(FileLens)) + 1 \in 1..Len(FileLens)
    BY <1>1, <1>2
<1> QED BY <1>1, <1>3, ElementOfSeq DEF Relay!Unit

LEMMA RelaySteps ==
    ASSUME Relay!Next
    PROVE  UNCHANGED fragmentVars \/ Reset \/ Relay!WriteRtpPacket
<1> USE DEF fragmentVars, Reset
<1>1. ASSUME Relay!CloseBoth PROVE Reset
    BY <1>1 DEF Relay!CloseBoth
<1>2. ASSUME NEW n \in 1..MaxRecv, Relay!Handle(n) PROVE UNCHANGED fragmentVars \/ Reset
  <2> DEFINE buf == SubSeq(Relay!Bytes, received + 1, received + n)
             begins == Relay!Read(buf).begins
  <2>1. \/ Relay!SendDirect(n) \/ Relay!Begin(buf, begins)
        \/ UNCHANGED <<m_rtp_header, m_fragments, m_pos, source_pos, since, injected>>
    BY <1>2, Zenon DEF Relay!Handle
  <2> QED BY <2>1 DEF Relay!SendDirect, Relay!Begin
<1>3. ASSUME Relay!Relay PROVE UNCHANGED fragmentVars \/ Reset \/ Relay!WriteRtpPacket
    BY <1>1, <1>2, <1>3, Zenon
    DEF Relay!Relay, Relay!ConnectServer, Relay!ConnectFails, Relay!SendReturns, Relay!SendFails,
        Relay!ForwardReturns, Relay!ForwardFails, Relay!Ends, Relay!inceptor, Relay!history
<1>4. ASSUME Relay!Taken PROVE UNCHANGED fragmentVars \/ Relay!WriteRtpPacket
    BY <1>4, Zenon
    DEF Relay!Taken, Relay!SendReturns, Relay!ForwardReturns, Relay!inceptor, Relay!history
<1>5. ASSUME NEW c, Relay!Command(c) PROVE UNCHANGED fragmentVars
    BY <1>5 DEF Relay!Command, Relay!inceptor, Relay!history
<1> QED BY <1>3, <1>4, <1>5
    DEF Relay!Next, Relay!AcceptConnection, Relay!Redirect, Relay!PlayerCloses,
        Relay!ServerCloses, Relay!inceptor, Relay!history

LEMMA InitInjection == Relay!Init => InjectionInv
    BY EmptySeq DEF Relay!Init, InjectionInv, FileOrder, AtLastSent

(* The fragment that write_rtp_packet sends comes after the last one sent: the *)
(* next of the unit, or the first of the next unit when there is none left.    *)
LEMMA WriteInjection ==
    ASSUME InjectionInv, Relay!WriteRtpPacket
    PROVE  InjectionInv'
<1> DEFINE next == [unit |-> source_pos', part |-> m_fragments'[m_pos']]
           len == Relay!Unit(source_pos')
           cut == Relay!Fragments(len)
           Fragment == [unit : Nat, part : Parts]
<1>1. injected \in Seq(Fragment) /\ injected' = Append(injected, next)
    BY DEF InjectionInv, FileOrder, Relay!WriteRtpPacket
<1>2. /\ source_pos' \in Nat \ {0} /\ m_fragments' = cut /\ m_pos' \in 1..Len(cut)
      /\ injected = <<>> => source_pos' = 1 /\ m_pos' = 1
      /\ injected # <<>> => Comes(injected[Len(injected)], next)
  <2>1. CASE injected = <<>>
    <3>1. source_pos' = 1 /\ m_fragments' = cut /\ m_pos' = 1
        BY <2>1, EmptySeq DEF Relay!WriteRtpPacket, InjectionInv, AtLastSent
    <3>2. len \in Nat \ {0}
        BY <3>1, UnitsHaveLengths
    <3> QED BY <2>1, <3>1, <3>2, FragmentsFollow
  <2>2. CASE injected # <<>>
    <3> DEFINE f == injected[Len(injected)]
               old == Relay!Fragments(Relay!Unit(source_pos))
    <3>1. /\ source_pos \in Nat \ {0} /\ m_fragments = old /\ m_pos \in 1..Len(old)
          /\ f.unit = source_pos /\ f.part = old[m_pos]
        BY <2>2 DEF InjectionInv, AtLastSent
    <3>2. Relay!Unit(source_pos) \in Nat \ {0}
        BY <3>1, UnitsHaveLengths
    <3>3. /\ Len(old) \in Nat \ {0}
          /\ \A i \in 1..(Len(old) - 1) :
                 old[i + 1].from = old[i].from + old[i].size /\ old[i] # old[Len(old)]
        BY <3>2, FragmentsFollow
    <3> HIDE DEF f
    <3>4. CASE m_pos >= Len(m_fragments)
      <4>1. source_pos' = source_pos + 1 /\ m_fragments' = cut /\ m_pos' = 1
        BY <3>4 DEF Relay!WriteRtpPacket
      <4>2. len \in Nat \ {0} /\ source_pos' \in Nat \ {0}
        BY <3>1, <4>1, UnitsHaveLengths
      <4>3. Len(cut) \in Nat \ {0} /\ cut[1].start
        BY <4>2, FragmentsFollow
      <4>4. f.part = Relay!Last(old)
        BY <3>1, <3>3, <3>4 DEF Relay!Last
      <4>5. Comes(f, next)
        BY <3>1, <4>1, <4>3, <4>4, Zenon DEF Comes
      <4> QED BY <2>2, <4>1, <4>2, <4>3, <4>5 DEF f
    <3>5. CASE ~(m_pos >= Len(m_fragments))
      <4>1. source_pos' = source_pos /\ m_fragments' = m_fragments /\ m_pos' = m_pos + 1
        BY <3>5 DEF Relay!WriteRtpPacket
      <4>2. m_pos \in 1..(Len(old) - 1)
        BY <3>1, <3>3, <3>5
      <4>3. f.part # Relay!Last(old)
        BY <3>1, <3>3, <4>2 DEF Relay!Last
      <4>4. next.unit = f.unit /\ next.part.from = f.part.from + f.part.size
        BY <3>1, <3>3, <4>1, <4>2
      <4>5. Comes(f, next)
        BY <3>1, <4>3, <4>4, Zenon DEF Comes
      <4>6. cut = old
        BY <4>1
      <4> QED BY <2>2, <3>1, <3>3, <4>1, <4>2, <4>5, <4>6 DEF f
    <3> QED BY <3>4, <3>5
  <2> QED BY <2>1, <2>2
<1>3. len \in Nat \ {0}
    BY <1>2, UnitsHaveLengths
<1>4. next \in Fragment
    BY <1>2, <1>3 DEF Parts
<1>5. cut[1].start
    BY <1>3, FragmentsFollow
<1>6. next.unit = source_pos' /\ next.part = cut[m_pos']
    BY <1>2
<1> HIDE DEF next, cut, len, Fragment
<1>7. /\ injected' \in Seq(Fragment) /\ Len(injected') = Len(injected) + 1
      /\ Len(injected) \in Nat /\ injected'[Len(injected')] = next
      /\ \A i \in 1..Len(injected) : injected'[i] = injected[i]
    BY <1>1, <1>4, AppendProperties
<1>8. injected' # <<>> /\ (injected = <<>> <=> Len(injected) = 0)
    BY <1>1, <1>7, EmptySeq
<1>9. injected'[1].unit = 1 /\ injected'[1].part.start
  <2>1. CASE injected = <<>>
    BY <2>1, <1>2, <1>5, <1>6, <1>7, <1>8
  <2>2. CASE injected # <<>>
    BY <2>2, <1>7, <1>8 DEF InjectionInv, FileOrder
  <2> QED BY <2>1, <2>2
<1>10. ASSUME NEW i \in 1..(Len(injected') - 1)
       PROVE  Comes(injected'[i], injected'[i + 1])
  <2>1. CASE i = Len(injected)
    BY <2>1, <1>2, <1>7, <1>8
  <2>2. CASE i # Len(injected)
    <3>1. i \in 1..(Len(injected) - 1) /\ i \in 1..Len(injected) /\ i + 1 \in 1..Len(injected)
        BY <2>2, <1>7
    <3>2. Comes(injected[i], injected[i + 1])
        BY <3>1, Zenon DEF InjectionInv, FileOrder
    <3>3. injected'[i] = injected[i] /\ injected'[i + 1] = injected[i + 1]
        BY <1>7, <3>1, Zenon
    <3> QED BY <3>2, <3>3, Zenon
  <2> QED BY <2>1, <2>2
<1>11. FileOrder'
    BY <1>7, <1>9, <1>10 DEF FileOrder, Fragment, Comes
<1>12. AtLastSent'
    BY <1>2, <1>7, <1>8 DEF AtLastSent, next, cut, len
<1> QED BY <1>11, <1>12 DEF InjectionInv

LEMMA NextInjection == InjectionInv /\ [Relay!Next]_Relay!vars => InjectionInv'
<1> SUFFICES ASSUME InjectionInv, [Relay!Next]_Relay!vars
             PROVE  InjectionInv'
    OBVIOUS
<1>1. UNCHANGED fragmentVars \/ Reset \/ Relay!WriteRtpPacket
    BY RelaySteps DEF Relay!vars, Relay!inceptor, Relay!history, fragmentVars
<1>2. CASE UNCHANGED fragmentVars
    BY <1>2 DEF fragmentVars, InjectionInv, FileOrder, AtLastSent, Comes
<1>3. CASE Reset
    BY <1>3, EmptySeq DEF Reset, InjectionInv, FileOrder, AtLastSent
<1> QED BY <1>1, <1>2, <1>3, WriteInjection

(* Whenever the interception is switched on, what takes the place of the       *)
(* server's packets is the file from its beginning, over and over: unit by     *)
(* unit, and of each unit every byte behind the header, in order               *)
(* (proxy.cpp:354-425, 576).                                                   *)
THEOREM InjectionInOrder == Relay!Spec => []InjectedIsTheFile
<1>1. Relay!Init => InjectionInv
    BY InitInjection
<1>2. InjectionInv /\ [Relay!Next]_Relay!vars => InjectionInv'
    BY NextInjection
<1>3. ASSUME NEW k \in DOMAIN FileLens
      PROVE  LET cut == Relay!Fragments(FileLens[k])
             IN  Len(cut) > 1 => Relay!Last(cut).end /\ Relay!Last(cut).from + Relay!Last(cut).size = FileLens[k]
  <2>1. FileLens[k] \in Nat \ {0}
    BY RelayParameters DEF Relay!RelayAssumption
  <2> QED BY <2>1, FragmentsFollow DEF Relay!Last
<1>4. InjectionInv => InjectedIsTheFile
    BY <1>3, Zenon
    DEF InjectionInv, FileOrder, Comes, InjectedIsTheFile, Relay!InjectedIsTheFile
<1> QED BY <1>1, <1>2, <1>4, PTL DEF Relay!Spec

-----------------------------------------------------------------------------
(* The reader of the relay and the numbers the player sees.                    *)

(* A set of natural numbers that is not empty has a least one.               *)
LEMMA LeastNat ==
    ASSUME NEW S \in SUBSET Nat, S # {}
    PROVE  \E n \in S : \A m \in S : n <= m
<1> DEFINE R == {ss \in Nat \X Nat : ss[1] < ss[2]}
<1>1. OpToRel(<, Nat) = R
    BY Zenon DEF OpToRel
<1>2. IsWellFoundedOn(R, Nat)
    BY <1>1, NatLessThanWellFounded, Zenon
<1> HIDE DEF R
<1>3. PICK n \in S : \A m \in S : ~(<<m, n>> \in R)
    BY <1>2, WFMin
<1>4. \A n1, m \in Nat : <<m, n1>> \in R <=> m < n1
    BY DEF R
<1>5. \A m \in S : n <= m
  <2> TAKE m \in S
  <2>1. m \in Nat /\ n \in Nat /\ ~(m < n)
    BY <1>3, <1>4
  <2> QED BY <2>1
<1> QED BY <1>5

(* Induction: the numbers for which a claim holds are a set.                 *)
LEMMA Induction ==
    ASSUME NEW S \in SUBSET Nat, 0 \in S, \A n \in S : n + 1 \in S
    PROVE  S = Nat
<1>1. SUFFICES ASSUME Nat \ S # {} PROVE FALSE
    OBVIOUS
<1>2. PICK n \in Nat \ S : \A m \in Nat \ S : n <= m
    BY <1>1, LeastNat, Zenon
<1>3. n - 1 \in Nat /\ ~(n <= n - 1) /\ (n - 1) + 1 = n
    BY <1>2
<1>4. n - 1 \in S
    BY <1>2, <1>3
<1> QED BY <1>2, <1>3, <1>4

(* The prefixes of a sequence, each put together.                            *)
Joins(s, g) ==
    /\ g \in [0..Len(s) -> Seq(Nat)]
    /\ g[0] = <<>>
    /\ \A i \in 1..Len(s) : g[i] = g[i - 1] \o s[i]

(* Those of up to n parts.                                                   *)
JoinsUpto(s, n, g) ==
    /\ g \in [0..n -> Seq(Nat)]
    /\ g[0] = <<>>
    /\ \A i \in 1..n : i <= Len(s) => g[i] = g[i - 1] \o s[i]

(* Parts joined up to the n-th can be joined up to the next.                 *)
LEMMA JoinsLonger ==
    ASSUME NEW s \in Seq(Seq(Nat)), NEW n \in Nat, NEW g, JoinsUpto(s, n, g)
    PROVE  \E h : JoinsUpto(s, n + 1, h)
<1> DEFINE more == IF n + 1 <= Len(s) THEN g[n] \o s[n + 1] ELSE <<>>
           h == [i \in 0..(n + 1) |-> IF i = n + 1 THEN more ELSE g[i]]
<1>1. more \in Seq(Nat)
  <2>1. CASE n + 1 <= Len(s)
    <3>1. n + 1 \in 1..Len(s) /\ n \in 0..n
        BY <2>1
    <3>2. s[n + 1] \in Seq(Nat) /\ g[n] \in Seq(Nat)
        BY <3>1, ElementOfSeq DEF JoinsUpto
    <3> QED BY <2>1, <3>2, ConcatProperties
  <2>2. CASE ~(n + 1 <= Len(s))
    BY <2>2, EmptySeq
  <2> QED BY <2>1, <2>2
<1>2. h[n + 1] = more /\ \A i \in 0..n : h[i] = g[i] /\ g[i] \in Seq(Nat)
    BY DEF JoinsUpto
<1>3. DOMAIN h = 0..(n + 1) /\ h = [i \in 0..(n + 1) |-> h[i]]
    OBVIOUS
<1>4. n + 1 <= Len(s) => more = g[n] \o s[n + 1]
    OBVIOUS
<1> HIDE DEF h, more
<1>5. h \in [0..(n + 1) -> Seq(Nat)]
  <2>1. \A i \in 0..(n + 1) : h[i] \in Seq(Nat)
    BY <1>1, <1>2
  <2> QED BY <2>1, <1>3
<1>6. h[0] = <<>>
    BY <1>2 DEF JoinsUpto
<1>7. ASSUME NEW i \in 1..(n + 1), i <= Len(s) PROVE h[i] = h[i - 1] \o s[i]
  <2>1. CASE i = n + 1
    <3>1. h[i - 1] = g[n]
        BY <2>1, <1>2
    <3> QED BY <2>1, <3>1, <1>2, <1>4, <1>7
  <2>2. CASE i # n + 1
    <3>1. i \in 1..n /\ i - 1 \in 0..n /\ i \in 0..n
        BY <2>2
    <3> QED BY <3>1, <1>2, <1>7 DEF JoinsUpto
  <2> QED BY <2>1, <2>2
<1> QED BY <1>5, <1>6, <1>7 DEF JoinsUpto

(* The parts of any sequence can be joined.                                  *)
LEMMA JoinsExists ==
    ASSUME NEW s \in Seq(Seq(Nat))
    PROVE  \E g : Joins(s, g)
<1> DEFINE P(n) == \E g : JoinsUpto(s, n, g)
           S == {n \in Nat : P(n)}
<1>1. P(0)
  <2> DEFINE g == [i \in 0..0 |-> <<>>]
  <2>1. g \in [0..0 -> Seq(Nat)] /\ g[0] = <<>> /\ 1..0 = {}
    BY EmptySeq
  <2> HIDE DEF g
  <2>2. JoinsUpto(s, 0, g)
    BY <2>1 DEF JoinsUpto
  <2> QED BY <2>2
<1>2. \A n \in Nat : P(n) => P(n + 1)
    BY JoinsLonger
<1> HIDE DEF P
<1>3. 0 \in S /\ \A n \in S : n + 1 \in S
    BY <1>1, <1>2
<1>4. S = Nat
  <2> HIDE DEF S
  <2>1. S \in SUBSET Nat
    BY DEF S
  <2> QED BY <1>3, <2>1, Induction
<1>5. P(Len(s))
    BY <1>4
<1>6. PICK g : JoinsUpto(s, Len(s), g)
    BY <1>5 DEF P
<1>7. Joins(s, g)
  <2>1. Len(s) \in Nat
    BY LenProperties
  <2>2. \A i \in 1..Len(s) : i <= Len(s)
    BY <2>1
  <2> QED BY <1>6, <2>2, Zenon DEF Joins, JoinsUpto
<1> QED BY <1>7

(* FlattenSeq puts each prefix together.                                     *)
LEMMA FlattenIs ==
    ASSUME NEW s \in Seq(Seq(Nat)), NEW g, Joins(s, g), NEW m \in 0..Len(s)
    PROVE  FlattenSeq(SubSeq(s, 1, m)) = g[m]
<1> DEFINE t == SubSeq(s, 1, m)
<1>1. t \in Seq(Seq(Nat)) /\ Len(t) = m /\ \A i \in 1..m : t[i] = s[i]
    BY SubSeqProperties
<1> HIDE DEF t
<1>2. Len(s) \in Nat /\ \A i \in 1..m : i \in 1..Len(s) /\ g[i] = g[i - 1] \o t[i] /\ t[i] \in Seq(Nat)
  <2>1. Len(s) \in Nat
    BY LenProperties
  <2> SUFFICES ASSUME NEW i \in 1..m
               PROVE  i \in 1..Len(s) /\ g[i] = g[i - 1] \o t[i] /\ t[i] \in Seq(Nat)
    BY <2>1
  <2>2. i \in 1..Len(s)
    BY <2>1
  <2>3. s[i] \in Seq(Nat)
    BY <2>2, ElementOfSeq
  <2> QED BY <1>1, <2>2, <2>3 DEF Joins
<1>3. CASE m = 0
    BY <1>1, <1>3, EmptySeq DEF FlattenSeq, Joins, t
<1>4. CASE m # 0
  <2> DEFINE Is(f) == f = [i \in 1..m |-> IF i = 1 THEN t[i] ELSE f[i - 1] \o t[i]]
             h == [i \in 1..m |-> g[i]]
             flatten == CHOOSE f : Is(f)
  <2>1. FlattenSeq(t) = flatten[m]
    BY <1>1, <1>4, Zenon DEF FlattenSeq
  <2>2. 1 \in 1..m /\ g[1] = t[1]
    <3>1. 1 \in 1..m /\ 1 - 1 = 0
        BY <1>4
    <3>2. g[1] = g[0] \o t[1] /\ t[1] \in Seq(Nat) /\ g[0] = <<>>
        BY <1>2, <3>1 DEF Joins
    <3> QED BY <3>1, <3>2, ConcatEmptySeq
  <2>3. \A i \in 1..m : h[i] = IF i = 1 THEN t[i] ELSE h[i - 1] \o t[i]
    <3> SUFFICES ASSUME NEW i \in 1..m
                 PROVE  h[i] = IF i = 1 THEN t[i] ELSE h[i - 1] \o t[i]
        OBVIOUS
    <3>1. CASE i = 1
        BY <3>1, <2>2
    <3>2. CASE i # 1
        <4>1. i - 1 \in 1..m
            BY <3>2
        <4>2. h[i - 1] = g[i - 1] /\ h[i] = g[i]
            BY <4>1
        <4> QED BY <3>2, <4>2, <1>2
    <3> QED BY <3>1, <3>2
  <2>4. h = [i \in 1..m |-> h[i]]
    OBVIOUS
  <2>5. Is(h)
    <3> HIDE DEF h
    <3> QED BY <2>3, <2>4
  <2>6. Is(flatten)
    <3> HIDE DEF Is, h
    <3> QED BY <2>5
  <2>7. \A i \in 1..m : flatten[i] = IF i = 1 THEN t[i] ELSE flatten[i - 1] \o t[i]
    <3> HIDE DEF flatten
    <3> QED BY <2>6
  <2> HIDE DEF h, flatten, Is
  <2> DEFINE S == {n \in Nat : n + 1 \in 1..m => flatten[n + 1] = g[n + 1]}
  <2>8. 0 \in S
    BY <2>2, <2>7
  <2>9. ASSUME NEW n \in S PROVE n + 1 \in S
    <3>1. SUFFICES ASSUME n + 2 \in 1..m PROVE flatten[n + 2] = g[n + 2]
        OBVIOUS
    <3>2. n + 1 \in 1..m /\ flatten[n + 1] = g[n + 1] /\ (n + 2) - 1 = n + 1 /\ n + 2 # 1
        BY <3>1
    <3>3. flatten[n + 2] = flatten[n + 1] \o t[n + 2]
        BY <2>7, <3>1, <3>2
    <3>4. g[n + 2] = g[n + 1] \o t[n + 2]
        BY <1>2, <3>1, <3>2
    <3> QED BY <3>2, <3>3, <3>4
  <2>10. S = Nat
    <3>1. S \in SUBSET Nat
        OBVIOUS
    <3> HIDE DEF S
    <3> QED BY <2>8, <2>9, <3>1, Induction
  <2>11. m - 1 \in Nat /\ (m - 1) + 1 = m /\ m \in 1..m
    BY <1>4
  <2>12. flatten[m] = g[m]
    BY <2>10, <2>11
  <2> QED BY <2>1, <2>12 DEF t
<1> QED BY <1>3, <1>4

(* Two sequences behind one another.                                         *)
LEMMA Joined ==
    ASSUME NEW T, NEW a \in Seq(T), NEW b \in Seq(T)
    PROVE  /\ a \o b \in Seq(T)
           /\ Len(a) \in Nat /\ Len(b) \in Nat
           /\ Len(a \o b) = Len(a) + Len(b)
           /\ \A x \in 1..Len(a) : (a \o b)[x] = a[x]
           /\ \A j \in 1..Len(b) : (a \o b)[Len(a) + j] = b[j]
    OBVIOUS

(* Where the parts of s lie in bytes: part k behind start[k].                *)
Lies(s, bytes, start) ==
    /\ bytes \in Seq(Nat)
    /\ start \in [1..(Len(s) + 1) -> Nat]
    /\ start[1] = 0
    /\ start[Len(s) + 1] = Len(bytes)
    /\ \A k \in 1..Len(s) :
           /\ start[k + 1] = start[k] + Len(s[k])
           /\ \A j \in 1..Len(s[k]) :
                  start[k] + j \in 1..Len(bytes) /\ bytes[start[k] + j] = s[k][j]

(* What is joined later begins with what is joined earlier.                  *)
LEMMA JoinsExtend ==
    ASSUME NEW s \in Seq(Seq(Nat)), NEW g, Joins(s, g), NEW k \in 0..Len(s), NEW m \in k..Len(s)
    PROVE  Len(g[k]) <= Len(g[m]) /\ \A x \in 1..Len(g[k]) : g[m][x] = g[k][x]
<1> DEFINE P(n) == Len(g[k]) <= Len(g[k + n]) /\ \A x \in 1..Len(g[k]) : g[k + n][x] = g[k][x]
           S == {n \in Nat : k + n <= Len(s) => P(n)}
<1>1. Len(s) \in Nat /\ \A i \in 0..Len(s) : g[i] \in Seq(Nat) /\ Len(g[i]) \in Nat
    BY LenProperties DEF Joins
<1>2. P(0)
  <2>1. k + 0 = k
    BY <1>1
  <2> QED BY <1>1, <2>1
<1>3. ASSUME NEW n \in Nat, k + n + 1 <= Len(s), P(n) PROVE P(n + 1)
  <2>1. k + n + 1 \in 1..Len(s) /\ k + (n + 1) = k + n + 1 /\ (k + n + 1) - 1 = k + n
        /\ k + n \in 0..Len(s)
    BY <1>1, <1>3
  <2>2. g[k + n + 1] = g[k + n] \o s[k + n + 1] /\ s[k + n + 1] \in Seq(Nat)
    BY <2>1, ElementOfSeq DEF Joins
  <2>3. Len(s[k + n + 1]) \in Nat
    BY <2>2, LenProperties
  <2>4. /\ Len(g[k + n + 1]) = Len(g[k + n]) + Len(s[k + n + 1])
        /\ \A x \in 1..Len(g[k + n]) : g[k + n + 1][x] = g[k + n][x]
    <3>1. g[k + n] \in Seq(Nat)
        BY <1>1, <2>1
    <3> DEFINE a == g[k + n] b == s[k + n + 1]
    <3>2. a \in Seq(Nat) /\ b \in Seq(Nat)
        BY <2>2, <3>1
    <3> HIDE DEF a, b
    <3>3. Len(a \o b) = Len(a) + Len(b) /\ \A x \in 1..Len(a) : (a \o b)[x] = a[x]
        BY <3>2, Joined
    <3> QED BY <2>2, <3>3, Zenon DEF a, b
  <2>5. Len(g[k + n]) \in Nat /\ Len(g[k]) \in Nat
    BY <1>1, <2>1
  <2>6. Len(g[k]) <= Len(g[k + n + 1])
    <3>1. Len(g[k]) <= Len(g[k + n])
        BY <1>3
    <3> DEFINE a == Len(g[k]) b == Len(g[k + n]) c == Len(s[k + n + 1]) d == Len(g[k + n + 1])
    <3>2. a \in Nat /\ b \in Nat /\ c \in Nat /\ d = b + c /\ a <= b
        BY <2>3, <2>4, <2>5, <3>1, Zenon
    <3> HIDE DEF a, b, c, d
    <3>3. a <= d
        BY <3>2
    <3> QED BY <3>3 DEF a, d
  <2>7. \A x \in 1..Len(g[k]) : g[k + n + 1][x] = g[k][x]
    BY <1>3, <2>4, <2>5
  <2> QED BY <2>1, <2>6, <2>7
<1> HIDE DEF P
<1>4. 0 \in S
    BY <1>2
<1>5. \A n \in S : n + 1 \in S
  <2> SUFFICES ASSUME NEW n \in S, k + (n + 1) <= Len(s) PROVE P(n + 1)
    OBVIOUS
  <2>1. k + n + 1 <= Len(s) /\ k + n <= Len(s)
    BY <1>1
  <2> QED BY <1>3, <2>1
<1>6. S = Nat
  <2>1. S \in SUBSET Nat
    OBVIOUS
  <2> HIDE DEF S
  <2> QED BY <1>4, <1>5, <2>1, Induction
<1>7. m - k \in Nat /\ k + (m - k) = m /\ m <= Len(s)
    BY <1>1
<1>8. P(m - k)
    BY <1>6, <1>7
<1> QED BY <1>7, <1>8 DEF P

(* FlattenSeq puts each part behind the lengths of those before it.          *)
LEMMA PartsLie ==
    ASSUME NEW s \in Seq(Seq(Nat))
    PROVE  Lies(s, FlattenSeq(s),
                [k \in 1..(Len(s) + 1) |-> Len(FlattenSeq(SubSeq(s, 1, k - 1)))])
<1> DEFINE n == Len(s)
           start == [k \in 1..(n + 1) |-> Len(FlattenSeq(SubSeq(s, 1, k - 1)))]
<1>1. PICK g : Joins(s, g)
    BY JoinsExists
<1>2. n \in Nat /\ \A i \in 0..n : g[i] \in Seq(Nat) /\ Len(g[i]) \in Nat
    BY <1>1, LenProperties DEF Joins
<1>3. \A k \in 1..(n + 1) : k - 1 \in 0..n /\ start[k] = Len(g[k - 1])
  <2> SUFFICES ASSUME NEW k \in 1..(n + 1)
               PROVE  k - 1 \in 0..n /\ start[k] = Len(g[k - 1])
    OBVIOUS
  <2>1. k - 1 \in 0..n
    BY <1>2
  <2>2. FlattenSeq(SubSeq(s, 1, k - 1)) = g[k - 1]
    BY <1>1, <2>1, FlattenIs
  <2> QED BY <2>1, <2>2
<1>4. FlattenSeq(s) = g[n]
  <2>1. SubSeq(s, 1, n) = s
    BY SubSeqFull
  <2>2. n \in 0..n
    BY <1>2
  <2> QED BY <1>1, <2>1, <2>2, FlattenIs
<1>5. start = [k \in 1..(n + 1) |-> start[k]]
    OBVIOUS
<1> HIDE DEF start
<1>6. start \in [1..(n + 1) -> Nat]
    BY <1>2, <1>3, <1>5
<1>7. start[1] = 0
  <2>1. 1 \in 1..(n + 1) /\ 1 - 1 = 0
    BY <1>2
  <2>2. start[1] = Len(g[0])
    BY <1>3, <2>1
  <2>3. g[0] = <<>>
    BY <1>1 DEF Joins
  <2> QED BY <2>2, <2>3, EmptySeq
<1>8. start[n + 1] = Len(g[n])
  <2>1. n + 1 \in 1..(n + 1) /\ (n + 1) - 1 = n
    BY <1>2
  <2> QED BY <1>3, <2>1
<1>9. ASSUME NEW k \in 1..n
      PROVE  /\ start[k + 1] = start[k] + Len(s[k])
             /\ \A j \in 1..Len(s[k]) :
                    start[k] + j \in 1..Len(g[n]) /\ g[n][start[k] + j] = s[k][j]
  <2>1. k \in 1..(n + 1) /\ k + 1 \in 1..(n + 1) /\ (k + 1) - 1 = k /\ k \in 0..n /\ k - 1 \in 0..n
        /\ n \in k..n
    BY <1>2
  <2>2. start[k] = Len(g[k - 1]) /\ start[k + 1] = Len(g[k])
    BY <1>3, <2>1
  <2>3. g[k] = g[k - 1] \o s[k] /\ s[k] \in Seq(Nat)
    BY <1>1, ElementOfSeq DEF Joins
  <2>4. Len(s[k]) \in Nat /\ Len(g[k - 1]) \in Nat /\ g[k - 1] \in Seq(Nat)
    BY <1>2, <2>1, <2>3, LenProperties
  <2>5. /\ Len(g[k]) = Len(g[k - 1]) + Len(s[k])
        /\ \A j \in 1..Len(s[k]) : g[k][Len(g[k - 1]) + j] = s[k][j]
    <3> DEFINE a == g[k - 1] b == s[k]
    <3> HIDE DEF a, b
    <3>1. a \in Seq(Nat) /\ b \in Seq(Nat)
        BY <2>3, <2>4 DEF a, b
    <3>2. Len(a \o b) = Len(a) + Len(b) /\ \A j \in 1..Len(b) : (a \o b)[Len(a) + j] = b[j]
        BY <3>1, Joined
    <3> QED BY <2>3, <3>2, Zenon DEF a, b
  <2>6. Len(g[k]) <= Len(g[n]) /\ \A x \in 1..Len(g[k]) : g[n][x] = g[k][x]
    BY <1>1, <2>1, JoinsExtend
  <2>7. ASSUME NEW j \in 1..Len(s[k])
        PROVE  start[k] + j \in 1..Len(g[n]) /\ g[n][start[k] + j] = s[k][j]
    <3>1. Len(g[n]) \in Nat
        BY <1>2, <2>1
    <3>2. start[k] + j \in 1..Len(g[k])
        <4> DEFINE a == Len(g[k - 1]) b == Len(s[k]) c == Len(g[k])
        <4>1. a \in Nat /\ b \in Nat /\ c = a + b /\ start[k] = a /\ j \in 1..b
            BY <2>2, <2>4, <2>5, Zenon
        <4> HIDE DEF a, b, c
        <4>2. a + j \in 1..c
            BY <4>1
        <4> QED BY <4>1, <4>2 DEF c
    <3>3. g[k][start[k] + j] = s[k][j]
        BY <2>2, <2>5
    <3>4. start[k] + j \in 1..Len(g[n])
        BY <2>6, <3>1, <3>2
    <3> QED BY <2>6, <3>2, <3>3, <3>4
  <2> QED BY <2>2, <2>5, <2>7
<1>10. Lies(s, g[n], start)
  <2>1. g[n] \in Seq(Nat)
    BY <1>2
  <2> QED BY <2>1, <1>6, <1>7, <1>8, <1>9 DEF Lies
<1> QED BY <1>4, <1>10 DEF start

(* Parts lie behind one another, and every byte is in one.                   *)
LEMMA LaterBehind ==
    ASSUME NEW s \in Seq(Seq(Nat)), NEW bytes, NEW start, Lies(s, bytes, start),
           NEW k \in 1..(Len(s) + 1), NEW m \in k..(Len(s) + 1)
    PROVE  start[k] <= start[m]
<1> DEFINE S == {n \in Nat : k + n <= Len(s) + 1 => start[k] <= start[k + n]}
<1>1. Len(s) \in Nat /\ \A i \in 1..(Len(s) + 1) : start[i] \in Nat
    BY LenProperties DEF Lies
<1>2. 0 \in S
  <2>1. k + 0 = k /\ start[k] \in Nat
    BY <1>1
  <2> QED BY <2>1
<1>3. \A n \in S : n + 1 \in S
  <2> SUFFICES ASSUME NEW n \in S, k + (n + 1) <= Len(s) + 1 PROVE start[k] <= start[k + (n + 1)]
    OBVIOUS
  <2>1. k + n \in 1..Len(s) /\ k + (n + 1) = (k + n) + 1 /\ k + n <= Len(s) + 1
        /\ k + n \in 1..(Len(s) + 1)
    BY <1>1
  <2>2. start[(k + n) + 1] = start[k + n] + Len(s[k + n])
    BY <2>1 DEF Lies
  <2>3. Len(s[k + n]) \in Nat
    BY <2>1, ElementOfSeq, LenProperties
  <2>4. start[k] <= start[k + n] /\ start[k] \in Nat /\ start[k + n] \in Nat
    BY <1>1, <2>1
  <2> QED BY <2>1, <2>2, <2>3, <2>4
<1>4. S = Nat
  <2>1. S \in SUBSET Nat
    OBVIOUS
  <2> HIDE DEF S
  <2> QED BY <1>2, <1>3, <2>1, Induction
<1>5. m - k \in Nat /\ k + (m - k) = m /\ m <= Len(s) + 1
    BY <1>1
<1> QED BY <1>4, <1>5

(* Every byte is in a part.                                                  *)
LEMMA BytesInParts ==
    ASSUME NEW s \in Seq(Seq(Nat)), NEW bytes, NEW start, Lies(s, bytes, start),
           NEW x \in 0..(Len(bytes) - 1)
    PROVE  \E k \in 1..Len(s) : start[k] <= x /\ x < start[k + 1]
<1> DEFINE S == {k \in 1..Len(s) : x < start[k + 1]}
<1>1. Len(s) \in Nat /\ Len(bytes) \in Nat /\ \A i \in 1..(Len(s) + 1) : start[i] \in Nat
    BY LenProperties DEF Lies
<1>2. start[1] = 0 /\ start[Len(s) + 1] = Len(bytes)
    BY DEF Lies
<1>3. Len(s) # 0
    BY <1>1, <1>2
<1>4. Len(s) \in S
    BY <1>1, <1>2, <1>3
<1>5. PICK k \in S : \A m \in S : k <= m
  <2>1. S \in SUBSET Nat /\ S # {}
    <3>1. S \subseteq 1..Len(s) /\ S # {}
        BY <1>4
    <3> HIDE DEF S
    <3> QED BY <1>1, <3>1
  <2> HIDE DEF S
  <2> QED BY <2>1, LeastNat
<1>6. start[k] <= x
  <2>1. CASE k = 1
    BY <2>1, <1>2
  <2>2. CASE k # 1
    <3>1. k - 1 \in 1..Len(s) /\ (k - 1) + 1 = k /\ ~(k <= k - 1) /\ k \in 1..(Len(s) + 1)
        BY <1>1, <2>2
    <3>2. k - 1 \notin S
        BY <1>5, <3>1
    <3> QED BY <1>1, <3>1, <3>2
  <2> QED BY <2>1, <2>2
<1> QED BY <1>6

(* One turn of the search: f is what the search gives further on.            *)
Turn(b, f, p) ==
    LET q    == Relay!NextDollar(b, p)
        size == b[q + 2]
        rest == f[q + size + Relay!RSTP_INTERLEAVE_SIZE]
    IN  IF Relay!TooShort(b, p) THEN [units |-> <<>>, stop |-> p, bad |-> FALSE]
        ELSE IF Relay!TooShort(b, q) THEN [units |-> <<>>, stop |-> q, bad |-> FALSE]
        ELSE IF size > 127 THEN [units |-> <<q>>, stop |-> 0, bad |-> TRUE]
        ELSE [rest EXCEPT !.units = <<q>> \o @]

(* More than a '$' and a size must have come for a header to be read.        *)
LEMMA MagicSize == MAGIC_SIZE \in Nat /\ MAGIC_SIZE > 2
    BY RelayParameters DEF Relay!RelayAssumption, Relay!RSTP_INTERLEAVE_SIZE

(* The byte found is the first '$', or the last byte.                        *)
LEMMA NextDollarIs ==
    ASSUME NEW b \in Seq(Nat), NEW p \in Nat, ~Relay!TooShort(b, p)
    PROVE  LET q == Relay!NextDollar(b, p)
           IN  /\ q \in p..(Len(b) - 1)
               /\ b[q + 1] = 36 \/ q = Len(b) - 1
               /\ \A r \in p..(q - 1) : b[r + 1] # 36
<1> DEFINE at == {q \in p..(Len(b) - 1) : b[q + 1] = Relay!Dollar \/ q = Len(b) - 1}
           q == Relay!NextDollar(b, p)
<1>1. Len(b) \in Nat /\ p + MAGIC_SIZE < Len(b)
    BY MagicSize, LenProperties DEF Relay!TooShort
<1>2. Len(b) - 1 \in at
    BY <1>1, MagicSize
<1>3. at \in SUBSET Nat /\ at # {}
  <2>1. at \subseteq p..(Len(b) - 1)
    OBVIOUS
  <2> HIDE DEF at
  <2> QED BY <1>2, <2>1
<1>4. \E m \in at : \A r \in at : m <= r
  <2> HIDE DEF at
  <2> QED BY <1>3, LeastNat
<1>5. q \in at /\ \A r \in at : q <= r
  <2>1. q = CHOOSE m \in at : \A r \in at : m <= r
    BY DEF Relay!NextDollar
  <2> HIDE DEF at, q
  <2> QED BY <1>4, <2>1
<1> HIDE DEF q
<1>6. ASSUME NEW r \in p..(q - 1) PROVE b[r + 1] # 36
  <2>1. q \in p..(Len(b) - 1)
    BY <1>5
  <2>2. r \in p..(Len(b) - 1) /\ ~(q <= r)
    BY <2>1, <1>1
  <2>3. r \notin at
    BY <1>5, <2>2
  <2> QED BY <2>2, <2>3 DEF Relay!Dollar
<1> QED BY <1>5, <1>6 DEF Relay!Dollar, q

(* A turn looks only further on.                                             *)
LEMMA TurnLooksOn ==
    ASSUME NEW b \in Seq(Nat), NEW p \in Nat, NEW f, NEW g,
           \A x \in Nat : x > p => f[x] = g[x]
    PROVE  Turn(b, f, p) = Turn(b, g, p)
<1> DEFINE q == Relay!NextDollar(b, p)
           next == q + b[q + 2] + Relay!RSTP_INTERLEAVE_SIZE
<1>1. CASE Relay!TooShort(b, p) \/ Relay!TooShort(b, q)
    BY <1>1, Zenon DEF Turn
<1>2. CASE ~Relay!TooShort(b, p) /\ ~Relay!TooShort(b, q)
  <2>1. q \in p..(Len(b) - 1) /\ Len(b) \in Nat
    BY <1>2, NextDollarIs, LenProperties
  <2>2. q + 2 \in 1..Len(b)
    BY <1>2, <2>1, MagicSize DEF Relay!TooShort
  <2>3. b[q + 2] \in Nat
    BY <2>2, ElementOfSeq
  <2>4. next \in Nat /\ next > p
    BY <2>1, <2>3 DEF Relay!RSTP_INTERLEAVE_SIZE
  <2>5. f[next] = g[next]
    BY <2>4
  <2> QED BY <2>5, Zenon DEF Turn
<1> QED BY <1>1, <1>2

(* The search is what its turns make of it.                                  *)
LEMMA ScanIs ==
    ASSUME NEW b \in Seq(Nat)
    PROVE  \A p \in Nat : Relay!Scan(b)[p] = Turn(b, Relay!Scan(b), p)
<1> DEFINE Upto(n, g) ==
               g = [p \in Nat |-> g[p]] /\ \A p \in Nat : p + n >= Len(b) => g[p] = Turn(b, g, p)
           P(n) == \E g : Upto(n, g)
           S == {n \in Nat : P(n)}
<1>1. Len(b) \in Nat
    BY LenProperties
<1>2. P(0)
  <2> DEFINE g == [p \in Nat |-> [units |-> <<>>, stop |-> p, bad |-> FALSE]]
  <2>1. ASSUME NEW p \in Nat, p + 0 >= Len(b) PROVE g[p] = Turn(b, g, p)
    <3>1. Relay!TooShort(b, p)
        BY <2>1, <1>1, MagicSize DEF Relay!TooShort
    <3> QED BY <3>1, Zenon DEF Turn
  <2>2. g = [p \in Nat |-> g[p]]
    OBVIOUS
  <2> HIDE DEF g
  <2>3. Upto(0, g)
    BY <2>1, <2>2
  <2> QED BY <2>3
<1>3. ASSUME NEW n \in Nat, P(n) PROVE P(n + 1)
  <2>1. PICK g : Upto(n, g)
    BY <1>3
  <2> DEFINE h == [p \in Nat |-> IF p + n + 1 = Len(b) THEN Turn(b, g, p) ELSE g[p]]
  <2>2. h = [p \in Nat |-> h[p]]
    OBVIOUS
  <2>3. \A p \in Nat : h[p] = IF p + n + 1 = Len(b) THEN Turn(b, g, p) ELSE g[p]
    OBVIOUS
  <2> HIDE DEF h
  <2>4. ASSUME NEW p \in Nat, p + (n + 1) >= Len(b) PROVE h[p] = Turn(b, h, p)
    <3>1. \A x \in Nat : x > p => h[x] = g[x]
        BY <2>3, <2>4, <1>1
    <3>2. Turn(b, h, p) = Turn(b, g, p)
        BY <3>1, TurnLooksOn
    <3>3. CASE p + n + 1 = Len(b)
        BY <2>3, <3>2, <3>3
    <3>4. CASE p + n + 1 # Len(b)
      <4>1. p + n >= Len(b)
        BY <2>4, <3>4, <1>1
      <4>2. g[p] = Turn(b, g, p)
        BY <2>1, <4>1
      <4> QED BY <2>3, <3>2, <3>4, <4>2
    <3> QED BY <3>3, <3>4
  <2>5. Upto(n + 1, h)
    BY <2>2, <2>4
  <2> QED BY <2>5
<1>4. P(Len(b))
  <2> HIDE DEF P
  <2>1. S \in SUBSET Nat /\ 0 \in S /\ \A n \in S : n + 1 \in S
    BY <1>2, <1>3
  <2> HIDE DEF S
  <2>2. S = Nat
    BY <2>1, Induction
  <2> QED BY <1>1, <2>2 DEF S
<1>5. PICK g : Upto(Len(b), g)
    BY <1>4
<1> DEFINE Is(f) == f = [p \in Nat |-> Turn(b, f, p)]
<1>6. Is(g)
  <2>1. \A p \in Nat : g[p] = Turn(b, g, p)
    BY <1>1, <1>5
  <2> QED BY <1>5, <2>1
<1>7. Relay!Scan(b) = CHOOSE f : Is(f)
    BY Zenon DEF Relay!Scan, Turn
<1>8. Is(Relay!Scan(b))
  <2> HIDE DEF Is
  <2> QED BY <1>6, <1>7
<1> DEFINE f == Relay!Scan(b)
<1>9. f = [p \in Nat |-> Turn(b, f, p)]
    BY <1>8
<1> HIDE DEF f
<1>10. \A p \in Nat : f[p] = Turn(b, f, p)
    BY <1>9
<1> QED BY <1>10 DEF f

EndOf(bytes, u) == u + 2 + bytes[u + 2]

(* Units of U in bytes: where they begin and that they hold every '$'.       *)
Framed(bytes, U) ==
    /\ bytes \in Seq(Nat)
    /\ U \subseteq 0..(Len(bytes) - 1)
    /\ \A u \in U : /\ bytes[u + 1] = 36
                    /\ u + 2 \in 1..Len(bytes) /\ bytes[u + 2] \in 0..127
                    /\ EndOf(bytes, u) \in Nat
                    /\ u + MAGIC_SIZE < EndOf(bytes, u) /\ EndOf(bytes, u) <= Len(bytes)
    /\ \A u, v \in U : u < v => EndOf(bytes, u) <= v
    /\ \A x \in 0..(Len(bytes) - 1) :
           bytes[x + 1] = 36 => \E u \in U : u <= x /\ x < EndOf(bytes, u)

(* What StreamsAssumption says of a stream.                                  *)
Sent(s) ==
    /\ s \in Seq(Seq(Nat) \ {<<>>})
    /\ \A k \in 1..Len(s) :
           IF s[k][1] = 36
           THEN /\ MAGIC_SIZE < Len(s[k]) /\ s[k][2] <= 127
                /\ Len(s[k]) = s[k][2] + 2
           ELSE \A i \in 1..Len(s[k]) : s[k][i] # 36

(* The packets among the parts are the units: they end where their sizes     *)
(* say, and no '$' begins anything else.                                     *)
LEMMA PartsFramed ==
    ASSUME NEW s, Sent(s), NEW bytes, NEW start, Lies(s, bytes, start)
    PROVE  Framed(bytes, {start[k] : k \in {j \in 1..Len(s) : s[j][1] = 36}})
<1> DEFINE units == {j \in 1..Len(s) : s[j][1] = 36}
           U == {start[k] : k \in units}
<1>1. s \in Seq(Seq(Nat)) /\ Len(s) \in Nat /\ \A k \in 1..Len(s) : s[k] \in Seq(Nat) /\ s[k] # <<>>
  <2>1. s \in Seq(Seq(Nat) \ {<<>>}) /\ Seq(Nat) \ {<<>>} \subseteq Seq(Nat)
    BY DEF Sent
  <2>2. s \in Seq(Seq(Nat))
    BY <2>1, SeqMonotonic, Zenon
  <2> QED BY <2>1, <2>2, ElementOfSeq, LenProperties
<1>2. bytes \in Seq(Nat) /\ Len(bytes) \in Nat
    BY LenProperties DEF Lies
<1>3. \A k \in 1..(Len(s) + 1) : start[k] \in Nat
    BY DEF Lies
<1>4. \A k \in 1..Len(s) : Len(s[k]) \in Nat /\ Len(s[k]) >= 1
  <2> TAKE k \in 1..Len(s)
  <2>1. s[k] \in Seq(Nat) /\ s[k] # <<>>
    BY <1>1
  <2> QED BY <2>1, EmptySeq, LenProperties
<1>5. \A k \in 1..Len(s) : start[k + 1] = start[k] + Len(s[k]) /\ start[k + 1] <= Len(bytes)
                           /\ start[k + 1] \in Nat /\ start[k] \in Nat
  <2> TAKE k \in 1..Len(s)
  <2>1. k + 1 \in 1..(Len(s) + 1) /\ Len(s) + 1 \in (k + 1)..(Len(s) + 1) /\ k \in 1..(Len(s) + 1)
    BY <1>1
  <2>2. start[k + 1] <= start[Len(s) + 1]
    BY <1>1, <2>1, LaterBehind
  <2> QED BY <2>1, <2>2, <1>3 DEF Lies
<1>6. ASSUME NEW k \in units
      PROVE  /\ start[k] \in 0..(Len(bytes) - 1)
             /\ bytes[start[k] + 1] = 36
             /\ start[k] + 2 \in 1..Len(bytes) /\ bytes[start[k] + 2] \in 0..127
             /\ EndOf(bytes, start[k]) = start[k + 1]
             /\ start[k] + MAGIC_SIZE < start[k + 1]
  <2>1. k \in 1..Len(s) /\ s[k][1] = 36
    OBVIOUS
  <2>2. MAGIC_SIZE < Len(s[k]) /\ s[k][2] <= 127 /\ Len(s[k]) = s[k][2] + 2
    BY <2>1, Zenon DEF Sent
  <2> DEFINE part == s[k] a == start[k] c == start[k + 1]
  <2>3. part \in Seq(Nat) /\ a \in Nat /\ c \in Nat /\ c = a + Len(part) /\ c <= Len(bytes)
    BY <1>1, <1>5, <2>1, Zenon
  <2>4. \A j \in 1..Len(part) : a + j \in 1..Len(bytes) /\ bytes[a + j] = part[j]
    BY <2>1, Zenon DEF Lies
  <2>5. MAGIC_SIZE < Len(part) /\ part[2] <= 127 /\ Len(part) = part[2] + 2 /\ part[1] = 36
    BY <2>1, <2>2, Zenon
  <2> HIDE DEF part, a, c
  <2> DEFINE n == Len(part) z == part[2]
  <2>a. n \in Nat /\ MAGIC_SIZE < n /\ z <= 127 /\ n = z + 2 /\ c = a + n
    BY <2>3, <2>5, LenProperties, Zenon
  <2>6. 1 \in 1..n /\ 2 \in 1..n
    <3> HIDE DEF n, z
    <3> QED BY <2>a, MagicSize
  <2>7. z \in 0..127
    <3>1. z \in Nat
        BY <2>3, <2>6, ElementOfSeq, Zenon
    <3> HIDE DEF n, z
    <3> QED BY <3>1, <2>a
  <2>8. a + 1 \in 1..Len(bytes) /\ bytes[a + 1] = 36 /\ a + 2 \in 1..Len(bytes) /\ bytes[a + 2] = part[2]
    BY <2>4, <2>5, <2>6
  <2>9. a \in 0..(Len(bytes) - 1)
    BY <2>3, <2>8, <1>2
  <2>10. EndOf(bytes, a) = c /\ a + MAGIC_SIZE < c
    <3>1. EndOf(bytes, a) = a + 2 + z
        BY <2>8, Zenon DEF EndOf
    <3> HIDE DEF n, z
    <3> QED BY <3>1, <2>3, <2>7, <2>a, MagicSize
  <2> QED BY <2>7, <2>8, <2>9, <2>10, Zenon DEF a, c
<1>7. U \subseteq 0..(Len(bytes) - 1)
    BY <1>6
<1>8. ASSUME NEW u \in U
      PROVE  /\ bytes[u + 1] = 36
             /\ u + 2 \in 1..Len(bytes) /\ bytes[u + 2] \in 0..127
             /\ EndOf(bytes, u) \in Nat
             /\ u + MAGIC_SIZE < EndOf(bytes, u) /\ EndOf(bytes, u) <= Len(bytes)
  <2>1. PICK k \in units : u = start[k]
    OBVIOUS
  <2>2. k \in 1..Len(s)
    OBVIOUS
  <2> HIDE DEF units
  <2> QED BY <1>5, <1>6, <2>1, <2>2
<1>9. ASSUME NEW u \in U, NEW v \in U, u < v PROVE EndOf(bytes, u) <= v
  <2>1. PICK k \in units, m \in units : u = start[k] /\ v = start[m]
    OBVIOUS
  <2>2. k \in 1..Len(s) /\ m \in 1..Len(s)
    OBVIOUS
  <2> HIDE DEF units
  <2>3. k < m
    <3>1. SUFFICES ASSUME m <= k PROVE FALSE
        BY <2>2, <1>1
    <3>2. k \in m..(Len(s) + 1) /\ m \in 1..(Len(s) + 1)
        BY <1>1, <2>2, <3>1
    <3>3. start[m] <= start[k]
        BY <1>1, <3>2, LaterBehind
    <3> QED BY <1>5, <1>9, <2>1, <2>2, <3>3
  <2>4. k + 1 \in 1..(Len(s) + 1) /\ m \in (k + 1)..(Len(s) + 1)
    BY <1>1, <2>2, <2>3
  <2>5. start[k + 1] <= start[m]
    BY <1>1, <2>4, LaterBehind
  <2> QED BY <1>6, <2>1, <2>5
<1>10. ASSUME NEW x \in 0..(Len(bytes) - 1), bytes[x + 1] = 36
       PROVE  \E u \in U : u <= x /\ x < EndOf(bytes, u)
  <2>1. PICK k \in 1..Len(s) : start[k] <= x /\ x < start[k + 1]
    BY <1>1, BytesInParts
  <2> DEFINE part == s[k] a == start[k] c == start[k + 1] j == x + 1 - a
  <2>2. a \in Nat /\ c \in Nat /\ c = a + Len(part) /\ part \in Seq(Nat) /\ Len(part) \in Nat
        /\ \A i \in 1..Len(part) : bytes[a + i] = part[i]
    BY <1>1, <1>4, <1>5, Zenon DEF Lies
  <2>3. a <= x /\ x < c
    BY <2>1
  <2> HIDE DEF part, a, c
  <2>4. j \in 1..Len(part) /\ a + j = x + 1
    BY <2>2, <2>3, <1>2
  <2>5. part[j] = 36
    BY <1>10, <2>2, <2>4
  <2>6. k \in units
    <3>1. SUFFICES ASSUME s[k][1] # 36 PROVE FALSE
        OBVIOUS
    <3>2. \A i \in 1..Len(s[k]) : s[k][i] # 36
        BY <3>1, Zenon DEF Sent
    <3> QED BY <2>4, <2>5, <3>2, Zenon DEF part
  <2>7. EndOf(bytes, start[k]) = start[k + 1]
    BY <1>6, <2>6
  <2> HIDE DEF units
  <2> QED BY <2>1, <2>6, <2>7
<1> HIDE DEF U
<1>11. Framed(bytes, U)
    BY <1>2, <1>7, <1>8, <1>9, <1>10 DEF Framed
<1> QED BY <1>11 DEF U

(* What the server sends.                                                    *)
LEMMA StreamSent ==
    ASSUME NEW s \in Streams
    PROVE  Sent(s)
<1> DEFINE Fine(t) ==
               /\ t \in Seq(Seq(Nat) \ {<<>>})
               /\ \A k \in DOMAIN t :
                      IF t[k][1] = Relay!Dollar
                      THEN /\ MAGIC_SIZE < Len(t[k]) /\ t[k][2] <= 127
                           /\ Len(t[k]) = t[k][2] + Relay!RSTP_INTERLEAVE_SIZE
                      ELSE \A i \in DOMAIN t[k] : t[k][i] # Relay!Dollar
<1>1. \A t \in Streams : Fine(t)
    BY RelayParameters, Zenon DEF Relay!StreamsAssumption
<1>2. Fine(s)
  <2> HIDE DEF Fine
  <2> QED BY <1>1
<1>3. DOMAIN s = 1..Len(s)
    BY <1>2, LenProperties
<1>4. ASSUME NEW k \in 1..Len(s) PROVE DOMAIN s[k] = 1..Len(s[k])
  <2>1. s[k] \in Seq(Nat)
    BY <1>2, <1>4, ElementOfSeq
  <2> QED BY <2>1, LenProperties
<1> QED BY <1>2, <1>3, <1>4, Zenon DEF Sent, Relay!Dollar, Relay!RSTP_INTERLEAVE_SIZE

(* Before a server is connected, the stream is empty.                        *)
LEMMA NothingSent ==
    ASSUME NEW s, s = <<>>
    PROVE  Sent(s)
<1> DEFINE S == Seq(Nat) \ {<<>>}
<1>1. s \in Seq(S) /\ Len(s) = 0
  <2> HIDE DEF S
  <2> QED BY EmptySeq
<1>2. \A k \in 1..Len(s) : FALSE
    BY <1>1
<1> QED BY <1>1, <1>2, Zenon DEF Sent

(* A stream is framed, and its parts lie as Start says.                      *)
LEMMA StreamFramed ==
    ASSUME Sent(stream)
    PROVE  /\ Lies(stream, Relay!Bytes, [k \in 1..(Len(stream) + 1) |-> Relay!Start(k)])
           /\ Framed(Relay!Bytes, Relay!UnitStarts)
<1>2. stream \in Seq(Seq(Nat)) /\ DOMAIN stream = 1..Len(stream) /\ Len(stream) \in Nat
  <2>1. stream \in Seq(Seq(Nat) \ {<<>>}) /\ Seq(Nat) \ {<<>>} \subseteq Seq(Nat)
    BY DEF Sent
  <2> QED BY <2>1, SeqMonotonic, LenProperties
<1> DEFINE start == [k \in 1..(Len(stream) + 1) |-> Relay!Start(k)]
<1>3. Lies(stream, Relay!Bytes, start)
    BY <1>2, PartsLie, Zenon DEF Relay!Bytes, Relay!Start, Relay!FlattenSeq, FlattenSeq
<1>4. Framed(Relay!Bytes, {start[k] : k \in {j \in 1..Len(stream) : stream[j][1] = 36}})
    BY <1>3, PartsFramed
<1>5. {start[k] : k \in {j \in 1..Len(stream) : stream[j][1] = 36}} = Relay!UnitStarts
  <2>1. \A k \in 1..Len(stream) : start[k] = Relay!Start(k)
    BY <1>2
  <2> HIDE DEF start
  <2> QED BY <1>2, <2>1, Zenon DEF Relay!UnitStarts, Relay!IsUnit, Relay!Dollar
<1> QED BY <1>3, <1>4, <1>5

(* An offset that is in no unit.                                             *)
Good(bytes, U, x) ==
    /\ x \in 0..Len(bytes)
    /\ \A u \in U : u < x => EndOf(bytes, u) <= x

(* b is the part of bytes from offset w up to offset e.                      *)
Cut(bytes, w, e, b) ==
    /\ w \in Nat /\ e \in w..Len(bytes)
    /\ b \in Seq(Nat) /\ Len(b) = e - w
    /\ \A i \in 1..Len(b) : b[i] = bytes[w + i]

(* What the search of b from p on has to give.                               *)
Finds(bytes, U, w, e, p, r) ==
    /\ r = [units |-> r.units, stop |-> r.stop, bad |-> FALSE]
    /\ r.stop \in Nat /\ p <= r.stop /\ Good(bytes, U, w + r.stop)
    /\ e <= w + r.stop + MAGIC_SIZE
    /\ r.units \in Seq(Nat)
    /\ \A i \in 1..(Len(r.units) - 1) : r.units[i] < r.units[i + 1]
    /\ \A i \in 1..Len(r.units) :
           w + r.units[i] \in U /\ p <= r.units[i] /\ r.units[i] < r.stop
    /\ \A u \in U : w + p <= u /\ u < w + r.stop => \E i \in 1..Len(r.units) : w + r.units[i] = u
    /\ \A u \in U : w + p <= u => (u < w + r.stop <=> u + MAGIC_SIZE < e)

(* A search that ends at stop without a unit.                                *)
LEMMA FindsNone ==
    ASSUME NEW bytes, NEW U, Framed(bytes, U), NEW w, NEW e, NEW b, Cut(bytes, w, e, b),
           NEW p \in Nat, NEW stop \in Nat, p <= stop, Good(bytes, U, w + stop),
           e <= w + stop + MAGIC_SIZE,
           \A u \in U : w + p <= u => w + stop <= u
    PROVE  Finds(bytes, U, w, e, p, [units |-> <<>>, stop |-> stop, bad |-> FALSE])
<1> DEFINE r == [units |-> <<>>, stop |-> stop, bad |-> FALSE]
<1>1. r.units = <<>> /\ r.stop = stop /\ r = [units |-> r.units, stop |-> r.stop, bad |-> FALSE]
    OBVIOUS
<1> HIDE DEF r
<1>2. r.units \in Seq(Nat) /\ Len(r.units) = 0 /\ 1..Len(r.units) = {} /\ 1..(Len(r.units) - 1) = {}
    BY <1>1
<1>3. \A u \in U : u \in Nat
    BY LenProperties DEF Framed
<1>4. w \in Nat /\ e \in Nat
    BY LenProperties DEF Cut
<1>5. ASSUME NEW u \in U, w + p <= u PROVE ~(u < w + stop) /\ ~(u + MAGIC_SIZE < e)
    BY <1>3, <1>4, <1>5, MagicSize
<1> QED BY <1>1, <1>2, <1>5 DEF Finds, r

(* The end of a unit is in no unit.                                          *)
LEMMA EndGood ==
    ASSUME NEW bytes, NEW U, Framed(bytes, U), NEW u \in U
    PROVE  Good(bytes, U, EndOf(bytes, u))
<1>1. EndOf(bytes, u) \in 0..Len(bytes) /\ u \in Nat
    BY LenProperties DEF Framed
<1>2. ASSUME NEW v \in U, v < EndOf(bytes, u) PROVE EndOf(bytes, v) <= EndOf(bytes, u)
  <2>1. v \in Nat /\ EndOf(bytes, v) \in Nat
    BY LenProperties DEF Framed
  <2>2. CASE u < v
    BY <1>1, <1>2, <2>1, <2>2 DEF Framed
  <2>3. CASE v < u
    <3>1. EndOf(bytes, v) <= u /\ u + MAGIC_SIZE < EndOf(bytes, u)
        BY <2>3 DEF Framed
    <3> QED BY <1>1, <2>1, <3>1, MagicSize
  <2>4. CASE u = v
    BY <1>1, <2>4
  <2> QED BY <1>1, <2>1, <2>2, <2>3, <2>4
<1> QED BY <1>1, <1>2 DEF Good

(* From an offset outside of units, the next '$' is where the next unit      *)
(* begins.                                                                   *)
LEMMA NextUnit ==
    ASSUME NEW bytes, NEW U, Framed(bytes, U), NEW w, NEW e, NEW b, Cut(bytes, w, e, b),
           NEW p \in Nat, Good(bytes, U, w + p), ~Relay!TooShort(b, p),
           NEW q, q = Relay!NextDollar(b, p)
    PROVE  /\ q \in Nat /\ p <= q /\ q < e - w
           /\ \A u \in U : w + p <= u => w + q <= u
           /\ Good(bytes, U, w + q)
           /\ ~Relay!TooShort(b, q) => w + q \in U /\ b[q + 2] = bytes[w + q + 2]
<1>1. b \in Seq(Nat) /\ Len(b) = e - w /\ w \in Nat /\ e \in Nat /\ e <= Len(bytes) /\ Len(bytes) \in Nat
    BY LenProperties DEF Cut, Framed
<1>2. /\ q \in p..(Len(b) - 1)
      /\ b[q + 1] = 36 \/ q = Len(b) - 1
      /\ \A r \in p..(q - 1) : b[r + 1] # 36
    BY <1>1, NextDollarIs
<1>3. q \in Nat /\ p <= q /\ q < e - w
    BY <1>1, <1>2
<1>4. \A u \in U : u \in Nat /\ bytes[u + 1] = 36 /\ EndOf(bytes, u) \in Nat
    BY <1>1 DEF Framed
<1> DEFINE m == Len(b)
<1>m. m \in Nat /\ m = e - w /\ w \in Nat /\ e \in Nat
    BY <1>1, LenProperties, Zenon
<1> HIDE DEF m
<1>5. ASSUME NEW u \in U, w + p <= u PROVE w + q <= u
  <2> SUFFICES ASSUME u < w + q PROVE FALSE
    BY <1>1, <1>3, <1>4
  <2>a. u \in Nat
    BY <1>4
  <2>b. u - w \in p..(q - 1) /\ u - w + 1 \in 1..m /\ w + (u - w + 1) = u + 1
    BY <1>m, <1>3, <1>5, <2>a
  <2>1. u - w \in p..(q - 1) /\ u - w + 1 \in 1..Len(b) /\ w + (u - w + 1) = u + 1
    BY <2>b, Zenon DEF m
  <2>2. b[u - w + 1] = bytes[u + 1]
    BY <2>1 DEF Cut
  <2> QED BY <1>2, <1>4, <2>1, <2>2
<1>6. Good(bytes, U, w + q)
  <2>1. w + q \in 0..Len(bytes)
    BY <1>1, <1>3
  <2>2. ASSUME NEW u \in U, u < w + q PROVE EndOf(bytes, u) <= w + q
    <3>a. u \in Nat /\ EndOf(bytes, u) \in Nat /\ (w + p <= u => w + q <= u)
        BY <1>4, <1>5
    <3>1. u < w + p
        BY <1>m, <1>3, <2>2, <3>a
    <3>2. EndOf(bytes, u) <= w + p
        BY <3>1 DEF Good
    <3> QED BY <1>m, <1>3, <3>a, <3>2
  <2> QED BY <2>1, <2>2 DEF Good
<1>7. ASSUME ~Relay!TooShort(b, q) PROVE w + q \in U /\ b[q + 2] = bytes[w + q + 2]
  <2>1. q + MAGIC_SIZE < m
    BY <1>7, <1>m, <1>3, MagicSize DEF Relay!TooShort, m
  <2>a. q + 1 \in 1..m /\ q + 2 \in 1..m /\ q # m - 1
    BY <1>m, <1>3, <2>1, MagicSize
  <2>2. q + 1 \in 1..Len(b) /\ q + 2 \in 1..Len(b) /\ q # Len(b) - 1
    BY <2>a, Zenon DEF m
  <2>3. bytes[(w + q) + 1] = 36 /\ b[q + 2] = bytes[w + q + 2]
    <3>1. b[q + 1] = 36 /\ b[q + 1] = bytes[w + (q + 1)] /\ b[q + 2] = bytes[w + (q + 2)]
        BY <1>2, <2>2 DEF Cut
    <3>2. w + (q + 1) = (w + q) + 1 /\ w + (q + 2) = w + q + 2
        BY <1>1, <1>3
    <3> QED BY <3>1, <3>2
  <2>4. w + q \in 0..(Len(bytes) - 1)
    BY <1>1, <1>3
  <2>5. PICK u \in U : u <= w + q /\ w + q < EndOf(bytes, u)
    BY <2>3, <2>4 DEF Framed
  <2>6. ~(u < w + q)
    BY <1>4, <1>6, <2>4, <2>5 DEF Good
  <2>7. u = w + q
    <3>1. u \in Nat
        BY <1>4
    <3> QED BY <1>m, <1>3, <2>5, <2>6, <3>1
  <2> QED BY <2>3, <2>5, <2>7
<1> QED BY <1>3, <1>5, <1>6, <1>7

(* A search with other units.                                                *)
LEMMA UnitsSet ==
    ASSUME NEW r, NEW x, NEW y, NEW z, NEW v, r = [units |-> x, stop |-> y, bad |-> z]
    PROVE  [r EXCEPT !.units = v] = [units |-> v, stop |-> y, bad |-> z]
    OBVIOUS

(* A unit put before others.                                                 *)
LEMMA PutBefore ==
    ASSUME NEW T, NEW q \in T, NEW t \in Seq(T)
    PROVE  /\ <<q>> \o t \in Seq(T)
           /\ Len(<<q>> \o t) = Len(t) + 1
           /\ (<<q>> \o t)[1] = q
           /\ \A i \in 1..Len(t) : (<<q>> \o t)[i + 1] = t[i]
<1> DEFINE one == <<q>>
<1>1. one \in Seq(T) /\ Len(one) = 1 /\ one[1] = q
    OBVIOUS
<1> HIDE DEF one
<1>2. /\ one \o t \in Seq(T)
      /\ Len(one \o t) = Len(one) + Len(t) /\ Len(t) \in Nat
      /\ \A x \in 1..Len(one) : (one \o t)[x] = one[x]
      /\ \A j \in 1..Len(t) : (one \o t)[Len(one) + j] = t[j]
    BY <1>1, Joined
<1> DEFINE v == one \o t
<1>3. v = one \o t
    OBVIOUS
<1> HIDE DEF v
<1>4. /\ v \in Seq(T) /\ Len(v) = 1 + Len(t) /\ v[1] = q
      /\ \A j \in 1..Len(t) : v[1 + j] = t[j]
  <2>1. 1 \in 1..1
    OBVIOUS
  <2> QED BY <1>1, <1>2, <1>3, <2>1, Zenon
<1>5. Len(v) = Len(t) + 1 /\ \A j \in 1..Len(t) : v[j + 1] = t[j]
  <2>1. \A j \in 1..Len(t) : 1 + j = j + 1
    OBVIOUS
  <2> QED BY <1>2, <1>4, <2>1
<1> QED BY <1>4, <1>5 DEF v, one

(* A unit before what the search finds behind it.                            *)
LEMMA FindsOneMore ==
    ASSUME NEW bytes, NEW U, Framed(bytes, U), NEW w, NEW e, NEW b, Cut(bytes, w, e, b),
           NEW p \in Nat, NEW q \in Nat, p <= q, w + q \in U, w + q + MAGIC_SIZE < e,
           \A u \in U : w + p <= u => w + q <= u,
           NEW next \in Nat, w + next = EndOf(bytes, w + q),
           NEW t, NEW a, Finds(bytes, U, w, e, next, [units |-> t, stop |-> a, bad |-> FALSE]),
           NEW v \in Seq(Nat), Len(v) = Len(t) + 1, v[1] = q,
           \A i \in 1..Len(t) : v[i + 1] = t[i]
    PROVE  Finds(bytes, U, w, e, p, [units |-> v, stop |-> a, bad |-> FALSE])
<1> DEFINE n == Len(t)
           r == [units |-> t, stop |-> a, bad |-> FALSE]
           o == [units |-> v, stop |-> a, bad |-> FALSE]
<1>1. r.units = t /\ r.stop = a
    OBVIOUS
<1>0. Finds(bytes, U, w, e, next, r)
    OBVIOUS
<1>2. /\ a \in Nat /\ next <= a /\ Good(bytes, U, w + a) /\ e <= w + a + MAGIC_SIZE
      /\ t \in Seq(Nat)
      /\ \A i \in 1..(n - 1) : t[i] < t[i + 1]
      /\ \A i \in 1..n : w + t[i] \in U /\ next <= t[i] /\ t[i] < a
      /\ \A u \in U : w + next <= u /\ u < w + a => \E i \in 1..n : w + t[i] = u
      /\ \A u \in U : w + next <= u => (u < w + a <=> u + MAGIC_SIZE < e)
    BY <1>0, <1>1, Zenon DEF Finds
<1>3. n \in Nat
    BY <1>2, LenProperties
<1>4. /\ v \in Seq(Nat) /\ Len(v) = n + 1 /\ v[1] = q
      /\ \A i \in 1..n : v[i + 1] = t[i]
    OBVIOUS
<1>5. o.units = v /\ o.stop = a /\ o = [units |-> o.units, stop |-> o.stop, bad |-> FALSE]
    OBVIOUS
<1> HIDE DEF n, r, o
<1>6. \A u \in U : u \in Nat /\ EndOf(bytes, u) \in Nat
    BY LenProperties DEF Framed
<1>7. w \in Nat /\ e \in Nat
    BY LenProperties DEF Cut
<1>8. q < next
  <2>1. w + q + MAGIC_SIZE < EndOf(bytes, w + q)
    BY DEF Framed
  <2> QED BY <2>1, <1>7, MagicSize
<1>9. \A i \in 1..n : t[i] \in Nat
    BY <1>2, ElementOfSeq DEF n
<1>10. ASSUME NEW i \in 1..(n + 1) PROVE w + v[i] \in U /\ p <= v[i] /\ v[i] < a
  <2>1. CASE i = 1
    BY <2>1, <1>2, <1>4, <1>8
  <2>2. CASE i # 1
    <3>1. i - 1 \in 1..n /\ (i - 1) + 1 = i
        BY <1>3, <2>2
    <3>2. v[i] = t[i - 1]
        BY <1>4, <3>1
    <3> QED BY <1>2, <1>8, <1>9, <3>1, <3>2
  <2> QED BY <2>1, <2>2
<1>11. ASSUME NEW i \in 1..n PROVE v[i] < v[i + 1]
  <2>1. CASE i = 1
    <3>1. 1 \in 1..n /\ v[i] = q /\ v[i + 1] = t[1]
        BY <2>1, <1>4
    <3>2. next <= t[1] /\ t[1] \in Nat
        BY <1>2, <1>9, <3>1
    <3> QED BY <1>8, <3>1, <3>2
  <2>2. CASE i # 1
    <3>1. i - 1 \in 1..(n - 1) /\ (i - 1) + 1 = i /\ i - 1 \in 1..n
        BY <1>3, <2>2
    <3>2. v[i] = t[i - 1] /\ v[i + 1] = t[i]
        BY <1>4, <3>1
    <3> QED BY <1>2, <3>1, <3>2
  <2> QED BY <2>1, <2>2
<1>12. ASSUME NEW u \in U, w + p <= u, u < w + a PROVE \E i \in 1..(n + 1) : w + v[i] = u
  <2>1. CASE u = w + q
    <3>1. 1 \in 1..(n + 1)
        BY <1>3
    <3> QED BY <2>1, <3>1, <1>4
  <2>2. CASE u # w + q
    <3>1. w + q < u
        BY <1>6, <1>7, <1>12, <2>2
    <3>2. w + next <= u
        BY <3>1 DEF Framed
    <3>3. PICK i \in 1..n : w + t[i] = u
        BY <1>2, <1>12, <3>2
    <3>4. i + 1 \in 1..(n + 1) /\ v[i + 1] = t[i]
        BY <1>3, <1>4
    <3> QED BY <3>3, <3>4
  <2> QED BY <2>1, <2>2
<1>13. ASSUME NEW u \in U, w + p <= u PROVE u < w + a <=> u + MAGIC_SIZE < e
  <2>1. CASE u = w + q
    BY <2>1, <1>2, <1>7, <1>8
  <2>2. CASE u # w + q
    <3>1. w + q < u
        BY <1>6, <1>7, <1>13, <2>2
    <3>2. w + next <= u
        BY <3>1 DEF Framed
    <3> QED BY <1>2, <3>2
  <2> QED BY <2>1, <2>2
<1>14. p <= a
    BY <1>2, <1>8
<1>15. (n + 1) - 1 = n
    BY <1>3
<1>16. \A i \in 1..(Len(o.units) - 1) : o.units[i] < o.units[i + 1]
    BY <1>4, <1>5, <1>11, <1>15
<1>17. \A i \in 1..Len(o.units) : w + o.units[i] \in U /\ p <= o.units[i] /\ o.units[i] < o.stop
    BY <1>4, <1>5, <1>10
<1>18. \A u \in U : w + p <= u /\ u < w + o.stop => \E i \in 1..Len(o.units) : w + o.units[i] = u
    BY <1>4, <1>5, <1>12
<1> QED BY <1>2, <1>4, <1>5, <1>13, <1>14, <1>16, <1>17, <1>18, Zenon DEF Finds, o

(* The search from an offset outside of units finds the units behind it.     *)
LEMMA ScanFinds ==
    ASSUME NEW bytes, NEW U, Framed(bytes, U), NEW w, NEW e, NEW b, Cut(bytes, w, e, b)
    PROVE  \A p \in Nat : Good(bytes, U, w + p) => Finds(bytes, U, w, e, p, Relay!Scan(b)[p])
<1> DEFINE f == Relay!Scan(b)
           P(n) == \A p \in Nat : p + n >= Len(b) /\ Good(bytes, U, w + p)
                                     => Finds(bytes, U, w, e, p, f[p])
           S == {n \in Nat : P(n)}
<1>1. b \in Seq(Nat) /\ Len(b) = e - w /\ w \in Nat /\ e \in Nat /\ Len(b) \in Nat /\ e <= Len(bytes)
    BY LenProperties DEF Cut, Framed
<1>2. \A p \in Nat : f[p] = Turn(b, f, p)
    BY <1>1, ScanIs
<1> HIDE DEF f
<1>3. ASSUME NEW p \in Nat, Good(bytes, U, w + p), Relay!TooShort(b, p)
      PROVE  Finds(bytes, U, w, e, p, f[p])
  <2>1. f[p] = [units |-> <<>>, stop |-> p, bad |-> FALSE]
    BY <1>2, <1>3, Zenon DEF Turn
  <2>2. e <= w + p + MAGIC_SIZE
    BY <1>1, <1>3, MagicSize DEF Relay!TooShort
  <2>3. \A u \in U : w + p <= u => w + p <= u
    OBVIOUS
  <2>4. p <= p
    OBVIOUS
  <2> QED BY <1>3, <2>1, <2>2, <2>3, <2>4, FindsNone
<1>4. P(0)
  <2> SUFFICES ASSUME NEW p \in Nat, p + 0 >= Len(b), Good(bytes, U, w + p)
               PROVE  Finds(bytes, U, w, e, p, f[p])
    OBVIOUS
  <2>1. Relay!TooShort(b, p)
    BY <1>1, MagicSize DEF Relay!TooShort
  <2> QED BY <1>3, <2>1
<1>5. ASSUME NEW n \in Nat, P(n) PROVE P(n + 1)
  <2> SUFFICES ASSUME NEW p \in Nat, p + (n + 1) >= Len(b), Good(bytes, U, w + p)
               PROVE  Finds(bytes, U, w, e, p, f[p])
    OBVIOUS
  <2>1. CASE Relay!TooShort(b, p)
    BY <1>3, <2>1
  <2>2. CASE ~Relay!TooShort(b, p)
    <3> DEFINE q == Relay!NextDollar(b, p)
               size == b[q + 2]
               next == q + size + Relay!RSTP_INTERLEAVE_SIZE
    <3>1. /\ q \in Nat /\ p <= q /\ q < e - w
          /\ \A u \in U : w + p <= u => w + q <= u
          /\ Good(bytes, U, w + q)
          /\ ~Relay!TooShort(b, q) => w + q \in U /\ b[q + 2] = bytes[w + q + 2]
        BY <2>2, NextUnit
    <3>2. CASE Relay!TooShort(b, q)
      <4>1. f[p] = [units |-> <<>>, stop |-> q, bad |-> FALSE]
        BY <1>2, <2>2, <3>2, Zenon DEF Turn
      <4>2. e <= w + q + MAGIC_SIZE
        <5> HIDE DEF q
        <5> QED BY <1>1, <3>1, <3>2, MagicSize DEF Relay!TooShort
      <4> HIDE DEF q
      <4> QED BY <3>1, <4>1, <4>2, FindsNone
    <3>3. CASE ~Relay!TooShort(b, q)
      <4>1. w + q \in U /\ size = bytes[w + q + 2] /\ q \in Nat /\ p <= q
        BY <3>1, <3>3
      <4>2. size \in 0..127 /\ w + q + 2 = (w + q) + 2
        <5>1. bytes[(w + q) + 2] \in 0..127
            BY <4>1 DEF Framed
        <5>2. w + q + 2 = (w + q) + 2
            BY <4>1, <1>1
        <5> QED BY <4>1, <5>1, <5>2
      <4>3. f[p] = [f[next] EXCEPT !.units = <<q>> \o f[next].units]
        <5>1. \A z \in 0..127 : ~(z > 127)
            OBVIOUS
        <5>2. ~(size > 127)
            BY <4>2, <5>1, Zenon
        <5> QED BY <1>2, <2>2, <3>3, <5>2, Zenon DEF Turn
      <4>4. next = q + size + 2
        BY DEF Relay!RSTP_INTERLEAVE_SIZE
      <4>5. size = bytes[(w + q) + 2]
        BY <4>1, <4>2
      <4> HIDE DEF next, size, q
      <4>6. next \in Nat /\ next > p /\ w + next = EndOf(bytes, w + q)
        <5>1. EndOf(bytes, w + q) = (w + q) + 2 + size
            BY <4>5, Zenon DEF EndOf
        <5>2. w \in Nat /\ q \in Nat /\ p <= q /\ size \in 0..127
            BY <1>1, <4>1, <4>2
        <5> QED BY <4>4, <5>1, <5>2
      <4>7. Good(bytes, U, w + next)
        BY <4>1, <4>6, EndGood
      <4>8. next + n >= Len(b)
        BY <1>1, <4>6
      <4>9. Finds(bytes, U, w, e, next, f[next])
        BY <1>5, <4>6, <4>7, <4>8
      <4>10. w + q + MAGIC_SIZE < e
        BY <1>1, <3>3, <4>1, MagicSize DEF Relay!TooShort
      <4>11. \A u \in U : w + p <= u => w + q <= u
        BY <3>1 DEF q
      <4> DEFINE r == f[next] t == r.units a == r.stop v == <<q>> \o t
      <4>12. r = [units |-> t, stop |-> a, bad |-> FALSE] /\ t \in Seq(Nat)
        BY <4>9, Zenon DEF Finds
      <4>13. v \in Seq(Nat) /\ Len(v) = Len(t) + 1 /\ v[1] = q /\ \A i \in 1..Len(t) : v[i + 1] = t[i]
        <5> HIDE DEF t
        <5> QED BY <4>1, <4>12, PutBefore
      <4>14. f[p] = [units |-> v, stop |-> a, bad |-> FALSE]
        <5>1. f[p] = [r EXCEPT !.units = v]
            BY <4>3, Zenon
        <5> HIDE DEF r, t, a, v
        <5> QED BY <4>12, <5>1, UnitsSet, Zenon
      <4>15. Finds(bytes, U, w, e, next, r)
        BY <4>9
      <4> HIDE DEF r, t, a, v
      <4>16. Finds(bytes, U, w, e, next, [units |-> t, stop |-> a, bad |-> FALSE])
        BY <4>12, <4>15, Zenon
      <4>17. w + q \in U /\ q \in Nat /\ p <= q /\ next \in Nat /\ w + next = EndOf(bytes, w + q)
        BY <4>1, <4>6
      <4>18. Finds(bytes, U, w, e, p, [units |-> v, stop |-> a, bad |-> FALSE])
        BY <4>10, <4>11, <4>13, <4>16, <4>17, FindsOneMore
      <4> QED BY <4>14, <4>18, Zenon
    <3> QED BY <3>2, <3>3
  <2> QED BY <2>1, <2>2
<1>6. \A n \in Nat : P(n)
  <2> HIDE DEF P
  <2>1. S \in SUBSET Nat /\ 0 \in S /\ \A n \in S : n + 1 \in S
    BY <1>4, <1>5
  <2> HIDE DEF S
  <2>2. S = Nat
    BY <2>1, Induction
  <2> QED BY <2>2 DEF S
<1>7. ASSUME NEW p \in Nat, Good(bytes, U, w + p) PROVE Finds(bytes, U, w, e, p, f[p])
  <2>1. p + Len(b) >= Len(b)
    BY <1>1
  <2> QED BY <1>1, <1>6, <1>7, <2>1
<1> QED BY <1>7 DEF f

(* f are the numbers of U from a on and below c, in their order.             *)
Among(U, a, c, f) ==
    /\ f \in Seq(Nat)
    /\ \A i \in 1..(Len(f) - 1) : f[i] < f[i + 1]
    /\ \A i \in 1..Len(f) : f[i] \in U /\ a <= f[i] /\ f[i] < c
    /\ \A u \in U : a <= u /\ u < c => \E i \in 1..Len(f) : f[i] = u

(* pre are the last bytes of the first rec.                                  *)
Kept(bytes, rec, pre) ==
    /\ rec \in 0..Len(bytes)
    /\ pre \in Seq(Nat) /\ Len(pre) <= rec
    /\ \A i \in 1..Len(pre) : pre[i] = bytes[rec - Len(pre) + i]

(* The next n bytes.                                                         *)
Arrives(bytes, rec, n) == n \in Nat /\ n >= 1 /\ rec + n <= Len(bytes)
Coming(bytes, rec, n) == SubSeq(bytes, rec + 1, rec + n)

(* The reader, begun at unit syn: rec bytes have come, the search goes on    *)
(* that many bytes behind those of pre, and fnd are the units it found.      *)
ReadUpTo(bytes, U, syn, rec, on, pre, fnd) ==
    LET place == rec - Len(pre) + on
    IN  /\ syn \in Nat /\ on \in Nat
        /\ Kept(bytes, rec, pre) /\ Len(pre) <= MAGIC_SIZE
        /\ pre # <<>> => on = 0
        /\ Good(bytes, U, place) /\ syn <= place
        /\ Among(U, syn, place, fnd)
        /\ \A u \in U : syn <= u => (u < place <=> u + MAGIC_SIZE < rec)

(* The reader takes up the stream at a unit: nothing is found or kept yet.   *)
LEMMA ReadFromUnit ==
    ASSUME NEW bytes, NEW U, Framed(bytes, U), NEW syn \in U
    PROVE  ReadUpTo(bytes, U, syn, syn, 0, <<>>, <<>>)
<1> DEFINE none == <<>>
<1>1. none \in Seq(Nat) /\ Len(none) = 0 /\ 1..Len(none) = {} /\ 1..(Len(none) - 1) = {}
    OBVIOUS
<1>2. \A u \in U : u \in Nat /\ u <= Len(bytes) /\ Len(bytes) \in Nat
    BY LenProperties DEF Framed
<1>3. Good(bytes, U, syn)
    BY <1>2 DEF Good, Framed
<1> HIDE DEF none
<1>4. syn - Len(none) + 0 = syn
    BY <1>1, <1>2
<1>5. \A u \in U : syn <= u => ~(u < syn) /\ ~(u + MAGIC_SIZE < syn)
    BY <1>2, MagicSize
<1>6. \A u \in U : ~(syn <= u /\ u < syn)
    BY <1>2
<1>7. syn \in Nat /\ syn \in 0..Len(bytes) /\ syn <= syn /\ 0 <= syn /\ 0 <= MAGIC_SIZE /\ 0 \in Nat
    BY <1>2, MagicSize
<1>8. Among(U, syn, syn, none) /\ Kept(bytes, syn, none)
    BY <1>1, <1>6, <1>7, Zenon DEF Among, Kept
<1> QED BY <1>1, <1>3, <1>4, <1>5, <1>7, <1>8, Zenon DEF ReadUpTo, none

(* The numbers of s behind the first a, up to the c-th.                      *)
LEMMA Stretch ==
    ASSUME NEW s \in Seq(Nat), NEW a \in Nat, NEW c \in Nat, a <= c, c <= Len(s)
    PROVE  /\ SubSeq(s, a + 1, c) \in Seq(Nat)
           /\ Len(SubSeq(s, a + 1, c)) = c - a
           /\ \A i \in 1..(c - a) : SubSeq(s, a + 1, c)[i] = s[a + i]
<1>1. a + 1 \in 1..(Len(s) + 1) /\ c \in 0..Len(s) /\ c - (a + 1) + 1 = c - a
      /\ \A i \in 1..(c - a) : a + 1 + i - 1 = a + i
    BY LenProperties
<1>2. /\ SubSeq(s, a + 1, c) \in Seq(Nat)
      /\ Len(SubSeq(s, a + 1, c)) = IF a + 1 <= c THEN c - (a + 1) + 1 ELSE 0
      /\ \A i \in 1..(c - (a + 1) + 1) : SubSeq(s, a + 1, c)[i] = s[a + 1 + i - 1]
    BY <1>1, SubSeqProperties
<1> DEFINE t == SubSeq(s, a + 1, c)
<1>3. /\ t \in Seq(Nat)
      /\ Len(t) = IF a + 1 <= c THEN c - (a + 1) + 1 ELSE 0
      /\ \A i \in 1..(c - (a + 1) + 1) : t[i] = s[a + 1 + i - 1]
    BY <1>2
<1> HIDE DEF t
<1>4. Len(t) = c - a
    BY <1>3
<1>5. \A i \in 1..(c - a) : t[i] = s[a + i]
    BY <1>1, <1>3
<1> QED BY <1>3, <1>4, <1>5 DEF t

(* What was kept and what came now, one behind the other.                    *)
LEMMA KeptAndRead ==
    ASSUME NEW bytes \in Seq(Nat), NEW rec, NEW pre, Kept(bytes, rec, pre),
           NEW n, Arrives(bytes, rec, n),
           NEW buf, buf = Coming(bytes, rec, n)
    PROVE  /\ Cut(bytes, rec - Len(pre), rec + n, pre \o buf)
           /\ buf \in Seq(Nat) /\ Len(buf) = n
           /\ Len(pre \o buf) = Len(pre) + n
<1> DEFINE m == Len(pre) b == pre \o buf L == Len(bytes)
<1>1. m \in Nat /\ L \in Nat /\ m <= rec /\ rec + n <= L /\ rec \in Nat /\ n \in Nat /\ n >= 1
    BY LenProperties DEF Kept, Arrives
<1>p. pre \in Seq(Nat) /\ \A i \in 1..m : pre[i] = bytes[rec - m + i]
    BY DEF Kept
<1>2. buf \in Seq(Nat) /\ Len(buf) = n /\ \A i \in 1..n : buf[i] = bytes[rec + i]
  <2> DEFINE c == rec + n
  <2>1. rec \in Nat /\ c \in Nat /\ rec <= c /\ c <= Len(bytes) /\ c - rec = n
    BY <1>1
  <2>2. buf = SubSeq(bytes, rec + 1, c)
    BY Zenon DEF Coming
  <2> HIDE DEF c
  <2> QED BY <2>1, <2>2, Stretch
<1>3. /\ b \in Seq(Nat) /\ Len(b) = m + n
      /\ \A x \in 1..m : b[x] = pre[x]
      /\ \A j \in 1..n : b[m + j] = buf[j]
  <2>1. /\ b \in Seq(Nat) /\ Len(b) = Len(pre) + Len(buf)
        /\ \A x \in 1..Len(pre) : b[x] = pre[x]
        /\ \A j \in 1..Len(buf) : b[Len(pre) + j] = buf[j]
    BY <1>2, <1>p, Joined
  <2> HIDE DEF b
  <2> QED BY <1>2, <2>1, Zenon
<1> HIDE DEF m, b, L
<1> DEFINE w == rec - m e == rec + n
<1>5. w \in Nat /\ e \in w..L /\ m + n = e - w /\ w + m = rec
    BY <1>1
<1> HIDE DEF w, e
<1>4. ASSUME NEW i \in 1..(m + n) PROVE b[i] = bytes[w + i]
  <2>1. CASE i <= m
    <3>1. i \in 1..m
        BY <1>1, <2>1
    <3> QED BY <3>1, <1>3, <1>p, Zenon DEF w
  <2>2. CASE ~(i <= m)
    <3>1. i - m \in 1..n /\ m + (i - m) = i /\ rec + (i - m) = w + i
        BY <1>1, <1>5, <2>2
    <3> QED BY <1>2, <1>3, <3>1
  <2> QED BY <2>1, <2>2
<1>6. Cut(bytes, w, e, b)
    BY <1>3, <1>4, <1>5 DEF Cut, L
<1> QED BY <1>2, <1>3, <1>6 DEF m, b, w, e

(* Numbers behind one another, larger ones behind smaller ones.              *)
LEMMA FoundMore ==
    ASSUME NEW U \in SUBSET Nat, NEW syn \in Nat, NEW a \in Nat, NEW c \in Nat, syn <= a, a <= c,
           NEW f, Among(U, syn, a, f), NEW g, Among(U, a, c, g)
    PROVE  Among(U, syn, c, f \o g)
<1> DEFINE h == f \o g m == Len(f) n == Len(g)
<1>1. /\ h \in Seq(Nat) /\ Len(h) = m + n /\ m \in Nat /\ n \in Nat
      /\ \A x \in 1..m : h[x] = f[x]
      /\ \A j \in 1..n : h[m + j] = g[j]
    BY Joined DEF Among
<1>2. /\ \A i \in 1..(m - 1) : f[i] < f[i + 1]
      /\ \A i \in 1..(n - 1) : g[i] < g[i + 1]
      /\ \A i \in 1..m : f[i] \in U /\ syn <= f[i] /\ f[i] < a
      /\ \A i \in 1..n : g[i] \in U /\ a <= g[i] /\ g[i] < c
      /\ \A u \in U : syn <= u /\ u < a => \E i \in 1..m : f[i] = u
      /\ \A u \in U : a <= u /\ u < c => \E i \in 1..n : g[i] = u
    BY DEF Among
<1> HIDE DEF h, m, n
<1>3. ASSUME NEW i \in 1..(m + n), ~(i <= m) PROVE i - m \in 1..n /\ m + (i - m) = i
    BY <1>1, <1>3
<1>4. ASSUME NEW i \in 1..(m + n) PROVE h[i] \in U /\ syn <= h[i] /\ h[i] < c
  <2>1. CASE i <= m
    <3>1. i \in 1..m /\ h[i] = f[i] /\ f[i] \in U
        BY <1>1, <1>2, <2>1
    <3>2. f[i] \in Nat /\ syn <= f[i] /\ f[i] < a
        BY <1>2, <3>1
    <3> QED BY <3>1, <3>2
  <2>2. CASE ~(i <= m)
    <3>1. i - m \in 1..n /\ h[i] = g[i - m]
        BY <1>1, <1>3, <2>2
    <3>2. g[i - m] \in U /\ g[i - m] \in Nat /\ a <= g[i - m] /\ g[i - m] < c
        BY <1>2, <3>1
    <3> QED BY <3>1, <3>2
  <2> QED BY <2>1, <2>2
<1>5. ASSUME NEW i \in 1..(m + n - 1) PROVE h[i] < h[i + 1]
  <2>1. CASE i < m
    <3>1. i \in 1..(m - 1) /\ i \in 1..m /\ i + 1 \in 1..m
        BY <1>1, <2>1
    <3> QED BY <1>1, <1>2, <3>1
  <2>2. CASE i = m
    <3>1. i \in 1..m /\ 1 \in 1..n /\ m + 1 = i + 1
        BY <1>1, <2>2
    <3>2. h[i] = f[i] /\ h[i + 1] = g[1]
        BY <1>1, <3>1
    <3>3. f[i] \in Nat /\ g[1] \in Nat /\ f[i] < a /\ a <= g[1]
        BY <1>2, <3>1
    <3> QED BY <3>2, <3>3
  <2>3. CASE i > m
    <3>1. i - m \in 1..(n - 1) /\ i - m \in 1..n /\ (i - m) + 1 \in 1..n /\ m + (i - m) = i
          /\ m + ((i - m) + 1) = i + 1
        BY <1>1, <2>3
    <3>2. h[i] = g[i - m] /\ h[i + 1] = g[(i - m) + 1]
        BY <1>1, <3>1
    <3> QED BY <1>2, <3>1, <3>2
  <2> QED BY <1>1, <2>1, <2>2, <2>3
<1>6. ASSUME NEW u \in U, syn <= u, u < c PROVE \E i \in 1..(m + n) : h[i] = u
  <2>1. CASE u < a
    <3>1. PICK i \in 1..m : f[i] = u
        BY <1>2, <1>6, <2>1
    <3>2. i \in 1..(m + n)
        BY <1>1, <3>1
    <3> QED BY <1>1, <3>1, <3>2
  <2>2. CASE ~(u < a)
    <3>1. a <= u
        BY <2>2
    <3>2. PICK i \in 1..n : g[i] = u
        BY <1>2, <1>6, <3>1
    <3>3. m + i \in 1..(m + n)
        BY <1>1, <3>2
    <3> QED BY <1>1, <3>2, <3>3
  <2> QED BY <2>1, <2>2
<1>7. \A i \in 1..(Len(h) - 1) : h[i] < h[i + 1]
    BY <1>1, <1>5
<1> QED BY <1>1, <1>4, <1>6, <1>7, Zenon DEF h, Among

(* Where read goes on.                                                       *)
Onward == IF position = -1 THEN 0 ELSE position

(* How far in the stream the search has come.                                *)
Searched(rec, pre, on) == rec - Len(pre) + on

(* The offsets in the stream of the units a read reports.                    *)
Reported(rec, r) == [k \in DOMAIN r.begins |-> rec + r.begins[k]]

(* read goes on where it was: the units it reports are those next in the     *)
(* stream, and what it keeps is what it cannot tell yet.                     *)
LEMMA ReadOn ==
    ASSUME NEW bytes, NEW U, Framed(bytes, U), NEW syn, NEW rec, NEW n, NEW fnd,
           ReadUpTo(bytes, U, syn, rec, Onward, prepend, fnd), Arrives(bytes, rec, n),
           NEW buf, Coming(bytes, rec, n) = buf,
           ~(position = -1 /\ buf[1] # Relay!Dollar)
    PROVE  LET r == Relay!Read(buf)
               more == Reported(rec, r)
           IN  /\ ReadUpTo(bytes, U, syn, rec + n, r.position, r.prepend, fnd \o more)
               /\ more \in Seq(Nat) /\ Len(more) = Len(r.begins) /\ r.begins \in Seq(Int)
               /\ Among(U, Searched(rec, prepend, Onward),
                        Searched(rec + n, r.prepend, r.position), more)
               /\ Searched(rec, prepend, Onward) <= Searched(rec + n, r.prepend, r.position)
<1> DEFINE m == Len(prepend) b == prepend \o buf e == rec + n w == rec - m from == Onward
           s == Relay!Scan(b)[from]
           begin == [k \in DOMAIN s.units |-> s.units[k] - m]
           L == Len(b)
           r == Relay!Read(buf)
           more == Reported(rec, r)
<1>1. /\ syn \in Nat /\ rec \in Nat /\ rec <= Len(bytes) /\ from \in Nat
      /\ prepend \in Seq(Nat) /\ m \in Nat /\ m <= rec /\ m <= MAGIC_SIZE
      /\ prepend # <<>> => from = 0
      /\ Kept(bytes, rec, prepend)
      /\ Good(bytes, U, w + from) /\ syn <= w + from
      /\ Among(U, syn, w + from, fnd) /\ fnd \in Seq(Nat)
      /\ \A u \in U : syn <= u => (u < w + from <=> u + MAGIC_SIZE < rec)
    BY LenProperties DEF ReadUpTo, Kept, Among
<1>n. n \in Nat /\ n >= 1 /\ rec + n <= Len(bytes)
    BY DEF Arrives
<1>2. bytes \in Seq(Nat) /\ U \in SUBSET Nat /\ Len(bytes) \in Nat
    BY LenProperties DEF Framed
<1>3. Cut(bytes, w, e, b) /\ L = m + n
  <2>1. bytes \in Seq(Nat) /\ Kept(bytes, rec, prepend)
    BY <1>1, <1>2, Zenon
  <2> HIDE DEF b
  <2>2. /\ Cut(bytes, rec - Len(prepend), rec + n, prepend \o buf)
        /\ Len(prepend \o buf) = Len(prepend) + n
    BY <2>1, KeptAndRead
  <2> QED BY <2>2, Zenon DEF b
<1>b. b \in Seq(Nat)
    BY <1>3, Zenon DEF Cut
<1>m. syn \in Nat /\ rec \in Nat /\ from \in Nat /\ m \in Nat /\ m <= rec /\ m <= MAGIC_SIZE /\ L = m + n
      /\ syn <= w + from
    BY <1>1, <1>3, Zenon
<1> HIDE DEF b, L, m, from, r, more
<1>4. /\ syn \in Nat /\ rec \in Nat /\ from \in Nat /\ m \in Nat /\ n \in Nat
      /\ w \in Nat /\ e \in Nat /\ L \in Nat
      /\ m <= rec /\ m <= MAGIC_SIZE /\ MAGIC_SIZE \in Nat /\ n >= 1
      /\ L = m + n /\ w + m = rec /\ e = rec + n /\ e = w + L /\ L = e - w /\ w = rec - m
      /\ syn <= w + from /\ rec < e /\ 0 <= e /\ 0 <= MAGIC_SIZE
  <2> DEFINE LB == Len(bytes)
  <2>1. LB \in Nat /\ rec + n <= LB /\ n \in Nat /\ n >= 1
    BY <1>2, <1>n
  <2> HIDE DEF LB
  <2>2. e \in 0..LB
    BY <2>1, <1>m
  <2> QED BY <2>1, <2>2, <1>m, MagicSize DEF LB
<1>e. e \in 0..Len(bytes)
    BY <1>2, <1>m, <1>n
<1> HIDE DEF w, e, s, begin
<1>5. CASE from >= L
  <2>1. r = [begins |-> <<>>, position |-> from - L, prepend |-> <<>>]
    BY <1>5, Zenon DEF Relay!Read, L, b, from, Onward, r
  <2> DEFINE none == <<>>
  <2>2. r.begins = none /\ r.position = from - L /\ r.prepend = none
    BY <2>1
  <2>3. none \in Seq(Nat) /\ none \in Seq(Int) /\ Len(none) = 0 /\ DOMAIN none = {} /\ 1..Len(none) = {}
    OBVIOUS
  <2>4. more = none
    <3>1. more = [k \in {} |-> rec + r.begins[k]]
        BY <2>2, <2>3 DEF more, Reported
    <3>2. [k \in {} |-> rec + r.begins[k]] = <<>>
        OBVIOUS
    <3> QED BY <3>1, <3>2
  <2>5. fnd \o more = fnd
    BY <1>1, <2>4, ConcatEmptySeq
  <2>6. e - 0 + (from - L) = w + from /\ from - L \in Nat
    BY <1>4, <1>5
  <2>7. ASSUME NEW u \in U, syn <= u PROVE u < w + from <=> u + MAGIC_SIZE < e
    <3>1. u \in Nat /\ (u < w + from <=> u + MAGIC_SIZE < rec)
        BY <1>1, <1>2, <2>7
    <3>2. u < w + from => u + MAGIC_SIZE < e
        BY <1>4, <3>1
    <3>3. ~(u < w + from) => ~(u + MAGIC_SIZE < e)
        BY <1>4, <1>5, <3>1
    <3> QED BY <3>2, <3>3
  <2>8. ReadUpTo(bytes, U, syn, e, from - L, none, fnd)
    <3> HIDE DEF none
    <3>1. e - Len(none) + (from - L) = w + from
        BY <2>3, <2>6
    <3>2. none = <<>>
        BY DEF none
    <3>3. Kept(bytes, e, none) /\ Len(none) <= MAGIC_SIZE
        BY <1>4, <1>e, <2>3, Zenon DEF Kept
    <3> QED BY <1>1, <1>4, <2>6, <2>7, <3>1, <3>2, <3>3, Zenon DEF ReadUpTo
  <2>9. Among(U, w + from, w + from, none)
    <3>1. \A u \in U : ~(w + from <= u /\ u < w + from)
        BY <1>2, <1>4
    <3>2. 1..(Len(none) - 1) = {}
        BY <2>3
    <3> QED BY <2>3, <3>1, <3>2, Zenon DEF Among
  <2>10. w + from = Searched(rec, prepend, from)
         /\ w + from = Searched(rec + n, none, from - L)
    <3> HIDE DEF none
    <3> DEFINE z == from - L
    <3>1. (rec + n) - Len(none) + z = w + from
        BY <1>4, <1>5, <2>3
    <3>2. w + from = Searched(rec, prepend, from)
        BY DEF Searched, w, m
    <3>3. w + from = Searched(rec + n, none, z)
      <4> HIDE DEF z
      <4> QED BY <3>1 DEF Searched
    <3> QED BY <3>2, <3>3
  <2>11. Among(U, Searched(rec, prepend, Onward), Searched(rec + n, r.prepend, r.position), more)
         /\ Searched(rec, prepend, Onward) <= Searched(rec + n, r.prepend, r.position)
    <3>1. Searched(rec, prepend, Onward) = w + from
        BY <2>10 DEF from
    <3>2. Searched(rec + n, r.prepend, r.position) = w + from
        BY <2>2, <2>10
    <3> HIDE DEF none
    <3>3. w + from <= w + from
        BY <1>4
    <3> QED BY <2>4, <2>9, <3>1, <3>2, <3>3
  <2> QED BY <2>2, <2>3, <2>4, <2>5, <2>8, <2>11, Zenon DEF e, r, more
<1>6. CASE ~(from >= L)
  <2> DEFINE t == s.units a == s.stop
  <2>1. Finds(bytes, U, w, e, from, s)
    BY <1>1, <1>3, ScanFinds DEF s
  <2>2. /\ ~s.bad /\ a \in Nat /\ from <= a /\ Good(bytes, U, w + a) /\ e <= w + a + MAGIC_SIZE
        /\ t \in Seq(Nat)
        /\ \A i \in 1..(Len(t) - 1) : t[i] < t[i + 1]
        /\ \A i \in 1..Len(t) : w + t[i] \in U /\ from <= t[i] /\ t[i] < a
        /\ \A u \in U : w + from <= u /\ u < w + a => \E i \in 1..Len(t) : w + t[i] = u
        /\ \A u \in U : w + from <= u => (u < w + a <=> u + MAGIC_SIZE < e)
        /\ s.bad = FALSE
    <3>1. s = [units |-> s.units, stop |-> s.stop, bad |-> FALSE]
        BY <2>1, Zenon DEF Finds
    <3> DEFINE x == s.units y == s.stop
    <3> HIDE DEF s
    <3>2. s = [units |-> x, stop |-> y, bad |-> FALSE]
        BY <3>1
    <3> HIDE DEF x, y
    <3>3. s.bad = FALSE
        BY <3>2
    <3> HIDE DEF s
    <3> QED BY <2>1, <3>3, Zenon DEF Finds
  <2>p. a \in Nat /\ from <= a /\ e <= w + a + MAGIC_SIZE
    BY <2>2
  <2> DEFINE kept == IF a >= L THEN <<>> ELSE SubSeq(b, a + 1, L)
             on == IF a >= L THEN a - L ELSE 0
  <2>3. r = [begins |-> begin, position |-> on, prepend |-> kept]
    <3>1. CASE a >= L
        BY <1>6, <2>2, <3>1, Zenon DEF Relay!Read, L, b, from, Onward, r, begin, s, m
    <3>2. CASE ~(a >= L)
        BY <1>6, <2>2, <3>2, Zenon DEF Relay!Read, L, b, from, Onward, r, begin, s, m
    <3> QED BY <3>1, <3>2
  <2> HIDE DEF s, a, t
  <2>4. Len(t) \in Nat /\ begin = [k \in 1..Len(t) |-> t[k] - m]
    BY <2>2, LenProperties DEF t, begin
  <2>5. r.begins = begin /\ r.position = on /\ r.prepend = kept
    <3> HIDE DEF begin, on, kept
    <3> QED BY <2>3
  <2> DEFINE z == Len(t)
  <2>6. more = [k \in 1..z |-> w + t[k]] /\ Len(r.begins) = z /\ r.begins \in Seq(Int)
    <3>1. DOMAIN begin = 1..z /\ \A k \in 1..z : begin[k] = t[k] - m
        BY <2>4
    <3>2. more = [k \in 1..z |-> rec + begin[k]]
        BY <2>5, <3>1 DEF more, Reported
    <3>3. \A k \in 1..z : rec + begin[k] = w + t[k]
        <4> TAKE k \in 1..z
        <4>1. begin[k] = t[k] - m /\ t[k] \in Nat
            BY <2>2, <3>1, ElementOfSeq
        <4> DEFINE x == t[k] y == begin[k]
        <4>2. y = x - m /\ x \in Nat
            BY <4>1
        <4> HIDE DEF x, y
        <4>3. rec + y = w + x
            BY <4>2, <1>4
        <4> QED BY <4>3 DEF x, y
    <3>4. Len(begin) = z /\ begin \in Seq(Int)
        <4>1. begin \in Seq(Int)
            <5>1. \A k \in 1..z : t[k] - m \in Int
                <6> TAKE k \in 1..z
                <6>1. t[k] \in Nat
                    BY <2>2, ElementOfSeq
                <6> QED BY <6>1, <1>4
            <5> HIDE DEF z
            <5> QED BY <2>4, <5>1 DEF z
        <4> HIDE DEF begin
        <4> QED BY <3>1, <4>1, <2>4, LenProperties
    <3>5. [k \in 1..z |-> rec + begin[k]] = [k \in 1..z |-> w + t[k]]
        <4> HIDE DEF begin, z, w
        <4> QED BY <3>3
    <3> QED BY <2>5, <3>2, <3>4, <3>5
  <2>7. more \in Seq(Nat) /\ Len(more) = z /\ \A i \in 1..z : more[i] = w + t[i]
    <3>1. \A i \in 1..z : w + t[i] \in Nat
        BY <2>2, <1>2
    <3>a. z \in Nat
        BY <2>4
    <3> HIDE DEF z
    <3>2. more \in Seq(Nat)
        BY <3>a, <2>6, <3>1
    <3>3. DOMAIN more = 1..z /\ \A i \in 1..z : more[i] = w + t[i]
        BY <2>6
    <3> QED BY <3>a, <3>2, <3>3, LenProperties
  <2>z. z \in Nat
    BY <2>4
  <2> HIDE DEF z
  <2>8. \A i \in 1..(z - 1) : more[i] < more[i + 1]
    <3> TAKE i \in 1..(z - 1)
    <3>1. i \in 1..z /\ i + 1 \in 1..z
        BY <2>z
    <3>2. t[i] < t[i + 1] /\ t[i] \in Nat /\ t[i + 1] \in Nat
        BY <2>2, <3>1, ElementOfSeq DEF z
    <3> DEFINE x == t[i] y == t[i + 1]
    <3>3. more[i] = w + x /\ more[i + 1] = w + y
        BY <2>7, <3>1
    <3>4. x < y /\ x \in Nat /\ y \in Nat
        BY <3>2
    <3> HIDE DEF x, y
    <3>5. w + x < w + y
        BY <1>4, <3>4
    <3> QED BY <3>3, <3>5
  <2>9. \A i \in 1..z : more[i] \in U /\ w + from <= more[i] /\ more[i] < w + a
    <3> TAKE i \in 1..z
    <3>1. w + t[i] \in U /\ from <= t[i] /\ t[i] < a /\ t[i] \in Nat
        BY <2>2, ElementOfSeq DEF z
    <3> DEFINE x == t[i]
    <3>2. more[i] = w + x /\ w + x \in U /\ from <= x /\ x < a /\ x \in Nat
        BY <2>7, <3>1
    <3> HIDE DEF x
    <3>3. w + from <= w + x /\ w + x < w + a
        BY <1>4, <2>p, <3>2
    <3> QED BY <3>2, <3>3
  <2>10. \A u \in U : w + from <= u /\ u < w + a => \E i \in 1..z : more[i] = u
    BY <2>2, <2>7 DEF z
  <2>11. w + from \in Nat /\ w + a \in Nat /\ w + from <= w + a
    BY <1>4, <2>p
  <2>b. Among(U, w + from, w + a, more)
    BY <2>7, <2>8, <2>9, <2>10, Zenon DEF Among
  <2>12. Among(U, syn, w + a, fnd \o more)
    <3>1. Among(U, w + from, w + a, more)
        BY <2>b
    <3> DEFINE p == w + from c == w + a
    <3>2. p \in Nat /\ c \in Nat /\ p <= c /\ syn <= p /\ syn \in Nat /\ Among(U, syn, p, fnd)
          /\ Among(U, p, c, more) /\ U \in SUBSET Nat
        BY <1>1, <1>2, <2>11, <3>1
    <3> HIDE DEF p, c
    <3>3. Among(U, syn, c, fnd \o more)
        BY <3>2, FoundMore
    <3> QED BY <3>3 DEF c
  <2>13. ASSUME NEW u \in U, syn <= u PROVE u < w + a <=> u + MAGIC_SIZE < e
    <3>1. u \in Nat
        BY <1>2
    <3>2. CASE w + from <= u
        BY <2>2, <3>2
    <3>3. CASE ~(w + from <= u)
      <4>1. u + MAGIC_SIZE < rec
        <5>1. u < w + from
            BY <1>4, <3>1, <3>3
        <5> QED BY <1>1, <2>13, <5>1
      <4>2. u + MAGIC_SIZE < e /\ u < w + a
        BY <1>4, <2>11, <3>1, <3>3, <4>1
      <4> QED BY <4>2
    <3> QED BY <3>2, <3>3
  <2>14. /\ kept \in Seq(Nat) /\ Len(kept) <= e /\ Len(kept) <= MAGIC_SIZE
         /\ kept # <<>> => on = 0
         /\ \A i \in 1..Len(kept) : kept[i] = bytes[e - Len(kept) + i]
         /\ e - Len(kept) + on = w + a /\ on \in Nat
    <3>1. CASE a >= L
      <4> DEFINE none == <<>>
      <4>1. none \in Seq(Nat) /\ Len(none) = 0 /\ 1..Len(none) = {}
        OBVIOUS
      <4>2. kept = none /\ on = a - L
        BY <3>1
      <4> HIDE DEF none, kept, on
      <4>3. e - 0 + on = w + a /\ on \in Nat /\ 0 <= e /\ 0 <= MAGIC_SIZE
        BY <1>4, <2>p, <3>1, <4>2
      <4> QED BY <4>1, <4>2, <4>3 DEF none
    <3>2. CASE ~(a >= L)
      <4>1. kept = SubSeq(b, a + 1, L) /\ on = 0
        BY <3>2
      <4>3. kept \in Seq(Nat) /\ Len(kept) = L - a /\ \A i \in 1..(L - a) : kept[i] = b[a + i]
        <5>1. a <= L /\ a \in Nat /\ L \in Nat /\ L = Len(b)
            BY <1>4, <2>p, <3>2 DEF L
        <5> HIDE DEF kept
        <5>2. L <= Len(b)
            BY <5>1
        <5> QED BY <1>b, <4>1, <5>1, <5>2, Stretch
      <4> HIDE DEF kept, on
      <4>4. L - a <= e /\ L - a <= MAGIC_SIZE /\ e - (L - a) + 0 = w + a /\ L - a \in Nat
        BY <1>4, <2>p, <3>2
      <4>5. ASSUME NEW i \in 1..(L - a) PROVE kept[i] = bytes[e - (L - a) + i]
        <5>1. a + i \in 1..L /\ w + (a + i) = e - (L - a) + i
            BY <1>4, <2>p, <3>2
        <5>2. b[a + i] = bytes[w + (a + i)]
            BY <1>3, <5>1, Zenon DEF Cut, L
        <5> QED BY <4>3, <5>1, <5>2
      <4> QED BY <4>1, <4>3, <4>4, <4>5
    <3> QED BY <3>1, <3>2
  <2> HIDE DEF kept, on
  <2>15. syn <= w + a
    BY <1>4, <2>11
  <2>a. Kept(bytes, e, kept)
    BY <1>e, <2>14, Zenon DEF Kept
  <2>16. ReadUpTo(bytes, U, syn, e, on, kept, fnd \o more)
    BY <1>4, <2>a, <2>2, <2>12, <2>13, <2>14, <2>15, Zenon DEF ReadUpTo
  <2>17. w + from = Searched(rec, prepend, from) /\ w + a = Searched(rec + n, kept, on)
    BY <2>14, Zenon DEF Searched, w, m, e
  <2>18. Among(U, Searched(rec, prepend, Onward), Searched(rec + n, r.prepend, r.position), more)
         /\ Searched(rec, prepend, Onward) <= Searched(rec + n, r.prepend, r.position)
    <3>1. Searched(rec, prepend, Onward) = w + from
        BY <2>17 DEF from
    <3>2. Searched(rec + n, r.prepend, r.position) = w + a
        BY <2>5, <2>17
    <3> QED BY <2>b, <2>11, <3>1, <3>2
  <2> QED BY <2>5, <2>6, <2>7, <2>16, <2>18, Zenon DEF e, r, more
<1> QED BY <1>5, <1>6

(* Among the units X, of which unit k begins at st[k], those before x.       *)
Below(X, st, x) == {k \in X : st[k] < x}

(* Those from a on and before c.                                             *)
Within(X, st, a, c) == {k \in X : st[k] >= a /\ st[k] < c}

(* Those up to the k-th.                                                     *)
UpTo(S, k) == {j \in S : j <= k}

(* Units are numbered in the order in which they lie.                        *)
Ordered(X, st, n) ==
    /\ n \in Nat /\ X \subseteq 1..n
    /\ \A k \in X : st[k] \in Nat
    /\ \A k, m \in X : k < m => st[k] < st[m]

(* Units are finitely many.                                                  *)
LEMMA SomeFinite ==
    ASSUME NEW X, NEW st, NEW n, Ordered(X, st, n), NEW T \in SUBSET X
    PROVE  IsFiniteSet(T) /\ Cardinality(T) \in Nat
<1>1. IsFiniteSet(1..n) /\ T \in SUBSET (1..n)
    BY FS_Interval DEF Ordered
<1>2. IsFiniteSet(T)
    BY <1>1, FS_Subset
<1> QED BY <1>2, FS_CardinalityType

(* Two sets of units without one in common.                                  *)
LEMMA CountBoth ==
    ASSUME NEW X, NEW st, NEW n, Ordered(X, st, n), NEW S \in SUBSET X, NEW T \in SUBSET X,
           S \cap T = {}
    PROVE  Cardinality(S \cup T) = Cardinality(S) + Cardinality(T)
<1>1. IsFiniteSet(S) /\ IsFiniteSet(T) /\ Cardinality(S) \in Nat /\ Cardinality(T) \in Nat
    BY SomeFinite
<1>2. Cardinality({}) = 0
    BY FS_EmptySet
<1>3. Cardinality(S \cup T) = Cardinality(S) + Cardinality(T) - Cardinality(S \cap T)
    BY <1>1, FS_Union
<1>4. Cardinality(S \cap T) = 0
    BY <1>2, Zenon
<1> DEFINE x == Cardinality(S) y == Cardinality(T) z == Cardinality(S \cup T)
<1>5. x \in Nat /\ y \in Nat /\ z = x + y - 0
    BY <1>1, <1>3, <1>4, Zenon
<1> HIDE DEF x, y, z
<1>6. z = x + y
    BY <1>5
<1> QED BY <1>6 DEF x, y, z

(* The number of a unit: that of the units before from, and its rank in      *)
(* those behind.                                                             *)
LEMMA RankBehind ==
    ASSUME NEW X, NEW st, NEW n, Ordered(X, st, n), NEW a \in Nat, NEW c \in Nat, a <= c
    PROVE  /\ Within(X, st, a, c) \in SUBSET X
           /\ Cardinality(Below(X, st, c))
                  = Cardinality(Below(X, st, a)) + Cardinality(Within(X, st, a, c))
           /\ \A k \in Within(X, st, a, c) :
                  Cardinality(UpTo(X, k))
                      = Cardinality(Below(X, st, a)) + Cardinality(UpTo(Within(X, st, a, c), k))
<1> DEFINE items == {k \in X : st[k] >= a /\ st[k] < c}
           B == Below(X, st, a)
<1>1. B \in SUBSET X /\ items \in SUBSET X /\ B \cap items = {}
  <2>1. \A k \in X : st[k] \in Nat
    BY DEF Ordered
  <2>2. \A k \in X : ~(st[k] < a /\ st[k] >= a)
    BY <2>1
  <2> QED BY <2>2 DEF Below
<1>2. Below(X, st, c) = B \cup items
  <2>1. \A k \in X : st[k] \in Nat
    BY DEF Ordered
  <2>2. \A k \in X : st[k] < c <=> st[k] < a \/ (st[k] >= a /\ st[k] < c)
    BY <2>1
  <2> QED BY <2>2 DEF Below
<1>3. Cardinality(Below(X, st, c)) = Cardinality(B) + Cardinality(items)
  <2> HIDE DEF items, B
  <2> QED BY <1>1, <1>2, CountBoth
<1>4. ASSUME NEW k \in items
      PROVE  Cardinality(UpTo(X, k)) = Cardinality(B) + Cardinality(UpTo(items, k))
  <2> DEFINE T == UpTo(items, k)
  <2>1. k \in X /\ st[k] >= a /\ st[k] < c
    OBVIOUS
  <2>2. \A j \in X : st[j] \in Nat /\ j \in Nat
    BY DEF Ordered
  <2>3. ASSUME NEW j \in X PROVE j <= k <=> st[j] < a \/ (st[j] >= a /\ st[j] < c /\ j <= k)
    <3>1. CASE j < k
      <4>1. st[j] < st[k]
        BY <2>1, <3>1 DEF Ordered
      <4> QED BY <2>1, <2>2, <3>1, <4>1
    <3>2. CASE j = k
        BY <2>1, <2>2, <3>2
    <3>3. CASE k < j
      <4>1. st[k] < st[j]
        BY <2>1, <3>3 DEF Ordered
      <4> QED BY <2>1, <2>2, <3>3, <4>1
    <3> QED BY <2>1, <2>2, <3>1, <3>2, <3>3
  <2>4. UpTo(X, k) = B \cup T
    BY <2>3 DEF Below, UpTo
  <2>5. T \in SUBSET X /\ B \cap T = {}
    BY <1>1 DEF UpTo
  <2> HIDE DEF B, T, items
  <2>6. Cardinality(B \cup T) = Cardinality(B) + Cardinality(T)
    BY <1>1, <2>5, CountBoth
  <2> QED BY <2>4, <2>6, Zenon DEF T
<1>5. items = Within(X, st, a, c)
    BY Zenon DEF Within
<1> HIDE DEF items, B
<1> QED BY <1>1, <1>3, <1>4, <1>5, Zenon DEF B

(* Larger behind smaller ones, also if others stand between them.            *)
LEMMA Increasing ==
    ASSUME NEW f \in Seq(Nat), \A i \in 1..(Len(f) - 1) : f[i] < f[i + 1],
           NEW i \in 1..Len(f), NEW j \in 1..Len(f), i < j
    PROVE  f[i] < f[j]
<1> DEFINE n == Len(f)
           S == {d \in Nat : i + d + 1 <= n => f[i] < f[i + d + 1]}
<1>1. n \in Nat /\ \A x \in 1..n : f[x] \in Nat
    BY LenProperties, ElementOfSeq
<1>2. \A x \in 1..(n - 1) : f[x] < f[x + 1]
    OBVIOUS
<1>a. i \in 1..n /\ j \in 1..n
    OBVIOUS
<1> HIDE DEF n
<1>3. 0 \in S
  <2>1. i + 0 + 1 <= n => i \in 1..(n - 1) /\ i + 0 + 1 = i + 1
    BY <1>1, <1>a
  <2> QED BY <1>2, <2>1
<1>4. ASSUME NEW d \in S PROVE d + 1 \in S
  <2> SUFFICES ASSUME i + (d + 1) + 1 <= n PROVE f[i] < f[i + (d + 1) + 1]
    OBVIOUS
  <2> DEFINE x == i + d + 1
  <2>1. x \in 1..(n - 1) /\ x \in 1..n /\ x + 1 \in 1..n /\ i + (d + 1) + 1 = x + 1 /\ x <= n
    BY <1>1, <1>a
  <2>2. f[i] < f[x] /\ f[x] < f[x + 1]
    BY <1>2, <2>1
  <2>3. f[i] \in Nat /\ f[x] \in Nat /\ f[x + 1] \in Nat
    BY <1>1, <1>a, <2>1
  <2> QED BY <2>1, <2>2, <2>3
<1>5. S = Nat
  <2>1. S \in SUBSET Nat
    OBVIOUS
  <2> HIDE DEF S
  <2> QED BY <1>3, <1>4, <2>1, Induction
<1>6. j - i - 1 \in Nat /\ i + (j - i - 1) + 1 = j /\ j <= n
    BY <1>1, <1>a
<1>7. j - i - 1 \in S
    BY <1>5, <1>6
<1> QED BY <1>6, <1>7

(* As many units as their beginnings in a sequence, and the first of them.   *)
LEMMA CountAmong ==
    ASSUME NEW X, NEW st, NEW n, Ordered(X, st, n), NEW a \in Nat, NEW c \in Nat, a <= c,
           NEW f, Among({st[k] : k \in X}, a, c, f)
    PROVE  /\ Cardinality(Below(X, st, c)) = Cardinality(Below(X, st, a)) + Len(f)
           /\ Len(f) >= 1 => \E k \in X :
                  f[1] = st[k] /\ Cardinality(UpTo(X, k)) = Cardinality(Below(X, st, a)) + 1
<1> DEFINE items == Within(X, st, a, c)
           m == Len(f)
<1>1. /\ f \in Seq(Nat) /\ m \in Nat
      /\ \A i \in 1..(m - 1) : f[i] < f[i + 1]
      /\ \A i \in 1..m : (\E k \in X : f[i] = st[k]) /\ a <= f[i] /\ f[i] < c /\ f[i] \in Nat
      /\ \A k \in X : a <= st[k] /\ st[k] < c => \E i \in 1..m : f[i] = st[k]
    BY LenProperties, ElementOfSeq DEF Among
<1>2. \A k \in X : st[k] \in Nat /\ k \in Nat
    BY DEF Ordered
<1>3. \A i, j \in 1..m : i < j => f[i] < f[j]
    BY <1>1, Increasing
<1>4. \A i, j \in 1..m : f[i] = f[j] => i = j
  <2> SUFFICES ASSUME NEW i \in 1..m, NEW j \in 1..m, f[i] = f[j], i # j PROVE FALSE
    OBVIOUS
  <2>1. f[i] \in Nat /\ f[j] \in Nat /\ (i < j \/ j < i)
    BY <1>1
  <2>2. f[i] < f[j] \/ f[j] < f[i]
    BY <1>3, <2>1
  <2> QED BY <2>1, <2>2
<1>5. \A k, l \in X : st[k] = st[l] => k = l
  <2> SUFFICES ASSUME NEW k \in X, NEW l \in X, st[k] = st[l], k # l PROVE FALSE
    OBVIOUS
  <2>1. k < l \/ l < k
    BY <1>2
  <2>2. st[k] < st[l] \/ st[l] < st[k]
    BY <2>1 DEF Ordered
  <2> QED BY <1>2, <2>2
<1>r. /\ Cardinality(Below(X, st, c)) = Cardinality(Below(X, st, a)) + Cardinality(items)
      /\ \A k \in items : Cardinality(UpTo(X, k))
                              = Cardinality(Below(X, st, a)) + Cardinality(UpTo(items, k))
  <2>1. /\ Cardinality(Below(X, st, c)) = Cardinality(Below(X, st, a)) + Cardinality(Within(X, st, a, c))
        /\ \A k \in Within(X, st, a, c) :
                  Cardinality(UpTo(X, k))
                      = Cardinality(Below(X, st, a)) + Cardinality(UpTo(Within(X, st, a, c), k))
    BY RankBehind
  <2> QED BY <2>1, Zenon
<1>m. m \in Nat
    BY <1>1
<1> HIDE DEF m
<1> DEFINE h == [i \in 1..m |-> CHOOSE k \in X : f[i] = st[k]]
<1>6. \A i \in 1..m : h[i] \in X /\ f[i] = st[h[i]]
    BY <1>1
<1>7. h \in Bijection(1..m, items)
  <2>1. \A i \in 1..m : h[i] \in items
    <3> TAKE i \in 1..m
    <3>1. h[i] \in X /\ f[i] = st[h[i]] /\ a <= f[i] /\ f[i] < c /\ f[i] \in Nat
        BY <1>1, <1>6
    <3> HIDE DEF h
    <3> QED BY <3>1 DEF Within
  <2>2. h \in [1..m -> items]
    <3>1. h = [i \in 1..m |-> h[i]]
        OBVIOUS
    <3> HIDE DEF h, items
    <3> QED BY <2>1, <3>1
  <2>3. \A i, j \in 1..m : h[i] = h[j] => i = j
    <3> HIDE DEF h
    <3> QED BY <1>4, <1>6
  <2>4. \A k \in items : \E i \in 1..m : h[i] = k
    <3> TAKE k \in items
    <3>1. k \in X /\ a <= st[k] /\ st[k] < c
        BY <1>2 DEF Within
    <3>2. PICK i \in 1..m : f[i] = st[k]
        BY <1>1, <3>1
    <3>3. h[i] \in X /\ st[h[i]] = st[k]
        BY <1>6, <3>2
    <3> HIDE DEF h
    <3> QED BY <1>5, <3>1, <3>3
  <2> HIDE DEF h, items
  <2>5. DOMAIN h = 1..m
    BY <2>2
  <2> QED BY <2>2, <2>3, <2>4, <2>5 DEF Bijection, Injection, Surjection, IsInjective
<1> HIDE DEF h, items
<1>8. Cardinality(items) = m
  <2>1. IsFiniteSet(1..m) /\ Cardinality(1..m) = m
    <3>1. 1 \in Int /\ m \in Int
        BY <1>m
    <3>2. IsFiniteSet(1..m) /\ Cardinality(1..m) = IF 1 > m THEN 0 ELSE m - 1 + 1
        BY <3>1, FS_Interval, Zenon
    <3> DEFINE d == Cardinality(1..m)
    <3>3. d = IF 1 > m THEN 0 ELSE m - 1 + 1
        BY <3>2, Zenon
    <3> HIDE DEF d
    <3>4. d = m
        BY <1>m, <3>3
    <3> QED BY <3>2, <3>4, Zenon DEF d
  <2>2. ExistsBijection(1..m, items)
    BY <1>7 DEF ExistsBijection
  <2> QED BY <2>1, <2>2, FS_Bijection
<1>9. Cardinality(Below(X, st, c)) = Cardinality(Below(X, st, a)) + Cardinality(items)
    BY <1>r
<1>10. ASSUME m >= 1
       PROVE  \E k \in X :
                  f[1] = st[k] /\ Cardinality(UpTo(X, k)) = Cardinality(Below(X, st, a)) + 1
  <2>1. 1 \in 1..m
    BY <1>m, <1>10
  <2> DEFINE k == h[1] T == UpTo(items, k)
  <2>2. k \in X /\ f[1] = st[k] /\ k \in items
    BY <1>1, <1>2, <1>6, <2>1 DEF items, Within
  <2>3. Cardinality(UpTo(X, k)) = Cardinality(Below(X, st, a)) + Cardinality(T)
    BY <1>r, <2>2, Zenon
  <2> HIDE DEF k
  <2>4. T = {k}
    <3>1. ASSUME NEW j \in items, j <= k PROVE j = k
      <4>1. j \in X /\ a <= st[j] /\ st[j] < c /\ j \in Nat /\ k \in Nat /\ st[j] \in Nat /\ st[k] \in Nat
        BY <1>2, <2>2 DEF items, Within
      <4>2. PICK i \in 1..m : f[i] = st[j]
        BY <1>1, <4>1
      <4>3. i = 1 \/ f[1] < f[i]
        BY <1>m, <1>3, <2>1
      <4>4. ~(st[j] < st[k])
        BY <2>2, <4>1, <4>2, <4>3
      <4>5. ~(j < k)
        BY <2>2, <4>1, <4>4 DEF Ordered
      <4> QED BY <3>1, <4>1, <4>5
    <3>2. k <= k
        BY <1>2, <2>2
    <3> QED BY <2>2, <3>1, <3>2 DEF UpTo
  <2>5. Cardinality(T) = 1
    BY <2>4, FS_Singleton
  <2> HIDE DEF T
  <2> QED BY <2>2, <2>3, <2>5
<1> QED BY <1>8, <1>9, <1>10 DEF m

(* The instance counts as the library does.                                  *)
LEMMA RelayCardinality == \A S : Relay!Cardinality(S) = Cardinality(S)
    BY Zenon DEF Relay!Cardinality, Cardinality

(* Nth counts the members of a set.                                          *)
LEMMA NthIs ==
    ASSUME NEW n \in Nat, NEW S \in SUBSET (1..n), NEW i \in 1..Cardinality(S)
    PROVE  Relay!Nth(S, i) \in S /\ Cardinality(UpTo(S, Relay!Nth(S, i))) = i
<1> DEFINE K == {k \in Nat : Cardinality(UpTo(S, k)) >= i}
<1>1. \A k \in Nat : IsFiniteSet(UpTo(S, k)) /\ Cardinality(UpTo(S, k)) \in Nat
  <2> TAKE k \in Nat
  <2>1. IsFiniteSet(1..n)
    BY FS_Interval
  <2>2. UpTo(S, k) \in SUBSET (1..n)
    BY Zenon DEF UpTo
  <2>3. IsFiniteSet(UpTo(S, k))
    BY <2>1, <2>2, FS_Subset
  <2> QED BY <2>3, FS_CardinalityType
<1>2. UpTo(S, 0) = {} /\ UpTo(S, n) = S
  <2>1. \A j \in S : j \in Nat /\ ~(j <= 0) /\ j <= n
    OBVIOUS
  <2> QED BY <2>1 DEF UpTo
<1>3. \A k \in Nat : UpTo(S, k + 1) = IF k + 1 \in S THEN UpTo(S, k) \cup {k + 1} ELSE UpTo(S, k)
  <2> TAKE k \in Nat
  <2>1. \A j \in S : j <= k + 1 <=> j <= k \/ j = k + 1
    OBVIOUS
  <2> QED BY <2>1 DEF UpTo
<1>4. Cardinality(UpTo(S, 0)) = 0 /\ i \in Nat /\ i >= 1 /\ n \in K
  <2>1. Cardinality(S) \in Nat
    BY <1>1, <1>2
  <2> QED BY <1>2, <2>1, FS_EmptySet
<1>5. PICK k \in K : \A m \in K : k <= m
  <2>1. K \in SUBSET Nat /\ K # {}
    BY <1>4
  <2> HIDE DEF K
  <2> QED BY <2>1, LeastNat
<1>6. k # 0
    BY <1>4, <1>5
<1>7. k - 1 \in Nat /\ (k - 1) + 1 = k /\ ~(k <= k - 1)
    BY <1>5, <1>6
<1>8. Cardinality(UpTo(S, k - 1)) < i
    BY <1>1, <1>4, <1>5, <1>7
<1>9. k \in S
  <2>1. SUFFICES ASSUME k \notin S PROVE FALSE
    OBVIOUS
  <2>2. UpTo(S, k) = UpTo(S, k - 1)
    BY <1>3, <1>7, <2>1
  <2> QED BY <1>1, <1>4, <1>5, <1>8, <2>2
<1>10. Cardinality(UpTo(S, k)) = i
  <2>1. UpTo(S, k) = UpTo(S, k - 1) \cup {k}
    BY <1>3, <1>7, <1>9
  <2>2. k \notin UpTo(S, k - 1)
    BY <1>7 DEF UpTo
  <2> DEFINE T == UpTo(S, k - 1)
  <2>3. IsFiniteSet(T) /\ k \notin T
    BY <1>1, <1>7, <2>2
  <2> HIDE DEF T
  <2>4. Cardinality(T \cup {k}) = Cardinality(T) + 1
    BY <2>3, FS_AddElement
  <2>5. Cardinality(UpTo(S, k)) = Cardinality(UpTo(S, k - 1)) + 1
    BY <2>1, <2>4, Zenon DEF T
  <2>6. Cardinality(UpTo(S, k)) >= i
    BY <1>5
  <2> QED BY <1>1, <1>4, <1>7, <1>8, <2>5, <2>6
<1>11. Relay!Nth(S, i) = CHOOSE j \in S : Cardinality(UpTo(S, j)) = i
    BY RelayCardinality, Zenon DEF Relay!Nth, UpTo
<1> QED BY <1>9, <1>10, <1>11, Zenon

(* The units of the stream and where its parts begin.                        *)
Units == {k \in 1..Len(stream) : stream[k][1] = 36}
Starts == [k \in 1..(Len(stream) + 1) |-> Relay!Start(k)]
CountBefore(x) == Cardinality(Below(Units, Starts, x))

(* The parts of what the server sends lie one behind the other, and its      *)
(* packets are units.                                                        *)
LEMMA StreamParts ==
    ASSUME Sent(stream)
    PROVE  /\ stream \in Seq(Seq(Nat)) /\ Len(stream) \in Nat /\ DOMAIN stream = 1..Len(stream)
           /\ \A k \in 1..Len(stream) : stream[k] \in Seq(Nat) /\ Len(stream[k]) \in Nat /\ Len(stream[k]) >= 1
           /\ Lies(stream, Relay!Bytes, Starts)
           /\ Framed(Relay!Bytes, Relay!UnitStarts)
<1>1. /\ stream \in Seq(Seq(Nat)) /\ Len(stream) \in Nat /\ DOMAIN stream = 1..Len(stream)
      /\ \A k \in 1..Len(stream) : stream[k] \in Seq(Nat) /\ stream[k] # <<>>
  <2>1. stream \in Seq(Seq(Nat) \ {<<>>}) /\ Seq(Nat) \ {<<>>} \subseteq Seq(Nat)
    BY DEF Sent
  <2>2. stream \in Seq(Seq(Nat))
    BY <2>1, SeqMonotonic, Zenon
  <2> QED BY <2>1, <2>2, ElementOfSeq, LenProperties
<1>2. \A k \in 1..Len(stream) : Len(stream[k]) \in Nat /\ Len(stream[k]) >= 1
  <2> TAKE k \in 1..Len(stream)
  <2>1. stream[k] \in Seq(Nat) /\ stream[k] # <<>>
    BY <1>1
  <2> QED BY <2>1, EmptySeq, LenProperties
<1> QED BY <1>1, <1>2, StreamFramed DEF Starts

(* The number of the server's i-th packet.                                   *)
ServerNumbers == [i \in Nat |-> Relay!Number(i)]

(* A unit is the one that its rank among them says.                          *)
LEMMA RankIs ==
    ASSUME NEW n \in Nat, NEW S \in SUBSET (1..n), NEW k \in S
    PROVE  /\ Cardinality(UpTo(S, k)) \in Nat
           /\ Relay!Nth(S, Cardinality(UpTo(S, k))) = k
<1>a. \A j \in S : j \in Nat /\ j <= n /\ j <= j
    OBVIOUS
<1>1. \A j : IsFiniteSet(UpTo(S, j)) /\ Cardinality(UpTo(S, j)) \in Nat
  <2> TAKE j
  <2>a. IsFiniteSet(1..n)
    BY FS_Interval
  <2>b. UpTo(S, j) \in SUBSET (1..n)
    BY Zenon DEF UpTo
  <2>1. IsFiniteSet(1..n) /\ UpTo(S, j) \in SUBSET (1..n)
    BY <2>a, <2>b
  <2>2. IsFiniteSet(UpTo(S, j))
    BY <2>1, FS_Subset
  <2> QED BY <2>2, FS_CardinalityType
<1>2. ASSUME NEW x \in S, NEW y \in S, x < y
      PROVE  Cardinality(UpTo(S, x)) < Cardinality(UpTo(S, y))
  <2> DEFINE A == UpTo(S, x) B == UpTo(S, y)
  <2>a. ~(y <= x) /\ \A j \in S : j <= x => j <= y
    BY <1>2, <1>a
  <2>1. y \notin A /\ A \cup {y} \subseteq B
    BY <1>a, <2>a, Zenon DEF UpTo
  <2>2. IsFiniteSet(A) /\ IsFiniteSet(B) /\ Cardinality(A) \in Nat /\ Cardinality(B) \in Nat
    BY <1>1
  <2> HIDE DEF A, B
  <2>3. Cardinality(A \cup {y}) = Cardinality(A) + 1
    BY <2>1, <2>2, FS_AddElement
  <2>4. Cardinality(A \cup {y}) <= Cardinality(B)
    BY <2>1, <2>2, FS_Subset
  <2> DEFINE a == Cardinality(A) b == Cardinality(B) c == Cardinality(A \cup {y})
  <2>5. a \in Nat /\ b \in Nat /\ c = a + 1 /\ c <= b
    BY <2>2, <2>3, <2>4
  <2> HIDE DEF a, b, c
  <2>6. a < b
    BY <2>5
  <2> QED BY <2>6 DEF a, b, A, B
<1> DEFINE i == Cardinality(UpTo(S, k)) m == Relay!Nth(S, i)
<1>3. i \in 1..Cardinality(S)
  <2>1. k \in UpTo(S, k) /\ UpTo(S, k) \subseteq S /\ UpTo(S, n) = S
    BY <1>a, Zenon DEF UpTo
  <2>2. IsFiniteSet(S) /\ Cardinality(S) \in Nat /\ i \in Nat
    BY <1>1, <2>1
  <2>3. i <= Cardinality(S)
    BY <2>1, <2>2, FS_Subset
  <2>4. i # 0
    BY <1>1, <2>1, FS_EmptySet
  <2> HIDE DEF i
  <2> QED BY <2>2, <2>3, <2>4
<1> HIDE DEF i
<1>4. m \in S /\ Cardinality(UpTo(S, m)) = i
    BY <1>3, NthIs
<1> HIDE DEF m
<1>5. ~(m < k) /\ ~(k < m)
  <2>1. m < k => Cardinality(UpTo(S, m)) < Cardinality(UpTo(S, k))
    BY <1>2, <1>4
  <2>2. k < m => Cardinality(UpTo(S, k)) < Cardinality(UpTo(S, m))
    BY <1>2, <1>4
  <2>3. i \in Nat /\ i = Cardinality(UpTo(S, k))
    BY <1>1 DEF i
  <2> QED BY <1>4, <2>1, <2>2, <2>3
<1>6. m = k
    BY <1>4, <1>5
<1> QED BY <1>1, <1>6 DEF i, m

(* The packets lie in their order, and each holds the number of its rank.    *)
LEMMA StreamOrder ==
    ASSUME Sent(stream)
    PROVE  /\ Ordered(Units, Starts, Len(stream))
           /\ Relay!UnitStarts = {Starts[k] : k \in Units}
           /\ \A k \in Units : /\ Starts[k] = Relay!Start(k)
                               /\ stream[k][3] \in Nat
                               /\ stream[k][3] = ServerNumbers[Cardinality(UpTo(Units, k))]
                               /\ Relay!Bytes[Starts[k] + 3] = stream[k][3]
<1>1. /\ stream \in Seq(Seq(Nat)) /\ Len(stream) \in Nat /\ DOMAIN stream = 1..Len(stream)
      /\ \A k \in 1..Len(stream) : stream[k] \in Seq(Nat) /\ Len(stream[k]) \in Nat /\ Len(stream[k]) >= 1
      /\ Lies(stream, Relay!Bytes, Starts)
    BY StreamParts
<1>2. \A k \in 1..(Len(stream) + 1) : Starts[k] \in Nat /\ Starts[k] = Relay!Start(k)
  <2>1. \A k \in 1..(Len(stream) + 1) : Starts[k] \in Nat
    BY <1>1 DEF Lies
  <2> QED BY <2>1 DEF Starts
<1>3. \A k \in 1..Len(stream) : k + 1 \in 1..(Len(stream) + 1) /\ k \in 1..(Len(stream) + 1)
    BY <1>1
<1>4. \A k \in 1..Len(stream) : Starts[k] < Starts[k + 1]
  <2> TAKE k \in 1..Len(stream)
  <2> DEFINE a == Starts[k] c == Starts[k + 1] m == Len(stream[k])
  <2>1. a \in Nat /\ c \in Nat /\ m \in Nat /\ m >= 1 /\ c = a + m
    BY <1>1, <1>2, <1>3 DEF Lies
  <2> HIDE DEF a, c, m
  <2>2. a < c
    BY <2>1
  <2> QED BY <2>2 DEF a, c
<1>5. \A k, m \in Units : k < m => Starts[k] < Starts[m]
  <2> SUFFICES ASSUME NEW k \in Units, NEW m \in Units, k < m PROVE Starts[k] < Starts[m]
    OBVIOUS
  <2>1. k \in 1..Len(stream) /\ m \in 1..Len(stream)
    BY DEF Units
  <2>2. k + 1 \in 1..(Len(stream) + 1) /\ m \in (k + 1)..(Len(stream) + 1) /\ m \in 1..(Len(stream) + 1)
        /\ k \in 1..(Len(stream) + 1)
    BY <1>1, <2>1
  <2>3. Starts[k + 1] <= Starts[m]
    BY <1>1, <2>2, LaterBehind
  <2>4. Starts[k] < Starts[k + 1] /\ Starts[k] \in Nat /\ Starts[k + 1] \in Nat /\ Starts[m] \in Nat
    BY <1>2, <1>4, <2>1, <2>2
  <2> QED BY <2>3, <2>4
<1>6. Ordered(Units, Starts, Len(stream))
  <2>1. Units \subseteq 1..Len(stream)
    BY DEF Units
  <2>2. \A k \in Units : Starts[k] \in Nat
    BY <1>2, <1>3, <2>1
  <2> QED BY <1>1, <1>5, <2>1, <2>2 DEF Ordered
<1>7. Relay!UnitStarts = {Starts[k] : k \in Units}
  <2>1. Relay!UnitStarts = {Relay!Start(k) : k \in Units}
    BY <1>1, Zenon DEF Relay!UnitStarts, Relay!IsUnit, Relay!Dollar, Units
  <2>2. \A k \in Units : Starts[k] = Relay!Start(k)
    BY <1>2, <1>3 DEF Units
  <2> QED BY <2>1, <2>2, Zenon
<1>8. ASSUME NEW k \in Units
      PROVE  /\ Starts[k] = Relay!Start(k)
             /\ stream[k][3] \in Nat
             /\ stream[k][3] = ServerNumbers[Cardinality(UpTo(Units, k))]
             /\ Relay!Bytes[Starts[k] + 3] = stream[k][3]
  <2>1. k \in 1..Len(stream) /\ stream[k][1] = 36
    BY DEF Units
  <2>2. MAGIC_SIZE < Len(stream[k])
    BY <2>1, Zenon DEF Sent
  <2>3. Units = {j \in DOMAIN stream : Relay!IsUnit(j)}
    BY <1>1 DEF Units, Relay!IsUnit, Relay!Dollar
  <2>4. 3 \in 1..Len(stream[k])
    <3> DEFINE m == Len(stream[k])
    <3>1. m \in Nat /\ MAGIC_SIZE < m
        BY <1>1, <2>1, <2>2
    <3> HIDE DEF m
    <3>2. 3 \in 1..m
        BY <3>1, MagicSize
    <3> QED BY <3>2 DEF m
  <2>5. Relay!Bytes[Starts[k] + 3] = stream[k][3]
    BY <1>1, <2>1, <2>4, Zenon DEF Lies
  <2>6. Starts[k] = Relay!Start(k)
    BY <1>2, <1>3, <2>1
  <2>7. stream[k][3] \in Nat
    BY <1>1, <2>1, <2>4, ElementOfSeq
  <2>8. stream[k][3] = ServerNumbers[Cardinality(UpTo(Units, k))]
    <3> DEFINE i == Cardinality(UpTo(Units, k))
    <3>1. Units \in SUBSET (1..Len(stream))
        BY DEF Units
    <3>2. i \in Nat /\ Relay!Nth(Units, i) = k
        BY <1>1, <3>1, RankIs
    <3> HIDE DEF i
    <3>3. Relay!Number(i) = stream[k][2 + 1]
        BY <2>3, <3>2, Zenon DEF Relay!Number, Relay!NumberIn, Relay!RSTP_INTERLEAVE_SIZE
    <3>4. Relay!Number(i) = stream[k][3]
        BY <3>3
    <3> QED BY <3>2, <3>4 DEF ServerNumbers, i
  <2> QED BY <2>5, <2>6, <2>7, <2>8
<1> QED BY <1>6, <1>7, <1>8

(* What the player can get: a packet of the server or of the file.           *)
Packet == [number : Nat, since : Nat]

(* The packets whose units begin between two offsets are those that follow   *)
(* the ones before.                                                          *)
LEMMA PacketsAre ==
    ASSUME Sent(stream), NEW a \in Nat, NEW c \in Nat, a <= c
    PROVE  LET p == Relay!Packets(a, c)
           IN  /\ p \in Seq(Packet) /\ CountBefore(a) \in Nat
               /\ CountBefore(c) = CountBefore(a) + Len(p)
               /\ \A i \in 1..Len(p) :
                      p[i] = [number |-> ServerNumbers[CountBefore(a) + i], since |-> 0]
<1> DEFINE items == Within(Units, Starts, a, c)
           m == Cardinality(items)
           p == Relay!Packets(a, c)
           x(i) == stream[Relay!Nth(items, i)][3]
<1>1. /\ Ordered(Units, Starts, Len(stream))
      /\ \A k \in Units : /\ Starts[k] = Relay!Start(k) /\ stream[k][3] \in Nat
                          /\ stream[k][3] = ServerNumbers[Cardinality(UpTo(Units, k))]
    BY StreamOrder
<1>2. /\ items \in SUBSET Units
      /\ Cardinality(Below(Units, Starts, c)) = Cardinality(Below(Units, Starts, a)) + m
      /\ \A k \in items : Cardinality(UpTo(Units, k))
                              = Cardinality(Below(Units, Starts, a)) + Cardinality(UpTo(items, k))
    BY <1>1, RankBehind
<1>3. m \in Nat /\ CountBefore(a) \in Nat
  <2>1. Below(Units, Starts, a) \in SUBSET Units
    BY DEF Below
  <2> QED BY <1>1, <1>2, <2>1, SomeFinite DEF CountBefore
<1>4. items = {k \in DOMAIN stream : Relay!IsUnit(k) /\ Relay!Start(k) >= a /\ Relay!Start(k) < c}
  <2>1. DOMAIN stream = 1..Len(stream)
    BY StreamParts
  <2>2. \A k \in 1..Len(stream) : k \in Units <=> Relay!IsUnit(k)
    BY DEF Units, Relay!IsUnit, Relay!Dollar
  <2>3. Units \subseteq 1..Len(stream)
    BY DEF Units
  <2>4. \A k \in Units : Starts[k] = Relay!Start(k)
    BY <1>1
  <2> QED BY <2>1, <2>2, <2>3, <2>4 DEF Within
<1>5. p = [i \in 1..m |-> [number |-> x(i), since |-> 0]]
  <2>1. Relay!Cardinality(items) = m
    BY RelayCardinality
  <2>2. Relay!RSTP_INTERLEAVE_SIZE + 1 = 3
    BY DEF Relay!RSTP_INTERLEAVE_SIZE
  <2> HIDE DEF items
  <2>3. p = [i \in 1..Relay!Cardinality(items) |->
                [number |-> stream[Relay!Nth(items, i)][Relay!RSTP_INTERLEAVE_SIZE + 1],
                 since |-> 0]]
    BY <1>4, Zenon DEF Relay!Packets, Relay!NumberIn
  <2> HIDE DEF m, p
  <2> QED BY <2>1, <2>2, <2>3, Zenon
<1>6. ASSUME NEW i \in 1..m
      PROVE  x(i) \in Nat /\ x(i) = ServerNumbers[CountBefore(a) + i]
  <2> DEFINE k == Relay!Nth(items, i)
  <2>1. items \in SUBSET (1..Len(stream)) /\ Len(stream) \in Nat
    BY <1>1, <1>2 DEF Ordered
  <2> HIDE DEF items
  <2>2. k \in items /\ Cardinality(UpTo(items, k)) = i
    BY <2>1, NthIs
  <2> HIDE DEF k
  <2>3. k \in Units /\ Cardinality(UpTo(Units, k)) = CountBefore(a) + i
    BY <1>2, <2>2 DEF CountBefore
  <2> QED BY <1>1, <2>3 DEF k
<1> HIDE DEF m, items, p, x
<1>7. /\ p \in Seq(Packet) /\ Len(p) = m
      /\ \A i \in 1..m : p[i] = [number |-> ServerNumbers[CountBefore(a) + i], since |-> 0]
  <2> DEFINE y(i) == [number |-> x(i), since |-> 0]
  <2>1. \A i \in 1..m : y(i) \in Packet
    BY <1>6 DEF Packet
  <2>2. \A i \in 1..m : y(i) = [number |-> ServerNumbers[CountBefore(a) + i], since |-> 0]
    BY <1>6
  <2>3. p = [i \in 1..m |-> y(i)]
    BY <1>5
  <2> HIDE DEF y
  <2>4. p \in Seq(Packet) /\ DOMAIN p = 1..m /\ \A i \in 1..m : p[i] = y(i)
    BY <1>3, <2>1, <2>3
  <2>5. Len(p) = m
    BY <1>3, <2>4, LenProperties
  <2> QED BY <2>2, <2>4, <2>5
<1>8. CountBefore(c) = CountBefore(a) + m
    BY <1>2 DEF CountBefore
<1> QED BY <1>3, <1>7, <1>8 DEF p

(* What a search gives, wherever it begins.                                  *)
Stops(r) == r = [units |-> r.units, stop |-> r.stop, bad |-> r.bad] /\ r.stop \in Nat

(* A search with other units still stops.                                    *)
LEMMA StopsMore ==
    ASSUME NEW r, Stops(r), NEW v
    PROVE  Stops([r EXCEPT !.units = v])
<1> DEFINE t == r.units a == r.stop z == r.bad
<1>1. r = [units |-> t, stop |-> a, bad |-> z] /\ a \in Nat
    BY DEF Stops
<1> HIDE DEF t, a, z
<1>2. [r EXCEPT !.units = v] = [units |-> v, stop |-> a, bad |-> z]
    BY <1>1
<1> QED BY <1>1, <1>2 DEF Stops

(* A search ends.                                                            *)
LEMMA SearchStops ==
    ASSUME NEW b \in Seq(Nat)
    PROVE  \A p \in Nat : Stops(Relay!Scan(b)[p])
<1> DEFINE f == Relay!Scan(b)
           P(n) == \A p \in Nat : p + n >= Len(b) => Stops(f[p])
           S == {n \in Nat : P(n)}
<1>1. Len(b) \in Nat /\ \A p \in Nat : f[p] = Turn(b, f, p)
    BY LenProperties, ScanIs
<1> HIDE DEF f
<1>2. ASSUME NEW p \in Nat, Relay!TooShort(b, p) PROVE Stops(f[p])
  <2>1. f[p] = [units |-> <<>>, stop |-> p, bad |-> FALSE]
    BY <1>1, <1>2, Zenon DEF Turn
  <2> QED BY <2>1 DEF Stops
<1>3. P(0)
  <2> SUFFICES ASSUME NEW p \in Nat, p + 0 >= Len(b) PROVE Stops(f[p])
    OBVIOUS
  <2>1. Relay!TooShort(b, p)
    BY <1>1, MagicSize DEF Relay!TooShort
  <2> QED BY <1>2, <2>1
<1>4. ASSUME NEW n \in Nat, P(n) PROVE P(n + 1)
  <2> SUFFICES ASSUME NEW p \in Nat, p + (n + 1) >= Len(b) PROVE Stops(f[p])
    OBVIOUS
  <2>1. CASE Relay!TooShort(b, p)
    BY <1>2, <2>1
  <2>2. CASE ~Relay!TooShort(b, p)
    <3> DEFINE q == Relay!NextDollar(b, p)
               size == b[q + 2]
               next == q + size + Relay!RSTP_INTERLEAVE_SIZE
    <3>1. q \in p..(Len(b) - 1) /\ q \in Nat
        BY <1>1, <2>2, NextDollarIs
    <3>2. CASE Relay!TooShort(b, q)
      <4>1. f[p] = [units |-> <<>>, stop |-> q, bad |-> FALSE]
        BY <1>1, <2>2, <3>2, Zenon DEF Turn
      <4> HIDE DEF q
      <4> QED BY <3>1, <4>1 DEF Stops
    <3>3. CASE ~Relay!TooShort(b, q) /\ size > 127
      <4>1. f[p] = [units |-> <<q>>, stop |-> 0, bad |-> TRUE]
        BY <1>1, <2>2, <3>3, Zenon DEF Turn
      <4> HIDE DEF q, size
      <4> QED BY <4>1 DEF Stops
    <3>4. CASE ~Relay!TooShort(b, q) /\ ~(size > 127)
      <4>1. f[p] = [f[next] EXCEPT !.units = <<q>> \o f[next].units]
        BY <1>1, <2>2, <3>4, Zenon DEF Turn
      <4>2. next \in Nat /\ next > p
        <5>1. q + 2 \in 1..Len(b)
            BY <1>1, <3>1, <3>4, MagicSize DEF Relay!TooShort
        <5>2. size \in Nat
            BY <5>1, ElementOfSeq
        <5> HIDE DEF q, size
        <5> QED BY <1>1, <3>1, <5>2 DEF Relay!RSTP_INTERLEAVE_SIZE
      <4> HIDE DEF next, q
      <4>3. next + n >= Len(b)
        BY <1>1, <4>2
      <4>4. Stops(f[next])
        BY <1>4, <4>2, <4>3
      <4> DEFINE o == f[next] v == <<q>> \o o.units
      <4>5. f[p] = [o EXCEPT !.units = v] /\ Stops(o)
        BY <4>1, <4>4
      <4> HIDE DEF o, v
      <4>6. Stops([o EXCEPT !.units = v])
        BY <4>5, StopsMore
      <4> QED BY <4>5, <4>6, Zenon
    <3> QED BY <3>2, <3>3, <3>4
  <2> QED BY <2>1, <2>2
<1>5. \A n \in Nat : P(n)
  <2> HIDE DEF P
  <2>1. S \in SUBSET Nat /\ 0 \in S /\ \A n \in S : n + 1 \in S
    BY <1>3, <1>4
  <2> HIDE DEF S
  <2>2. S = Nat
    BY <2>1, Induction
  <2> QED BY <2>2 DEF S
<1>6. ASSUME NEW p \in Nat PROVE Stops(f[p])
  <2>1. p + Len(b) >= Len(b)
    BY <1>1
  <2> QED BY <1>1, <1>5, <2>1
<1> QED BY <1>6 DEF f

(* Once it has begun, the reader goes on from some byte to come, or keeps    *)
(* some bytes.                                                               *)
LEMMA ReadRests ==
    ASSUME prepend \in Seq(Nat), Onward \in Nat, NEW buf \in Seq(Nat),
           ~(position = -1 /\ buf[1] # Relay!Dollar)
    PROVE  LET r == Relay!Read(buf) IN r.position \in Nat /\ r.prepend \in Seq(Nat)
<1> DEFINE b == prepend \o buf
           s == Relay!Scan(b)[Onward]
           begin == [k \in DOMAIN s.units |-> s.units[k] - Len(prepend)]
           L == Len(b)
           r == Relay!Read(buf)
           a == s.stop
           none == <<>>
           kept == SubSeq(b, a + 1, L)
           m == Onward
<1>1. b \in Seq(Nat) /\ L \in Nat
    BY LenProperties, ConcatProperties
<1>2. a \in Nat /\ m \in Nat
  <2> HIDE DEF b
  <2>1. Stops(s)
    BY <1>1, SearchStops
  <2> QED BY <2>1, Zenon DEF Stops
<1>3. none \in Seq(Nat)
    OBVIOUS
<1> HIDE DEF s, a
<1>4. \/ r = [begins |-> none, position |-> m - L, prepend |-> none] /\ m >= L
      \/ r = [begins |-> begin, position |-> 0, prepend |-> none]
      \/ r = [begins |-> begin, position |-> a - L, prepend |-> none] /\ a >= L
      \/ r = [begins |-> begin, position |-> 0, prepend |-> kept] /\ ~(a >= L)
    BY Zenon DEF Relay!Read, Onward, s, a
<1> HIDE DEF b, begin, L, r, none, kept, m
<1>5. ~(a >= L) => kept \in Seq(Nat)
  <2>1. SUFFICES ASSUME ~(a >= L) PROVE kept \in Seq(Nat)
    OBVIOUS
  <2>2. a <= Len(b) /\ L = Len(b) /\ a <= L /\ L <= Len(b)
    BY <1>1, <1>2, <2>1 DEF L
  <2> QED BY <1>1, <1>2, <2>2, Stretch DEF kept
<1>6. CASE r = [begins |-> none, position |-> m - L, prepend |-> none] /\ m >= L
  <2>1. m - L \in Nat
    BY <1>1, <1>2, <1>6
  <2> QED BY <1>3, <1>6, <2>1 DEF r
<1>7. CASE r = [begins |-> begin, position |-> 0, prepend |-> none]
    BY <1>3, <1>7 DEF r
<1>8. CASE r = [begins |-> begin, position |-> a - L, prepend |-> none] /\ a >= L
  <2>1. a - L \in Nat
    BY <1>1, <1>2, <1>8
  <2> QED BY <1>3, <1>8, <2>1 DEF r
<1>9. CASE r = [begins |-> begin, position |-> 0, prepend |-> kept] /\ ~(a >= L)
    BY <1>5, <1>9 DEF r
<1> QED BY <1>4, <1>6, <1>7, <1>8, <1>9

(* What the reader has found of the stream, once it has begun: if it began   *)
(* at a unit, every unit it could tell.                                      *)
Reads(bytes, U, rec, on, pre, syn, fnd) ==
    /\ rec \in Nat
    /\ syn = -1 => on = -1 /\ pre = <<>> /\ fnd = <<>>
    /\ syn # -1 => on \in Nat /\ pre \in Seq(Nat) /\ syn \in 0..rec
    /\ syn \in U => ReadUpTo(bytes, U, syn, rec, on, pre, fnd)
ReadingInv ==
    Reads(Relay!Bytes, Relay!UnitStarts, received, position, prepend, synced, found)

(* The stream does not change, and so do the offsets in it.                  *)
LEMMA SameStream ==
    ASSUME stream' = stream
    PROVE  /\ Relay!Bytes' = Relay!Bytes /\ Relay!UnitStarts' = Relay!UnitStarts
           /\ Units' = Units /\ Starts' = Starts /\ Sent(stream)' = Sent(stream)
           /\ ServerNumbers' = ServerNumbers
    BY DEF Relay!Bytes, Relay!UnitStarts, Relay!Start, Relay!IsUnit, Units, Starts, Sent,
           ServerNumbers, Relay!Number

(* What Handle does to the reader.                                           *)
LEMMA HandleIs ==
    ASSUME NEW n \in 1..MaxRecv, Relay!Handle(n),
           NEW buf, buf = Coming(Relay!Bytes, received, n)
    PROVE  /\ stream' = stream /\ received' = received + n
           /\ Arrives(Relay!Bytes, received, n)
           /\ position' = Relay!Read(buf).position /\ prepend' = Relay!Read(buf).prepend
           /\ synced' = IF position = -1 /\ buf[1] = Relay!Dollar THEN received ELSE synced
           /\ found' = found \o Reported(received, Relay!Read(buf))
<1>1. n \in Nat /\ n >= 1
    OBVIOUS
<1>2. /\ stream' = stream /\ received' = received + n
      /\ received + n <= Relay!Len(Relay!Bytes)
      /\ position' = Relay!Read(buf).position /\ prepend' = Relay!Read(buf).prepend
      /\ synced' = IF position = -1 /\ buf[1] = Relay!Dollar THEN received ELSE synced
      /\ found' = found \o Reported(received, Relay!Read(buf))
    BY Zenon DEF Relay!Handle, Coming, Reported
<1> QED BY <1>1, <1>2 DEF Arrives

(* A read, seen from the unit at which the reader began: if there is one,    *)
(* the units it reports are the next ones.                                   *)
LEMMA HandleReads ==
    ASSUME Sent(stream), ReadingInv, NEW n \in 1..MaxRecv, Relay!Handle(n),
           NEW buf, buf = Coming(Relay!Bytes, received, n),
           NEW r, r = Relay!Read(buf)
    PROVE  /\ Reads(Relay!Bytes, Relay!UnitStarts, received', position', prepend', synced', found')
           /\ r.begins # <<>> => synced' # -1
           /\ synced # -1 => synced' = synced
           /\ synced' \in {synced, received}
           /\ synced' \in Relay!UnitStarts =>
                  LET more == Reported(received, r)
                  IN  /\ ReadUpTo(Relay!Bytes, Relay!UnitStarts, synced', received, Onward, prepend, found)
                      /\ Among(Relay!UnitStarts, Searched(received, prepend, Onward),
                               Searched(received', prepend', position'), more)
                      /\ Searched(received, prepend, Onward) <= Searched(received', prepend', position')
                      /\ Len(more) = Len(r.begins) /\ r.begins \in Seq(Int)
<1> DEFINE bytes == Relay!Bytes U == Relay!UnitStarts rec == received
           more == Reported(rec, r)
<1>1. Framed(bytes, U)
    BY StreamParts
<1>2. /\ stream' = stream /\ received' = rec + n
      /\ Arrives(bytes, rec, n)
      /\ position' = r.position /\ prepend' = r.prepend
      /\ synced' = IF position = -1 /\ buf[1] = Relay!Dollar THEN rec ELSE synced
      /\ found' = found \o more
    BY HandleIs
<1>3. Reads(bytes, U, rec, position, prepend, synced, found)
    BY DEF ReadingInv
<1>4. rec \in Nat /\ n \in Nat /\ n >= 1 /\ U \subseteq Nat /\ -1 \notin U /\ bytes \in Seq(Nat)
    BY <1>1, <1>3 DEF Reads, Framed
<1> HIDE DEF bytes, U, rec, more
<1>5. rec' = rec + n
    BY <1>2 DEF rec
<1>6. CASE position = -1 /\ buf[1] # Relay!Dollar
  <2>1. r = [begins |-> <<>>, position |-> -1, prepend |-> prepend]
    BY <1>6, Zenon DEF Relay!Read
  <2>2. r.begins = <<>> /\ r.position = -1 /\ r.prepend = prepend
    BY <2>1
  <2>3. synced = -1
    BY <1>3, <1>6 DEF Reads
  <2>4. synced' = -1
    BY <1>2, <1>6, <2>3
  <2>5. more = <<>>
    <3>1. DOMAIN r.begins = {}
        BY <2>2
    <3>2. more = [k \in {} |-> rec + r.begins[k]]
        BY <3>1 DEF more, Reported
    <3>3. [k \in {} |-> rec + r.begins[k]] = <<>>
        OBVIOUS
    <3> QED BY <3>2, <3>3
  <2>6. found' = <<>>
    <3>1. found = <<>>
        BY <1>3, <2>3 DEF Reads
    <3> QED BY <1>2, <2>5, <3>1, ConcatEmptySeq, EmptySeq
  <2>7. position' = -1 /\ prepend' = <<>> /\ rec + n \in Nat
    BY <1>2, <1>3, <1>4, <2>2, <2>3 DEF Reads
  <2>8. Reads(bytes, U, received', position', prepend', synced', found')
    BY <1>2, <1>4, <2>4, <2>6, <2>7 DEF Reads
  <2> QED BY <1>4, <2>2, <2>3, <2>4, <2>8 DEF bytes, U, rec
<1>7. CASE ~(position = -1 /\ buf[1] # Relay!Dollar)
  <2> DEFINE syn == synced' on == Onward
  <2>1. /\ syn # -1 /\ syn \in 0..rec /\ on \in Nat /\ prepend \in Seq(Nat)
        /\ synced # -1 => syn = synced
        /\ syn \in {synced, rec}
        /\ syn \in U => ReadUpTo(bytes, U, syn, rec, on, prepend, found)
    <3>1. CASE position = -1
      <4>1. synced = -1 /\ prepend = <<>> /\ found = <<>> /\ Onward = 0 /\ syn = rec
        BY <1>2, <1>3, <1>7, <3>1 DEF Reads, Onward
      <4>2. syn \in U => ReadUpTo(bytes, U, syn, syn, 0, <<>>, <<>>)
        <5>1. rec \in U => ReadUpTo(bytes, U, rec, rec, 0, <<>>, <<>>)
            BY <1>1, ReadFromUnit
        <5> QED BY <4>1, <5>1
      <4>3. syn \in U => ReadUpTo(bytes, U, syn, rec, on, prepend, found)
        <5> HIDE DEF syn
        <5> QED BY <4>1, <4>2
      <4>4. prepend \in Seq(Nat)
        BY <4>1
      <4> HIDE DEF syn
      <4> QED BY <1>4, <4>1, <4>3, <4>4
    <3>2. CASE position # -1
      <4>1. synced # -1 /\ syn = synced /\ on = position
        BY <1>2, <1>3, <3>2 DEF Reads, Onward
      <4> HIDE DEF syn, on
      <4> QED BY <1>3, <4>1 DEF Reads
    <3> QED BY <3>1, <3>2
  <2>2. buf \in Seq(Nat) /\ Coming(bytes, rec, n) = buf
    <3>1. Coming(bytes, rec, n) = buf
        BY DEF bytes, rec
    <3>2. buf = SubSeq(bytes, rec + 1, rec + n)
        BY <3>1 DEF Coming
    <3>3. rec + n \in Nat /\ rec <= rec + n /\ rec + n <= Len(bytes)
        BY <1>2, <1>4 DEF Arrives
    <3>4. SubSeq(bytes, rec + 1, rec + n) \in Seq(Nat)
        BY <1>4, <3>3, Stretch
    <3> QED BY <3>1, <3>2, <3>4
  <2>3. position' \in Nat /\ prepend' \in Seq(Nat)
    <3>1. r.position \in Nat /\ r.prepend \in Seq(Nat)
        BY <1>7, <2>1, <2>2, ReadRests
    <3> QED BY <1>2, <3>1
  <2>4. ASSUME syn \in U
        PROVE  /\ ReadUpTo(bytes, U, syn, rec + n, r.position, r.prepend, found \o more)
               /\ Len(more) = Len(r.begins) /\ r.begins \in Seq(Int)
               /\ Among(U, Searched(rec, prepend, Onward), Searched(rec + n, r.prepend, r.position), more)
              /\ Searched(rec, prepend, Onward) <= Searched(rec + n, r.prepend, r.position)
    <3>1. ReadUpTo(bytes, U, syn, rec, Onward, prepend, found)
        BY <2>1, <2>4
    <3>2. Arrives(bytes, rec, n) /\ Coming(bytes, rec, n) = buf
        BY <1>2, <2>2
    <3> DEFINE o == Relay!Read(buf)
    <3> HIDE DEF syn, on
    <3>a. \A u : ReadUpTo(bytes, U, u, rec, Onward, prepend, found) =>
              ReadUpTo(bytes, U, u, rec + n, o.position, o.prepend, found \o Reported(rec, o))
        BY <1>1, <1>7, <3>2, ReadOn
    <3>b. \A u : ReadUpTo(bytes, U, u, rec, Onward, prepend, found) =>
              Len(Reported(rec, o)) = Len(o.begins)
        BY <1>1, <1>7, <3>2, ReadOn
    <3>e. \A u : ReadUpTo(bytes, U, u, rec, Onward, prepend, found) => o.begins \in Seq(Int)
        BY <1>1, <1>7, <3>2, ReadOn
    <3>c. \A u : ReadUpTo(bytes, U, u, rec, Onward, prepend, found) =>
              Among(U, Searched(rec, prepend, Onward), Searched(rec + n, o.prepend, o.position),
                       Reported(rec, o))
        BY <1>1, <1>7, <3>2, ReadOn
    <3>d. \A u : ReadUpTo(bytes, U, u, rec, Onward, prepend, found) =>
              Searched(rec, prepend, Onward) <= Searched(rec + n, o.prepend, o.position)
        BY <1>1, <1>7, <3>2, ReadOn
    <3>3. /\ ReadUpTo(bytes, U, syn, rec + n, o.position, o.prepend, found \o Reported(rec, o))
          /\ Len(Reported(rec, o)) = Len(o.begins) /\ o.begins \in Seq(Int)
          /\ Among(U, Searched(rec, prepend, Onward), Searched(rec + n, o.prepend, o.position),
                   Reported(rec, o))
          /\ Searched(rec, prepend, Onward) <= Searched(rec + n, o.prepend, o.position)
        BY <3>1, <3>a, <3>b, <3>c, <3>d, <3>e
    <3> HIDE DEF o
    <3>4. r = o
        BY DEF o
    <3> QED BY <3>1, <3>3, <3>4 DEF more
  <2> HIDE DEF syn, on
  <2>5. syn \in U => ReadUpTo(bytes, U, syn, received', position', prepend', found')
    BY <1>2, <2>4
  <2>6. Reads(bytes, U, received', position', prepend', syn, found')
    <3>1. rec + n \in Nat /\ syn \in 0..(rec + n)
        BY <1>4, <2>1
    <3> QED BY <1>2, <2>1, <2>3, <2>5, <3>1 DEF Reads
  <2>7. syn \in U =>
           /\ ReadUpTo(bytes, U, syn, rec, Onward, prepend, found)
           /\ Among(U, Searched(rec, prepend, Onward), Searched(received', prepend', position'), more)
           /\ Searched(rec, prepend, Onward) <= Searched(received', prepend', position')
           /\ Len(more) = Len(r.begins) /\ r.begins \in Seq(Int)
    BY <1>2, <2>1, <2>4 DEF on
  <2> QED BY <2>1, <2>6, <2>7, Zenon DEF syn, bytes, U, rec, more
<1> QED BY <1>6, <1>7

(* When no part of a header is held back, the search has found the units     *)
(* that have come and no other.                                              *)
LEMMA SearchedAll ==
    ASSUME Sent(stream), NEW syn, NEW rec \in Nat, NEW on \in Nat, NEW pre, NEW fnd,
           ReadUpTo(Relay!Bytes, Relay!UnitStarts, syn, rec, on, pre, fnd),
           syn <= rec, pre = <<>>
    PROVE  /\ CountBefore(Searched(rec, pre, on)) = CountBefore(rec)
           /\ \A u \in Relay!UnitStarts : Searched(rec, pre, on) <= u => rec <= u
<1> DEFINE U == Relay!UnitStarts a == Searched(rec, pre, on)
<1>1. U \subseteq Nat /\ U = {Starts[k] : k \in Units}
  <2>1. Framed(Relay!Bytes, U)
    BY StreamParts
  <2>2. U = {Starts[k] : k \in Units}
    BY StreamOrder
  <2> HIDE DEF U
  <2>3. U \subseteq Nat
    BY <2>1 DEF Framed
  <2> QED BY <2>2, <2>3
<1>2. a \in Nat /\ rec <= a
  <2>1. Len(pre) = 0
    OBVIOUS
  <2>2. a = rec - 0 + on
    BY <2>1 DEF Searched
  <2> HIDE DEF a
  <2> QED BY <2>2
<1>3. syn \in Nat /\ \A u \in U : syn <= u => (u < a <=> u + MAGIC_SIZE < rec)
    BY Zenon DEF ReadUpTo, Searched
<1> HIDE DEF U, a
<1>4. ASSUME NEW u \in U PROVE u < a <=> u < rec
  <2>1. u \in Nat
    BY <1>1
  <2>2. CASE syn <= u
    BY <1>2, <1>3, <2>1, <2>2, MagicSize
  <2>3. CASE ~(syn <= u)
    BY <1>2, <1>3, <2>1, <2>3
  <2> QED BY <2>2, <2>3
<1>5. \A u \in U : a <= u => rec <= u
  <2> TAKE u \in U
  <2>1. u \in Nat /\ (u < a <=> u < rec)
    BY <1>1, <1>4
  <2> QED BY <1>2, <2>1
<1>6. Below(Units, Starts, a) = Below(Units, Starts, rec)
  <2>1. \A k \in Units : Starts[k] \in U
    BY <1>1
  <2>2. \A k \in Units : Starts[k] < a <=> Starts[k] < rec
    BY <1>4, <2>1
  <2> QED BY <2>2 DEF Below
<1> QED BY <1>5, <1>6 DEF CountBefore, a, U

(* The units found between two offsets, and the number of the first.         *)
LEMMA Counted ==
    ASSUME Sent(stream), NEW a \in Nat, NEW c \in Nat, a <= c,
           NEW f, Among(Relay!UnitStarts, a, c, f)
    PROVE  /\ CountBefore(a) \in Nat /\ Len(f) \in Nat
           /\ CountBefore(c) = CountBefore(a) + Len(f)
           /\ Len(f) >= 1 =>
                  /\ f[1] \in Relay!UnitStarts
                  /\ Relay!Bytes[f[1] + 3] = ServerNumbers[CountBefore(a) + 1]
                  /\ ServerNumbers[CountBefore(a) + 1] \in Nat
<1>1. /\ Ordered(Units, Starts, Len(stream))
      /\ Relay!UnitStarts = {Starts[k] : k \in Units}
      /\ \A k \in Units : /\ stream[k][3] \in Nat
                          /\ stream[k][3] = ServerNumbers[Cardinality(UpTo(Units, k))]
                          /\ Relay!Bytes[Starts[k] + 3] = stream[k][3]
    BY StreamOrder
<1>2. Among({Starts[k] : k \in Units}, a, c, f)
    BY <1>1
<1>3. /\ Cardinality(Below(Units, Starts, c)) = Cardinality(Below(Units, Starts, a)) + Len(f)
      /\ Len(f) >= 1 => \E k \in Units :
             f[1] = Starts[k] /\ Cardinality(UpTo(Units, k)) = Cardinality(Below(Units, Starts, a)) + 1
    BY <1>1, <1>2, CountAmong
<1>4. Cardinality(Below(Units, Starts, a)) \in Nat
  <2>1. Below(Units, Starts, a) \in SUBSET Units
    BY DEF Below
  <2> QED BY <1>1, <2>1, SomeFinite
<1>5. Len(f) \in Nat
  <2>1. f \in Seq(Nat)
    BY DEF Among
  <2> QED BY <2>1, LenProperties
<1>6. ASSUME Len(f) >= 1
      PROVE  /\ f[1] \in Relay!UnitStarts
             /\ Relay!Bytes[f[1] + 3] = ServerNumbers[CountBefore(a) + 1]
             /\ ServerNumbers[CountBefore(a) + 1] \in Nat
  <2>1. PICK k \in Units :
            f[1] = Starts[k] /\ Cardinality(UpTo(Units, k)) = Cardinality(Below(Units, Starts, a)) + 1
    BY <1>3, <1>6
  <2>2. /\ Relay!Bytes[Starts[k] + 3] = ServerNumbers[Cardinality(Below(Units, Starts, a)) + 1]
        /\ ServerNumbers[Cardinality(Below(Units, Starts, a)) + 1] \in Nat
    BY <1>1, <2>1
  <2> QED BY <1>1, <2>1, <2>2 DEF CountBefore
<1> QED BY <1>3, <1>4, <1>5, <1>6 DEF CountBefore

(* What the player may get in the place i, if num are the server's numbers:  *)
(* its own packet, or one of the file, whose number follows.                 *)
Fits(num, packet, i) ==
    IF packet.since = 0 THEN packet.number = num[i]
    ELSE packet.since <= i /\ packet.number = (num[packet.since] + (i - packet.since)) % 256

(* The number in the header, when the file has come since the place begun    *)
(* and the player has got n packets.                                         *)
Follows(num, number, begun, n) ==
    /\ begun \in 1..(n + 1) /\ num[begun] \in Nat
    /\ number = (num[begun] + (n - begun)) % 256

(* The player's packets: while packets are replaced, those the player has    *)
(* got and those due are the units found; else those it has got are the      *)
(* units that have come.                                                     *)
Numbers(U, num, syn, replaces, number, begun, owed, at, packets, before, upTo) ==
    /\ syn \in {-1} \cup U
    /\ packets \in Seq(Packet) /\ \A i \in 1..Len(packets) : Fits(num, packets[i], i)
    /\ owed \in Nat /\ (at = "write" <=> owed # 0)
    /\ IF replaces
       THEN /\ syn # -1 /\ Len(packets) + owed = upTo
            /\ Follows(num, number, begun, Len(packets))
       ELSE owed = 0 /\ Len(packets) = before
NumbersInv ==
    clean => Numbers(Relay!UnitStarts, ServerNumbers, synced, m_previous_status, m_rtp_header,
                     since, due, link, got, CountBefore(received),
                     CountBefore(Searched(received, prepend, position)))

(* A number that follows has one byte, and so has the next.                  *)
LEMMA FollowsOn ==
    ASSUME NEW num, NEW n \in Nat, NEW begun \in 1..(n + 1), num[begun] \in Nat
    PROVE  /\ \A x : x = num[begun] /\ begun = n + 1 => Follows(num, (x - 1) % 256, begun, n)
           /\ \A number : Follows(num, number, begun, n) =>
                  /\ (number + 1) % 256 \in Nat
                  /\ Follows(num, (number + 1) % 256, begun, n + 1)
                  /\ Fits(num, [number |-> (number + 1) % 256, since |-> begun], n + 1)
<1>1. PICK k \in Nat : k = num[begun]
    OBVIOUS
<1>2. begun = n + 1 => n - begun = -1
    OBVIOUS
<1>3. ASSUME NEW x, x = num[begun], begun = n + 1 PROVE Follows(num, (x - 1) % 256, begun, n)
  <2>1. x - 1 = k + (n - begun)
    BY <1>1, <1>2, <1>3
  <2> QED BY <1>1, <2>1 DEF Follows
<1>4. ASSUME NEW number, Follows(num, number, begun, n)
      PROVE  /\ (number + 1) % 256 \in Nat
             /\ Follows(num, (number + 1) % 256, begun, n + 1)
             /\ Fits(num, [number |-> (number + 1) % 256, since |-> begun], n + 1)
  <2> DEFINE d == k + (n - begun)
  <2>1. d \in Int /\ number = d % 256 /\ d + 1 = k + ((n + 1) - begun)
    BY <1>1, <1>4 DEF Follows
  <2> HIDE DEF d
  <2>2. (number + 1) % 256 = (d + 1) % 256 /\ (d + 1) % 256 \in Nat
    BY <2>1
  <2>3. (number + 1) % 256 = (num[begun] + ((n + 1) - begun)) % 256
    BY <1>1, <2>1, <2>2
  <2>4. begun \in 1..((n + 1) + 1) /\ begun <= n + 1 /\ begun # 0
    OBVIOUS
  <2>5. Follows(num, (number + 1) % 256, begun, n + 1)
    BY <1>1, <2>3, <2>4 DEF Follows
  <2> DEFINE next == (number + 1) % 256 packet == [number |-> next, since |-> begun]
  <2>6. packet.number = next /\ packet.since = begun
    OBVIOUS
  <2>7. next = (num[begun] + ((n + 1) - begun)) % 256
    BY <2>3
  <2> HIDE DEF next, packet
  <2>8. Fits(num, packet, n + 1)
    BY <2>4, <2>6, <2>7 DEF Fits
  <2> QED BY <2>2, <2>5, <2>8 DEF next, packet
<1> QED BY <1>3, <1>4

(* What Handle does to the player's numbers.                                 *)
LEMMA HandleSends ==
    ASSUME NEW n \in 1..MaxRecv, Relay!Handle(n), m_previous_status \in BOOLEAN,
           NEW buf, buf = Coming(Relay!Bytes, received, n),
           NEW r, r = Relay!Read(buf)
    PROVE  /\ link = "relay" /\ m_previous_status' \in BOOLEAN
           /\ clean' = (clean /\ (m_previous_status' # m_previous_status => prepend = <<>>)
                              /\ (synced' # synced => received \in Relay!UnitStarts))
           /\ \/ /\ ~m_previous_status' /\ due' = due /\ link' = "send"
                 /\ got' = got \o Relay!Packets(received, received + n)
              \/ /\ m_previous_status' /\ m_previous_status
                 /\ due' = Len(r.begins) /\ link' = IF due' = 0 THEN "relay" ELSE "write"
                 /\ got' = got /\ m_rtp_header' = m_rtp_header /\ since' = since
              \/ /\ m_previous_status' /\ ~m_previous_status /\ r.begins # <<>>
                 /\ due' = Len(r.begins) /\ link' = IF due' = 0 THEN "relay" ELSE "write"
                 /\ got' = got /\ since' = Len(got) + 1
                 /\ Head(r.begins) + 2 >= 0 =>
                        m_rtp_header' = (buf[Head(r.begins) + 2 + 1] - 1) % 256
<1>1. buf = SubSeq(Relay!Bytes, received + 1, received + n)
    BY DEF Coming
<1> DEFINE begins == g_inception /\ ~m_previous_status /\ r.begins # <<>>
<1>2. /\ link = "relay"
      /\ clean' = (clean /\ (m_previous_status' # m_previous_status => prepend = <<>>)
                         /\ (synced' # synced => received \in Relay!UnitStarts))
    BY Zenon DEF Relay!Handle
<1>3. PICK canIncept \in (IF begins THEN BOOLEAN ELSE {FALSE}) :
          /\ m_previous_status' = (g_inception /\ (m_previous_status \/ canIncept))
          /\ IF ~m_previous_status' THEN Relay!SendDirect(n)
             ELSE /\ due' = Len(r.begins)
                  /\ link' = IF due' = 0 THEN "relay" ELSE "write"
                  /\ UNCHANGED got
                  /\ IF m_previous_status
                     THEN UNCHANGED <<m_rtp_header, m_fragments, m_pos, source_pos, since, injected>>
                     ELSE Relay!Begin(buf, r.begins)
    BY <1>1, Zenon DEF Relay!Handle
<1>4. canIncept \in BOOLEAN /\ (canIncept => r.begins # <<>>)
    BY <1>3
<1> HIDE DEF begins
<1>5. m_previous_status' \in BOOLEAN
    BY <1>3, Zenon
<1>6. CASE ~m_previous_status'
  <2>1. Relay!SendDirect(n)
    BY <1>3, <1>6
  <2>2. got' = got \o Relay!Packets(received, received + n) /\ due' = due /\ link' = "send"
    BY <2>1, Zenon DEF Relay!SendDirect
  <2> QED BY <1>2, <1>5, <1>6, <2>2
<1>7. CASE m_previous_status' /\ m_previous_status
    BY <1>2, <1>3, <1>5, <1>7
<1>8. CASE m_previous_status' /\ ~m_previous_status
  <2>1. r.begins # <<>>
    BY <1>3, <1>4, <1>8
  <2>2. Relay!Begin(buf, r.begins)
    BY <1>3, <1>8
  <2>3. ASSUME Head(r.begins) + 2 >= 0
        PROVE  m_rtp_header' = (buf[Head(r.begins) + 2 + 1] - 1) % 256
    <3> DEFINE h == Head(r.begins) x == (buf[h + 2 + 1] - 1) % 256
    <3>1. m_rtp_header' \in (IF h + 2 >= 0 THEN {x} ELSE Garbage)
        BY <2>2, Zenon
        DEF Relay!Begin, Relay!FirstNumber, Relay!Wrap, Relay!RSTP_INTERLEAVE_SIZE
    <3> HIDE DEF h, x
    <3>2. m_rtp_header' = x
        BY <2>3, <3>1 DEF h
    <3> QED BY <3>2 DEF h, x
  <2>4. since' = Len(got) + 1
    BY <2>2, Zenon DEF Relay!Begin
  <2> QED BY <1>2, <1>3, <1>5, <1>8, <2>1, <2>3, <2>4
<1> QED BY <1>5, <1>6, <1>7, <1>8

(* Packets in their places, and those that follow.                           *)
LEMMA SeriesGoesOn ==
    ASSUME NEW num,
           NEW s \in Seq(Packet), \A i \in 1..Len(s) : Fits(num, s[i], i),
           NEW t \in Seq(Packet), \A i \in 1..Len(t) : Fits(num, t[i], Len(s) + i)
    PROVE  /\ s \o t \in Seq(Packet) /\ Len(s \o t) = Len(s) + Len(t)
           /\ \A i \in 1..Len(s \o t) : Fits(num, (s \o t)[i], i)
<1> DEFINE m == Len(s) n == Len(t) u == s \o t
<1>1. /\ u \in Seq(Packet) /\ Len(u) = m + n /\ m \in Nat /\ n \in Nat
      /\ \A i \in 1..m : u[i] = s[i]
      /\ \A j \in 1..n : u[m + j] = t[j]
    BY Joined, LenProperties
<1> HIDE DEF m, n, u
<1>2. ASSUME NEW i \in 1..(m + n) PROVE Fits(num, u[i], i)
  <2>1. CASE i <= m
    <3>1. i \in 1..m
        BY <1>1, <2>1
    <3> QED BY <1>1, <3>1 DEF m
  <2>2. CASE ~(i <= m)
    <3>1. i - m \in 1..n /\ m + (i - m) = i
        BY <1>1, <2>2
    <3>2. u[i] = t[i - m] /\ Fits(num, t[i - m], m + (i - m))
        BY <1>1, <3>1 DEF m, n
    <3> QED BY <3>1, <3>2
  <2> QED BY <2>1, <2>2
<1> QED BY <1>1, <1>2 DEF m, n, u

(* When the replacing begins and no part of a header is held back, the       *)
(* header of the first unit found is in this read, and it is the next unit.  *)
LEMMA FirstFound ==
    ASSUME Sent(stream), NEW n, NEW buf, buf = Coming(Relay!Bytes, received, n),
           Arrives(Relay!Bytes, received, n),
           NEW syn, NEW fnd, NEW on, NEW pre, NEW fnd2, NEW on2, NEW pre2,
           ReadUpTo(Relay!Bytes, Relay!UnitStarts, syn, received, on, pre, fnd),
           ReadUpTo(Relay!Bytes, Relay!UnitStarts, syn, received + n, on2, pre2, fnd2),
           on \in Nat, syn <= received, pre = <<>>,
           NEW a, a = Searched(received, pre, on),
           NEW c, c = Searched(received + n, pre2, on2), a <= c,
           NEW r, r.begins \in Seq(Int), r.begins # <<>>,
           Among(Relay!UnitStarts, a, c, Reported(received, r)),
           Len(Reported(received, r)) = Len(r.begins)
    PROVE  /\ Head(r.begins) + 2 >= 0
           /\ buf[Head(r.begins) + 2 + 1] = ServerNumbers[CountBefore(a) + 1]
           /\ ServerNumbers[CountBefore(a) + 1] \in Nat
<1> DEFINE U == Relay!UnitStarts bytes == Relay!Bytes more == Reported(received, r)
           rec == received
           h == Head(r.begins) u == more[1]
<1>1. Framed(bytes, U) /\ bytes \in Seq(Nat)
    BY StreamParts DEF Framed
<1>2. rec \in Nat /\ n \in Nat /\ n >= 1 /\ rec + n <= Len(bytes) /\ Len(bytes) \in Nat
  <2>1. rec \in 0..Len(bytes) /\ Len(bytes) \in Nat
    BY <1>1, LenProperties DEF ReadUpTo, Kept
  <2> HIDE DEF bytes
  <2> QED BY <2>1 DEF Arrives, bytes
<1>3. a \in Nat /\ c \in Nat /\ syn <= a /\ syn \in Nat
      /\ \A v \in U : syn <= v => (v < c <=> v + MAGIC_SIZE < rec + n)
  <2>1. Good(bytes, U, a) /\ Good(bytes, U, c) /\ syn <= a /\ syn \in Nat
        /\ \A v \in U : syn <= v => (v < c <=> v + MAGIC_SIZE < rec + n)
    BY Zenon DEF ReadUpTo, Searched
  <2> HIDE DEF bytes, U
  <2> QED BY <1>2, <2>1 DEF Good
<1>4. \A v \in U : a <= v => rec <= v
    BY <1>2, SearchedAll
<1>5. Len(r.begins) \in Nat /\ Len(r.begins) >= 1 /\ h = r.begins[1] /\ h \in Int
      /\ DOMAIN r.begins = 1..Len(r.begins)
  <2> DEFINE b == r.begins
  <2>1. b \in Seq(Int) /\ b # <<>>
    OBVIOUS
  <2> HIDE DEF b
  <2>2. Len(b) \in Nat /\ Len(b) >= 1 /\ DOMAIN b = 1..Len(b)
    BY <2>1, EmptySeq, LenProperties
  <2>3. Head(b) = b[1] /\ b[1] \in Int
    BY <2>1, <2>2, ElementOfSeq
  <2> QED BY <2>2, <2>3 DEF b
<1>6. u \in U /\ u < c /\ a <= u /\ u = rec + h
  <2>1. 1 \in 1..Len(more)
    BY <1>5
  <2>2. u \in U /\ u < c /\ a <= u
    BY <2>1 DEF Among
  <2>3. 1 \in DOMAIN r.begins
    BY <1>5
  <2>4. u = rec + r.begins[1]
    BY <2>3 DEF Reported
  <2> QED BY <1>5, <2>2, <2>4
<1>7. /\ Relay!Bytes[u + 3] = ServerNumbers[CountBefore(a) + 1]
      /\ ServerNumbers[CountBefore(a) + 1] \in Nat
    BY <1>3, <1>5, Counted
<1>8. \A v \in U : v \in Nat
    BY <1>1 DEF Framed
<1> HIDE DEF U, more, h, u, rec
<1>9. u \in Nat /\ rec <= u /\ u + MAGIC_SIZE < rec + n
  <2>1. u \in Nat /\ rec <= u
    BY <1>4, <1>6, <1>8
  <2>2. syn <= u
    BY <1>3, <1>6, <2>1
  <2> QED BY <1>3, <1>6, <2>1, <2>2
<1>10. h \in Nat /\ h + 3 \in 1..n /\ rec + (h + 3) = u + 3 /\ h + 2 + 1 = h + 3 /\ h + 2 >= 0
  <2>1. rec \in Nat /\ n \in Nat /\ h \in Int /\ u = rec + h /\ u \in Nat /\ rec <= u
        /\ u + MAGIC_SIZE < rec + n
    BY <1>2, <1>5, <1>6, <1>9
  <2>2. h \in Nat
    BY <2>1
  <2>3. h + 3 <= n
    BY <2>1, <2>2, MagicSize
  <2> QED BY <2>1, <2>2, <2>3
<1>11. buf[h + 3] = bytes[rec + (h + 3)]
  <2>1. buf = SubSeq(bytes, rec + 1, rec + n)
    BY DEF Coming, rec
  <2>2. rec + n \in Nat /\ rec <= rec + n /\ rec + n <= Len(bytes) /\ (rec + n) - rec = n
    BY <1>2
  <2> DEFINE e == rec + n
  <2>3. e \in Nat /\ rec <= e /\ e <= Len(bytes) /\ e - rec = n /\ buf = SubSeq(bytes, rec + 1, e)
    BY <2>1, <2>2
  <2> HIDE DEF e
  <2>4. \A i \in 1..n : buf[i] = bytes[rec + i]
    BY <1>1, <1>2, <2>3, Stretch
  <2> QED BY <1>10, <2>4
<1> QED BY <1>7, <1>10, <1>11 DEF h

(* Handle keeps the player's numbers, whatever it does with what it has      *)
(* read.                                                                     *)
LEMMA HandleNumbers ==
    ASSUME Sent(stream), ReadingInv, NumbersInv, m_previous_status \in BOOLEAN,
           NEW n \in 1..MaxRecv, Relay!Handle(n), clean'
    PROVE  Numbers(Relay!UnitStarts, ServerNumbers, synced', m_previous_status', m_rtp_header',
                   since', due', link', got', CountBefore(received'),
                   CountBefore(Searched(received', prepend', position')))
<1> DEFINE U == Relay!UnitStarts
           buf == Coming(Relay!Bytes, received, n)
           r == Relay!Read(buf)
           more == Reported(received, r)
           a == Searched(received, prepend, Onward)
           c == Searched(received', prepend', position')
           p == Relay!Packets(received, received + n)
           num == ServerNumbers
<1>1. /\ received' = received + n
      /\ Arrives(Relay!Bytes, received, n)
      /\ position' = r.position /\ prepend' = r.prepend
  <2>1. buf = Coming(Relay!Bytes, received, n)
    OBVIOUS
  <2> HIDE DEF buf
  <2> QED BY <2>1, HandleIs
<1>2. /\ Reads(Relay!Bytes, U, received', position', prepend', synced', found')
      /\ r.begins # <<>> => synced' # -1
      /\ synced # -1 => synced' = synced
      /\ synced' \in {synced, received}
      /\ synced' \in U =>
             /\ ReadUpTo(Relay!Bytes, U, synced', received, Onward, prepend, found)
             /\ Among(U, a, c, more)
             /\ a <= c
             /\ Len(more) = Len(r.begins) /\ r.begins \in Seq(Int)
  <2>1. buf = Coming(Relay!Bytes, received, n)
    OBVIOUS
  <2> HIDE DEF buf
  <2>2. r = Relay!Read(buf)
    OBVIOUS
  <2> HIDE DEF r
  <2> QED BY <2>1, <2>2, HandleReads
<1>3. /\ link = "relay" /\ m_previous_status' \in BOOLEAN
      /\ clean' = (clean /\ (m_previous_status' # m_previous_status => prepend = <<>>)
                         /\ (synced' # synced => received \in U))
      /\ \/ /\ ~m_previous_status' /\ due' = due /\ link' = "send"
            /\ got' = got \o p
         \/ /\ m_previous_status' /\ m_previous_status
            /\ due' = Len(r.begins) /\ link' = IF due' = 0 THEN "relay" ELSE "write"
            /\ got' = got /\ m_rtp_header' = m_rtp_header /\ since' = since
         \/ /\ m_previous_status' /\ ~m_previous_status /\ r.begins # <<>>
            /\ due' = Len(r.begins) /\ link' = IF due' = 0 THEN "relay" ELSE "write"
            /\ got' = got /\ since' = Len(got) + 1
            /\ Head(r.begins) + 2 >= 0 =>
                   m_rtp_header' = (buf[Head(r.begins) + 2 + 1] - 1) % 256
  <2>1. buf = Coming(Relay!Bytes, received, n)
    OBVIOUS
  <2> HIDE DEF buf
  <2>2. r = Relay!Read(buf)
    OBVIOUS
  <2> HIDE DEF r
  <2> QED BY <2>1, <2>2, HandleSends
<1> HIDE DEF r, buf, more, a, c, p, U, num
<1>4. /\ clean /\ (m_previous_status' # m_previous_status => prepend = <<>>)
      /\ (synced' # synced => received \in U)
    BY <1>3
<1>5. Numbers(U, num, synced, m_previous_status, m_rtp_header, since, due, link, got,
              CountBefore(received), CountBefore(Searched(received, prepend, position)))
    BY <1>4 DEF NumbersInv, U, num
<1>6. /\ synced \in {-1} \cup U
      /\ got \in Seq(Packet) /\ Len(got) \in Nat /\ \A i \in 1..Len(got) : Fits(num, got[i], i)
      /\ due = 0
      /\ m_previous_status => /\ synced # -1 /\ Follows(num, m_rtp_header, since, Len(got))
                              /\ Len(got) = CountBefore(Searched(received, prepend, position))
      /\ ~m_previous_status => Len(got) = CountBefore(received)
  <2>1. got \in Seq(Packet) /\ due = 0 /\ Len(got) \in Nat
    BY <1>3, <1>5, LenProperties DEF Numbers
  <2> DEFINE x == CountBefore(Searched(received, prepend, position))
  <2>2. m_previous_status => Len(got) + 0 = x
    BY <1>5, <2>1 DEF Numbers
  <2> HIDE DEF x
  <2>3. m_previous_status => Len(got) = x
    BY <2>1, <2>2
  <2> QED BY <1>5, <2>1, <2>3, Zenon DEF Numbers, x
<1>7. synced' \in {-1} \cup U
    BY <1>2, <1>4, <1>6
<1>8. received \in Nat /\ (synced # -1 => position \in Nat /\ synced \in 0..received)
      /\ n \in Nat /\ n >= 1
    BY DEF ReadingInv, Reads
<1>9. synced # -1 => Onward = position /\ a = Searched(received, prepend, position)
    BY <1>8 DEF Onward, a
<1>a. synced' # -1 => Onward \in Nat
    BY <1>8 DEF Onward, ReadingInv, Reads
<1>10. ASSUME synced' # -1, prepend = <<>>
       PROVE  synced' <= received /\ CountBefore(a) = CountBefore(received)
  <2>1. synced' <= received
    BY <1>2, <1>8, <1>10
  <2> DEFINE syn == synced'
  <2>2. ReadUpTo(Relay!Bytes, Relay!UnitStarts, syn, received, Onward, prepend, found) /\ syn <= received
    BY <1>2, <1>7, <1>10, <2>1 DEF U
  <2> HIDE DEF syn
  <2> DEFINE on == Onward
  <2>a. on \in Nat
    BY <1>a, <1>10
  <2> HIDE DEF on
  <2>b. CountBefore(Searched(received, prepend, on)) = CountBefore(received)
    BY <1>8, <1>10, <2>2, <2>a, SearchedAll DEF on
  <2>3. CountBefore(Searched(received, prepend, Onward)) = CountBefore(received)
    BY <2>b DEF on
  <2> QED BY <2>1, <2>3 DEF a
<1>11. ASSUME synced' # -1
       PROVE  /\ a \in Nat /\ c \in Nat /\ a <= c
              /\ CountBefore(a) \in Nat /\ Len(r.begins) \in Nat
              /\ CountBefore(c) = CountBefore(a) + Len(r.begins)
  <2>1. synced' \in U
    BY <1>7, <1>11
  <2>2. ReadUpTo(Relay!Bytes, U, synced', received', position', prepend', found')
    BY <1>2, <2>1, Zenon DEF Reads
  <2>3. Good(Relay!Bytes, U, a) /\ Good(Relay!Bytes, U, c)
    BY <1>2, <2>1, <2>2, Zenon DEF ReadUpTo, a, c, Searched
  <2>4. Len(Relay!Bytes) \in Nat
    <3>1. Relay!Bytes \in Seq(Nat)
        BY StreamParts DEF Lies
    <3> QED BY <3>1, LenProperties
  <2>5. a \in Nat /\ c \in Nat /\ a <= c
    BY <1>2, <2>1, <2>3, <2>4 DEF Good
  <2>6. Among(Relay!UnitStarts, a, c, more)
    BY <1>2, <2>1 DEF U
  <2>7. /\ CountBefore(a) \in Nat /\ Len(more) \in Nat
        /\ CountBefore(c) = CountBefore(a) + Len(more)
    BY <2>5, <2>6, Counted
  <2> QED BY <1>2, <2>1, <2>5, <2>7
<1>12. CASE ~m_previous_status'
  <2>1. due' = 0 /\ link' = "send" /\ got' = got \o p
    BY <1>3, <1>6, <1>12
  <2>2. Len(got) = CountBefore(received)
    <3>1. CASE m_previous_status
      <4>1. prepend = <<>> /\ synced # -1 /\ synced' # -1
        BY <1>2, <1>3, <1>4, <1>6, <1>12, <3>1
      <4> QED BY <1>6, <1>9, <1>10, <3>1, <4>1
    <3>2. CASE ~m_previous_status
        BY <1>6, <3>2
    <3> QED BY <3>1, <3>2
  <2>3. /\ p \in Seq(Packet)
        /\ CountBefore(received + n) = CountBefore(received) + Len(p)
        /\ \A i \in 1..Len(p) : p[i] = [number |-> num[CountBefore(received) + i], since |-> 0]
    <3>1. received + n \in Nat /\ received <= received + n
        BY <1>8
    <3> DEFINE e == received + n
    <3>2. e \in Nat /\ received <= e
        BY <3>1
    <3> HIDE DEF e
    <3>3. LET q == Relay!Packets(received, e)
          IN  /\ q \in Seq(Packet)
              /\ CountBefore(e) = CountBefore(received) + Len(q)
              /\ \A i \in 1..Len(q) :
                     q[i] = [number |-> ServerNumbers[CountBefore(received) + i], since |-> 0]
        BY <1>8, <3>2, PacketsAre
    <3> QED BY <3>3, Zenon DEF e, p, num
  <2>4. \A i \in 1..Len(p) : Fits(num, p[i], Len(got) + i)
    <3> TAKE i \in 1..Len(p)
    <3>1. p[i] = [number |-> num[Len(got) + i], since |-> 0]
        BY <2>2, <2>3
    <3> QED BY <3>1 DEF Fits
  <2>5. /\ got' \in Seq(Packet) /\ Len(got') = Len(got) + Len(p)
        /\ \A i \in 1..Len(got') : Fits(num, got'[i], i)
    <3>1. /\ got \o p \in Seq(Packet) /\ Len(got \o p) = Len(got) + Len(p)
          /\ \A i \in 1..Len(got \o p) : Fits(num, (got \o p)[i], i)
        BY <1>6, <2>3, <2>4, SeriesGoesOn
    <3> QED BY <2>1, <3>1
  <2>6. Len(got') = CountBefore(received')
    BY <1>1, <2>2, <2>3, <2>5
  <2> QED BY <1>7, <1>12, <2>1, <2>5, <2>6 DEF Numbers, U, num
<1>13. CASE m_previous_status'
  <2>1. /\ due' = Len(r.begins) /\ (link' = "write" <=> due' # 0) /\ got' = got
    BY <1>3, <1>13
  <2>2. synced' # -1
    BY <1>2, <1>3, <1>6, <1>13
  <2>3. Len(got) = CountBefore(a) /\ Follows(num, m_rtp_header', since', Len(got))
    <3>1. CASE m_previous_status
        BY <1>3, <1>6, <1>9, <1>13, <3>1
    <3>2. CASE ~m_previous_status
      <4>1. prepend = <<>> /\ Len(got) = CountBefore(received)
        BY <1>3, <1>4, <1>6, <1>13, <3>2
      <4>2. synced' <= received /\ CountBefore(a) = CountBefore(received)
        BY <1>10, <2>2, <4>1
      <4>3. /\ Head(r.begins) + 2 >= 0
            /\ buf[Head(r.begins) + 2 + 1] = num[CountBefore(a) + 1]
            /\ num[CountBefore(a) + 1] \in Nat
        <5> DEFINE syn == synced' rec2 == received' pre2 == prepend' on2 == position' fnd2 == found'
                   on == Onward
        <5>1. ReadUpTo(Relay!Bytes, Relay!UnitStarts, syn, received, on, prepend, found)
              /\ syn <= received /\ on \in Nat
            BY <1>2, <1>7, <1>a, <2>2, <4>2 DEF U
        <5>2. ReadUpTo(Relay!Bytes, Relay!UnitStarts, syn, received + n, on2, pre2, fnd2)
            BY <1>1, <1>2, <1>7, <2>2, Zenon DEF Reads, U
        <5>3. a = Searched(received, prepend, on) /\ c = Searched(received + n, pre2, on2) /\ a <= c
            BY <1>1, <1>11, <2>2 DEF a, c
        <5>4. r.begins \in Seq(Int) /\ r.begins # <<>>
              /\ Among(Relay!UnitStarts, a, c, Reported(received, r))
              /\ Len(Reported(received, r)) = Len(r.begins)
            BY <1>2, <1>3, <1>7, <1>13, <2>2, <3>2 DEF more, U
        <5>5. buf = Coming(Relay!Bytes, received, n)
            BY DEF buf
        <5> HIDE DEF syn, rec2, pre2, on2, fnd2, on
        <5> QED BY <1>1, <4>1, <5>1, <5>2, <5>3, <5>4, <5>5, FirstFound DEF num
      <4>4. m_rtp_header' = (buf[Head(r.begins) + 2 + 1] - 1) % 256 /\ since' = Len(got) + 1
        BY <1>3, <1>13, <3>2, <4>3
      <4> DEFINE x == buf[Head(r.begins) + 2 + 1] k == Len(got) begun == k + 1
      <4>5. x = num[begun] /\ num[begun] \in Nat /\ k \in Nat /\ begun = k + 1
            /\ m_rtp_header' = (x - 1) % 256 /\ since' = begun
        BY <1>6, <4>1, <4>2, <4>3, <4>4
      <4> HIDE DEF x, k, begun
      <4>6. begun \in 1..(k + 1)
        BY <4>5
      <4>7. Follows(num, m_rtp_header', since', k)
        BY <4>5, <4>6, FollowsOn
      <4> QED BY <4>1, <4>2, <4>7 DEF k
    <3> QED BY <3>1, <3>2
  <2>4. due' \in Nat /\ Len(got') + due' = CountBefore(c)
    BY <1>11, <2>1, <2>2, <2>3
  <2> QED BY <1>6, <1>7, <1>13, <2>1, <2>2, <2>3, <2>4 DEF Numbers, U, c, num
<1> QED BY <1>3, <1>12, <1>13

(* Before the player's thread reads, nothing has been read, found or sent.   *)
IdleInv ==
    link \in {"none", "connect"} =>
        received = 0 /\ synced = -1 /\ got = <<>> /\ ~m_previous_status /\ due = 0

RelayInv ==
    /\ Sent(stream) /\ m_previous_status \in BOOLEAN
    /\ IdleInv /\ ReadingInv /\ NumbersInv

NothingRead ==
    /\ Sent(stream) /\ link # "write"
    /\ received = 0 /\ position = -1 /\ prepend = <<>> /\ synced = -1 /\ found = <<>>
    /\ got = <<>> /\ m_previous_status = FALSE /\ due = 0

(* So it is when the thread begins.                                          *)
LEMMA NothingReadIs == NothingRead => RelayInv
<1> SUFFICES ASSUME NothingRead PROVE RelayInv
    OBVIOUS
<1>1. Framed(Relay!Bytes, Relay!UnitStarts) /\ Ordered(Units, Starts, Len(stream))
    BY StreamParts, StreamOrder DEF NothingRead
<1> DEFINE U == Relay!UnitStarts
<1>2. -1 \notin U
  <2>1. Framed(Relay!Bytes, U)
    BY <1>1
  <2> HIDE DEF U
  <2> QED BY <2>1 DEF Framed
<1> HIDE DEF U
<1>3. ReadingInv
  <2>1. Reads(Relay!Bytes, U, received, position, prepend, synced, found)
    BY <1>2 DEF NothingRead, Reads
  <2> QED BY <2>1 DEF ReadingInv, U
<1>4. CountBefore(received) = 0
  <2>1. \A k \in Units : Starts[k] \in Nat
    BY <1>1 DEF Ordered
  <2>2. received = 0
    BY DEF NothingRead
  <2>3. Below(Units, Starts, received) = {}
    BY <2>1, <2>2 DEF Below
  <2> QED BY <2>3, FS_EmptySet DEF CountBefore
<1>5. NumbersInv
  <2> DEFINE none == <<>>
  <2>1. none \in Seq(Packet) /\ Len(none) = 0 /\ 1..Len(none) = {}
    OBVIOUS
  <2>2. got = none
    BY DEF NothingRead
  <2> HIDE DEF none
  <2>3. got \in Seq(Packet) /\ Len(got) = 0 /\ \A i \in 1..Len(got) : Fits(ServerNumbers, got[i], i)
    BY <2>1, <2>2
  <2> QED BY <1>4, <2>3 DEF NumbersInv, Numbers, NothingRead
<1> QED BY <1>3, <1>5 DEF NothingRead, RelayInv, IdleInv

relayParts == <<stream, received, position, prepend, m_previous_status, m_rtp_header, due,
                synced, found, got, since, clean>>

(* The thread is not elsewhere, or goes into a send or out of it.            *)
SamePlace == /\ link' = "write" <=> link = "write"
             /\ link' \in {"none", "connect"} => link \in {"none", "connect"}

(* A step that leaves the reader and the numbers alone keeps the invariant.  *)
LEMMA SameParts == RelayInv /\ UNCHANGED relayParts /\ SamePlace => RelayInv'
<1> SUFFICES ASSUME RelayInv, UNCHANGED relayParts, SamePlace PROVE RelayInv'
    OBVIOUS
<1>1. stream' = stream
    BY DEF relayParts
<1> QED BY <1>1, SameStream
    DEF relayParts, SamePlace, RelayInv, IdleInv, ReadingInv, NumbersInv, Numbers, Reads,
        CountBefore, Below, Searched

(* While the thread has not read, it is as it began.                         *)
LEMMA IdleIs ==
    ASSUME RelayInv, link \in {"none", "connect"}
    PROVE  /\ received = 0 /\ position = -1 /\ prepend = <<>> /\ synced = -1 /\ found = <<>>
           /\ got = <<>> /\ m_previous_status = FALSE /\ due = 0
<1>1. received = 0 /\ synced = -1 /\ got = <<>> /\ ~m_previous_status /\ due = 0
    BY DEF RelayInv, IdleInv
<1>2. position = -1 /\ prepend = <<>> /\ found = <<>>
    BY <1>1 DEF RelayInv, ReadingInv, Reads
<1> QED BY <1>1, <1>2 DEF RelayInv

(* A packet of the file takes the next number.                               *)
LEMMA WriteNumbers ==
    ASSUME RelayInv, Relay!WriteRtpPacket
    PROVE  RelayInv'
<1>1. /\ stream' = stream /\ received' = received /\ position' = position /\ prepend' = prepend
      /\ m_previous_status' = m_previous_status /\ synced' = synced /\ found' = found
      /\ clean' = clean /\ link = "write"
      /\ m_rtp_header' = (m_rtp_header + 1) % 256 /\ since' = since
      /\ got' = Append(got, [number |-> (m_rtp_header + 1) % 256, since |-> since])
      /\ due' = due - 1 /\ link' = IF due' = 0 THEN "relay" ELSE "write"
    BY DEF Relay!WriteRtpPacket, Relay!Wrap, Relay!reader
<1>2. /\ Relay!Bytes' = Relay!Bytes /\ Relay!UnitStarts' = Relay!UnitStarts
      /\ Units' = Units /\ Starts' = Starts /\ Sent(stream)' /\ ServerNumbers' = ServerNumbers
    BY <1>1, SameStream DEF RelayInv
<1>3. ReadingInv' /\ IdleInv' /\ m_previous_status' \in BOOLEAN
    BY <1>1, <1>2 DEF RelayInv, ReadingInv, Reads, IdleInv
<1>4. ASSUME clean
      PROVE  Numbers(Relay!UnitStarts, ServerNumbers, synced, m_previous_status, m_rtp_header',
                     since, due', link', got', CountBefore(received),
                     CountBefore(Searched(received, prepend, position)))
  <2> DEFINE U == Relay!UnitStarts x == CountBefore(received) num == ServerNumbers
             y == CountBefore(Searched(received, prepend, position)) m == Len(got)
             number == (m_rtp_header + 1) % 256
             next == [number |-> number, since |-> since]
  <2>1. Numbers(U, num, synced, m_previous_status, m_rtp_header, since, due, link, got, x, y)
    BY <1>4 DEF RelayInv, NumbersInv
  <2> HIDE DEF U, x, y, num
  <2>2. /\ synced \in {-1} \cup U
        /\ got \in Seq(Packet) /\ \A i \in 1..Len(got) : Fits(num, got[i], i)
        /\ due \in Nat /\ due # 0
        /\ m_previous_status /\ synced # -1 /\ m + due = y
        /\ Follows(num, m_rtp_header, since, m)
    BY <1>1, <2>1 DEF Numbers
  <2>3. m \in Nat
    BY <2>2, LenProperties
  <2> HIDE DEF m
  <2>4. since \in 1..(m + 1) /\ num[since] \in Nat /\ since \in Nat
    BY <2>2, <2>3 DEF Follows
  <2>5. number \in Nat /\ Follows(num, number, since, m + 1) /\ Fits(num, next, m + 1)
    BY <2>2, <2>3, <2>4, FollowsOn
  <2>6. m_rtp_header' = number /\ got' = Append(got, next)
    BY <1>1
  <2> HIDE DEF number
  <2>7. next \in Packet
    BY <2>4, <2>5 DEF Packet
  <2> HIDE DEF next
  <2>8. /\ got' \in Seq(Packet) /\ Len(got') = m + 1 /\ got'[m + 1] = next
        /\ \A i \in 1..m : got'[i] = got[i]
    BY <2>2, <2>6, <2>7, AppendProperties DEF m
  <2>9. \A i \in 1..Len(got') : Fits(num, got'[i], i)
    <3> TAKE i \in 1..Len(got')
    <3>1. i = m + 1 \/ i \in 1..m
        BY <2>3, <2>8
    <3> QED BY <2>2, <2>5, <2>8, <3>1 DEF m
  <2>10. due' \in Nat /\ (m + 1) + due' = y /\ (link' = "write" <=> due' # 0)
    BY <1>1, <2>2, <2>3
  <2>11. Len(got') + due' = y /\ Follows(num, m_rtp_header', since, Len(got'))
    BY <2>5, <2>6, <2>8, <2>10
  <2>12. Numbers(U, num, synced, m_previous_status, m_rtp_header', since, due', link', got', x, y)
    BY <2>2, <2>8, <2>9, <2>10, <2>11 DEF Numbers
  <2> QED BY <2>12 DEF U, x, y, num
<1>5. NumbersInv'
    BY <1>1, <1>2, <1>4 DEF NumbersInv, Numbers, CountBefore, Below, Searched
<1> QED BY <1>2, <1>3, <1>5 DEF RelayInv

(* receive_data and Inceptor::handle keep the invariant.                     *)
LEMMA HandleKeeps ==
    ASSUME RelayInv, NEW n \in 1..MaxRecv, Relay!Handle(n)
    PROVE  RelayInv'
<1> DEFINE buf == Coming(Relay!Bytes, received, n) r == Relay!Read(buf)
<1>1. stream' = stream
    BY Zenon DEF Relay!Handle
<1>2. /\ Relay!Bytes' = Relay!Bytes /\ Relay!UnitStarts' = Relay!UnitStarts
      /\ Units' = Units /\ Starts' = Starts /\ Sent(stream)' /\ ServerNumbers' = ServerNumbers
    BY <1>1, SameStream DEF RelayInv
<1>3. /\ Reads(Relay!Bytes, Relay!UnitStarts, received', position', prepend', synced', found')
      /\ m_previous_status' \in BOOLEAN
      /\ link' \in {"relay", "send", "write"}
  <2>1. buf = Coming(Relay!Bytes, received, n) /\ Sent(stream) /\ ReadingInv /\ m_previous_status \in BOOLEAN
    BY DEF RelayInv
  <2> HIDE DEF buf
  <2>2. r = Relay!Read(buf)
    OBVIOUS
  <2> HIDE DEF r
  <2>3. Reads(Relay!Bytes, Relay!UnitStarts, received', position', prepend', synced', found')
    BY <2>1, <2>2, HandleReads
  <2>4. m_previous_status' \in BOOLEAN
    BY <2>1, <2>2, HandleSends
  <2>5. link' \in {"relay", "send", "write"}
    <3>1. \/ link' = "send"
          \/ link' = IF due' = 0 THEN "relay" ELSE "write"
        BY <2>1, <2>2, HandleSends
    <3> QED BY <3>1
  <2> QED BY <2>3, <2>4, <2>5
<1> HIDE DEF buf, r
<1>4. ReadingInv' /\ IdleInv'
    BY <1>2, <1>3 DEF ReadingInv, Reads, IdleInv
<1>5. ASSUME clean'
      PROVE  Numbers(Relay!UnitStarts, ServerNumbers, synced', m_previous_status', m_rtp_header',
                     since', due', link', got', CountBefore(received'),
                     CountBefore(Searched(received', prepend', position')))
    BY <1>5, HandleNumbers DEF RelayInv
<1>6. NumbersInv'
    BY <1>2, <1>5 DEF NumbersInv, Numbers, CountBefore, Below, Searched
<1> QED BY <1>2, <1>3, <1>4, <1>6 DEF RelayInv

(* The invariant holds at first, when nothing has been read.                 *)
LEMMA InitRelay == Relay!Init => RelayInv
<1> SUFFICES ASSUME Relay!Init PROVE RelayInv
    OBVIOUS
<1>1. Sent(stream)
    BY NothingSent DEF Relay!Init
<1>2. NothingRead
    BY <1>1 DEF Relay!Init, NothingRead
<1> QED BY <1>2, NothingReadIs

(* Every step of the relay, of the player and of the server keeps the        *)
(* invariant.                                                                *)
LEMMA NextRelay == RelayInv /\ [Relay!Next]_Relay!vars => RelayInv'
<1> SUFFICES ASSUME RelayInv, [Relay!Next]_Relay!vars
             PROVE  RelayInv'
    OBVIOUS
<1>1. NothingRead' => RelayInv'
    BY NothingReadIs, PTL
<1>2. ASSUME Relay!CloseBoth PROVE RelayInv'
  <2>1. stream' = <<>>
    BY <1>2 DEF Relay!CloseBoth
  <2>2. Sent(stream')
    BY <2>1, NothingSent
  <2>3. Sent(stream)'
    BY <2>2 DEF Sent
  <2>4. NothingRead'
    BY <1>2, <2>3 DEF NothingRead, Relay!CloseBoth
  <2> QED BY <1>1, <2>4
<1>3. CASE Relay!AcceptConnection
  <2>1. link \in {"none", "connect"}
    BY <1>3 DEF Relay!AcceptConnection
  <2>2. Sent(stream)'
    BY <1>3, SameStream DEF Relay!AcceptConnection, RelayInv
  <2>3. NothingRead'
    BY <1>3, <2>1, <2>2, IdleIs
    DEF NothingRead, Relay!AcceptConnection, Relay!reader, Relay!inceptor, Relay!history
  <2> QED BY <1>1, <2>3
<1>4. CASE Relay!ConnectServer
  <2>1. link \in {"none", "connect"} /\ stream' \in Streams
    BY <1>4 DEF Relay!ConnectServer
  <2>2. Sent(stream')
    BY <2>1, StreamSent
  <2>3. Sent(stream)'
    BY <2>2 DEF Sent
  <2>4. NothingRead'
    BY <1>4, <2>1, <2>3, IdleIs
    DEF NothingRead, Relay!ConnectServer, Relay!reader, Relay!inceptor, Relay!history
  <2> QED BY <1>1, <2>4
<1>5. CASE Relay!ConnectFails \/ Relay!SendFails \/ Relay!ForwardFails \/ Relay!Ends
    BY <1>2, <1>5 DEF Relay!ConnectFails, Relay!SendFails, Relay!ForwardFails, Relay!Ends
<1>6. CASE \E n \in 1..MaxRecv : Relay!Handle(n)
    BY <1>6, HandleKeeps
<1>7. CASE Relay!WriteRtpPacket
    BY <1>7, WriteNumbers
<1>8. CASE UNCHANGED relayParts /\ SamePlace
    BY <1>8, SameParts
<1>9. ASSUME Relay!SendReturns \/ Relay!ForwardReturns \/ Relay!Redirect
      PROVE  UNCHANGED relayParts /\ SamePlace
    BY <1>9
    DEF Relay!SendReturns, Relay!ForwardReturns, Relay!Redirect, relayParts, SamePlace,
        Relay!reader, Relay!inceptor, Relay!history
<1>10. CASE Relay!Relay
    BY <1>4, <1>5, <1>6, <1>7, <1>8, <1>9, <1>10 DEF Relay!Relay
<1>11. CASE Relay!Taken
    BY <1>7, <1>8, <1>9, <1>11 DEF Relay!Taken
<1>12. ASSUME NEW c, Relay!Command(c) PROVE UNCHANGED relayParts /\ SamePlace
    BY <1>12 DEF Relay!Command, relayParts, SamePlace, Relay!reader, Relay!inceptor, Relay!history
<1>13. ASSUME Relay!PlayerCloses \/ Relay!ServerCloses PROVE UNCHANGED relayParts /\ SamePlace
    BY <1>13
    DEF Relay!PlayerCloses, Relay!ServerCloses, relayParts, SamePlace, Relay!reader,
        Relay!inceptor, Relay!history
<1>14. ASSUME UNCHANGED Relay!vars PROVE UNCHANGED relayParts /\ SamePlace
    BY <1>14 DEF Relay!vars, relayParts, SamePlace, Relay!reader, Relay!inceptor, Relay!history
<1> QED BY <1>3, <1>8, <1>9, <1>10, <1>11, <1>12, <1>13, <1>14 DEF Relay!Next

(* However recv cuts what the server sends, and whatever text without a '$'  *)
(* stands between the packets: once it has begun at a packet, RTSPReader     *)
(* finds each packet whose header has come, once, in order and where it is,  *)
(* and prepend_buf is never too small (proxy.cpp:444-513, 536).              *)
THEOREM UnitsAreFound == Relay!Spec => []UnitsFoundOnce
<1>1. RelayInv => UnitsFoundOnce
  <2> SUFFICES ASSUME RelayInv, synced \in Relay!UnitStarts
               PROVE  /\ Relay!ToSet(found) = {u \in Relay!UnitStarts : u >= synced /\ u + MAGIC_SIZE < received}
                      /\ \A i \in 1..(Len(found) - 1) : found[i] < found[i + 1]
                      /\ Len(prepend) <= MAGIC_SIZE
    BY DEF UnitsFoundOnce, Relay!UnitsFoundOnce
  <2> DEFINE U == Relay!UnitStarts a == Searched(received, prepend, position)
  <2>1. Framed(Relay!Bytes, U)
    BY StreamParts DEF RelayInv
  <2>2. ReadUpTo(Relay!Bytes, U, synced, received, position, prepend, found)
    BY Zenon DEF RelayInv, ReadingInv, Reads
  <2>3. Among(U, synced, a, found) /\ Len(prepend) <= MAGIC_SIZE /\ Good(Relay!Bytes, U, a)
        /\ synced \in Nat /\ \A u \in U : synced <= u => (u < a <=> u + MAGIC_SIZE < received)
    BY <2>2, Zenon DEF ReadUpTo, Searched
  <2> HIDE DEF U, a
  <2>4. found \in Seq(Nat) /\ DOMAIN found = 1..Len(found)
    BY <2>3, LenProperties DEF Among
  <2>5. U \subseteq Nat
    BY <2>1 DEF Framed
  <2>6. \A u \in U : u >= synced /\ u + MAGIC_SIZE < received <=> synced <= u /\ u < a
    BY <2>3, <2>5
  <2>7. \A x : x \in Relay!ToSet(found) <=> \E i \in 1..Len(found) : found[i] = x
    BY <2>4 DEF Relay!ToSet
  <2>8. \A x : (\E i \in 1..Len(found) : found[i] = x) <=> x \in U /\ synced <= x /\ x < a
    BY <2>3 DEF Among
  <2>9. Relay!ToSet(found) = {u \in U : u >= synced /\ u + MAGIC_SIZE < received}
    BY <2>6, <2>7, <2>8
  <2>10. \A i \in 1..(Len(found) - 1) : found[i] < found[i + 1]
    BY <2>3 DEF Among
  <2> QED BY <2>3, <2>9, <2>10 DEF U
<1> QED BY <1>1, InitRelay, NextRelay, PTL DEF Relay!Spec

(* For packets with any numbers on any channel, any text between them and    *)
(* any file, and for any switching of g_inception but while a part of a      *)
(* header is held back: the player gets one packet for each of the server's, *)
(* in its place, the server's own or one of the file, whose number is that   *)
(* of the first packet replaced, counted on (proxy.cpp:569-585).             *)
THEOREM NumbersRun == Relay!Spec => []NumbersRunOn
<1>1. RelayInv => NumbersRunOn
  <2> SUFFICES ASSUME RelayInv, clean, NEW i \in DOMAIN got
               PROVE  IF got[i].since = 0 THEN got[i].number = Relay!Number(i)
                      ELSE got[i].since <= i /\ got[i].number
                               = Relay!Wrap(Relay!Number(got[i].since) + (i - got[i].since))
    BY Zenon DEF NumbersRunOn, Relay!NumbersRunOn
  <2>1. got \in Seq(Packet) /\ \A k \in 1..Len(got) : Fits(ServerNumbers, got[k], k)
    BY DEF RelayInv, NumbersInv, Numbers
  <2>2. i \in 1..Len(got) /\ i \in Nat
    BY <2>1, LenProperties
  <2>a. got[i] \in Packet
    BY <2>1, <2>2, ElementOfSeq
  <2>3. got[i].since \in Nat
    BY <2>a DEF Packet
  <2>4. Fits(ServerNumbers, got[i], i)
    BY <2>1, <2>2
  <2>5. \A k \in Nat : ServerNumbers[k] = Relay!Number(k)
    BY DEF ServerNumbers
  <2> QED BY <2>2, <2>3, <2>4, <2>5, Zenon DEF Fits, Relay!Wrap
<1> QED BY <1>1, InitRelay, NextRelay, PTL DEF Relay!Spec
=============================================================================
