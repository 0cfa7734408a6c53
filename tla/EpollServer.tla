----------------------------- MODULE EpollServer -----------------------------
(* webrtc/basic/async/tcp_server_epoll.cpp: an echo server around epoll, with *)
(* a level-triggered listening socket and edge-triggered clients.  One step   *)
(* per system call of the server; peers act between any two.                  *)
(*                                                                            *)
(* set_fd_noblock sets O_NONBLOCK with F_SETFD, which takes only the flags of *)
(* the descriptor and not those of the file: all sockets stay blocking.       *)
EXTENDS Integers, FiniteSets, Sequences, SequencesExt

CONSTANTS
    Fds,            \* descriptors that accept may return
    MaxEvents,      \* MAX_EVENTS
    Chunk,          \* how much one recv takes: MESSAGE_SIZE
    MaxRx,          \* bound: what the receive buffer of a socket holds
    MaxTx,          \* bound: replies that the send buffer of a socket holds
    Backlog         \* connections that wait for accept

\* What its constants may be.
EpollAssumption ==
    /\ Fds \subseteq Nat /\ IsFiniteSet(Fds)
    /\ {MaxEvents, Chunk, MaxRx, MaxTx} \subseteq Nat \ {0}
    /\ Backlog \in Nat

Listener == -1      \* the listening socket
ListenerAssumption == Listener \notin Fds

VARIABLES
    life,           \* of a descriptor: "free", "open", "fin": the peer has sent
                    \* its last byte, "rst": the peer has reset the connection,
                    \* "broken": reset after fin, or a reset already reported
    rx,             \* what the server has not read
    tx,             \* replies the peer has not read
    backlog,        \* connections that wait for accept
    watched,        \* the descriptors in the epoll set, besides the listener
    ready,          \* epoll's ready list
    batch,          \* ioSet.events from i on
    cur,            \* the client at hand
    client_num,
    pc,             \* the server's next call
    polite          \* whether the peers of this behaviour send at most a chunk
                    \* and read the reply to it before they send, end or reset
vars == <<life, rx, tx, backlog, watched, ready, batch, cur, client_num, pc, polite>>
server_vars == <<batch, cur, client_num, pc, watched>>

Init ==
    /\ life = [f \in Fds |-> "free"]
    /\ rx = [f \in Fds |-> 0]
    /\ tx = [f \in Fds |-> 0]
    /\ backlog = 0
    /\ watched = {}
    /\ ready = <<>>
    /\ batch = <<>>
    /\ cur = Listener
    /\ client_num = 0
    /\ pc = "epoll_wait"
    /\ polite \in BOOLEAN

-----------------------------------------------------------------------------
(* The kernel                                                                 *)

Open == {f \in Fds : life[f] # "free"}

Readable(f) ==
    IF f = Listener THEN backlog > 0
                    ELSE life[f] # "free" /\ (rx[f] > 0 \/ life[f] # "open")

\* An event wakes epoll for a descriptor it watches.
Wake(f) == IF f \in watched \cup {Listener} /\ ~Contains(ready, f)
           THEN Append(ready, f) ELSE ready

\* What is left of list s when only the members of S stay: one sequence, the list
\* having no descriptor twice.
Kept(s, S) ==
    {t \in SeqOf(ToSet(s), Len(s)) :
        /\ IsInjective(t) /\ ToSet(t) = ToSet(s) \cap S
        /\ \A i, j \in DOMAIN t : i < j =>
               \E k, l \in DOMAIN s : k < l /\ s[k] = t[i] /\ s[l] = t[j]}

LowestFd(f) == life[f] = "free" /\ \A g \in Fds : g < f => life[g] # "free"

-----------------------------------------------------------------------------
(* The server                                                                 *)

\* The first MAX_EVENTS of the ready list that still have something; the listener
\* goes back to the end of the list, a client does not.  A timeout changes nothing.
epoll_wait ==
    /\ pc = "epoll_wait"
    /\ \E now \in Kept(ready, {f \in ToSet(ready) : Readable(f)}) :
           LET k     == IF Len(now) < MaxEvents THEN Len(now) ELSE MaxEvents
               taken == SubSeq(now, 1, k)
               rest  == SubSeq(now, k + 1, Len(now))
           IN  /\ now # <<>>
               /\ batch' = taken
               /\ ready' = IF Contains(taken, Listener) THEN Append(rest, Listener) ELSE rest
    /\ pc' = "next"
    /\ UNCHANGED <<life, rx, tx, backlog, watched, cur, client_num>>

NextEvent ==
    /\ pc = "next"
    /\ IF batch = <<>>
       THEN pc' = "epoll_wait" /\ UNCHANGED <<batch, cur>>
       ELSE /\ cur' = Head(batch)
            /\ batch' = Tail(batch)
            /\ pc' = IF Head(batch) = Listener THEN "accept" ELSE "recv"
    /\ UNCHANGED <<life, rx, tx, backlog, watched, ready, client_num>>

Accept ==
    /\ pc = "accept"
    /\ backlog > 0
    /\ \E f \in Fds : LowestFd(f) /\ cur' = f /\ life' = [life EXCEPT ![f] = "open"]
    /\ backlog' = backlog - 1
    /\ pc' = "add"
    /\ UNCHANGED <<rx, tx, watched, ready, batch, client_num>>

\* No descriptor is left: -1 goes through set_fd_noblock, add_client and close,
\* which all refuse it.
AcceptFails ==
    /\ pc = "accept"
    /\ Fds = Open
    /\ pc' = "next"
    /\ UNCHANGED <<life, rx, tx, backlog, watched, ready, batch, cur, client_num>>

\* Mutant of add_client: accept is called again, as if it could not block.
add_client_again ==
    /\ pc = "add"
    /\ watched' = watched \cup {cur}
    /\ ready' = IF Readable(cur) THEN Append(ready, cur) ELSE ready
    /\ client_num' = client_num + 1
    /\ cur' = Listener
    /\ pc' = "accept"
    /\ UNCHANGED <<life, rx, tx, backlog, batch>>

\* EPOLL_CTL_ADD reports at once what has already come.
add_client ==
    /\ pc = "add"
    /\ watched' = watched \cup {cur}
    /\ ready' = IF Readable(cur) THEN Append(ready, cur) ELSE ready
    /\ client_num' = client_num + 1
    /\ pc' = "next"
    /\ UNCHANGED <<life, rx, tx, backlog, batch, cur>>

Closed(f) ==
    /\ life' = [life EXCEPT ![f] = "free"]
    /\ rx' = [rx EXCEPT ![f] = 0]
    /\ tx' = [tx EXCEPT ![f] = 0]
    /\ ready' \in Kept(ready, ToSet(ready) \ {f})

\* add_client fails, and main closes the descriptor.
RefuseClient ==
    /\ pc = "add"
    /\ Closed(cur)
    /\ pc' = "next"
    /\ UNCHANGED <<backlog, watched, batch, cur, client_num>>

\* echo: one recv of at most a chunk, however much there is.
Recv ==
    /\ pc = "recv"
    /\ Readable(cur)
    /\ rx[cur] > 0
    /\ rx' = [rx EXCEPT ![cur] = IF @ > Chunk THEN @ - Chunk ELSE 0]
    /\ pc' = "send"
    /\ UNCHANGED <<life, tx, backlog, watched, ready, batch, cur, client_num>>

\* Mutant of RecvEnds: an error is taken for a spurious event.
RecvEndsOnEofOnly ==
    /\ pc = "recv"
    /\ Readable(cur)
    /\ rx[cur] = 0
    /\ pc' = IF life[cur] = "rst" THEN "next" ELSE "epoll_ctl_del"
    /\ UNCHANGED <<life, rx, tx, backlog, watched, ready, batch, cur, client_num>>

\* recv returns 0, or an error that is neither EINTR nor EAGAIN.
RecvEnds ==
    /\ pc = "recv"
    /\ Readable(cur)
    /\ rx[cur] = 0
    /\ pc' = "epoll_ctl_del"
    /\ UNCHANGED <<life, rx, tx, backlog, watched, ready, batch, cur, client_num>>

\* echo: send, whose result is not looked at, waits for room in the buffer.
Send ==
    /\ pc = "send"
    /\ life[cur] \in {"open", "fin"}
    /\ tx[cur] < MaxTx
    /\ tx' = [tx EXCEPT ![cur] = @ + 1]
    /\ pc' = "next"
    /\ UNCHANGED <<life, rx, backlog, watched, ready, batch, cur, client_num>>

\* The reset is reported to this send and to no later call.
SendRefused ==
    /\ pc = "send"
    /\ life[cur] = "rst"
    /\ life' = [life EXCEPT ![cur] = "broken"]
    /\ pc' = "next"
    /\ UNCHANGED <<rx, tx, backlog, watched, ready, batch, cur, client_num>>

\* SIGPIPE, for which the server has no handler.
SendKills ==
    /\ pc = "send"
    /\ life[cur] = "broken"
    /\ pc' = "killed"
    /\ UNCHANGED <<life, rx, tx, backlog, watched, ready, batch, cur, client_num>>

\* remove_client: EPOLL_CTL_DEL, or exit(1).
EpollDel ==
    /\ pc = "epoll_ctl_del"
    /\ IF cur \in watched
       THEN pc' = "close" /\ watched' = watched \ {cur}
       ELSE pc' = "exited" /\ UNCHANGED watched
    /\ UNCHANGED <<life, rx, tx, backlog, ready, batch, cur, client_num>>

\* remove_client: close and client_num--.
Close ==
    /\ pc = "close"
    /\ Closed(cur)
    /\ client_num' = client_num - 1
    /\ pc' = "next"
    /\ UNCHANGED <<backlog, watched, batch, cur>>

ServerStep ==
    /\ \/ epoll_wait \/ NextEvent
       \/ Accept \/ AcceptFails \/ add_client \/ RefuseClient
       \/ Recv \/ RecvEnds \/ Send \/ SendRefused \/ SendKills
       \/ EpollDel \/ Close
    /\ UNCHANGED polite

-----------------------------------------------------------------------------
(* The peers                                                                  *)

Running == pc \notin {"killed", "exited"}

PeerConnects ==
    /\ Running
    /\ backlog < Backlog
    /\ backlog' = backlog + 1
    /\ ready' = Wake(Listener)
    /\ UNCHANGED <<life, rx, tx, server_vars>>

\* Every byte the peer sent has been answered and the answer read.
Answered(f) == rx[f] = 0 /\ tx[f] = 0 /\ ~(cur = f /\ pc = "send")

PeerSends(f, n) ==
    /\ Running
    /\ life[f] = "open"
    /\ rx[f] + n <= MaxRx
    /\ polite => Answered(f) /\ n <= Chunk
    /\ rx' = [rx EXCEPT ![f] = @ + n]
    /\ ready' = Wake(f)
    /\ UNCHANGED <<life, tx, backlog, server_vars>>

PeerReads(f) ==
    /\ Running
    /\ tx[f] > 0
    /\ tx' = [tx EXCEPT ![f] = @ - 1]
    /\ UNCHANGED <<life, rx, backlog, ready, server_vars>>

PeerEnds(f) ==
    /\ Running
    /\ life[f] = "open"
    /\ polite => Answered(f)
    /\ life' = [life EXCEPT ![f] = "fin"]
    /\ ready' = Wake(f)
    /\ UNCHANGED <<rx, tx, backlog, server_vars>>

PeerResets(f) ==
    /\ Running
    /\ life[f] \in {"open", "fin"}
    /\ polite => Answered(f)
    /\ life' = [life EXCEPT ![f] = IF @ = "open" THEN "rst" ELSE "broken"]
    /\ tx' = [tx EXCEPT ![f] = 0]
    /\ ready' = Wake(f)
    /\ UNCHANGED <<rx, backlog, server_vars>>

PeerStep ==
    /\ \/ PeerConnects
       \/ \E f \in Fds :
            \/ \E n \in 1..MaxRx : PeerSends(f, n)
            \/ PeerReads(f) \/ PeerEnds(f) \/ PeerResets(f)
    /\ UNCHANGED polite

Next == ServerStep \/ PeerStep

Spec == Init /\ [][Next]_vars

\* The server goes on when its call can return; peers need do nothing.
FairSpec == Spec /\ WF_vars(ServerStep)

-----------------------------------------------------------------------------
(* Properties                                                                 *)

(* No event is stale when its turn comes, although clients handled earlier in *)
(* the same batch are closed and their descriptors may be accepted again: the *)
(* clients of the rest of the batch are watched, each at most once, and there *)
(* is something to read or to accept, so that the blocking calls return.      *)
EventsAreCurrent ==
    Running =>
        LET rest == batch \o (IF pc \in {"accept", "recv"} THEN <<cur>> ELSE <<>>)
        IN  /\ IsInjective(rest)
            /\ \A f \in ToSet(rest) \ {Listener} : f \in watched /\ Readable(f)
            /\ Listener \in ToSet(rest) => backlog > 0

(* With peers that send at most what one read takes, and wait for the reply,  *)
(* everyone who leaves is removed, in whatever order the requests and ends of *)
(* several clients come: no edge is spent without its data being read         *)
(* (tcp_server_epoll.cpp:208-214).                                            *)
LeaversRemoved ==
    \A f \in Fds : polite /\ life[f] \in {"fin", "rst", "broken"} ~> life[f] = "free"

=============================================================================
