----------------------------- MODULE SelectServer -----------------------------
(***************************************************************************)
(* webrtc/basic/async/tcp_server_select.cpp: an echo server that serves    *)
(* its clients from one thread with select. One step per system call, so   *)
(* that peers connect, send and close between any two of them.             *)
(***************************************************************************)
EXTENDS Integers, FiniteSets

CONSTANTS
  FdSize,        \* slots in client_fds (FD_SIZE)
  ServerFd,      \* the listening descriptor
  Fds,           \* the descriptors accept may return
  MaxBacklog,    \* bound: connections the kernel holds for accept (10)
  MaxFailures    \* bound: calls of accept that fail

ASSUME ServerAssumption ==
  /\ FdSize \in Nat \ {0}
  /\ ServerFd \in Nat /\ Fds \subseteq Nat \ {ServerFd} /\ IsFiniteSet(Fds)
  /\ MaxBacklog \in Nat /\ MaxFailures \in Nat

VARIABLES
  fd_sets, fd_ready_sets,            \* IO_Set: watched, and reported by select
  nReady, max_pos, max_fd,           \* IO_Set: as named there
  client_fds, client_num,            \* IO_Set: the slots, -1 when free
  pc,                                \* the call the server is about to make
  i, removed_pos, removed_fd,        \* locals of check_clients
  conn,                              \* kernel: what each descriptor stands at
  backlog,                           \* kernel: connections not accepted yet
  failures                           \* calls of accept that have failed

ioSet == <<fd_sets, fd_ready_sets, nReady, max_pos, max_fd, client_fds, client_num>>
locals == <<i, removed_pos, removed_fd>>
kernel == <<conn, backlog, failures>>
vars == <<ioSet, pc, locals, kernel>>

Slots == 0..(FdSize - 1)

\* A descriptor is not open, or its peer is silent, has sent data, has closed,
\* or has reset the connection.
ConnStates == {"free", "silent", "data", "eof", "reset"}

Init ==
  /\ fd_sets = {ServerFd} /\ fd_ready_sets = {}
  /\ nReady = 0 /\ max_pos = -1 /\ max_fd = ServerFd
  /\ client_fds = [s \in Slots |-> -1] /\ client_num = 0
  /\ pc = "select"
  /\ i = 0 /\ removed_pos = -1 /\ removed_fd = -1
  /\ conn = [fd \in Fds |-> "free"] /\ backlog = 0 /\ failures = 0

Readable(fd) ==
  IF fd = ServerFd THEN backlog > 0 ELSE conn[fd] \in {"data", "eof", "reset"}

\* Mutant: the clients come before the listening socket.
SelectClientsFirst ==
  LET ready == {fd \in fd_sets : fd <= max_fd /\ Readable(fd)}
  IN /\ pc = "select" /\ ready # {}
     /\ fd_ready_sets' = ready
     /\ nReady' = Cardinality(ready)
     /\ pc' = IF ready = {ServerFd} THEN "accept" ELSE "check"
     /\ i' = 0 /\ removed_pos' = -1 /\ removed_fd' = -1
     /\ UNCHANGED <<fd_sets, max_pos, max_fd, client_fds, client_num, kernel>>

\* select looks at the watched descriptors below max_fd + 1, and blocks until
\* one of them is readable.
Select ==
  LET ready == {fd \in fd_sets : fd <= max_fd /\ Readable(fd)}
  IN /\ pc = "select" /\ ready # {}
     /\ fd_ready_sets' = ready
     /\ nReady' = Cardinality(ready)
     /\ pc' = IF ServerFd \in ready THEN "accept" ELSE "check"
     /\ i' = 0 /\ removed_pos' = -1 /\ removed_fd' = -1
     /\ UNCHANGED <<fd_sets, max_pos, max_fd, client_fds, client_num, kernel>>

FreeSlots == {s \in Slots : client_fds[s] = -1}
FirstFree == CHOOSE s \in FreeSlots : \A r \in FreeSlots : s <= r
LowestFd(fd) == conn[fd] = "free" /\ \A g \in Fds : g < fd => conn[g] # "free"

\* accept returns the lowest free descriptor, and add_client finds it a slot.
AcceptClient(fd) ==
  /\ pc = "accept" /\ backlog > 0
  /\ LowestFd(fd) /\ FreeSlots # {}
  /\ conn' = [conn EXCEPT ![fd] = "silent"]
  /\ backlog' = backlog - 1
  /\ nReady' = nReady - 1
  /\ client_fds' = [client_fds EXCEPT ![FirstFree] = fd]
  /\ max_pos' = IF FirstFree > max_pos THEN FirstFree ELSE max_pos
  /\ fd_sets' = fd_sets \cup {fd}
  /\ max_fd' = IF fd > max_fd THEN fd ELSE max_fd
  /\ client_num' = client_num + 1
  /\ pc' = "check"
  /\ UNCHANGED <<fd_ready_sets, locals, failures>>

\* Mutant: the clients are not looked at after a connection that is refused.
RefuseClientContinues(fd) ==
  /\ pc = "accept" /\ backlog > 0
  /\ LowestFd(fd) /\ FreeSlots = {}
  /\ backlog' = backlog - 1
  /\ nReady' = nReady - 1
  /\ pc' = "select"
  /\ UNCHANGED <<fd_sets, fd_ready_sets, max_pos, max_fd, client_fds, client_num, locals,
                 conn, failures>>

\* Every slot is taken: the new connection is closed.
RefuseClient(fd) ==
  /\ pc = "accept" /\ backlog > 0
  /\ LowestFd(fd) /\ FreeSlots = {}
  /\ backlog' = backlog - 1
  /\ nReady' = nReady - 1
  /\ pc' = "check"
  /\ UNCHANGED <<fd_sets, fd_ready_sets, max_pos, max_fd, client_fds, client_num, locals,
                 conn, failures>>

\* accept returns -1, which add_client takes for a descriptor: it counts a
\* client, raises max_pos and leaves the slot free. FD_SET(-1) is undefined:
\* it aborts, or marks a bit that no select of this server looks at.
AcceptFails ==
  /\ pc = "accept" /\ failures < MaxFailures
  /\ failures' = failures + 1
  /\ backlog' \in {backlog, backlog - 1} \cap Nat
  /\ nReady' = nReady - 1
  /\ IF FreeSlots = {}
       THEN pc' = "check" /\ UNCHANGED <<max_pos, client_num>>
       ELSE /\ pc' \in {"check", "killed"}
            /\ max_pos' = IF FirstFree > max_pos THEN FirstFree ELSE max_pos
            /\ client_num' = client_num + 1
  /\ UNCHANGED <<fd_sets, fd_ready_sets, max_fd, client_fds, locals, conn>>

\* The loop of check_clients looks at one slot while it has reason to.
Looking == pc = "check" /\ i <= max_pos /\ nReady # 0
SlotReady == client_fds[i] # -1 /\ client_fds[i] \in fd_ready_sets

SkipSlot ==
  /\ Looking /\ ~SlotReady
  /\ i' = i + 1
  /\ UNCHANGED <<ioSet, pc, removed_pos, removed_fd, kernel>>

\* echo reads a message, or the first part of it, and sends it back.
EchoData ==
  /\ Looking /\ SlotReady
  /\ conn[client_fds[i]] = "data"
  /\ \E left \in {"silent", "data"} : conn' = [conn EXCEPT ![client_fds[i]] = left]
  /\ nReady' = nReady - 1
  /\ i' = i + 1
  /\ UNCHANGED <<fd_sets, fd_ready_sets, max_pos, max_fd, client_fds, client_num, pc,
                 removed_pos, removed_fd, backlog, failures>>

\* Mutant: the removed descriptor stays in the watched set.
RemoveClientWatched ==
  LET fd == client_fds[i]
  IN /\ Looking /\ SlotReady
     /\ conn[fd] = "eof"
     /\ conn' = [conn EXCEPT ![fd] = "free"]
     /\ nReady' = nReady - 1
     /\ client_fds' = [client_fds EXCEPT ![i] = -1]
     /\ removed_pos' = i
     /\ removed_fd' = IF removed_fd < fd THEN fd ELSE removed_fd
     /\ client_num' = client_num - 1
     /\ i' = i + 1
     /\ UNCHANGED <<fd_sets, fd_ready_sets, max_pos, max_fd, pc, backlog, failures>>

\* echo reads the end of the stream: the client is removed.
RemoveClient ==
  LET fd == client_fds[i]
  IN /\ Looking /\ SlotReady
     /\ conn[fd] = "eof"
     /\ conn' = [conn EXCEPT ![fd] = "free"]
     /\ nReady' = nReady - 1
     /\ client_fds' = [client_fds EXCEPT ![i] = -1]
     /\ removed_pos' = i
     /\ fd_sets' = fd_sets \ {fd}
     /\ removed_fd' = IF removed_fd < fd THEN fd ELSE removed_fd
     /\ client_num' = client_num - 1
     /\ i' = i + 1
     /\ UNCHANGED <<fd_ready_sets, max_pos, max_fd, pc, backlog, failures>>

\* recv fails on a reset connection, echo does not look and sends all the same:
\* the server dies of SIGPIPE.
EchoReset ==
  /\ Looking /\ SlotReady
  /\ conn[client_fds[i]] = "reset"
  /\ pc' = "killed"
  /\ UNCHANGED <<ioSet, locals, kernel>>

\* Mutant: the search stops before the last slot.
HighestFdOffByOne(last) ==
  LET fds == {ServerFd} \cup {client_fds[s] : s \in {r \in Slots : r < last}}
  IN CHOOSE fd \in fds : \A g \in fds : g <= fd

\* The end of check_clients brings max_pos and max_fd down.
HighestFd(last) ==
  LET fds == {ServerFd} \cup {client_fds[s] : s \in {r \in Slots : r <= last}}
  IN CHOOSE fd \in fds : \A g \in fds : g <= fd

FinishCheck ==
  /\ pc = "check" /\ ~(i <= max_pos /\ nReady # 0)
  /\ max_pos' = IF removed_pos = max_pos THEN max_pos - 1 ELSE max_pos
  /\ max_fd' = IF removed_fd = max_fd THEN HighestFd(max_pos') ELSE max_fd
  /\ pc' = "select"
  /\ UNCHANGED <<fd_sets, fd_ready_sets, nReady, client_fds, client_num, locals, kernel>>

ServerStep ==
  \/ Select
  \/ \E fd \in Fds : AcceptClient(fd) \/ RefuseClient(fd)
  \/ AcceptFails
  \/ SkipSlot \/ EchoData \/ RemoveClient \/ EchoReset \/ FinishCheck

\* The peers.
PeerConnects ==
  /\ backlog < MaxBacklog
  /\ backlog' = backlog + 1
  /\ UNCHANGED <<ioSet, pc, locals, conn, failures>>

PeerActs(fd) ==
  /\ \/ conn[fd] = "silent" /\ \E what \in {"data", "eof", "reset"} : conn' = [conn EXCEPT ![fd] = what]
     \/ conn[fd] = "data" /\ conn' = [conn EXCEPT ![fd] = "reset"]
  /\ UNCHANGED <<ioSet, pc, locals, backlog, failures>>

Next == ServerStep \/ PeerConnects \/ \E fd \in Fds : PeerActs(fd)

\* The server's thread runs when it can; no peer has to do anything.
Spec == Init /\ [][Next]_vars /\ WF_vars(ServerStep)

------------------------------------------------------------------------------
(* Properties *)

TypeOK ==
  /\ fd_sets \subseteq Fds \cup {ServerFd} /\ fd_ready_sets \subseteq Fds \cup {ServerFd}
  /\ nReady \in Int /\ max_pos \in Int /\ max_fd \in Fds \cup {ServerFd}
  /\ client_fds \in [Slots -> Fds \cup {-1}] /\ client_num \in Int
  /\ pc \in {"select", "accept", "check", "killed"}
  /\ i \in Nat /\ removed_pos \in Slots \cup {-1} /\ removed_fd \in Fds \cup {-1}
  /\ conn \in [Fds -> ConnStates] /\ backlog \in Nat /\ failures \in Nat

Used == {s \in Slots : client_fds[s] # -1}

\* select and check_clients see every client: its descriptor is watched and
\* within max_fd, its slot within max_pos. Otherwise the client would be
\* connected and never answered.
ClientsSeen ==
  \A s \in Used :
    /\ s <= max_pos
    /\ client_fds[s] <= max_fd /\ client_fds[s] \in fd_sets

\* Only open descriptors are watched, each for one slot: a closed one would make
\* select fail, which ends the server, or answer for a stranger that got its number.
WatchedAreOpen ==
  /\ fd_sets = {ServerFd} \cup {client_fds[s] : s \in Used}
  /\ \A s \in Used : conn[client_fds[s]] # "free"
  /\ \A s, r \in Used : s # r => client_fds[s] # client_fds[r]

\* The highest slot is never below "none": check_clients compares the removed
\* slot with max_pos even when nothing was removed and both could be -1.
MaxPosInRange == max_pos \in -1..(FdSize - 1) /\ (pc = "check" => max_pos >= 0)

ReadyAhead == {s \in Used : s >= i /\ client_fds[s] \in fd_ready_sets}

\* nReady counts exactly the reported descriptors still ahead of the loop, so that
\* stopping at zero leaves none of them out.
ReadyCounted ==
  /\ pc = "check" => nReady = Cardinality(ReadyAhead)
  /\ pc = "accept" => nReady = Cardinality(ReadyAhead) + 1

\* client_num is the number of clients as long as accept has not failed.
ClientsCounted == failures = 0 => client_num = Cardinality(Used)

\* Every connection is accounted for: an open descriptor is a client's.
NoDescriptorLeaks == \A fd \in Fds : conn[fd] # "free" => \E s \in Used : client_fds[s] = fd

\* A client whose peer has closed is removed, however busy the others are.
ClosedClientsLeave ==
  \A fd \in Fds : conn[fd] = "eof" ~> conn[fd] = "free" \/ pc = "killed"

\* A connection waiting for accept gets an answer, or accept fails.
BacklogServed == backlog = MaxBacklog ~> backlog < MaxBacklog \/ pc = "killed"
==============================================================================
