---------------------------- MODULE EchoServerProofs ----------------------------
(* What keeps the two echo servers right, for every number of clients: the     *)
(* bookkeeping of IO_Set, SelectServer, for every number of slots, backlog and *)
(* number of failures of accept; and, of EpollServer, that no event of a batch *)
(* is stale, for every size of a batch and every load, although peers act      *)
(* between any two calls of the server and the number of a closed client is    *)
(* given to the next at once.                                                  *)
EXTENDS MCEchoServers, FiniteSetTheorems, SequenceTheorems, WellFoundedInduction, TLAPS

\* The locals of check_clients: they are reset before it, the removed slot is
\* free, and no slot holds the removed descriptor.
RemovedAreGone ==
  /\ pc = "accept" => i = 0 /\ removed_pos = -1 /\ removed_fd = -1
  /\ pc = "check" =>
       /\ removed_pos # -1 => client_fds[removed_pos] = -1
       /\ removed_fd # -1 => \A s \in Slots : client_fds[s] # removed_fd

\* What select reported was watched, and the listening socket is ahead of the
\* clients only while accept is.
ReportedWereWatched == pc = "accept" => fd_ready_sets \subseteq fd_sets

Bookkeeping ==
  /\ ClientsSeen /\ WatchedAreOpen /\ MaxPosInRange
  /\ NoDescriptorLeaks /\ RemovedAreGone /\ ReportedWereWatched

IInv == TypeOK /\ Bookkeeping /\ ReadyCounted /\ ClientsCounted

------------------------------------------------------------------------------
(* Finite sets of numbers *)

\* A finite set of numbers has a largest and a smallest element.
LEMMA HasMaximum ==
  ASSUME NEW S \in SUBSET Int, IsFiniteSet(S), S # {}
  PROVE  \E m \in S : \A x \in S : x <= m
<1> DEFINE Above(s) == {x \in S : x > s}
           F == {Above(s) : s \in S}
<1>1. F \subseteq FiniteSubsetsOf(S) /\ F # {}
  <2>1. F \subseteq SUBSET S /\ F # {}
    OBVIOUS
  <2> HIDE DEF F
  <2>2. QED BY <2>1, FS_FiniteSubsetsOfFinite
<1> \A x \in S : x \in Int
  OBVIOUS
<1>2. PICK M \in F : \A N \in F : ~(<<N, M>> \in StrictSubsetOrdering(S))
  <2> HIDE DEF F
  <2>1. QED BY <1>1, FS_StrictSubsetOrderingWellFounded, WFMin
<1>3. PICK m \in S : M = Above(m)
  BY <1>2
<1>4. ASSUME NEW x \in S, ~(x <= m) PROVE FALSE
  <2>1. Above(x) \subseteq Above(m) /\ Above(x) # Above(m)
    <3>1. x \in Above(m) /\ x \notin Above(x)
      BY <1>4
    <3>2. ASSUME NEW y \in S, y > x PROVE y > m
      <4>1. x > m /\ y \in Int /\ x \in Int /\ m \in Int
        BY <1>4
      <4>2. QED BY <4>1, <3>2
    <3>3. QED BY <3>1, <3>2
  <2>2. <<Above(x), M>> \in StrictSubsetOrdering(S)
    BY <2>1, <1>3 DEF StrictSubsetOrdering
  <2>3. QED BY <2>2, <1>2
<1>5. QED BY <1>4

LEMMA HasMinimum ==
  ASSUME NEW S \in SUBSET Int, IsFiniteSet(S), S # {}
  PROVE  \E m \in S : \A x \in S : m <= x
<1> DEFINE Below(s) == {x \in S : x < s}
           F == {Below(s) : s \in S}
<1>1. F \subseteq FiniteSubsetsOf(S) /\ F # {}
  <2>1. F \subseteq SUBSET S /\ F # {}
    OBVIOUS
  <2> HIDE DEF F
  <2>2. QED BY <2>1, FS_FiniteSubsetsOfFinite
<1> \A x \in S : x \in Int
  OBVIOUS
<1>2. PICK M \in F : \A N \in F : ~(<<N, M>> \in StrictSubsetOrdering(S))
  <2> HIDE DEF F
  <2>1. QED BY <1>1, FS_StrictSubsetOrderingWellFounded, WFMin
<1>3. PICK m \in S : M = Below(m)
  BY <1>2
<1>4. ASSUME NEW x \in S, ~(m <= x) PROVE FALSE
  <2>1. Below(x) \subseteq Below(m) /\ Below(x) # Below(m)
    <3>1. x \in Below(m) /\ x \notin Below(x)
      BY <1>4
    <3>2. ASSUME NEW y \in S, y < x PROVE y < m
      <4>1. x < m /\ y \in Int /\ x \in Int /\ m \in Int
        BY <1>4
      <4>2. QED BY <4>1, <3>2
    <3>3. QED BY <3>1, <3>2
  <2>2. <<Below(x), M>> \in StrictSubsetOrdering(S)
    BY <2>1, <1>3 DEF StrictSubsetOrdering
  <2>3. QED BY <2>2, <1>2
<1>5. QED BY <1>4

\* The slots are finitely many, and so is each set of them.
LEMMA SlotsFinite ==
  ASSUME NEW T \in SUBSET Slots
  PROVE  IsFiniteSet(T) /\ Cardinality(T) \in Nat
<1>1. IsFiniteSet(Slots)
  BY ServerAssumption, FS_Interval DEF Slots
<1>2. QED BY <1>1, FS_Subset, FS_CardinalityType

\* add_client finds the first free slot when there is one.
LEMMA FirstFreeIsFree ==
  ASSUME FreeSlots # {}
  PROVE  FirstFree \in Slots /\ client_fds[FirstFree] = -1
<1>1. FreeSlots \subseteq Slots /\ Slots \subseteq Int
  BY DEF FreeSlots, Slots
<1>2. IsFiniteSet(FreeSlots)
  BY <1>1, SlotsFinite
<1>3. \E m \in FreeSlots : \A x \in FreeSlots : m <= x
  BY <1>1, <1>2, HasMinimum
<1>4. FirstFree \in FreeSlots
  BY <1>3 DEF FirstFree
<1>5. QED BY <1>4 DEF FreeSlots

\* The search for the highest descriptor returns the listening one or a client's,
\* and none of the slots it looked at holds a higher one.
LEMMA HighestFdIsHighest ==
  ASSUME TypeOK, NEW last \in Int
  PROVE  /\ HighestFd(last) \in Fds \cup {ServerFd}
         /\ \A s \in Slots : s <= last => client_fds[s] <= HighestFd(last)
<1> DEFINE T == {r \in Slots : r <= last}
           C == {client_fds[s] : s \in T}
           fds == {ServerFd} \cup C
<1>1. T \subseteq Slots
  OBVIOUS
<1>2. IsFiniteSet(fds)
  <2>1. C \subseteq Fds \cup {-1}
    BY DEF TypeOK
  <2>2. IsFiniteSet(Fds \cup {-1} \cup {ServerFd})
    BY ServerAssumption, FS_AddElement
  <2>3. fds \in SUBSET (Fds \cup {-1} \cup {ServerFd})
    BY <2>1
  <2>4. QED BY <2>2, <2>3, FS_Subset
<1>3. fds \in SUBSET Int /\ fds # {}
  <2>1. \A s \in T : client_fds[s] \in Fds \cup {-1}
    BY DEF TypeOK
  <2>2. Fds \cup {-1} \cup {ServerFd} \subseteq Int
    BY ServerAssumption
  <2>3. QED BY <2>1, <2>2
<1>4. \E m \in fds : \A x \in fds : x <= m
  BY <1>2, <1>3, HasMaximum
<1>5. HighestFd(last) \in fds /\ \A g \in fds : g <= HighestFd(last)
  BY <1>4 DEF HighestFd
<1>6. HighestFd(last) # -1
  BY <1>5, ServerAssumption
<1>7. QED
  BY <1>5, <1>6 DEF TypeOK

------------------------------------------------------------------------------
(* Every step preserves the types *)

\* Slots that check_clients looks at are slots of the array.
LEMMA LookingAtSlot ==
  ASSUME TypeOK, MaxPosInRange, Looking
  PROVE  i \in Slots
BY ServerAssumption DEF TypeOK, MaxPosInRange, Looking, Slots

\* Every step keeps the variables within their types.
LEMMA TypeStep ==
  ASSUME TypeOK, MaxPosInRange, [Next]_vars
  PROVE  TypeOK'
<1> USE DEF TypeOK
<1> Slots \subseteq Int /\ Fds \subseteq Int /\ ServerFd \in Int
  BY ServerAssumption DEF Slots
<1>1. CASE Select
  <2> DEFINE reported == {fd \in fd_sets : fd <= max_fd /\ Readable(fd)}
  <2>1. IsFiniteSet(fd_sets)
    <3>1. IsFiniteSet(Fds \cup {ServerFd})
      BY ServerAssumption, FS_AddElement
    <3>2. QED BY <3>1, FS_Subset
  <2>2. IsFiniteSet(reported) /\ Cardinality(reported) \in Nat
    BY <2>1, FS_Subset, FS_CardinalityType
  <2>3. reported \subseteq Fds \cup {ServerFd}
    OBVIOUS
  <2>4. nReady' = Cardinality(reported) /\ fd_ready_sets' = reported
    BY <1>1 DEF Select
  <2> HIDE DEF reported
  <2>5. fd_ready_sets' \subseteq Fds \cup {ServerFd} /\ nReady' \in Int
    BY <2>2, <2>3, <2>4
  <2>6. /\ pc' \in {"accept", "check"} /\ i' = 0 /\ removed_pos' = -1 /\ removed_fd' = -1
        /\ UNCHANGED <<fd_sets, max_pos, max_fd, client_fds, client_num, conn, backlog, failures>>
    BY <1>1 DEF Select, kernel
  <2>7. QED BY <2>5, <2>6
<1>2. ASSUME NEW fd \in Fds, AcceptClient(fd) PROVE TypeOK'
  <2>1. FirstFree \in Slots
    BY <1>2, FirstFreeIsFree DEF AcceptClient
  <2>2. QED BY <1>2, <2>1 DEF AcceptClient, locals, ConnStates
<1>3. ASSUME NEW fd \in Fds, RefuseClient(fd) PROVE TypeOK'
  BY <1>3 DEF RefuseClient, locals
<1>4. CASE AcceptFails
  <2>1. nReady' \in Int /\ backlog' \in Nat /\ failures' \in Nat
    BY <1>4 DEF AcceptFails
  <2>2. max_pos' \in Int /\ client_num' \in Int /\ pc' \in {"check", "killed"}
    <3>1. CASE FreeSlots = {}
      BY <1>4, <3>1 DEF AcceptFails
    <3>2. CASE FreeSlots # {}
      <4>1. FirstFree \in Int
        BY <3>2, FirstFreeIsFree
      <4>2. QED BY <1>4, <3>2, <4>1 DEF AcceptFails
    <3>3. QED BY <3>1, <3>2
  <2>3. QED BY <1>4, <2>1, <2>2 DEF AcceptFails, locals
<1>5. CASE SkipSlot
  BY <1>5 DEF SkipSlot, ioSet, kernel
<1>6. CASE EchoData
  BY <1>6, LookingAtSlot DEF EchoData, ConnStates, SlotReady
<1>7. CASE RemoveClient
  <2>1. i \in Slots /\ client_fds[i] \in Fds
    BY <1>7, LookingAtSlot DEF RemoveClient, SlotReady
  <2>2. conn' \in [Fds -> ConnStates] /\ client_fds' \in [Slots -> Fds \cup {-1}]
    BY <1>7 DEF RemoveClient, ConnStates
  <2>3. nReady' \in Int /\ client_num' \in Int /\ i' \in Nat
    BY <1>7 DEF RemoveClient
  <2>4. removed_pos' \in Slots /\ removed_fd' \in Fds \cup {-1}
    BY <1>7, <2>1 DEF RemoveClient
  <2>5. fd_sets' \subseteq Fds \cup {ServerFd}
    BY <1>7 DEF RemoveClient
  <2>6. QED BY <1>7, <2>2, <2>3, <2>4, <2>5 DEF RemoveClient
<1>8. CASE EchoReset
  BY <1>8 DEF EchoReset, ioSet, locals, kernel
<1>9. CASE FinishCheck
  <2>1. max_pos' \in Int
    BY <1>9 DEF FinishCheck
  <2>2. max_fd' \in Fds \cup {ServerFd}
    BY <1>9, <2>1, HighestFdIsHighest DEF FinishCheck
  <2>3. QED BY <1>9, <2>1, <2>2 DEF FinishCheck, locals, kernel
<1>10. CASE PeerConnects
  BY <1>10 DEF PeerConnects, ioSet, locals
<1>11. ASSUME NEW fd \in Fds, PeerActs(fd) PROVE TypeOK'
  BY <1>11 DEF PeerActs, ioSet, locals, ConnStates
<1>12. CASE UNCHANGED vars
  BY <1>12 DEF vars, ioSet, locals, kernel
<1>13. QED
  BY <1>1, <1>2, <1>3, <1>4, <1>5, <1>6, <1>7, <1>8, <1>9, <1>10, <1>11, <1>12
  DEF Next, ServerStep

------------------------------------------------------------------------------
(* Every step preserves the bookkeeping *)

\* What holds of slots and descriptors carries over a step that touches none.
LEMMA SlotsUntouched ==
  ASSUME TypeOK, Bookkeeping,
         UNCHANGED <<fd_sets, max_pos, max_fd, client_fds>>,
         \A fd \in Fds : conn'[fd] = "free" <=> conn[fd] = "free"
  PROVE  /\ ClientsSeen' /\ WatchedAreOpen' /\ NoDescriptorLeaks'
         /\ max_pos' \in -1..(FdSize - 1)
<1> USE DEF Bookkeeping, Used
<1>1. Used' = Used
  OBVIOUS
<1>2. ClientsSeen'
  BY DEF ClientsSeen
<1>3. WatchedAreOpen'
  <2>1. \A s \in Used : client_fds[s] \in Fds
    BY DEF TypeOK
  <2>2. QED BY <2>1 DEF WatchedAreOpen
<1>4. NoDescriptorLeaks'
  BY DEF NoDescriptorLeaks
<1>5. max_pos' \in -1..(FdSize - 1)
  BY DEF MaxPosInRange
<1>6. QED BY <1>2, <1>3, <1>4, <1>5

\* When no client may be looked at, no client has been reported.
LEMMA SelectStep ==
  ASSUME TypeOK, Bookkeeping, Select
  PROVE  Bookkeeping'
<1>1. UNCHANGED <<fd_sets, max_pos, max_fd, client_fds, client_num, conn, backlog, failures>>
  BY DEF Select, kernel
<1>2. /\ ClientsSeen' /\ WatchedAreOpen' /\ NoDescriptorLeaks'
      /\ max_pos' \in -1..(FdSize - 1)
  BY <1>1, SlotsUntouched
<1>3. pc' = "check" => max_pos' >= 0
  <2>1. SUFFICES ASSUME pc' = "check" PROVE max_pos >= 0
    BY <1>1
  <2>2. PICK fd \in fd_sets : fd # ServerFd
    BY <2>1 DEF Select
  <2>3. PICK s \in Used : client_fds[s] = fd
    BY <2>2 DEF Bookkeeping, WatchedAreOpen
  <2>4. s <= max_pos /\ s \in Slots
    BY <2>3 DEF Bookkeeping, ClientsSeen, Used
  <2>5. QED BY <2>4, ServerAssumption DEF TypeOK, Slots
<1>4. RemovedAreGone' /\ ReportedWereWatched'
  BY <1>1 DEF RemovedAreGone, ReportedWereWatched, Select
<1>5. QED BY <1>2, <1>3, <1>4 DEF Bookkeeping, MaxPosInRange

\* The new client gets a slot nobody has, a watch and both maxima.
LEMMA AcceptClientStep ==
  ASSUME TypeOK, Bookkeeping, NEW fd \in Fds, AcceptClient(fd)
  PROVE  Bookkeeping'
<1> DEFINE new == FirstFree
<1>1. new \in Slots /\ client_fds[new] = -1
  BY FirstFreeIsFree DEF AcceptClient
<1> HIDE DEF new
<1>2. fd \in Int /\ fd # -1 /\ fd # ServerFd /\ Slots \subseteq Int /\ FdSize \in Nat
  BY ServerAssumption DEF Slots
<1>3. /\ \A s \in Slots : client_fds'[s] = IF s = new THEN fd ELSE client_fds[s]
      /\ \A g \in Fds : conn'[g] = IF g = fd THEN "silent" ELSE conn[g]
      /\ max_pos' = IF new > max_pos THEN new ELSE max_pos
      /\ fd_sets' = fd_sets \cup {fd}
      /\ max_fd' = IF fd > max_fd THEN fd ELSE max_fd
  BY DEF AcceptClient, TypeOK, new
<1>4. Used' = Used \cup {new} /\ new \notin Used /\ Used \subseteq Slots
  BY <1>1, <1>2, <1>3 DEF Used
<1>5. \A s \in Used : client_fds'[s] = client_fds[s] /\ client_fds[s] # fd
        /\ client_fds[s] \in Fds
  <2>1. \A s \in Used : client_fds[s] # fd
    BY DEF Bookkeeping, WatchedAreOpen, AcceptClient, LowestFd
  <2>2. QED BY <1>3, <1>4, <2>1 DEF Used, TypeOK
<1>6. ClientsSeen'
  <2> SUFFICES ASSUME NEW s \in Used'
               PROVE  /\ s <= max_pos'
                      /\ client_fds'[s] <= max_fd' /\ client_fds'[s] \in fd_sets'
    BY DEF ClientsSeen
  <2> Fds \subseteq Int /\ ServerFd \in Int
    BY ServerAssumption
  <2>1. CASE s = new
    BY <1>1, <1>2, <1>3, <2>1 DEF TypeOK
  <2>2. CASE s \in Used
    <3>1. s <= max_pos /\ client_fds[s] <= max_fd /\ client_fds[s] \in fd_sets
      BY <2>2 DEF Bookkeeping, ClientsSeen
    <3>2. s \in Int /\ client_fds[s] \in Int
      BY <1>2, <1>4, <1>5, <2>2
    <3>3. s <= max_pos'
      BY <1>1, <1>2, <1>3, <3>1, <3>2 DEF TypeOK
    <3>4. client_fds[s] <= max_fd'
      BY <1>2, <1>3, <3>1, <3>2 DEF TypeOK
    <3>5. QED BY <1>3, <1>5, <2>2, <3>1, <3>3, <3>4
  <2>3. QED BY <1>4, <2>1, <2>2
<1>7. WatchedAreOpen'
  <2>1. fd_sets' = {ServerFd} \cup {client_fds'[s] : s \in Used'}
    <3>1. fd_sets = {ServerFd} \cup {client_fds[s] : s \in Used}
      BY DEF Bookkeeping, WatchedAreOpen
    <3>2. {client_fds'[s] : s \in Used'} = {client_fds[s] : s \in Used} \cup {fd}
      BY <1>1, <1>3, <1>4, <1>5
    <3>3. QED BY <1>3, <3>1, <3>2
  <2>2. \A s \in Used' : conn'[client_fds'[s]] # "free"
    BY <1>1, <1>3, <1>4, <1>5 DEF Bookkeeping, WatchedAreOpen
  <2>3. \A s, r \in Used' : s # r => client_fds'[s] # client_fds'[r]
    BY <1>1, <1>3, <1>4, <1>5 DEF Bookkeeping, WatchedAreOpen
  <2>4. QED BY <2>1, <2>2, <2>3 DEF WatchedAreOpen
<1>8. MaxPosInRange'
  BY <1>1, <1>2, <1>3, ServerAssumption DEF Bookkeeping, MaxPosInRange, Slots
<1>9. NoDescriptorLeaks'
  <2> SUFFICES ASSUME NEW g \in Fds, conn'[g] # "free"
               PROVE  \E s \in Used' : client_fds'[s] = g
    BY DEF NoDescriptorLeaks
  <2>1. CASE g = fd
    BY <1>1, <1>3, <1>4, <2>1
  <2>2. CASE g # fd
    BY <1>3, <1>4, <1>5, <2>2 DEF Bookkeeping, NoDescriptorLeaks
  <2>3. QED BY <2>1, <2>2
<1>10. RemovedAreGone' /\ ReportedWereWatched'
  BY DEF Bookkeeping, RemovedAreGone, ReportedWereWatched, AcceptClient, locals
<1>11. QED BY <1>6, <1>7, <1>8, <1>9, <1>10 DEF Bookkeeping

\* No slot is taken when accept refuses or fails; it may leave max_pos too high.
LEMMA NoClientAddedStep ==
  ASSUME TypeOK, Bookkeeping,
         AcceptFails \/ \E fd \in Fds : RefuseClient(fd)
  PROVE  Bookkeeping'
<1>1. UNCHANGED <<fd_sets, fd_ready_sets, max_fd, client_fds, conn, locals>>
  BY DEF AcceptFails, RefuseClient
<1>2. pc = "accept" /\ pc' \in {"check", "killed"}
  BY DEF AcceptFails, RefuseClient
<1>3. Slots \subseteq Int /\ 0 \in Slots /\ FdSize \in Nat
  BY ServerAssumption DEF Slots
<1>4. max_pos' \in 0..(FdSize - 1) /\ max_pos' >= max_pos
  <2>1. CASE FreeSlots = {}
    <3>1. max_pos' = max_pos
      BY <2>1 DEF AcceptFails, RefuseClient
    <3>2. 0 \in Used
      BY <1>3, <2>1 DEF FreeSlots, Used
    <3>3. 0 <= max_pos
      BY <3>2 DEF Bookkeeping, ClientsSeen
    <3>4. QED BY <3>1, <3>3, <1>3 DEF Bookkeeping, MaxPosInRange
  <2>2. CASE FreeSlots # {}
    <3>1. FirstFree \in Slots
      BY <2>2, FirstFreeIsFree
    <3>2. max_pos' = IF FirstFree > max_pos THEN FirstFree ELSE max_pos
      BY <2>2 DEF AcceptFails, RefuseClient
    <3>3. QED BY <1>3, <3>1, <3>2 DEF Bookkeeping, MaxPosInRange, Slots
  <2>3. QED BY <2>1, <2>2
<1>5. Used' = Used
  BY <1>1 DEF Used
<1>6. ClientsSeen'
  <2> SUFFICES ASSUME NEW s \in Used
               PROVE  /\ s <= max_pos'
                      /\ client_fds[s] <= max_fd /\ client_fds[s] \in fd_sets
    BY <1>1, <1>5 DEF ClientsSeen
  <2>1. s <= max_pos /\ client_fds[s] <= max_fd /\ client_fds[s] \in fd_sets /\ s \in Int
    BY <1>3 DEF Bookkeeping, ClientsSeen, Used
  <2>2. QED BY <1>3, <1>4, <2>1 DEF TypeOK
<1>7. WatchedAreOpen' /\ NoDescriptorLeaks'
  BY <1>1, <1>5 DEF Bookkeeping, WatchedAreOpen, NoDescriptorLeaks
<1>8. MaxPosInRange'
  BY <1>3, <1>4 DEF MaxPosInRange
<1>9. RemovedAreGone' /\ ReportedWereWatched'
  BY <1>1, <1>2 DEF Bookkeeping, RemovedAreGone, ReportedWereWatched, locals
<1>10. QED BY <1>6, <1>7, <1>8, <1>9 DEF Bookkeeping

\* A removed client leaves its slot, its watch and its descriptor together.
LEMMA RemoveClientStep ==
  ASSUME TypeOK, Bookkeeping, RemoveClient
  PROVE  Bookkeeping'
<1> DEFINE gone == client_fds[i]
<1>1. i \in Slots /\ gone \in Fds /\ i \in Used
  BY LookingAtSlot DEF RemoveClient, SlotReady, TypeOK, Used, Bookkeeping
<1> HIDE DEF gone
<1>2. gone # -1 /\ gone # ServerFd /\ Slots \subseteq Int /\ Fds \subseteq Int /\ FdSize \in Nat
  BY <1>1, ServerAssumption DEF Slots
<1>3. /\ \A s \in Slots : client_fds'[s] = IF s = i THEN -1 ELSE client_fds[s]
      /\ \A g \in Fds : conn'[g] = IF g = gone THEN "free" ELSE conn[g]
      /\ fd_sets' = fd_sets \ {gone}
      /\ removed_pos' = i
      /\ removed_fd' = IF removed_fd < gone THEN gone ELSE removed_fd
      /\ UNCHANGED <<max_pos, max_fd, pc>> /\ pc = "check"
  BY DEF RemoveClient, TypeOK, Looking, gone
<1>4. Used' = Used \ {i} /\ Used \subseteq Slots
  BY <1>1, <1>3 DEF Used
<1>5. \A s \in Used' : client_fds'[s] = client_fds[s] /\ client_fds[s] # gone
        /\ client_fds[s] \in Fds
  <2>1. \A s \in Used' : client_fds[s] # gone
    BY <1>1, <1>4 DEF Bookkeeping, WatchedAreOpen, gone
  <2>2. QED BY <1>3, <1>4, <2>1 DEF Used, TypeOK
<1>6. ClientsSeen'
  BY <1>3, <1>4, <1>5 DEF Bookkeeping, ClientsSeen
<1>7. WatchedAreOpen'
  <2>1. fd_sets' = {ServerFd} \cup {client_fds'[s] : s \in Used'}
    <3>1. fd_sets = {ServerFd} \cup {client_fds[s] : s \in Used}
      BY DEF Bookkeeping, WatchedAreOpen
    <3>2. {client_fds[s] : s \in Used} = {client_fds'[s] : s \in Used'} \cup {gone}
      BY <1>1, <1>4, <1>5 DEF gone
    <3>3. gone \notin {client_fds'[s] : s \in Used'}
      BY <1>5
    <3>4. QED BY <1>2, <1>3, <3>1, <3>2, <3>3
  <2>2. \A s \in Used' : conn'[client_fds'[s]] # "free"
    BY <1>3, <1>4, <1>5 DEF Bookkeeping, WatchedAreOpen
  <2>3. \A s, r \in Used' : s # r => client_fds'[s] # client_fds'[r]
    BY <1>4, <1>5 DEF Bookkeeping, WatchedAreOpen
  <2>4. QED BY <2>1, <2>2, <2>3 DEF WatchedAreOpen
<1>8. MaxPosInRange'
  BY <1>3 DEF Bookkeeping, MaxPosInRange
<1>9. NoDescriptorLeaks'
  <2> SUFFICES ASSUME NEW g \in Fds, conn'[g] # "free"
               PROVE  \E s \in Used' : client_fds'[s] = g
    BY DEF NoDescriptorLeaks
  <2>1. g # gone /\ conn[g] # "free"
    BY <1>3
  <2>2. PICK s \in Used : client_fds[s] = g
    BY <2>1 DEF Bookkeeping, NoDescriptorLeaks
  <2>3. QED BY <1>4, <1>5, <2>1, <2>2 DEF gone
<1>10. RemovedAreGone'
  <2>1. client_fds'[removed_pos'] = -1
    BY <1>1, <1>3
  <2>2. \A s \in Slots : removed_fd' # -1 => client_fds'[s] # removed_fd'
    <3> SUFFICES ASSUME NEW s \in Slots, removed_fd' # -1 PROVE client_fds'[s] # removed_fd'
      OBVIOUS
    <3>1. CASE removed_fd' = gone
      BY <1>2, <1>3, <1>4, <1>5, <3>1 DEF Used
    <3>2. CASE removed_fd' = removed_fd
      BY <1>2, <1>3, <3>2 DEF Bookkeeping, RemovedAreGone
    <3>3. QED BY <1>3, <3>1, <3>2
  <2>3. QED BY <1>3, <2>1, <2>2 DEF RemovedAreGone
<1>11. ReportedWereWatched'
  BY <1>3 DEF ReportedWereWatched
<1>12. QED BY <1>6, <1>7, <1>8, <1>9, <1>10, <1>11 DEF Bookkeeping

\* Lowering max_pos and max_fd leaves every client below them: the slot that was
\* the last one is free, and the descriptor that was the highest one is nobody's.
LEMMA FinishCheckStep ==
  ASSUME TypeOK, Bookkeeping, FinishCheck
  PROVE  Bookkeeping'
<1>1. UNCHANGED <<fd_sets, client_fds, conn>> /\ pc = "check" /\ pc' = "select"
  BY DEF FinishCheck, kernel
<1>2. Slots \subseteq Int /\ Fds \subseteq Int /\ ServerFd \in Int /\ FdSize \in Nat
  BY ServerAssumption DEF Slots
<1>3. Used' = Used /\ Used \subseteq Slots
  BY <1>1 DEF Used
<1>4. /\ max_pos' \in -1..(FdSize - 1)
      /\ \A s \in Used : s <= max_pos'
  <2>1. max_pos \in 0..(FdSize - 1)
    BY <1>1, <1>2 DEF Bookkeeping, MaxPosInRange, TypeOK
  <2>2. CASE removed_pos = max_pos
    <3>1. max_pos \notin Used
      BY <1>1, <2>1, <2>2 DEF Bookkeeping, RemovedAreGone, Used
    <3>2. max_pos' = max_pos - 1
      BY <2>2 DEF FinishCheck
    <3>3. ASSUME NEW s \in Used PROVE s <= max_pos'
      BY <1>2, <1>3, <2>1, <3>1, <3>2 DEF Bookkeeping, ClientsSeen
    <3>4. QED BY <1>2, <2>1, <3>2, <3>3
  <2>3. CASE removed_pos # max_pos
    <3>1. max_pos' = max_pos
      BY <2>3 DEF FinishCheck
    <3>2. QED BY <1>2, <2>1, <3>1 DEF Bookkeeping, ClientsSeen
  <2>4. QED BY <2>2, <2>3
<1>5. \A s \in Used : client_fds[s] <= max_fd'
  <2>1. CASE removed_fd = max_fd
    <3>1. max_fd' = HighestFd(max_pos') /\ max_pos' \in Int
      BY <1>2, <1>4, <2>1 DEF FinishCheck
    <3>2. QED BY <1>3, <1>4, <3>1, HighestFdIsHighest
  <2>2. CASE removed_fd # max_fd
    BY <2>2 DEF FinishCheck, Bookkeeping, ClientsSeen
  <2>3. QED BY <2>1, <2>2
<1>6. ClientsSeen'
  BY <1>1, <1>3, <1>4, <1>5 DEF Bookkeeping, ClientsSeen
<1>7. WatchedAreOpen' /\ NoDescriptorLeaks'
  BY <1>1, <1>3 DEF Bookkeeping, WatchedAreOpen, NoDescriptorLeaks
<1>8. MaxPosInRange' /\ RemovedAreGone' /\ ReportedWereWatched'
  BY <1>1, <1>4 DEF MaxPosInRange, RemovedAreGone, ReportedWereWatched
<1>9. QED BY <1>6, <1>7, <1>8 DEF Bookkeeping

\* Every step keeps the slots, the watched set, both maxima and the descriptors
\* in agreement.
LEMMA BookkeepingStep ==
  ASSUME TypeOK, Bookkeeping, [Next]_vars
  PROVE  Bookkeeping'
<1>1. CASE Select
  BY <1>1, SelectStep
<1>2. ASSUME NEW fd \in Fds, AcceptClient(fd) PROVE Bookkeeping'
  BY <1>2, AcceptClientStep
<1>3. CASE AcceptFails \/ \E fd \in Fds : RefuseClient(fd)
  BY <1>3, NoClientAddedStep
<1>4. CASE RemoveClient
  BY <1>4, RemoveClientStep
<1>5. CASE FinishCheck
  BY <1>5, FinishCheckStep
<1>6. ASSUME \/ SkipSlot \/ EchoData \/ EchoReset \/ PeerConnects
             \/ (\E fd \in Fds : PeerActs(fd)) \/ UNCHANGED vars
      PROVE  Bookkeeping'
  <2>1. /\ UNCHANGED <<fd_sets, fd_ready_sets, max_pos, max_fd, client_fds,
                       removed_pos, removed_fd>>
        /\ pc' = pc \/ pc' = "killed"
        /\ pc = "accept" => i' = i
    BY <1>6 DEF SkipSlot, EchoData, EchoReset, PeerConnects, PeerActs, vars, ioSet,
                locals, kernel, Looking
  <2>2. \A fd \in Fds : conn'[fd] = "free" <=> conn[fd] = "free"
    <3>1. CASE SkipSlot \/ EchoReset \/ PeerConnects \/ UNCHANGED vars
      BY <3>1 DEF SkipSlot, EchoReset, PeerConnects, vars, kernel
    <3>2. CASE EchoData
      BY <3>2 DEF EchoData, TypeOK
    <3>3. ASSUME NEW g \in Fds, PeerActs(g)
          PROVE  \A fd \in Fds : conn'[fd] = "free" <=> conn[fd] = "free"
      BY <3>3 DEF PeerActs, TypeOK
    <3>4. QED BY <1>6, <3>1, <3>2, <3>3
  <2>3. /\ ClientsSeen' /\ WatchedAreOpen' /\ NoDescriptorLeaks'
        /\ max_pos' \in -1..(FdSize - 1)
    BY <2>1, <2>2, SlotsUntouched
  <2>4. MaxPosInRange' /\ RemovedAreGone' /\ ReportedWereWatched'
    BY <2>1, <2>3 DEF Bookkeeping, MaxPosInRange, RemovedAreGone, ReportedWereWatched
  <2>5. QED BY <2>3, <2>4 DEF Bookkeeping
<1>7. QED
  BY <1>1, <1>2, <1>3, <1>4, <1>5, <1>6 DEF Next, ServerStep

------------------------------------------------------------------------------
(* Every step keeps the counts *)

\* Each reported client is one slot.
LEMMA ReportedAreSlots ==
  ASSUME TypeOK, WatchedAreOpen, NEW reported \in SUBSET fd_sets
  PROVE  LET R == {s \in Used : client_fds[s] \in reported}
         IN  /\ IsFiniteSet(reported) /\ Cardinality(R) \in Nat
             /\ Cardinality(reported \ {ServerFd}) = Cardinality(R)
<1> DEFINE R == {s \in Used : client_fds[s] \in reported}
           T == reported \ {ServerFd}
           f == [s \in R |-> client_fds[s]]
<1>1. R \subseteq Slots /\ \A s \in R : client_fds[s] \in Fds
  BY DEF Used, TypeOK
<1>2. IsFiniteSet(R) /\ Cardinality(R) \in Nat
  BY <1>1, SlotsFinite
<1>3. IsFiniteSet(reported)
  <2>1. IsFiniteSet(Fds \cup {ServerFd})
    BY ServerAssumption, FS_AddElement
  <2>2. reported \in SUBSET (Fds \cup {ServerFd})
    BY DEF TypeOK
  <2>3. QED BY <2>1, <2>2, FS_Subset
<1>4. f \in [R -> T]
  BY <1>1, ServerAssumption
<1>5. \A s, r \in R : f[s] = f[r] => s = r
  BY DEF WatchedAreOpen
<1>6. \A t \in T : \E s \in R : f[s] = t
  BY DEF WatchedAreOpen
<1>7. ExistsBijection(R, T)
  <2> HIDE DEF R, T, f
  <2>1. f \in Bijection(R, T)
    BY <1>4, <1>5, <1>6 DEF Bijection, Injection, Surjection, IsInjective
  <2>2. QED BY <2>1 DEF ExistsBijection
<1>8. Cardinality(T) = Cardinality(R)
  <2> HIDE DEF R, T
  <2>1. QED BY <1>2, <1>7, FS_Bijection
<1>9. QED BY <1>2, <1>3, <1>8

\* nReady goes down with the slots ahead of the loop.
LEMMA ReadyStep ==
  ASSUME TypeOK, Bookkeeping, ReadyCounted, [Next]_vars
  PROVE  ReadyCounted'
<1> USE DEF ReadyCounted
<1>1. CASE Select
  <2> DEFINE reported == {fd \in fd_sets : fd <= max_fd /\ Readable(fd)}
             R == {s \in Used : client_fds[s] \in reported}
  <2>1. /\ nReady' = Cardinality(reported) /\ fd_ready_sets' = reported /\ i' = 0
        /\ pc' = IF ServerFd \in reported THEN "accept" ELSE "check"
        /\ client_fds' = client_fds
    BY <1>1 DEF Select
  <2>2. reported \in SUBSET fd_sets
    OBVIOUS
  <2> HIDE DEF reported
  <2>3. ReadyAhead' = R
    BY <2>1 DEF ReadyAhead, Used, Slots
  <2>4. /\ IsFiniteSet(reported) /\ Cardinality(R) \in Nat
        /\ Cardinality(reported \ {ServerFd}) = Cardinality(R)
    BY <2>2, ReportedAreSlots DEF Bookkeeping
  <2> HIDE DEF R
  <2>5. CASE ServerFd \in reported
    <3>1. Cardinality(reported) = Cardinality(R) + 1
      <4>1. Cardinality(reported \ {ServerFd}) = Cardinality(reported) - 1
        BY <2>4, <2>5, FS_RemoveElement
      <4>2. Cardinality(reported) \in Nat
        BY <2>4, FS_CardinalityType
      <4>3. QED BY <2>4, <4>1, <4>2
    <3>2. QED BY <2>1, <2>3, <2>5, <3>1
  <2>6. CASE ServerFd \notin reported
    <3>1. reported \ {ServerFd} = reported
      BY <2>6
    <3>2. QED BY <2>1, <2>3, <2>4, <2>6, <3>1
  <2>7. QED BY <2>5, <2>6
<1>2. ASSUME NEW fd \in Fds, AcceptClient(fd) PROVE ReadyCounted'
  <2>1. FirstFree \in Slots /\ client_fds[FirstFree] = -1
    BY <1>2, FirstFreeIsFree DEF AcceptClient
  <2>2. fd \notin fd_ready_sets
    <3>1. \A s \in Used : client_fds[s] # fd
      BY <1>2 DEF Bookkeeping, WatchedAreOpen, AcceptClient, LowestFd
    <3>2. fd \notin fd_sets
      BY <3>1, ServerAssumption DEF Bookkeeping, WatchedAreOpen
    <3>3. QED BY <1>2, <3>2 DEF Bookkeeping, ReportedWereWatched, AcceptClient
  <2>3. /\ \A s \in Slots : client_fds'[s] = IF s = FirstFree THEN fd ELSE client_fds[s]
        /\ UNCHANGED <<i, fd_ready_sets>>
    BY <1>2 DEF AcceptClient, TypeOK, locals
  <2>4. ReadyAhead' = ReadyAhead
    BY <2>1, <2>2, <2>3 DEF ReadyAhead, Used
  <2>5. nReady' = nReady - 1 /\ pc = "accept" /\ pc' = "check"
    BY <1>2 DEF AcceptClient
  <2>6. Cardinality(ReadyAhead) \in Nat
    BY SlotsFinite DEF ReadyAhead, Used
  <2>7. QED BY <2>4, <2>5, <2>6
<1>3. CASE AcceptFails \/ \E fd \in Fds : RefuseClient(fd)
  <2>1. /\ nReady' = nReady - 1 /\ pc = "accept" /\ pc' \in {"check", "killed"}
        /\ UNCHANGED <<i, client_fds, fd_ready_sets>>
    BY <1>3 DEF AcceptFails, RefuseClient, locals
  <2>2. ReadyAhead' = ReadyAhead
    BY <2>1 DEF ReadyAhead, Used
  <2>3. Cardinality(ReadyAhead) \in Nat
    BY SlotsFinite DEF ReadyAhead, Used
  <2>4. QED BY <2>1, <2>2, <2>3
<1>4. CASE SkipSlot
  <2>1. i \in Slots /\ Slots \subseteq Int
    BY <1>4, LookingAtSlot DEF SkipSlot, Bookkeeping, Slots
  <2>2. i' = i + 1 /\ ~SlotReady /\ UNCHANGED <<nReady, pc, client_fds, fd_ready_sets>>
    BY <1>4 DEF SkipSlot, ioSet
  <2>a. \A s \in Slots : s >= i' <=> s >= i /\ s # i
    BY <2>1, <2>2
  <2>3. ReadyAhead' = ReadyAhead
    BY <2>2, <2>a DEF ReadyAhead, Used, SlotReady
  <2>4. pc = "check"
    BY <1>4 DEF SkipSlot, Looking
  <2>5. QED BY <2>2, <2>3, <2>4
<1>5. CASE EchoData \/ RemoveClient
  <2>1. i \in Slots /\ Slots \subseteq Int /\ SlotReady
    BY <1>5, LookingAtSlot DEF EchoData, RemoveClient, Bookkeeping, Slots
  <2>2. /\ i' = i + 1 /\ nReady' = nReady - 1 /\ UNCHANGED <<pc, fd_ready_sets>>
        /\ \A s \in Slots : s # i => client_fds'[s] = client_fds[s]
    BY <1>5 DEF EchoData, RemoveClient, TypeOK
  <2>a. \A s \in Slots : s >= i' <=> s >= i /\ s # i
    BY <2>1, <2>2
  <2>b. ReadyAhead' = ReadyAhead \ {i}
    BY <2>2, <2>a DEF ReadyAhead, Used
  <2>c. i \in ReadyAhead
    BY <2>1 DEF ReadyAhead, Used, SlotReady
  <2>3. ReadyAhead' = ReadyAhead \ {i} /\ i \in ReadyAhead
    BY <2>b, <2>c
  <2>4. IsFiniteSet(ReadyAhead)
    BY SlotsFinite DEF ReadyAhead, Used
  <2>5. Cardinality(ReadyAhead') = Cardinality(ReadyAhead) - 1
    BY <2>3, <2>4, FS_RemoveElement
  <2>6. pc = "check"
    BY <1>5 DEF EchoData, RemoveClient, Looking
  <2>7. QED BY <2>2, <2>5, <2>6
<1>6. CASE EchoReset \/ FinishCheck
  BY <1>6 DEF EchoReset, FinishCheck
<1>7. ASSUME \/ PeerConnects \/ (\E fd \in Fds : PeerActs(fd)) \/ UNCHANGED vars
      PROVE  ReadyCounted'
  <2>1. UNCHANGED <<ioSet, pc, i>>
    BY <1>7 DEF PeerConnects, PeerActs, vars, locals
  <2>2. QED BY <2>1 DEF ioSet, ReadyAhead, Used
<1>8. QED
  BY <1>1, <1>2, <1>3, <1>4, <1>5, <1>6, <1>7 DEF Next, ServerStep

\* client_num follows the slots while accept does not fail.
LEMMA ClientsStep ==
  ASSUME TypeOK, Bookkeeping, ClientsCounted, [Next]_vars
  PROVE  ClientsCounted'
<1> USE DEF ClientsCounted
<1>1. IsFiniteSet(Used) /\ Cardinality(Used) \in Nat
  BY SlotsFinite DEF Used
<1>2. ASSUME NEW fd \in Fds, AcceptClient(fd) PROVE ClientsCounted'
  <2>1. FirstFree \in Slots /\ client_fds[FirstFree] = -1 /\ fd # -1
    BY <1>2, FirstFreeIsFree, ServerAssumption DEF AcceptClient
  <2>2. \A s \in Slots : client_fds'[s] = IF s = FirstFree THEN fd ELSE client_fds[s]
    BY <1>2 DEF AcceptClient, TypeOK
  <2>3. Used' = Used \cup {FirstFree} /\ FirstFree \notin Used
    BY <2>1, <2>2 DEF Used
  <2>4. Cardinality(Used') = Cardinality(Used) + 1
    BY <1>1, <2>3, FS_AddElement
  <2>5. client_num' = client_num + 1 /\ failures' = failures
    BY <1>2 DEF AcceptClient
  <2>6. QED BY <2>4, <2>5
<1>3. CASE RemoveClient
  <2>1. i \in Slots /\ client_fds[i] # -1
    BY <1>3, LookingAtSlot DEF RemoveClient, SlotReady, Bookkeeping
  <2>2. \A s \in Slots : client_fds'[s] = IF s = i THEN -1 ELSE client_fds[s]
    BY <1>3 DEF RemoveClient, TypeOK
  <2>3. Used' = Used \ {i} /\ i \in Used
    BY <2>1, <2>2 DEF Used
  <2>4. Cardinality(Used') = Cardinality(Used) - 1
    BY <1>1, <2>3, FS_RemoveElement
  <2>5. client_num' = client_num - 1 /\ failures' = failures
    BY <1>3 DEF RemoveClient
  <2>6. QED BY <2>4, <2>5
<1>4. CASE AcceptFails
  <2>1. failures' # 0
    BY <1>4 DEF AcceptFails, TypeOK
  <2>2. QED BY <2>1
<1>5. ASSUME \/ Select \/ (\E fd \in Fds : RefuseClient(fd)) \/ SkipSlot \/ EchoData
             \/ EchoReset \/ FinishCheck \/ PeerConnects
             \/ (\E fd \in Fds : PeerActs(fd)) \/ UNCHANGED vars
      PROVE  ClientsCounted'
  <2>1. UNCHANGED <<client_fds, client_num, failures>>
    BY <1>5 DEF Select, RefuseClient, SkipSlot, EchoData, EchoReset, FinishCheck,
                PeerConnects, PeerActs, vars, ioSet, kernel
  <2>2. QED BY <2>1 DEF Used
<1>6. QED BY <1>2, <1>3, <1>4, <1>5 DEF Next, ServerStep

------------------------------------------------------------------------------
(* The theorems *)

\* The server starts with no client and agreeing books.
LEMMA InitIInv == Init => IInv
<1> SUFFICES ASSUME Init PROVE IInv
  OBVIOUS
<1> USE DEF Init
<1>1. Used = {}
  BY DEF Used
<1>2. TypeOK
  BY ServerAssumption DEF TypeOK, ConnStates, Slots
<1>3. ClientsSeen /\ WatchedAreOpen /\ NoDescriptorLeaks
  BY <1>1 DEF ClientsSeen, WatchedAreOpen, NoDescriptorLeaks
<1>4. MaxPosInRange /\ RemovedAreGone /\ ReportedWereWatched
  BY ServerAssumption DEF MaxPosInRange, RemovedAreGone, ReportedWereWatched
<1>5. ReadyCounted /\ ClientsCounted
  BY <1>1, FS_EmptySet DEF ReadyCounted, ClientsCounted
<1>6. QED BY <1>2, <1>3, <1>4, <1>5 DEF IInv, Bookkeeping

\* The inductive invariant holds in every reachable state.
THEOREM Inductive == Spec => []IInv
<1>1. Init => IInv
  BY InitIInv
<1>2. IInv /\ [Next]_vars => IInv'
  <2> SUFFICES ASSUME IInv, [Next]_vars PROVE IInv'
    OBVIOUS
  <2>1. TypeOK /\ MaxPosInRange /\ Bookkeeping /\ ReadyCounted /\ ClientsCounted
    BY DEF IInv, Bookkeeping
  <2>2. QED BY <2>1, TypeStep, BookkeepingStep, ReadyStep, ClientsStep DEF IInv
<1>3. QED BY <1>1, <1>2, PTL DEF Spec

\* The variables keep their types.
THEOREM TypeCorrect == Spec => []TypeOK
<1>1. IInv => TypeOK
  BY DEF IInv
<1>2. QED BY <1>1, Inductive, PTL

\* No client is ever out of the sight of select or of check_clients, whatever
\* the order in which clients come and go.
THEOREM NoClientForgotten == Spec => []ClientsSeen
<1>1. IInv => ClientsSeen
  BY DEF IInv, Bookkeeping
<1>2. QED BY <1>1, Inductive, PTL

\* select never gets a closed descriptor, and no descriptor has two slots.
THEOREM WatchesAreSound == Spec => []WatchedAreOpen
<1>1. IInv => WatchedAreOpen
  BY DEF IInv, Bookkeeping
<1>2. QED BY <1>1, Inductive, PTL

\* max_pos stays within the array, and check_clients never takes "no slot was
\* removed" for "the last slot was removed".
THEOREM MaxPosBounded == Spec => []MaxPosInRange
<1>1. IInv => MaxPosInRange
  BY DEF IInv, Bookkeeping
<1>2. QED BY <1>1, Inductive, PTL

\* check_clients may stop when nReady is zero: nothing reported is ahead of it.
THEOREM EarlyStopIsSound == Spec => []ReadyCounted
<1>1. IInv => ReadyCounted
  BY DEF IInv
<1>2. QED BY <1>1, Inductive, PTL

\* client_num is right as long as accept has not failed.
THEOREM ClientNumRight == Spec => []ClientsCounted
<1>1. IInv => ClientsCounted
  BY DEF IInv
<1>2. QED BY <1>1, Inductive, PTL

\* No descriptor is left open without a slot.
THEOREM DescriptorsOwned == Spec => []NoDescriptorLeaks
<1>1. IInv => NoDescriptorLeaks
  BY DEF IInv, Bookkeeping
<1>2. QED BY <1>1, Inductive, PTL

------------------------------------------------------------------------------
(* The epoll server.                                                          *)

Sockets == ClientFds \cup {Epoll!Listener}

EpollTypes ==
    /\ life \in [ClientFds -> {"free", "open", "fin", "rst", "broken"}]
    /\ rx \in [ClientFds -> Nat] /\ tx \in [ClientFds -> Nat] /\ waiting \in Nat
    /\ watched \subseteq ClientFds /\ cur \in Sockets /\ clients \in Int
    /\ ready \in Seq(Sockets) /\ batch \in Seq(Sockets)

\* epoll lists a descriptor once, and only those it watches; EPOLL_CTL_DEL is
\* followed by the close that takes the client from the list.
ListsSound ==
    /\ Epoll!IsInjective(ready) /\ Epoll!IsInjective(batch)
    /\ watched \subseteq Epoll!Open
    /\ \A f \in Epoll!ToSet(ready) :
          f = Epoll!Listener \/ f \in watched \/ (at = "close" /\ f = cur)

\* The client at hand is watched until it is removed, and not before it is added.
AtHand ==
    /\ at = "accept" => cur = Epoll!Listener
    /\ at \in {"recv", "send", "epoll_ctl_del"} => cur \in watched
    /\ at \in {"add", "close"} => cur \in Epoll!Open \ watched
    /\ at \notin {"epoll_wait", "exited"} \/ (at = "epoll_wait" /\ batch = <<>>)

\* What follows in the batch is neither the client at hand nor spent.
BatchCurrent ==
    /\ \A f \in Epoll!ToSet(batch) : Epoll!Readable(f) /\ (f = Epoll!Listener \/ f \in watched)
    /\ at \in {"accept", "recv", "send", "epoll_ctl_del"} => cur \notin Epoll!ToSet(batch)
    /\ at \in {"accept", "recv"} => Epoll!Readable(cur)

\* client_num counts the clients watched and the one being removed.
Counted == clients = Cardinality(watched) + (IF at = "close" THEN 1 ELSE 0)

EpollInv == EpollTypes /\ ListsSound /\ AtHand /\ BatchCurrent /\ Counted

LEMMA GivenSizes ==
    /\ IsFiniteSet(ClientFds) /\ {MaxEvents, Chunk, MaxRx, MaxTx} \subseteq Nat \ {0}
    /\ Epoll!Listener \notin ClientFds
    BY EpollParameters DEF Epoll!EpollAssumption, Epoll!ListenerAssumption,
       Epoll!IsFiniteSet, IsFiniteSet

-----------------------------------------------------------------------------
(* Lists without repetitions                                                  *)

LEMMA ContainsToSet ==
    ASSUME NEW T, NEW s \in Seq(T), NEW e
    PROVE  Epoll!Contains(s, e) <=> e \in Epoll!ToSet(s)
BY DEF Epoll!Contains, Epoll!ToSet

LEMMA KeptIsPart ==
    ASSUME NEW T, NEW s \in Seq(T), NEW S, NEW t \in Epoll!Kept(s, S)
    PROVE  t \in Seq(T) /\ Epoll!IsInjective(t) /\ Epoll!ToSet(t) = Epoll!ToSet(s) \cap S
<1>1. Epoll!IsInjective(t) /\ Epoll!ToSet(t) = Epoll!ToSet(s) \cap S
        /\ t \in Epoll!SeqOf(Epoll!ToSet(s), Len(s))
    BY DEF Epoll!Kept
<1>2. PICK m \in 0..Len(s) : t \in [1..m -> Epoll!ToSet(s)]
    BY <1>1 DEF Epoll!SeqOf
<1>3. Epoll!ToSet(s) \subseteq T
    BY DEF Epoll!ToSet
<1> QED
    BY <1>1, <1>2, <1>3

LEMMA AppendOnce ==
    ASSUME NEW T, NEW s \in Seq(T), NEW e \in T, Epoll!IsInjective(s), e \notin Epoll!ToSet(s)
    PROVE  /\ Append(s, e) \in Seq(T) /\ Epoll!IsInjective(Append(s, e))
           /\ Epoll!ToSet(Append(s, e)) = Epoll!ToSet(s) \cup {e}
<1>1. PICK n \in Nat : n = Len(s)
    OBVIOUS
<1>2. /\ Append(s, e) \in Seq(T) /\ DOMAIN Append(s, e) = 1..(n + 1) /\ DOMAIN s = 1..n
      /\ \A m \in 1..n : Append(s, e)[m] = s[m]
      /\ Append(s, e)[n + 1] = e
    BY <1>1
<1>3. \A m \in 1..n : s[m] # e
    BY <1>2 DEF Epoll!ToSet
<1>4. Epoll!IsInjective(Append(s, e))
    BY <1>2, <1>3 DEF Epoll!IsInjective
<1>5. Epoll!ToSet(Append(s, e)) = Epoll!ToSet(s) \cup {e}
    BY <1>2 DEF Epoll!ToSet
<1> QED
    BY <1>2, <1>4, <1>5

LEMMA Parted ==
    ASSUME NEW T, NEW s \in Seq(T), Epoll!IsInjective(s), NEW k \in 0..Len(s)
    PROVE  /\ {SubSeq(s, 1, k), SubSeq(s, k + 1, Len(s))} \subseteq Seq(T)
           /\ Epoll!IsInjective(SubSeq(s, 1, k)) /\ Epoll!IsInjective(SubSeq(s, k + 1, Len(s)))
           /\ Epoll!ToSet(SubSeq(s, 1, k)) \subseteq Epoll!ToSet(s)
           /\ Epoll!ToSet(SubSeq(s, k + 1, Len(s))) \subseteq Epoll!ToSet(s)
           /\ Epoll!ToSet(SubSeq(s, 1, k)) \cap Epoll!ToSet(SubSeq(s, k + 1, Len(s))) = {}
<1>1. PICK n \in Nat : n = Len(s)
    OBVIOUS
<1> \A m \in 1..n : s[m] \in T
    BY <1>1
<1>2. PICK a \in Seq(T) : a = SubSeq(s, 1, k) /\ DOMAIN a = 1..k /\ \A m \in 1..k : a[m] = s[m]
    <2>1. k \in Int /\ k <= n
        BY <1>1
    <2>2. \A m \in 1..k : s[m] \in T
        BY <1>1
    <2>3. SubSeq(s, 1, k) \in Seq(T) /\ Len(SubSeq(s, 1, k)) = k
            /\ \A m \in 1..k : SubSeq(s, 1, k)[m] = s[m]
        BY <2>1, <2>2, SubSeqProperties
    <2> QED
        BY <2>3, LenProperties
<1>3. PICK b \in Seq(T) : /\ b = SubSeq(s, k + 1, n) /\ DOMAIN b = 1..(n - k)
                          /\ \A m \in 1..(n - k) : b[m] = s[m + k]
    <2>1. k + 1 \in Int /\ n \in Int /\ k <= n /\ k \in Nat
        BY <1>1
    <2>2. \A m \in (k + 1)..n : s[m] \in T
        BY <1>1
    <2>3. /\ SubSeq(s, k + 1, n) \in Seq(T)
          /\ Len(SubSeq(s, k + 1, n)) = IF k + 1 <= n THEN n - (k + 1) + 1 ELSE 0
          /\ \A m \in 1..(n - (k + 1) + 1) : SubSeq(s, k + 1, n)[m] = s[(k + 1) + m - 1]
        BY <2>1, <2>2, SubSeqProperties
    <2>4. Len(SubSeq(s, k + 1, n)) = n - k
            /\ \A m \in 1..(n - k) : SubSeq(s, k + 1, n)[m] = s[m + k]
        BY <2>1, <2>3
    <2> QED
        BY <2>3, <2>4, LenProperties
<1>4. /\ DOMAIN s = 1..n
      /\ DOMAIN a = 1..k /\ \A m \in 1..k : a[m] = s[m]
      /\ DOMAIN b = 1..(n - k) /\ \A m \in 1..(n - k) : b[m] = s[m + k]
    BY <1>1, <1>2, <1>3, LenProperties
<1>5. Epoll!IsInjective(a) /\ Epoll!ToSet(a) \subseteq Epoll!ToSet(s)
    BY <1>4, <1>1 DEF Epoll!IsInjective, Epoll!ToSet
<1>6. \A m \in 1..(n - k) : m + k \in 1..n /\ \A j \in 1..(n - k) : m + k = j + k => m = j
    BY <1>1
<1>7. Epoll!IsInjective(b) /\ Epoll!ToSet(b) \subseteq Epoll!ToSet(s)
    <2>1. ASSUME NEW m \in 1..(n - k), NEW j \in 1..(n - k), b[m] = b[j] PROVE m = j
        <3>1. s[m + k] = s[j + k] /\ m + k \in DOMAIN s /\ j + k \in DOMAIN s
            BY <1>4, <1>6, <2>1
        <3>2. m + k = j + k
            BY <3>1 DEF Epoll!IsInjective
        <3> QED
            BY <3>2, <1>6
    <2>2. Epoll!IsInjective(b)
        BY <1>4, <2>1 DEF Epoll!IsInjective
    <2>3. Epoll!ToSet(b) \subseteq Epoll!ToSet(s)
        <3>1. \A m \in 1..(n - k) : b[m] = s[m + k] /\ m + k \in DOMAIN s
            BY <1>4, <1>6
        <3> QED
            BY <3>1, <1>4 DEF Epoll!ToSet
    <2> QED
        BY <2>2, <2>3
<1>8. \A m \in 1..k, j \in 1..(n - k) : a[m] # b[j]
    <2> SUFFICES ASSUME NEW m \in 1..k, NEW j \in 1..(n - k) PROVE a[m] # b[j]
        OBVIOUS
    <2>1. m \in 1..n /\ j + k \in 1..n /\ m # j + k
        BY <1>1
    <2> QED
        BY <2>1, <1>4 DEF Epoll!IsInjective
<1>9. Epoll!ToSet(a) \cap Epoll!ToSet(b) = {}
    BY <1>4, <1>8 DEF Epoll!ToSet
<1> QED
    BY <1>1, <1>2, <1>3, <1>5, <1>7, <1>9

LEMMA HeadOnce ==
    ASSUME NEW T, NEW s \in Seq(T), s # <<>>, Epoll!IsInjective(s)
    PROVE  /\ Head(s) \in T /\ Tail(s) \in Seq(T) /\ Epoll!IsInjective(Tail(s))
           /\ Head(s) \in Epoll!ToSet(s) /\ Epoll!ToSet(Tail(s)) \subseteq Epoll!ToSet(s)
           /\ Head(s) \notin Epoll!ToSet(Tail(s))
<1>1. PICK n \in Nat : n = Len(s)
    OBVIOUS
<1>2. PICK t \in Seq(T) : t = Tail(s) /\ Len(t) = n - 1 /\ \A m \in 1..(n - 1) : t[m] = s[m + 1]
    <2>1. /\ Tail(s) \in Seq(T) /\ Len(Tail(s)) = Len(s) - 1
          /\ \A m \in 1..Len(Tail(s)) : Tail(s)[m] = s[m + 1]
        BY HeadTailProperties
    <2> QED
        BY <1>1, <2>1
<1>3. /\ DOMAIN s = 1..n /\ n > 0 /\ Head(s) = s[1] /\ Head(s) \in T
      /\ DOMAIN t = 1..(n - 1) /\ \A m \in 1..(n - 1) : t[m] = s[m + 1]
    BY <1>1, <1>2, LenProperties, EmptySeq
<1>4. \A m \in 1..(n - 1) : m + 1 \in 1..n /\ m + 1 # 1
    BY <1>1
<1>5. Epoll!IsInjective(t)
    <2> SUFFICES ASSUME NEW m \in 1..(n - 1), NEW j \in 1..(n - 1), t[m] = t[j] PROVE m = j
        BY <1>3 DEF Epoll!IsInjective
    <2>1. s[m + 1] = s[j + 1] /\ m + 1 \in DOMAIN s /\ j + 1 \in DOMAIN s
        BY <1>3, <1>4
    <2>2. m + 1 = j + 1
        BY <2>1 DEF Epoll!IsInjective
    <2> QED
        BY <2>2
<1>8. Epoll!ToSet(t) \subseteq Epoll!ToSet(s)
    BY <1>3, <1>4 DEF Epoll!ToSet
<1>6. Head(s) \in T /\ Head(s) \in Epoll!ToSet(s)
    BY <1>3 DEF Epoll!ToSet
<1>7. Head(s) \notin Epoll!ToSet(t)
    <2>1. ASSUME NEW m \in 1..(n - 1) PROVE s[1] # s[m + 1]
        <3>1. 1 \in DOMAIN s /\ m + 1 \in DOMAIN s /\ m + 1 # 1
            BY <1>3, <1>4
        <3> QED
            BY <3>1 DEF Epoll!IsInjective
    <2> QED
        BY <1>3, <2>1 DEF Epoll!ToSet
<1> QED
    BY <1>2, <1>5, <1>6, <1>7, <1>8

LEMMA EmptyOnce ==
    ASSUME NEW T
    PROVE  <<>> \in Seq(T) /\ Epoll!IsInjective(<<>>) /\ Epoll!ToSet(<<>>) = {}
<1>1. <<>> \in Seq(T) /\ DOMAIN <<>> = {}
    BY EmptySeq
<1> QED
    BY <1>1 DEF Epoll!IsInjective, Epoll!ToSet

LEMMA Woken ==
    ASSUME EpollTypes, Epoll!IsInjective(ready), NEW f \in Sockets
    PROVE  /\ Epoll!Wake(f) \in Seq(Sockets) /\ Epoll!IsInjective(Epoll!Wake(f))
           /\ \A g \in Epoll!ToSet(Epoll!Wake(f)) : g \in Epoll!ToSet(ready)
                \/ g = Epoll!Listener \/ g \in watched
<1>1. ready \in Seq(Sockets) /\ (Epoll!Contains(ready, f) <=> f \in Epoll!ToSet(ready))
    BY ContainsToSet DEF EpollTypes
<1>2. CASE Epoll!Wake(f) = ready
    BY <1>1, <1>2
<1>3. CASE Epoll!Wake(f) = Append(ready, f) /\ f \in watched \cup {Epoll!Listener}
        /\ f \notin Epoll!ToSet(ready)
    BY <1>1, <1>3, AppendOnce
<1> QED
    BY <1>1, <1>2, <1>3 DEF Epoll!Wake

-----------------------------------------------------------------------------
(* The invariant is kept                                                      *)

LEMMA InitEpoll == Epoll!Init => EpollInv
<1> SUFFICES ASSUME Epoll!Init PROVE EpollInv
    OBVIOUS
<1>1. <<>> \in Seq(Sockets) /\ Epoll!IsInjective(<<>>) /\ Epoll!ToSet(<<>>) = {}
    BY EmptyOnce
<1>2. Cardinality({}) = 0
    BY FS_EmptySet
<1> QED
    BY <1>1, <1>2 DEF Epoll!Init, EpollInv, EpollTypes, ListsSound, AtHand, BatchCurrent, Counted,
       Sockets

\* Peers leave the server's own state alone, and what is readable stays so.
LEMMA PeersKeep ==
    ASSUME EpollInv, UNCHANGED Epoll!server_vars, EpollTypes',
           Epoll!IsInjective(ready)',
           \A g \in Epoll!ToSet(ready') : g \in Epoll!ToSet(ready) \/ g = Epoll!Listener
             \/ g \in watched,
           \A g \in Sockets : Epoll!Readable(g) => Epoll!Readable(g)',
           Epoll!Open' = Epoll!Open
    PROVE  EpollInv'
<1> USE DEF Epoll!server_vars
<1>1. ListsSound'
    BY DEF EpollInv, ListsSound
<1>2. AtHand'
    BY DEF EpollInv, AtHand
<1>3. BatchCurrent'
    <2>1. Epoll!ToSet(batch) \subseteq Sockets /\ cur \in Sockets
        BY DEF EpollInv, EpollTypes, Epoll!ToSet
    <2> QED
        BY <2>1 DEF EpollInv, BatchCurrent
<1>4. Counted'
    BY DEF EpollInv, Counted
<1> QED
    BY <1>1, <1>2, <1>3, <1>4 DEF EpollInv

LEMMA PeersStep == EpollInv /\ Epoll!PeerStep => EpollInv'
<1> SUFFICES ASSUME EpollInv, Epoll!PeerStep PROVE EpollInv'
    OBVIOUS
<1> EpollTypes /\ ListsSound
    BY DEF EpollInv
<1> /\ IsFiniteSet(ClientFds) /\ {MaxEvents, Chunk, MaxRx, MaxTx} \subseteq Nat \ {0}
    /\ Epoll!Listener \notin ClientFds
    BY GivenSizes DEF EpollInv
<1> USE DEF Epoll!server_vars, Sockets
<1>1. CASE Epoll!PeerConnects
    <2>1. /\ waiting' = waiting + 1 /\ ready' = Epoll!Wake(Epoll!Listener)
               /\ Epoll!Listener \in Sockets
          /\ UNCHANGED <<life, rx, tx, Epoll!server_vars>>
        BY <1>1 DEF Epoll!PeerConnects
    <2>2. EpollTypes'
        BY <2>1, Woken DEF EpollTypes, ListsSound
    <2>3. Epoll!IsInjective(ready)' /\ \A g \in Epoll!ToSet(ready') : g \in Epoll!ToSet(ready)
            \/ g = Epoll!Listener \/ g \in watched
        BY <2>1, Woken DEF ListsSound
    <2>4. \A g \in Sockets : Epoll!Readable(g) => Epoll!Readable(g)'
        BY <2>1 DEF Epoll!Readable, EpollTypes
    <2>5. Epoll!Open' = Epoll!Open
        BY <2>1 DEF Epoll!Open
    <2> QED
        BY <2>1, <2>2, <2>3, <2>4, <2>5, PeersKeep
<1>2. ASSUME NEW f \in ClientFds, NEW n \in 1..MaxRx, Epoll!PeerSends(f, n) PROVE EpollInv'
    <2>1. /\ rx' = [rx EXCEPT ![f] = @ + n] /\ ready' = Epoll!Wake(f) /\ f \in Sockets
          /\ UNCHANGED <<life, tx, waiting, Epoll!server_vars>>
        BY <1>2 DEF Epoll!PeerSends
    <2>2. EpollTypes'
        <3>1. n \in Nat
            OBVIOUS
        <3>2. rx' \in [ClientFds -> Nat]
            BY <2>1, <3>1 DEF EpollTypes
        <3>3. ready' \in Seq(Sockets)
            BY <2>1, Woken DEF ListsSound
        <3> QED
            BY <2>1, <3>2, <3>3 DEF EpollTypes
    <2>3. Epoll!IsInjective(ready)' /\ \A g \in Epoll!ToSet(ready') : g \in Epoll!ToSet(ready)
            \/ g = Epoll!Listener \/ g \in watched
        BY <2>1, Woken DEF ListsSound
    <2>4. \A g \in Sockets : Epoll!Readable(g) => Epoll!Readable(g)'
        <3>1. n \in Nat \ {0}
            OBVIOUS
        <3> QED
            BY <2>1, <3>1 DEF Epoll!Readable, EpollTypes
    <2>5. Epoll!Open' = Epoll!Open
        BY <2>1 DEF Epoll!Open
    <2> QED
        BY <2>1, <2>2, <2>3, <2>4, <2>5, PeersKeep
<1>3. ASSUME NEW f \in ClientFds, Epoll!PeerReads(f) PROVE EpollInv'
    <2>1. /\ tx' = [tx EXCEPT ![f] = @ - 1] /\ tx[f] > 0
          /\ UNCHANGED <<life, rx, waiting, ready, Epoll!server_vars>>
        BY <1>3 DEF Epoll!PeerReads
    <2>2. EpollTypes'
        BY <2>1 DEF EpollTypes
    <2>3. Epoll!IsInjective(ready)' /\ \A g \in Epoll!ToSet(ready') : g \in Epoll!ToSet(ready)
            \/ g = Epoll!Listener \/ g \in watched
        BY <2>1 DEF ListsSound
    <2>4. \A g \in Sockets : Epoll!Readable(g) => Epoll!Readable(g)'
        BY <2>1 DEF Epoll!Readable
    <2>5. Epoll!Open' = Epoll!Open
        BY <2>1 DEF Epoll!Open
    <2> QED
        BY <2>1, <2>2, <2>3, <2>4, <2>5, PeersKeep
<1>4. ASSUME NEW f \in ClientFds, Epoll!PeerEnds(f) \/ Epoll!PeerResets(f) PROVE EpollInv'
    <2>1. PICK l \in {"fin", "rst", "broken"} : life' = [life EXCEPT ![f] = l]
        BY <1>4 DEF Epoll!PeerEnds, Epoll!PeerResets
    <2>2. /\ life[f] \in {"open", "fin"} /\ ready' = Epoll!Wake(f) /\ f \in Sockets
          /\ tx' \in {tx, [tx EXCEPT ![f] = 0]}
          /\ UNCHANGED <<rx, waiting, Epoll!server_vars>>
        BY <1>4 DEF Epoll!PeerEnds, Epoll!PeerResets
    <2>3. EpollTypes'
        BY <2>1, <2>2, Woken DEF EpollTypes, ListsSound
    <2>4. Epoll!IsInjective(ready)' /\ \A g \in Epoll!ToSet(ready') : g \in Epoll!ToSet(ready)
            \/ g = Epoll!Listener \/ g \in watched
        BY <2>2, Woken DEF ListsSound
    <2>5. \A g \in Sockets : Epoll!Readable(g) => Epoll!Readable(g)'
        BY <2>1, <2>2 DEF Epoll!Readable, EpollTypes
    <2>6. Epoll!Open' = Epoll!Open
        BY <2>1, <2>2 DEF Epoll!Open, EpollTypes
    <2> QED
        BY <2>2, <2>3, <2>4, <2>5, <2>6, PeersKeep
<1> QED
    BY <1>1, <1>2, <1>3, <1>4 DEF Epoll!PeerStep

LEMMA WaitStep == EpollInv /\ Epoll!epoll_wait => EpollInv'
<1> SUFFICES ASSUME EpollInv, Epoll!epoll_wait PROVE EpollInv'
    OBVIOUS
<1> EpollTypes /\ ListsSound /\ AtHand /\ BatchCurrent /\ Counted
    BY DEF EpollInv
<1> /\ IsFiniteSet(ClientFds) /\ {MaxEvents, Chunk, MaxRx, MaxTx} \subseteq Nat \ {0}
    /\ Epoll!Listener \notin ClientFds
    BY GivenSizes DEF EpollInv
<1> USE DEF Sockets
<1>1. /\ at = "epoll_wait" /\ at' = "next"
      /\ UNCHANGED <<life, rx, tx, waiting, watched, cur, clients>>
    BY DEF Epoll!epoll_wait
<1>2. PICK now \in Epoll!Kept(ready, {f \in Epoll!ToSet(ready) : Epoll!Readable(f)}) :
          LET k     == IF Len(now) < MaxEvents THEN Len(now) ELSE MaxEvents
              taken == SubSeq(now, 1, k)
              rest  == SubSeq(now, k + 1, Len(now))
          IN  /\ now # <<>>
              /\ batch' = taken
              /\ ready' = IF Epoll!Contains(taken, Epoll!Listener) THEN Append(rest, Epoll!Listener) ELSE rest
    BY DEF Epoll!epoll_wait
<1>3. /\ now \in Seq(Sockets) /\ Epoll!IsInjective(now)
      /\ \A f \in Epoll!ToSet(now) : f \in Epoll!ToSet(ready) /\ Epoll!Readable(f)
    <2>1. ready \in Seq(Sockets)
        BY DEF EpollTypes
    <2> QED
        BY <2>1, KeptIsPart
<1>4. PICK k \in 0..Len(now) : k = IF Len(now) < MaxEvents THEN Len(now) ELSE MaxEvents
    BY <1>3
<1>5. PICK rest : rest = SubSeq(now, k + 1, Len(now))
    OBVIOUS
<1>6. /\ batch' \in Seq(Sockets) /\ rest \in Seq(Sockets)
      /\ Epoll!IsInjective(batch') /\ Epoll!IsInjective(rest)
      /\ \A f \in Epoll!ToSet(batch') : f \in Epoll!ToSet(now)
      /\ \A f \in Epoll!ToSet(rest) : f \in Epoll!ToSet(now) /\ f \notin Epoll!ToSet(batch')
      /\ ready' = IF Epoll!Contains(batch', Epoll!Listener) THEN Append(rest, Epoll!Listener) ELSE rest
    BY <1>2, <1>3, <1>4, <1>5, Parted
<1>7. Epoll!Contains(batch', Epoll!Listener) <=> Epoll!Listener \in Epoll!ToSet(batch')
    BY <1>6, ContainsToSet
<1>8. /\ ready' \in Seq(Sockets) /\ Epoll!IsInjective(ready')
      /\ \A f \in Epoll!ToSet(ready') : f = Epoll!Listener \/ f \in Epoll!ToSet(ready)
    <2>1. CASE Epoll!Contains(batch', Epoll!Listener)
        <3>1. Epoll!Listener \notin Epoll!ToSet(rest) /\ Epoll!Listener \in Sockets
            BY <2>1, <1>6, <1>7
        <3>2. /\ Append(rest, Epoll!Listener) \in Seq(Sockets)
                   /\ Epoll!IsInjective(Append(rest, Epoll!Listener))
              /\ Epoll!ToSet(Append(rest, Epoll!Listener))
                   = Epoll!ToSet(rest) \cup {Epoll!Listener}
            BY <3>1, <1>6, AppendOnce
        <3> QED
            BY <3>2, <2>1, <1>3, <1>6
    <2>2. CASE ~Epoll!Contains(batch', Epoll!Listener)
        BY <2>2, <1>3, <1>6
    <2> QED
        BY <2>1, <2>2
<1>9. EpollTypes'
    BY <1>1, <1>6, <1>8 DEF EpollTypes
<1>10. ListsSound'
    BY <1>1, <1>6, <1>8 DEF ListsSound, Epoll!Open
<1>11. AtHand'
    BY <1>1 DEF AtHand
<1>12. BatchCurrent'
    <2>1. \A f \in Epoll!ToSet(batch') : Epoll!Readable(f)
            /\ (f = Epoll!Listener \/ f \in watched)
        BY <1>1, <1>3, <1>6 DEF ListsSound
    <2> QED
        BY <2>1, <1>1 DEF BatchCurrent, Epoll!Readable
<1>13. Counted'
    BY <1>1 DEF Counted
<1> QED
    BY <1>9, <1>10, <1>11, <1>12, <1>13 DEF EpollInv

LEMMA NextEventStep == EpollInv /\ Epoll!NextEvent => EpollInv'
<1> SUFFICES ASSUME EpollInv, Epoll!NextEvent PROVE EpollInv'
    OBVIOUS
<1> EpollTypes /\ ListsSound /\ AtHand /\ BatchCurrent /\ Counted
    BY DEF EpollInv
<1> /\ IsFiniteSet(ClientFds) /\ {MaxEvents, Chunk, MaxRx, MaxTx} \subseteq Nat \ {0}
    /\ Epoll!Listener \notin ClientFds
    BY GivenSizes DEF EpollInv
<1> USE DEF Sockets
<1>1. at = "next" /\ UNCHANGED <<life, rx, tx, waiting, watched, ready, clients>>
    BY DEF Epoll!NextEvent
<1>2. CASE batch = <<>> /\ at' = "epoll_wait" /\ UNCHANGED <<batch, cur>>
    <2>1. EpollTypes' /\ ListsSound' /\ AtHand'
        BY <1>1, <1>2 DEF EpollTypes, ListsSound, AtHand, Epoll!Open
    <2>2. BatchCurrent' /\ Counted'
        BY <1>1, <1>2 DEF BatchCurrent, Counted, Epoll!Readable
    <2> QED
        BY <2>1, <2>2 DEF EpollInv
<1>3. CASE /\ batch # <<>> /\ cur' = Head(batch) /\ batch' = Tail(batch)
           /\ at' = IF Head(batch) = Epoll!Listener THEN "accept" ELSE "recv"
    <2>1. /\ cur' \in Sockets /\ batch' \in Seq(Sockets) /\ Epoll!IsInjective(batch')
          /\ cur' \in Epoll!ToSet(batch) /\ cur' \notin Epoll!ToSet(batch')
          /\ \A f \in Epoll!ToSet(batch') : f \in Epoll!ToSet(batch)
        BY <1>3, HeadOnce DEF EpollTypes, ListsSound
    <2>2. EpollTypes'
        BY <2>1, <1>1 DEF EpollTypes
    <2>3. ListsSound'
        BY <2>1, <1>1, <1>3 DEF ListsSound, Epoll!Open
    <2>4. AtHand'
        BY <2>1, <1>1, <1>3 DEF AtHand, BatchCurrent
    <2>5. BatchCurrent'
        BY <2>1, <1>1, <1>3 DEF BatchCurrent, Epoll!Readable
    <2>6. Counted'
        BY <1>1, <1>3 DEF Counted
    <2> QED
        BY <2>2, <2>3, <2>4, <2>5, <2>6 DEF EpollInv
<1> QED
    BY <1>2, <1>3 DEF Epoll!NextEvent

LEMMA AcceptStep == EpollInv /\ (Epoll!Accept \/ Epoll!AcceptFails) => EpollInv'
<1> SUFFICES ASSUME EpollInv, Epoll!Accept \/ Epoll!AcceptFails PROVE EpollInv'
    OBVIOUS
<1> EpollTypes /\ ListsSound /\ AtHand /\ BatchCurrent /\ Counted
    BY DEF EpollInv
<1> /\ IsFiniteSet(ClientFds) /\ {MaxEvents, Chunk, MaxRx, MaxTx} \subseteq Nat \ {0}
    /\ Epoll!Listener \notin ClientFds
    BY GivenSizes DEF EpollInv
<1> USE DEF Sockets
<1>1. CASE Epoll!AcceptFails
    <2> USE <1>1 DEF Epoll!AcceptFails
    <2>1. EpollTypes' /\ ListsSound' /\ AtHand'
        BY DEF EpollTypes, ListsSound, AtHand, Epoll!Open
    <2>2. BatchCurrent' /\ Counted'
        BY DEF BatchCurrent, Counted, Epoll!Readable
    <2> QED
        BY <2>1, <2>2 DEF EpollInv
<1>2. CASE Epoll!Accept
    <2>1. PICK f \in ClientFds : Epoll!LowestFd(f) /\ cur' = f
            /\ life' = [life EXCEPT ![f] = "open"]
        BY <1>2 DEF Epoll!Accept
    <2>2. /\ at = "accept" /\ at' = "add" /\ waiting > 0 /\ waiting' = waiting - 1
          /\ UNCHANGED <<rx, tx, watched, ready, batch, clients>>
        BY <1>2 DEF Epoll!Accept
    <2>3. EpollTypes'
        BY <2>1, <2>2 DEF EpollTypes
    <2>4. f \notin watched /\ f \in Epoll!Open' /\ Epoll!Open' = Epoll!Open \cup {f}
        BY <2>1 DEF Epoll!LowestFd, Epoll!Open, ListsSound, EpollTypes
    <2>5. ListsSound'
        BY <2>2, <2>4 DEF ListsSound
    <2>6. AtHand'
        BY <2>1, <2>2, <2>4 DEF AtHand
    <2>7. BatchCurrent'
        <3>1. Epoll!Listener \notin Epoll!ToSet(batch)
            BY <2>2 DEF BatchCurrent, AtHand
        <3>2. \A g \in Epoll!ToSet(batch) : g \in watched /\ Epoll!Readable(g) /\ g # f
            BY <3>1, <2>4 DEF BatchCurrent
        <3>3. \A g \in Epoll!ToSet(batch) : Epoll!Readable(g)'
            BY <2>1, <2>2, <3>1, <3>2 DEF Epoll!Readable, EpollTypes
        <3> QED
            BY <2>2, <3>2, <3>3 DEF BatchCurrent
    <2>8. Counted'
        BY <2>2 DEF Counted
    <2> QED
        BY <2>3, <2>5, <2>6, <2>7, <2>8 DEF EpollInv
<1> QED
    BY <1>1, <1>2

LEMMA AddStep == EpollInv /\ Epoll!add_client => EpollInv'
<1> SUFFICES ASSUME EpollInv, Epoll!add_client PROVE EpollInv'
    OBVIOUS
<1> EpollTypes /\ ListsSound /\ AtHand /\ BatchCurrent /\ Counted
    BY DEF EpollInv
<1> /\ IsFiniteSet(ClientFds) /\ {MaxEvents, Chunk, MaxRx, MaxTx} \subseteq Nat \ {0}
    /\ Epoll!Listener \notin ClientFds
    BY GivenSizes DEF EpollInv
<1> USE DEF Sockets
<1>1. /\ at = "add" /\ at' = "next"
      /\ watched' = watched \cup {cur}
      /\ ready' = IF Epoll!Readable(cur) THEN Append(ready, cur) ELSE ready
      /\ clients' = clients + 1
      /\ UNCHANGED <<life, rx, tx, waiting, batch, cur>>
    BY DEF Epoll!add_client
<1>2. cur \in ClientFds /\ cur \in Epoll!Open /\ cur \notin watched
    BY <1>1 DEF AtHand, Epoll!Open
<1>3. /\ ready' \in Seq(Sockets) /\ Epoll!IsInjective(ready')
      /\ \A f \in Epoll!ToSet(ready') : f \in Epoll!ToSet(ready) \/ f = cur
    <2>1. cur \notin Epoll!ToSet(ready) /\ cur \in Sockets
        BY <1>1, <1>2 DEF ListsSound
    <2>2. /\ Append(ready, cur) \in Seq(Sockets) /\ Epoll!IsInjective(Append(ready, cur))
          /\ Epoll!ToSet(Append(ready, cur)) = Epoll!ToSet(ready) \cup {cur}
        BY <2>1, AppendOnce DEF EpollTypes, ListsSound
    <2> QED
        BY <2>2, <1>1 DEF EpollTypes, ListsSound
<1>4. EpollTypes'
    BY <1>1, <1>2, <1>3 DEF EpollTypes
<1>5. ListsSound'
    BY <1>1, <1>2, <1>3 DEF ListsSound, Epoll!Open
<1>6. AtHand'
    BY <1>1 DEF AtHand
<1>7. BatchCurrent'
    BY <1>1 DEF BatchCurrent, Epoll!Readable
<1>8. Counted'
    <2>1. IsFiniteSet(watched)
        BY FS_Subset DEF EpollTypes
    <2>2. Cardinality(watched \cup {cur}) = Cardinality(watched) + 1
            /\ Cardinality(watched) \in Nat
        BY <2>1, <1>2, FS_AddElement, FS_CardinalityType
    <2> QED
        BY <2>2, <1>1 DEF Counted
<1> QED
    BY <1>4, <1>5, <1>6, <1>7, <1>8 DEF EpollInv

\* close takes the descriptor from epoll's list and frees its number.
LEMMA ClosedKeeps ==
    ASSUME EpollInv, at \in {"add", "close"}, Epoll!Closed(cur), at' = "next",
           clients' = clients - (IF at = "close" THEN 1 ELSE 0),
           UNCHANGED <<waiting, watched, batch, cur>>
    PROVE  EpollInv'
<1> EpollTypes /\ ListsSound /\ AtHand /\ BatchCurrent /\ Counted
    BY DEF EpollInv
<1> /\ IsFiniteSet(ClientFds) /\ {MaxEvents, Chunk, MaxRx, MaxTx} \subseteq Nat \ {0}
    /\ Epoll!Listener \notin ClientFds
    BY GivenSizes DEF EpollInv
<1> USE DEF Sockets
<1>1. cur \in ClientFds /\ cur \notin watched
    BY DEF AtHand, Epoll!Open
<1>2. /\ life' = [life EXCEPT ![cur] = "free"] /\ rx' = [rx EXCEPT ![cur] = 0]
      /\ tx' = [tx EXCEPT ![cur] = 0]
      /\ ready' \in Epoll!Kept(ready, Epoll!ToSet(ready) \ {cur})
    BY DEF Epoll!Closed
<1>3. /\ ready' \in Seq(Sockets) /\ Epoll!IsInjective(ready')
      /\ \A f \in Epoll!ToSet(ready') : f \in Epoll!ToSet(ready) /\ f # cur
    <2>1. ready \in Seq(Sockets)
        BY DEF EpollTypes
    <2> QED
        BY <2>1, <1>2, KeptIsPart
<1>4. EpollTypes'
    BY <1>1, <1>2, <1>3 DEF EpollTypes
<1>5. ListsSound'
    <2>1. watched \subseteq Epoll!Open'
        BY <1>1, <1>2 DEF Epoll!Open, ListsSound, EpollTypes
    <2> QED
        BY <2>1, <1>3 DEF ListsSound
<1>6. AtHand'
    BY DEF AtHand
<1>7. BatchCurrent'
    <2>1. \A f \in Epoll!ToSet(batch) : f # cur /\ (f = Epoll!Listener \/ f \in watched)
            /\ Epoll!Readable(f)
        BY <1>1 DEF BatchCurrent
    <2>2. \A f \in Epoll!ToSet(batch) : Epoll!Readable(f)'
        BY <2>1, <1>2 DEF Epoll!Readable, EpollTypes
    <2> QED
        BY <2>1, <2>2 DEF BatchCurrent
<1>8. Counted'
    <2>1. Cardinality(watched) \in Nat
        BY FS_Subset, FS_CardinalityType DEF EpollTypes
    <2> QED
        BY <2>1 DEF Counted
<1> QED
    BY <1>4, <1>5, <1>6, <1>7, <1>8 DEF EpollInv

\* recv, send and EPOLL_CTL_DEL touch the client at hand alone.
LEMMA ClientStep ==
    EpollInv /\ (Epoll!Recv \/ Epoll!RecvEnds \/ Epoll!Send \/ Epoll!SendRefused
      \/ Epoll!SendKills \/ Epoll!EpollDel) => EpollInv'
<1> SUFFICES ASSUME EpollInv, Epoll!Recv \/ Epoll!RecvEnds \/ Epoll!Send \/ Epoll!SendRefused
                      \/ Epoll!SendKills \/ Epoll!EpollDel PROVE EpollInv'
    OBVIOUS
<1> EpollTypes /\ ListsSound /\ AtHand /\ BatchCurrent /\ Counted
    BY DEF EpollInv
<1> /\ IsFiniteSet(ClientFds) /\ {MaxEvents, Chunk, MaxRx, MaxTx} \subseteq Nat \ {0}
    /\ Epoll!Listener \notin ClientFds
    BY GivenSizes DEF EpollInv
<1> USE DEF Sockets
<1>1. at \in {"recv", "send", "epoll_ctl_del"} /\ cur \in watched /\ cur \in ClientFds
        /\ cur \notin Epoll!ToSet(batch)
    BY DEF Epoll!Recv, Epoll!RecvEnds, Epoll!Send, Epoll!SendRefused, Epoll!SendKills,
       Epoll!EpollDel, AtHand, BatchCurrent, EpollTypes
<1>2. UNCHANGED <<waiting, ready, batch, cur, clients>>
    BY DEF Epoll!Recv, Epoll!RecvEnds, Epoll!Send, Epoll!SendRefused, Epoll!SendKills,
       Epoll!EpollDel
<1>3. CASE Epoll!EpollDel
    <2>1. at' = "close" /\ at = "epoll_ctl_del" /\ watched' = watched \ {cur}
            /\ UNCHANGED <<life, rx, tx>>
        BY <1>1, <1>3 DEF Epoll!EpollDel
    <2>2. EpollTypes'
        BY <2>1, <1>2 DEF EpollTypes
    <2>3. ListsSound'
        BY <2>1, <1>1, <1>2 DEF ListsSound, Epoll!Open
    <2>4. AtHand'
        BY <2>1, <1>1, <1>2 DEF AtHand, ListsSound, Epoll!Open
    <2>5. BatchCurrent'
        BY <2>1, <1>1, <1>2 DEF BatchCurrent, Epoll!Readable
    <2>6. Counted'
        <3>1. IsFiniteSet(watched)
            BY FS_Subset DEF EpollTypes
        <3>2. Cardinality(watched \ {cur}) = Cardinality(watched) - 1
                /\ Cardinality(watched) \in Nat
            BY <3>1, <1>1, FS_RemoveElement, FS_CardinalityType
        <3> QED
            BY <3>2, <2>1, <1>2 DEF Counted
    <2> QED
        BY <2>2, <2>3, <2>4, <2>5, <2>6 DEF EpollInv
<1>4. CASE Epoll!Recv \/ Epoll!RecvEnds \/ Epoll!Send \/ Epoll!SendRefused \/ Epoll!SendKills
    <2>1. /\ UNCHANGED watched /\ at \in {"recv", "send"}
          /\ at' \in {"send", "epoll_ctl_del", "next", "killed"}
        BY <1>4 DEF Epoll!Recv, Epoll!RecvEnds, Epoll!Send, Epoll!SendRefused, Epoll!SendKills
    <2>2. /\ life' = life \/ (life' = [life EXCEPT ![cur] = "broken"] /\ life[cur] = "rst")
          /\ rx' = rx \/ rx' = [rx EXCEPT ![cur] = IF @ > Chunk THEN @ - Chunk ELSE 0]
          /\ tx' = tx \/ tx' = [tx EXCEPT ![cur] = @ + 1]
        BY <1>4 DEF Epoll!Recv, Epoll!RecvEnds, Epoll!Send, Epoll!SendRefused, Epoll!SendKills
    <2>3. EpollTypes'
        <3>1. life' \in [ClientFds -> {"free", "open", "fin", "rst", "broken"}]
            BY <2>2 DEF EpollTypes
        <3>2. rx' \in [ClientFds -> Nat]
            BY <2>2 DEF EpollTypes
        <3>3. tx' \in [ClientFds -> Nat]
            <4>1. tx \in [ClientFds -> Nat] /\ tx[cur] + 1 \in Nat
                BY <1>1 DEF EpollTypes
            <4> QED
                BY <4>1, <2>2
        <3> QED
            BY <3>1, <3>2, <3>3, <2>1, <1>2 DEF EpollTypes
    <2>4. Epoll!Open' = Epoll!Open
        BY <2>2 DEF Epoll!Open, EpollTypes
    <2>5. ListsSound'
        BY <2>1, <2>4, <1>2 DEF ListsSound
    <2>6. AtHand'
        BY <2>1, <2>4, <1>1, <1>2 DEF AtHand
    <2>7. BatchCurrent'
        <3>1. \A f \in Epoll!ToSet(batch) : f # cur /\ (f = Epoll!Listener \/ f \in watched)
                /\ Epoll!Readable(f)
            BY <1>1 DEF BatchCurrent
        <3>2. \A f \in Epoll!ToSet(batch) : Epoll!Readable(f)'
            BY <3>1, <2>2, <1>2 DEF Epoll!Readable, EpollTypes
        <3> QED
            BY <3>1, <3>2, <2>1, <1>1, <1>2 DEF BatchCurrent
    <2>8. Counted'
        BY <2>1, <1>2 DEF Counted
    <2> QED
        BY <2>3, <2>5, <2>6, <2>7, <2>8 DEF EpollInv
<1> QED
    BY <1>3, <1>4

LEMMA EpollStep == EpollInv /\ Epoll!Next => EpollInv'
<1>1. EpollInv /\ (Epoll!RefuseClient \/ Epoll!Close) => EpollInv'
    <2>1. EpollInv /\ Epoll!RefuseClient => EpollInv'
        <3>1. EpollInv /\ Epoll!RefuseClient => clients' = clients - 0
            BY DEF Epoll!RefuseClient, EpollInv, EpollTypes
        <3> QED
            BY <3>1, ClosedKeeps DEF Epoll!RefuseClient
    <2>2. EpollInv /\ Epoll!Close => EpollInv'
        BY ClosedKeeps DEF Epoll!Close
    <2> QED
        BY <2>1, <2>2
<1> QED
    BY <1>1, WaitStep, NextEventStep, AcceptStep, AddStep, ClientStep, PeersStep
    DEF Epoll!Next, Epoll!ServerStep

LEMMA EpollQuiet == EpollInv /\ UNCHANGED Epoll!vars => EpollInv'
<1> SUFFICES ASSUME EpollInv, UNCHANGED Epoll!vars PROVE EpollInv'
    OBVIOUS
<1> USE DEF EpollInv, Epoll!vars
<1>1. EpollTypes' /\ ListsSound' /\ AtHand'
    BY DEF EpollTypes, ListsSound, AtHand, Epoll!Open
<1>2. BatchCurrent' /\ Counted'
    BY DEF BatchCurrent, Counted, Epoll!Readable
<1> QED
    BY <1>1, <1>2

LEMMA EpollInvariant == Epoll!Spec => []EpollInv
    BY InitEpoll, EpollStep, EpollQuiet, PTL DEF Epoll!Spec

LEMMA CurrentFollows == EpollInv => Epoll!EventsAreCurrent
<1> SUFFICES ASSUME EpollInv, Epoll!Running PROVE Epoll!EventsAreCurrent
    BY DEF Epoll!EventsAreCurrent
<1> EpollTypes /\ ListsSound /\ AtHand /\ BatchCurrent
    BY DEF EpollInv
<1>1. PICK rest : rest = batch \o (IF at \in {"accept", "recv"} THEN <<cur>> ELSE <<>>)
    OBVIOUS
<1>2. CASE at \in {"accept", "recv"}
    <2>1. rest = Append(batch, cur)
        BY <1>1, <1>2, AppendIsConcat DEF EpollTypes
    <2>2. Epoll!IsInjective(rest) /\ Epoll!ToSet(rest) = Epoll!ToSet(batch) \cup {cur}
        BY <2>1, <1>2, AppendOnce DEF EpollTypes, ListsSound, BatchCurrent
    <2>3. \A f \in Epoll!ToSet(rest) : Epoll!Readable(f) /\ (f = Epoll!Listener \/ f \in watched)
        BY <2>2, <1>2 DEF BatchCurrent, AtHand
    <2> QED
        BY <1>1, <2>2, <2>3 DEF Epoll!EventsAreCurrent, Epoll!Readable
<1>3. CASE at \notin {"accept", "recv"}
    <2>1. rest = batch
        BY <1>1, <1>3, ConcatEmptySeq DEF EpollTypes
    <2>2. Epoll!IsInjective(rest) /\ \A f \in Epoll!ToSet(rest) : Epoll!Readable(f)
            /\ (f = Epoll!Listener \/ f \in watched)
        BY <2>1 DEF ListsSound, BatchCurrent
    <2> QED
        BY <1>1, <2>2 DEF Epoll!EventsAreCurrent, Epoll!Readable
<1> QED
    BY <1>2, <1>3

-----------------------------------------------------------------------------
(* Theorems                                                                   *)

(* For every set of descriptors, size of a batch and load: no event is stale  *)
(* when its turn comes, so that no call of accept or recv blocks the server   *)
(* and no descriptor is taken for its successor of the same number            *)
(* (tcp_server_epoll.cpp:186-221).                                            *)
THEOREM EventsCurrent == Epoll!Spec => []EventsAreCurrent
<1>1. EpollInv => EventsAreCurrent
    BY CurrentFollows DEF EventsAreCurrent
<1> QED
    BY <1>1, EpollInvariant, PTL

(* remove_client always finds the client in the epoll set, so that it never   *)
(* ends the server, and client_num counts the clients that are watched        *)
(* (tcp_server_epoll.cpp:148-172).                                            *)
THEOREM RemovalsSucceed == Epoll!Spec => [](at # "exited" /\ Counted)
<1>1. EpollInv => at # "exited" /\ Counted
    BY DEF EpollInv, AtHand
<1> QED
    BY <1>1, EpollInvariant, PTL
=============================================================================
