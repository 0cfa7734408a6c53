-------------------------- MODULE PacketQueueProofs --------------------------
(***************************************************************************)
(* What the semaphores and the mutex of class Queue guarantee, for every   *)
(* number of producers and consumers, every packet set and every capacity. *)
(***************************************************************************)
EXTENDS PacketQueue, FiniteSetTheorems, SequenceTheorems, TLAPS

\* A thread runs the calls of its own role.
Roles ==
  /\ \A t \in Producers : pc[t] \in {"idle"} \cup EnqueueStages
  /\ \A t \in Consumers : pc[t] \in {"idle"} \cup DequeueStages

\* enqueue holds its packet from the allocation to the append, and no other
\* producer holds the same one.
Hands ==
  /\ \A t \in Producers :
       hand[t] # NoPacket <=> pc[t] \in {"waitSlot", "enqLock", "append"}
  /\ \A t \in Producers : hand[t] \notin fresh
  /\ \A s, t \in Producers :
       s # t /\ hand[s] # NoPacket => hand[s] # hand[t]

DestroyedIdle == ~alive => m_data = <<>> /\ \A t \in Threads : pc[t] = "idle"

Lifecycle == Roles /\ Hands /\ DestroyedIdle

Accounting == PlacesAccounted /\ DataAccounted

IInv == TypeOK /\ Lifecycle /\ Accounting /\ MutexOwned

------------------------------------------------------------------------------
(* Counting the threads at a set of stages *)

LEMMA ThreadsFinite ==
  ASSUME NEW stages
  PROVE  /\ IsFiniteSet(Threads)
         /\ IsFiniteSet(At(stages)) /\ Cardinality(At(stages)) \in Nat
<1>1. IsFiniteSet(Threads)
  BY QueueAssumption, FS_Union DEF Threads
<1>2. At(stages) \in SUBSET Threads
  BY DEF At
<1>3. QED BY <1>1, <1>2, FS_Subset, FS_CardinalityType

\* The count of a set of stages when thread t alone changes stage.
LEMMA CountMove ==
  ASSUME TypeOK, NEW t \in Threads, NEW stage \in Stages, GoTo(t, stage),
         NEW stages
  PROVE  /\ Cardinality(At(stages)) \in Nat
         /\ (pc[t] \in stages <=> stage \in stages)
              => Cardinality(At(stages)') = Cardinality(At(stages))
         /\ pc[t] \in stages /\ stage \notin stages
              => Cardinality(At(stages)') = Cardinality(At(stages)) - 1
         /\ pc[t] \notin stages /\ stage \in stages
              => Cardinality(At(stages)') = Cardinality(At(stages)) + 1
<1>1. IsFiniteSet(At(stages)) /\ Cardinality(At(stages)) \in Nat
  BY ThreadsFinite
<1>2. \A x \in Threads : pc'[x] = IF x = t THEN stage ELSE pc[x]
  BY DEF GoTo, TypeOK
<1>3. (pc[t] \in stages <=> stage \in stages) => At(stages)' = At(stages)
  BY <1>2 DEF At
<1>4. ASSUME pc[t] \in stages, stage \notin stages
      PROVE  Cardinality(At(stages)') = Cardinality(At(stages)) - 1
  <2>1. At(stages)' = At(stages) \ {t} /\ t \in At(stages)
    BY <1>2, <1>4 DEF At
  <2>2. QED BY <2>1, <1>1, FS_RemoveElement
<1>5. ASSUME pc[t] \notin stages, stage \in stages
      PROVE  Cardinality(At(stages)') = Cardinality(At(stages)) + 1
  <2>1. At(stages)' = At(stages) \cup {t} /\ t \notin At(stages)
    BY <1>2, <1>5 DEF At
  <2>2. QED BY <2>1, <1>1, FS_AddElement
<1>6. QED BY <1>1, <1>3, <1>4, <1>5


------------------------------------------------------------------------------
(* Each part of the inductive invariant is preserved by every step *)

LEMMA TypeStep == TypeOK /\ Lifecycle /\ [Next]_vars => TypeOK'
<1> SUFFICES ASSUME TypeOK, Lifecycle, [Next]_vars PROVE TypeOK'
  OBVIOUS
<1> USE DEF TypeOK, Threads, Stages, EnqueueStages, DequeueStages, GoTo
<1>1. ASSUME NEW t \in Producers, ProducerCall(t) PROVE TypeOK'
  BY <1>1 DEF ProducerCall, Enqueue, EnqueueNoMemory
<1>2. ASSUME NEW t \in Consumers, ConsumerCall(t) PROVE TypeOK'
  BY <1>2 DEF ConsumerCall, Dequeue
<1>3. ASSUME NEW t \in Threads, ThreadStep(t) PROVE TypeOK'
  <2>1. CASE WaitSlot(t)
    BY <2>1 DEF WaitSlot
  <2>2. CASE AppendPacket(t)
    <3>1. hand[t] \in Packets
      BY <2>2 DEF AppendPacket, Lifecycle, Roles, Hands
    <3>2. Append(m_data, hand[t]) \in Seq(Packets)
      BY <3>1, AppendProperties
    <3>3. QED BY <2>2, <3>2 DEF AppendPacket
  <2>3. CASE PostItem(t)
    BY <2>3 DEF PostItem
  <2>4. CASE WaitItem(t)
    BY <2>4 DEF WaitItem
  <2>5. CASE WaitItemTimedOut(t)
    BY <2>5 DEF WaitItemTimedOut
  <2>6. CASE TakePacket(t)
    <3>1. Head(m_data) \in Packets /\ Tail(m_data) \in Seq(Packets)
      BY <2>6, HeadTailProperties DEF TakePacket
    <3>2. Append(delivered, Head(m_data)) \in Seq(Packets)
      BY <3>1, AppendProperties
    <3>3. QED BY <2>6, <3>1, <3>2 DEF TakePacket
  <2>7. CASE PostSlot(t)
    BY <2>7 DEF PostSlot
  <2>8. CASE Lock(t)
    BY <2>8 DEF Lock
  <2>9. CASE Unlock(t)
    BY <2>9 DEF Unlock
  <2>10. QED
    BY <1>3, <2>1, <2>2, <2>3, <2>4, <2>5, <2>6, <2>7, <2>8, <2>9 DEF ThreadStep
<1>4. CASE Destroy
  <2>1. Elements(m_data) \subseteq Packets
    BY ElementOfSeq DEF Elements
  <2>2. QED BY <1>4, <2>1, EmptySeq DEF Destroy
<1>5. CASE UNCHANGED vars
  BY <1>5 DEF vars
<1>6. QED BY <1>1, <1>2, <1>3, <1>4, <1>5 DEF Next

LEMMA LifecycleStep == TypeOK /\ Lifecycle /\ [Next]_vars => Lifecycle'
<1> SUFFICES ASSUME TypeOK, Lifecycle, [Next]_vars PROVE Lifecycle'
  OBVIOUS
<1> USE QueueAssumption DEF TypeOK, Lifecycle, Roles, Hands, DestroyedIdle, Threads,
        EnqueueStages, DequeueStages, GoTo
<1>1. ASSUME NEW t \in Producers, ProducerCall(t) PROVE Lifecycle'
  BY <1>1 DEF ProducerCall, Enqueue, EnqueueNoMemory
<1>2. ASSUME NEW t \in Consumers, ConsumerCall(t) PROVE Lifecycle'
  BY <1>2 DEF ConsumerCall, Dequeue
<1>3. ASSUME NEW t \in Threads, ThreadStep(t) PROVE Lifecycle'
  <2>1. CASE WaitSlot(t)
    BY <2>1 DEF WaitSlot
  <2>2. CASE AppendPacket(t)
    BY <2>2 DEF AppendPacket
  <2>3. CASE PostItem(t)
    BY <2>3 DEF PostItem
  <2>4. CASE WaitItem(t)
    BY <2>4 DEF WaitItem
  <2>5. CASE WaitItemTimedOut(t)
    BY <2>5 DEF WaitItemTimedOut
  <2>6. CASE TakePacket(t)
    BY <2>6 DEF TakePacket
  <2>7. CASE PostSlot(t)
    BY <2>7 DEF PostSlot
  <2>8. CASE Lock(t)
    BY <2>8 DEF Lock
  <2>9. CASE Unlock(t)
    BY <2>9 DEF Unlock
  <2>10. QED
    BY <1>3, <2>1, <2>2, <2>3, <2>4, <2>5, <2>6, <2>7, <2>8, <2>9 DEF ThreadStep
<1>4. CASE Destroy
  BY <1>4 DEF Destroy
<1>5. CASE UNCHANGED vars
  BY <1>5 DEF vars
<1>6. QED BY <1>1, <1>2, <1>3, <1>4, <1>5 DEF Next

\* A step that only moves threads between stages of the same kind.
LEMMA CountsKept ==
  ASSUME pc' = pc, NEW stages
  PROVE  At(stages)' = At(stages)
BY DEF At

LEMMA AccountingStep ==
  TypeOK /\ DestroyedIdle /\ Accounting /\ [Next]_vars => Accounting'
<1> SUFFICES ASSUME TypeOK, DestroyedIdle, Accounting, [Next]_vars PROVE Accounting'
  OBVIOUS
<1> DEFINE transit == Cardinality(At(InTransit))
           stored  == Cardinality(At(Stored))
<1> USE DEF Accounting, PlacesAccounted, DataAccounted
<1>0. transit \in Nat /\ stored \in Nat /\ QueueMaxSize \in Nat
  BY ThreadsFinite, QueueAssumption
<1>1. ASSUME NEW t \in Producers, NEW pkt \in Packets, Enqueue(t, pkt)
      PROVE  Accounting'
  <2>1. GoTo(t, "waitSlot") /\ t \in Threads /\ "waitSlot" \in Stages
    BY <1>1 DEF Enqueue, Threads, Stages, EnqueueStages
  <2>2. transit' = transit /\ stored' = stored
    BY <2>1, <1>1, CountMove DEF Enqueue, InTransit, Stored
  <2>3. QED BY <2>2, <1>1 DEF Enqueue
<1>2. ASSUME NEW t \in Producers, NEW pkt \in Packets, EnqueueNoMemory(t, pkt)
      PROVE  Accounting'
  <2>1. transit' = transit /\ stored' = stored
    BY <1>2, CountsKept DEF EnqueueNoMemory
  <2>2. QED BY <2>1, <1>2 DEF EnqueueNoMemory
<1>3. ASSUME NEW t \in Consumers, NEW block \in BOOLEAN, Dequeue(t, block)
      PROVE  Accounting'
  <2>1. PICK stage \in {"waitItem", "waitItemTimeout"} : GoTo(t, stage)
    BY <1>3 DEF Dequeue
  <2>2. t \in Threads /\ stage \in Stages
    BY DEF Threads, Stages, DequeueStages
  <2>3. transit' = transit /\ stored' = stored
    BY <2>1, <2>2, <1>3, CountMove DEF Dequeue, InTransit, Stored
  <2>4. QED BY <2>3, <1>3 DEF Dequeue
<1>4. ASSUME NEW t \in Threads, WaitSlot(t) PROVE Accounting'
  <2>1. GoTo(t, "enqLock") /\ "enqLock" \in Stages
    BY <1>4 DEF WaitSlot, Stages, EnqueueStages, DequeueStages
  <2>2. transit' = transit + 1 /\ stored' = stored
    BY <2>1, <1>4, CountMove DEF WaitSlot, InTransit, Stored
  <2>3. QED BY <2>2, <1>0, <1>4 DEF WaitSlot, TypeOK
<1>5. ASSUME NEW t \in Threads, AppendPacket(t) PROVE Accounting'
  <2>1. GoTo(t, "enqUnlock") /\ "enqUnlock" \in Stages
    BY <1>5 DEF AppendPacket, Stages, EnqueueStages, DequeueStages
  <2>2. transit' = transit /\ stored' = stored + 1
    BY <2>1, <1>5, CountMove DEF AppendPacket, InTransit, Stored
  <2>3. QED BY <2>2, <1>0, <1>5 DEF AppendPacket, TypeOK
<1>6. ASSUME NEW t \in Threads, PostItem(t) PROVE Accounting'
  <2>1. GoTo(t, "idle") /\ "idle" \in Stages
    BY <1>6 DEF PostItem, Stages, EnqueueStages, DequeueStages
  <2>2. transit' = transit - 1 /\ stored' = stored - 1
    BY <2>1, <1>6, CountMove DEF PostItem, InTransit, Stored
  <2>3. QED BY <2>2, <1>0, <1>6 DEF PostItem, TypeOK
<1>7. ASSUME NEW t \in Threads, WaitItem(t) PROVE Accounting'
  <2>1. GoTo(t, "deqLock") /\ "deqLock" \in Stages
    BY <1>7 DEF WaitItem, Stages, EnqueueStages, DequeueStages
  <2>2. transit' = transit + 1 /\ stored' = stored + 1
    BY <2>1, <1>7, CountMove DEF WaitItem, InTransit, Stored
  <2>3. QED BY <2>2, <1>0, <1>7 DEF WaitItem, TypeOK
<1>8. ASSUME NEW t \in Threads, WaitItemTimedOut(t) PROVE Accounting'
  <2>1. GoTo(t, "idle") /\ "idle" \in Stages
    BY <1>8 DEF WaitItemTimedOut, Stages, EnqueueStages, DequeueStages
  <2>2. transit' = transit /\ stored' = stored
    BY <2>1, <1>8, CountMove DEF WaitItemTimedOut, InTransit, Stored
  <2>3. QED BY <2>2, <1>0, <1>8 DEF WaitItemTimedOut, TypeOK
<1>9. ASSUME NEW t \in Threads, TakePacket(t) PROVE Accounting'
  <2>1. GoTo(t, "deqUnlock") /\ "deqUnlock" \in Stages
    BY <1>9 DEF TakePacket, Stages, EnqueueStages, DequeueStages
  <2>2. transit' = transit /\ stored' = stored - 1
    BY <2>1, <1>9, CountMove DEF TakePacket, InTransit, Stored
  <2>3. QED BY <2>2, <1>0, <1>9 DEF TakePacket, TypeOK
<1>10. ASSUME NEW t \in Threads, PostSlot(t) PROVE Accounting'
  <2>1. GoTo(t, "idle") /\ "idle" \in Stages
    BY <1>10 DEF PostSlot, Stages, EnqueueStages, DequeueStages
  <2>2. transit' = transit - 1 /\ stored' = stored
    BY <2>1, <1>10, CountMove DEF PostSlot, InTransit, Stored
  <2>3. QED BY <2>2, <1>0, <1>10 DEF PostSlot, TypeOK
<1>11. ASSUME NEW t \in Threads, Lock(t) PROVE Accounting'
  <2>1. PICK stage \in {"append", "take"} :
          GoTo(t, stage) /\ pc[t] = (IF stage = "append" THEN "enqLock" ELSE "deqLock")
    BY <1>11 DEF Lock
  <2>2. stage \in Stages
    BY DEF Stages, EnqueueStages, DequeueStages
  <2>3. transit' = transit /\ stored' = stored
    BY <2>1, <2>2, <1>11, CountMove DEF InTransit, Stored
  <2>4. QED BY <2>3, <1>11 DEF Lock
<1>12. ASSUME NEW t \in Threads, Unlock(t) PROVE Accounting'
  <2>1. PICK stage \in {"postItem", "postSlot"} :
          GoTo(t, stage) /\ pc[t] = (IF stage = "postItem" THEN "enqUnlock" ELSE "deqUnlock")
    BY <1>12 DEF Unlock
  <2>2. stage \in Stages
    BY DEF Stages, EnqueueStages, DequeueStages
  <2>3. transit' = transit /\ stored' = stored
    BY <2>1, <2>2, <1>12, CountMove DEF InTransit, Stored
  <2>4. QED BY <2>3, <1>12 DEF Unlock
<1>13. CASE Destroy
  <2>1. transit' = transit
    BY <1>13, CountsKept DEF Destroy
  <2>2. QED BY <2>1, <1>13 DEF Destroy
<1>14. CASE UNCHANGED vars
  <2>1. transit' = transit /\ stored' = stored
    BY <1>14, CountsKept DEF vars
  <2>2. QED BY <2>1, <1>14 DEF vars
<1>15. QED
  BY <1>1, <1>2, <1>3, <1>4, <1>5, <1>6, <1>7, <1>8, <1>9, <1>10, <1>11, <1>12,
     <1>13, <1>14
     DEF Next, ProducerCall, ConsumerCall, ThreadStep

LEMMA MutexStep ==
  TypeOK /\ Lifecycle /\ MutexOwned /\ [Next]_vars => MutexOwned'
<1> SUFFICES ASSUME TypeOK, Lifecycle, MutexOwned, [Next]_vars PROVE MutexOwned'
  OBVIOUS
<1> USE QueueAssumption DEF TypeOK, Lifecycle, DestroyedIdle, MutexOwned, InsideLock,
        Threads, GoTo
<1>1. ASSUME NEW t \in Producers, ProducerCall(t) PROVE MutexOwned'
  BY <1>1 DEF ProducerCall, Enqueue, EnqueueNoMemory
<1>2. ASSUME NEW t \in Consumers, ConsumerCall(t) PROVE MutexOwned'
  BY <1>2 DEF ConsumerCall, Dequeue
<1>3. ASSUME NEW t \in Threads, ThreadStep(t) PROVE MutexOwned'
  <2>1. CASE WaitSlot(t) \/ PostItem(t) \/ WaitItem(t) \/ WaitItemTimedOut(t) \/ PostSlot(t)
    BY <2>1 DEF WaitSlot, PostItem, WaitItem, WaitItemTimedOut, PostSlot
  <2>2. CASE AppendPacket(t) \/ TakePacket(t)
    BY <2>2 DEF AppendPacket, TakePacket
  <2>3. CASE Lock(t)
    BY <2>3 DEF Lock
  <2>4. CASE Unlock(t)
    BY <2>4 DEF Unlock
  <2>5. QED BY <1>3, <2>1, <2>2, <2>3, <2>4 DEF ThreadStep
<1>4. CASE Destroy
  BY <1>4 DEF Destroy
<1>5. CASE UNCHANGED vars
  BY <1>5 DEF vars
<1>6. QED BY <1>1, <1>2, <1>3, <1>4, <1>5 DEF Next

LEMMA InitInductive == Init => IInv
<1> SUFFICES ASSUME Init PROVE IInv
  OBVIOUS
<1>1. TypeOK
  <2>1. m_data \in Seq(Packets) /\ delivered \in Seq(Packets)
    BY EmptySeq DEF Init
  <2>2. pc \in [Threads -> Stages] /\ hand \in [Threads -> Packets \cup {NoPacket}]
    BY DEF Init, Stages
  <2>3. m_sem_slots \in Nat /\ m_sem_items \in Nat
    BY QueueAssumption DEF Init
  <2>4. alive \in BOOLEAN /\ fresh \subseteq Packets /\ discarded \subseteq Packets
    BY DEF Init
  <2>5. m_mutex \in Threads \cup {NoThread}
    BY DEF Init
  <2>6. QED BY <2>1, <2>2, <2>3, <2>4, <2>5 DEF TypeOK
<1>2. Lifecycle
  BY QueueAssumption DEF Init, Lifecycle, Roles, Hands, DestroyedIdle, Threads
<1>3. At(InTransit) = {} /\ At(Stored) = {}
  BY DEF Init, At, InTransit, Stored
<1>4. Accounting
  BY <1>3, FS_EmptySet, QueueAssumption
     DEF Init, Accounting, PlacesAccounted, DataAccounted
<1>5. MutexOwned
  BY QueueAssumption DEF Init, MutexOwned, InsideLock, Threads
<1>6. QED BY <1>1, <1>2, <1>4, <1>5 DEF IInv

\* The inductive invariant: the type of the state, who runs which call with
\* which packet, the two equations that tie the semaphores to the vector, and
\* who owns the mutex.
THEOREM Inductive == Spec => []IInv
<1>1. Init => IInv
  BY InitInductive
<1>2. IInv /\ [Next]_vars => IInv'
  BY TypeStep, LifecycleStep, AccountingStep, MutexStep DEF IInv, Lifecycle
<1>3. QED BY <1>1, <1>2, PTL DEF Spec

------------------------------------------------------------------------------
(* The properties *)

\* Every variable of the queue keeps its type.
THEOREM TypeCorrect == Spec => []TypeOK
<1>1. IInv => TypeOK
  BY DEF IInv
<1>2. QED BY <1>1, Inductive, PTL

\* The free slots, the counted items and the threads in transit always add up to
\* the capacity the constructor was given.
THEOREM PlacesConserved == Spec => []PlacesAccounted
<1>1. IInv => PlacesAccounted
  BY DEF IInv, Accounting
<1>2. QED BY <1>1, Inductive, PTL

\* dequeue never indexes an empty vector.
THEOREM TakeIsSafe == Spec => []NeverTakeFromEmpty
<1>1. IInv => NeverTakeFromEmpty
  <2> SUFFICES ASSUME IInv, NEW t \in Threads, pc[t] = "take" PROVE m_data # <<>>
    BY DEF NeverTakeFromEmpty
  <2>1. t \in At(Stored)
    BY DEF At, Stored
  <2>2. Cardinality(At(Stored)) > 0
    BY <2>1, ThreadsFinite, FS_EmptySet
  <2>3. alive
    BY DEF IInv, Lifecycle, DestroyedIdle, TypeOK
  <2>4. Len(m_data) > 0
    BY <2>2, <2>3, ThreadsFinite DEF IInv, Accounting, DataAccounted, TypeOK
  <2>5. QED BY <2>4, EmptySeq
<1>2. QED BY <1>1, Inductive, PTL

\* The threads that have stored a packet are in transit.
LEMMA StoredInTransit ==
  /\ At(Stored) \subseteq At(InTransit)
  /\ Cardinality(At(Stored)) <= Cardinality(At(InTransit))
<1>1. At(Stored) \in SUBSET At(InTransit)
  BY DEF At, Stored, InTransit
<1>2. QED BY <1>1, ThreadsFinite, FS_Subset

\* The vector never outgrows the bound of the constructor.
THEOREM Bounded == Spec => []WithinCapacity
<1>1. IInv => WithinCapacity
  <2> SUFFICES ASSUME IInv PROVE Len(m_data) <= QueueMaxSize
    BY DEF WithinCapacity
  <2> USE DEF IInv, TypeOK, Accounting, PlacesAccounted, DataAccounted
  <2>1. CASE alive
    BY <2>1, StoredInTransit, ThreadsFinite, QueueAssumption
  <2>2. CASE ~alive
    BY <2>2, EmptySeq, QueueAssumption DEF Lifecycle, DestroyedIdle
  <2>3. QED BY <2>1, <2>2
<1>2. QED BY <1>1, Inductive, PTL

\* At most one thread works on the vector at a time.
THEOREM MutualExclusion == Spec => []MutexOwned
<1>1. IInv => MutexOwned
  BY DEF IInv
<1>2. QED BY <1>1, Inductive, PTL

------------------------------------------------------------------------------
(* The queue implements the bounded first-in first-out buffer *)

LEMMA InHandsKept == ASSUME hand' = hand PROVE InHands' = InHands
BY DEF InHands

\* There is room when a producer that was granted a slot gets to append.
LEMMA RoomToAppend ==
  ASSUME IInv, NEW t \in Threads, pc[t] = "append"
  PROVE  Len(m_data) < QueueMaxSize
<1>1. t \in At(InTransit) /\ t \notin At(Stored)
  BY DEF At, InTransit, Stored
<1>2. Cardinality(At(Stored)) < Cardinality(At(InTransit))
  BY <1>1, StoredInTransit, ThreadsFinite, FS_Subset
<1>3. alive
  BY DEF IInv, Lifecycle, DestroyedIdle, TypeOK
<1>4. QED
  BY <1>2, <1>3, ThreadsFinite, QueueAssumption
     DEF IInv, TypeOK, Accounting, PlacesAccounted, DataAccounted

LEMMA StepRefines == IInv /\ [Next]_vars => [Fifo!FifoNext]_(Fifo!fifoVars)
<1> SUFFICES ASSUME IInv, [Next]_vars PROVE [Fifo!FifoNext]_(Fifo!fifoVars)
  OBVIOUS
<1> USE DEF Fifo!fifoVars
<1>0. TypeOK /\ Lifecycle
  BY DEF IInv
<1>1. ASSUME NEW t \in Producers, NEW pkt \in Packets, Enqueue(t, pkt)
      PROVE  Fifo!FifoNext
  <2>1. hand[t] = NoPacket
    BY <1>1, <1>0 DEF Enqueue, Lifecycle, Hands
  <2>2. InHands' = InHands \cup {pkt}
    BY <2>1, <1>1, <1>0, QueueAssumption DEF Enqueue, InHands, TypeOK, Threads
  <2>3. Fifo!Offer(pkt)
    BY <2>2, <1>1 DEF Enqueue, Fifo!Offer
  <2>4. QED BY <2>3 DEF Fifo!FifoNext
<1>2. ASSUME NEW t \in Producers, NEW pkt \in Packets, EnqueueNoMemory(t, pkt)
      PROVE  Fifo!FifoNext
  <2>1. Fifo!Refuse(pkt)
    BY <1>2, InHandsKept DEF EnqueueNoMemory, Fifo!Refuse
  <2>2. QED BY <2>1 DEF Fifo!FifoNext
<1>3. ASSUME NEW t \in Consumers, NEW block \in BOOLEAN, Dequeue(t, block)
      PROVE  UNCHANGED Fifo!fifoVars
  <2>1. InHands' = InHands
    BY <1>3, <1>0, QueueAssumption DEF Dequeue, InHands, TypeOK, Threads
  <2>2. QED BY <2>1, <1>3 DEF Dequeue
<1>4. ASSUME NEW t \in Threads, AppendPacket(t) PROVE Fifo!FifoNext
  <2>1. t \in Producers /\ hand[t] \in Packets
    BY <1>4, <1>0 DEF AppendPacket, Lifecycle, Roles, Hands, TypeOK, Threads,
                      DequeueStages
  <2>2. InHands' = InHands \ {hand[t]} /\ hand[t] \in InHands
    BY <2>1, <1>4, <1>0, QueueAssumption
       DEF AppendPacket, InHands, TypeOK, Threads, Lifecycle, Hands
  <2>3. Len(m_data) < QueueMaxSize
    BY <1>4, RoomToAppend DEF AppendPacket
  <2>4. Fifo!Put(hand[t])
    BY <2>2, <2>3, <1>4 DEF AppendPacket, Fifo!Put
  <2>5. QED BY <2>1, <2>4 DEF Fifo!FifoNext
<1>5. ASSUME NEW t \in Threads, TakePacket(t) PROVE Fifo!FifoNext
  <2>1. t \in Consumers
    BY <1>5, <1>0 DEF TakePacket, Lifecycle, Roles, Threads, EnqueueStages
  <2>2. InHands' = InHands
    BY <2>1, <1>5, <1>0, QueueAssumption DEF TakePacket, InHands, TypeOK, Threads
  <2>3. Fifo!Get
    BY <2>2, <1>5 DEF TakePacket, Fifo!Get
  <2>4. QED BY <2>3 DEF Fifo!FifoNext
<1>6. ASSUME NEW t \in Threads,
             WaitSlot(t) \/ PostItem(t) \/ WaitItem(t) \/ WaitItemTimedOut(t)
               \/ PostSlot(t) \/ Lock(t) \/ Unlock(t)
      PROVE  UNCHANGED Fifo!fifoVars
  BY <1>6, InHandsKept
     DEF WaitSlot, PostItem, WaitItem, WaitItemTimedOut, PostSlot, Lock, Unlock
<1>7. CASE Destroy
  <2>1. InHands = {} /\ InHands' = {}
    BY <1>7, <1>0, InHandsKept DEF Destroy, InHands, Lifecycle, Hands, Threads
  <2>2. Fifo!Close
    BY <2>1, <1>7 DEF Destroy, Fifo!Close, Elements, Fifo!Elements
  <2>3. QED BY <2>2 DEF Fifo!FifoNext
<1>8. CASE UNCHANGED vars
  BY <1>8, InHandsKept DEF vars
<1>9. QED
  BY <1>1, <1>2, <1>3, <1>4, <1>5, <1>6, <1>7, <1>8
     DEF Next, ProducerCall, ConsumerCall, ThreadStep

\* Every behaviour of the semaphore queue is one of the bounded first-in
\* first-out buffer: packets come out once each, in the order they were appended.
THEOREM Refinement == Spec => ImplementsFifo
<1>1. Init => Fifo!FifoInit
  BY DEF Init, Fifo!FifoInit, InHands, Threads
<1>2. IInv /\ [Next]_vars => [Fifo!FifoNext]_(Fifo!fifoVars)
  BY StepRefines
<1>3. QED BY <1>1, <1>2, Inductive, PTL DEF Spec, ImplementsFifo, Fifo!FifoSpec
==============================================================================
