----------------------------- MODULE PacketQueue -----------------------------
(***************************************************************************)
(* class Queue of code/sdl/thread_player.cpp: a bounded packet queue made  *)
(* of two counting semaphores and a mutex. One step per SDL call that can  *)
(* block or be overtaken, so that threads interleave as they do there.     *)
(***************************************************************************)
EXTENDS Naturals, Sequences, FiniteSets

CONSTANTS
  Producers,      \* threads that call enqueue
  Consumers,      \* threads that call dequeue
  Packets,        \* packets the demuxer may read
  QueueMaxSize,   \* constructor argument of Queue (128 in the player)
  NoThread,       \* the mutex is free
  NoPacket        \* the thread holds no packet

ASSUME QueueAssumption ==
  /\ IsFiniteSet(Producers) /\ IsFiniteSet(Consumers)
  /\ Producers \cap Consumers = {}
  /\ NoThread \notin Producers \cup Consumers
  /\ NoPacket \notin Packets
  /\ QueueMaxSize \in Nat \ {0}

Threads == Producers \cup Consumers

VARIABLES
  m_sem_slots, m_sem_items,  \* the counts of the two semaphores
  m_mutex,                   \* the thread that holds the mutex, or NoThread
  m_data,                    \* the vector of packets
  pc,                        \* the call each thread is about to make
  hand,                      \* the packet each thread's call works on
  fresh,                     \* packets nobody has enqueued yet
  delivered,                 \* packets dequeue took out, in that order
  discarded,                 \* packets released without being dequeued
  alive                      \* the queue's destructor has not run

vars == <<m_sem_slots, m_sem_items, m_mutex, m_data, pc, hand,
          fresh, delivered, discarded, alive>>

EnqueueStages == {"waitSlot", "enqLock", "append", "enqUnlock", "postItem"}
DequeueStages == {"waitItem", "waitItemTimeout", "deqLock", "take",
                  "deqUnlock", "postSlot"}
Stages == {"idle"} \cup EnqueueStages \cup DequeueStages

Init ==
  /\ m_sem_slots = QueueMaxSize
  /\ m_sem_items = 0
  /\ m_mutex = NoThread
  /\ m_data = <<>>
  /\ pc = [t \in Threads |-> "idle"]
  /\ hand = [t \in Threads |-> NoPacket]
  /\ fresh = Packets
  /\ delivered = <<>>
  /\ discarded = {}
  /\ alive = TRUE

GoTo(t, stage) == pc' = [pc EXCEPT ![t] = stage]

------------------------------------------------------------------------------
(* enqueue *)

\* av_packet_alloc succeeds and the new packet takes over the reference.
Enqueue(t, pkt) ==
  /\ alive /\ pc[t] = "idle" /\ pkt \in fresh
  /\ fresh' = fresh \ {pkt}
  /\ hand' = [hand EXCEPT ![t] = pkt]
  /\ GoTo(t, "waitSlot")
  /\ UNCHANGED <<m_sem_slots, m_sem_items, m_mutex, m_data, delivered,
                 discarded, alive>>

\* av_packet_alloc fails: the packet is unreferenced and enqueue returns -1,
\* which no caller looks at.
EnqueueNoMemory(t, pkt) ==
  /\ alive /\ pc[t] = "idle" /\ pkt \in fresh
  /\ fresh' = fresh \ {pkt}
  /\ discarded' = discarded \cup {pkt}
  /\ UNCHANGED <<m_sem_slots, m_sem_items, m_mutex, m_data, pc, hand,
                 delivered, alive>>

WaitSlot(t) ==
  /\ pc[t] = "waitSlot" /\ m_sem_slots > 0
  /\ m_sem_slots' = m_sem_slots - 1
  /\ GoTo(t, "enqLock")
  /\ UNCHANGED <<m_sem_items, m_mutex, m_data, hand, fresh, delivered,
                 discarded, alive>>

\* Mutant: the packet goes to the front of the vector.
PrependPacket(t) ==
  /\ pc[t] = "append"
  /\ m_data' = <<hand[t]>> \o m_data
  /\ hand' = [hand EXCEPT ![t] = NoPacket]
  /\ GoTo(t, "enqUnlock")
  /\ UNCHANGED <<m_sem_slots, m_sem_items, m_mutex, fresh, delivered,
                 discarded, alive>>

AppendPacket(t) ==
  /\ pc[t] = "append"
  /\ m_data' = Append(m_data, hand[t])
  /\ hand' = [hand EXCEPT ![t] = NoPacket]
  /\ GoTo(t, "enqUnlock")
  /\ UNCHANGED <<m_sem_slots, m_sem_items, m_mutex, fresh, delivered,
                 discarded, alive>>

\* Mutant: enqueue returns without the SemPost of the items.
PostItemForgotten(t) ==
  /\ pc[t] = "postItem"
  /\ GoTo(t, "idle")
  /\ UNCHANGED <<m_sem_slots, m_sem_items, m_mutex, m_data, hand, fresh,
                 delivered, discarded, alive>>

PostItem(t) ==
  /\ pc[t] = "postItem"
  /\ m_sem_items' = m_sem_items + 1
  /\ GoTo(t, "idle")
  /\ UNCHANGED <<m_sem_slots, m_mutex, m_data, hand, fresh, delivered,
                 discarded, alive>>

------------------------------------------------------------------------------
(* dequeue; the packet a consumer got earlier is its own business *)

\* block decides which of the two waits is called.
Dequeue(t, block) ==
  /\ alive /\ pc[t] = "idle"
  /\ hand' = [hand EXCEPT ![t] = NoPacket]
  /\ GoTo(t, IF block THEN "waitItem" ELSE "waitItemTimeout")
  /\ UNCHANGED <<m_sem_slots, m_sem_items, m_mutex, m_data, fresh, delivered,
                 discarded, alive>>

WaitItem(t) ==
  /\ pc[t] \in {"waitItem", "waitItemTimeout"} /\ m_sem_items > 0
  /\ m_sem_items' = m_sem_items - 1
  /\ GoTo(t, "deqLock")
  /\ UNCHANGED <<m_sem_slots, m_mutex, m_data, hand, fresh, delivered,
                 discarded, alive>>

\* SDL_SemWaitTimeout gives up after 500 ms without an item; dequeue returns 0.
WaitItemTimedOut(t) ==
  /\ pc[t] = "waitItemTimeout" /\ m_sem_items = 0
  /\ GoTo(t, "idle")
  /\ UNCHANGED <<m_sem_slots, m_sem_items, m_mutex, m_data, hand, fresh,
                 delivered, discarded, alive>>

\* m_data[0] is moved to the caller's packet and erased. The vector is indexed
\* without a test of its size: taking from an empty one is undefined.
TakePacket(t) ==
  /\ pc[t] = "take" /\ m_data # <<>>
  /\ hand' = [hand EXCEPT ![t] = Head(m_data)]
  /\ delivered' = Append(delivered, Head(m_data))
  /\ m_data' = Tail(m_data)
  /\ GoTo(t, "deqUnlock")
  /\ UNCHANGED <<m_sem_slots, m_sem_items, m_mutex, fresh, discarded, alive>>

\* Mutant: dequeue returns without the SemPost of the slots.
PostSlotForgotten(t) ==
  /\ pc[t] = "postSlot"
  /\ GoTo(t, "idle")
  /\ UNCHANGED <<m_sem_slots, m_sem_items, m_mutex, m_data, hand, fresh,
                 delivered, discarded, alive>>

PostSlot(t) ==
  /\ pc[t] = "postSlot"
  /\ m_sem_slots' = m_sem_slots + 1
  /\ GoTo(t, "idle")
  /\ UNCHANGED <<m_sem_items, m_mutex, m_data, hand, fresh, delivered,
                 discarded, alive>>

------------------------------------------------------------------------------
(* the mutex of both, and the destructor *)

Lock(t) ==
  /\ pc[t] \in {"enqLock", "deqLock"} /\ m_mutex = NoThread
  /\ m_mutex' = t
  /\ GoTo(t, IF pc[t] = "enqLock" THEN "append" ELSE "take")
  /\ UNCHANGED <<m_sem_slots, m_sem_items, m_data, hand, fresh, delivered,
                 discarded, alive>>

Unlock(t) ==
  /\ pc[t] \in {"enqUnlock", "deqUnlock"}
  /\ m_mutex' = NoThread
  /\ GoTo(t, IF pc[t] = "enqUnlock" THEN "postItem" ELSE "postSlot")
  /\ UNCHANGED <<m_sem_slots, m_sem_items, m_data, hand, fresh, delivered,
                 discarded, alive>>

Elements(s) == {s[i] : i \in DOMAIN s}

\* ~Queue calls flush, which frees what is left, and destroys the semaphores.
\* Its owner runs it when no thread is inside a call.
Destroy ==
  /\ alive /\ \A t \in Threads : pc[t] = "idle"
  /\ alive' = FALSE
  /\ discarded' = discarded \cup Elements(m_data)
  /\ m_data' = <<>>
  /\ UNCHANGED <<m_sem_slots, m_sem_items, m_mutex, pc, hand, fresh, delivered>>

ProducerCall(t) == \E pkt \in Packets : Enqueue(t, pkt) \/ EnqueueNoMemory(t, pkt)
ConsumerCall(t) == \E block \in BOOLEAN : Dequeue(t, block)

ThreadStep(t) ==
  \/ WaitSlot(t) \/ AppendPacket(t) \/ PostItem(t)
  \/ WaitItem(t) \/ WaitItemTimedOut(t) \/ TakePacket(t) \/ PostSlot(t)
  \/ Lock(t) \/ Unlock(t)

Next ==
  \/ \E t \in Producers : ProducerCall(t)
  \/ \E t \in Consumers : ConsumerCall(t)
  \/ \E t \in Threads : ThreadStep(t)
  \/ Destroy

Spec == Init /\ [][Next]_vars

\* Fairness of the scheduler: a thread inside a call takes its next step if it
\* can go on taking it, and a consumer that is idle calls dequeue again, as the
\* loops of the video thread and of the audio callback do.
Fairness ==
  /\ \A t \in Threads : WF_vars(ThreadStep(t))
  /\ \A t \in Consumers : WF_vars(ConsumerCall(t))

FairSpec == Spec /\ Fairness

------------------------------------------------------------------------------
(* Properties *)

TypeOK ==
  /\ m_sem_slots \in Nat /\ m_sem_items \in Nat
  /\ m_mutex \in Threads \cup {NoThread}
  /\ m_data \in Seq(Packets) /\ delivered \in Seq(Packets)
  /\ pc \in [Threads -> Stages]
  /\ hand \in [Threads -> Packets \cup {NoPacket}]
  /\ fresh \subseteq Packets /\ discarded \subseteq Packets
  /\ alive \in BOOLEAN

At(stages) == {t \in Threads : pc[t] \in stages}

\* Stages at which a thread has taken a unit from one semaphore and has not
\* given it to the other; and, of those, the ones at which its packet is
\* in m_data.
InTransit == {"enqLock", "append", "enqUnlock", "postItem",
              "deqLock", "take", "deqUnlock", "postSlot"}
Stored == {"enqUnlock", "postItem", "deqLock", "take"}
InsideLock == {"append", "enqUnlock", "take", "deqUnlock"}

\* Every one of the QueueMaxSize places is a free slot, a counted item, or in
\* the hands of exactly one thread between its SemWait and its SemPost.
PlacesAccounted ==
  m_sem_slots + m_sem_items + Cardinality(At(InTransit)) = QueueMaxSize

\* The vector holds the counted items, and the packets of the threads that have
\* appended but not posted, or been granted an item but not erased it.
DataAccounted ==
  alive => Len(m_data) = m_sem_items + Cardinality(At(Stored))

\* dequeue indexes m_data[0] without looking at its size: the item semaphore
\* alone must guarantee that there is a packet, whoever else is dequeuing.
NeverTakeFromEmpty == \A t \in Threads : pc[t] = "take" => m_data # <<>>

\* The slot semaphore alone keeps the vector within the constructor's bound.
WithinCapacity == Len(m_data) <= QueueMaxSize

\* The mutex is owned by the one thread that works on the vector.
MutexOwned ==
  \A t \in Threads : m_mutex = t <=> pc[t] \in InsideLock

InHands == {hand[t] : t \in Producers} \ {NoPacket}

\* The semaphores and the lock implement a bounded first-in first-out buffer:
\* each step is a step of BoundedFifo or leaves its variables alone.
Fifo == INSTANCE BoundedFifo
          WITH Capacity <- QueueMaxSize, offered <- InHands, buf <- m_data
ImplementsFifo == Fifo!FifoSpec

\* A packet in the hands of enqueue, or in the vector, comes out of dequeue or
\* is released with the queue: no wake-up is lost between the two semaphores.
EveryPacketComesOut ==
  \A pkt \in Packets :
    pkt \in InHands \cup Elements(m_data)
      ~> pkt \in Elements(delivered) \cup discarded
==============================================================================
