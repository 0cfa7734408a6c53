----------------------------- MODULE BoundedFifo -----------------------------
(***************************************************************************)
(* What a packet queue of the players promises to the threads that share   *)
(* it, with no semaphore, lock or call in sight: packets offered by the    *)
(* demuxer wait their turn, at most Capacity of them are buffered, they    *)
(* leave in the order they entered, and the ones left over when the queue  *)
(* is destroyed are freed.                                                 *)
(***************************************************************************)
EXTENDS Naturals, Sequences

CONSTANTS Packets,    \* the packets a demuxer may offer
          Capacity    \* the most packets the queue may hold

VARIABLES fresh,      \* packets not offered yet
          offered,    \* packets whose producer is inside enqueue
          buf,        \* packets the queue holds, oldest first
          delivered,  \* packets handed to consumers, in that order
          discarded   \* packets released without having been delivered

fifoVars == <<fresh, offered, buf, delivered, discarded>>

Elements(s) == {s[i] : i \in DOMAIN s}

FifoInit ==
  /\ fresh = Packets
  /\ offered = {}
  /\ buf = <<>>
  /\ delivered = <<>>
  /\ discarded = {}

\* A producer calls enqueue and its packet becomes the queue's business.
Offer(pkt) ==
  /\ pkt \in fresh
  /\ fresh' = fresh \ {pkt}
  /\ offered' = offered \cup {pkt}
  /\ UNCHANGED <<buf, delivered, discarded>>

\* The queue has no memory for the packet and releases it.
Refuse(pkt) ==
  /\ pkt \in fresh
  /\ fresh' = fresh \ {pkt}
  /\ discarded' = discarded \cup {pkt}
  /\ UNCHANGED <<offered, buf, delivered>>

\* An offered packet gets its place at the end, if there is one.
Put(pkt) ==
  /\ pkt \in offered
  /\ Len(buf) < Capacity
  /\ offered' = offered \ {pkt}
  /\ buf' = Append(buf, pkt)
  /\ UNCHANGED <<fresh, delivered, discarded>>

\* The oldest packet goes to a consumer.
Get ==
  /\ buf # <<>>
  /\ delivered' = Append(delivered, Head(buf))
  /\ buf' = Tail(buf)
  /\ UNCHANGED <<fresh, offered, discarded>>

\* The queue is destroyed, with no producer inside enqueue.
Close ==
  /\ offered = {}
  /\ discarded' = discarded \cup Elements(buf)
  /\ buf' = <<>>
  /\ UNCHANGED <<fresh, offered, delivered>>

FifoNext ==
  \/ \E pkt \in Packets : Offer(pkt) \/ Refuse(pkt) \/ Put(pkt)
  \/ Get
  \/ Close

FifoSpec == FifoInit /\ [][FifoNext]_fifoVars
==============================================================================
