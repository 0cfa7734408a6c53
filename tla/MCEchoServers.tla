---------------------------- MODULE MCEchoServers ----------------------------
(* The echo servers on select, SelectServer, and on epoll, EpollServer.  One   *)
(* of them, chosen at the start, runs; the other stays as it was made.         *)
EXTENDS SelectServer

CONSTANTS
  ClientFds, MaxEvents, Chunk, MaxRx, MaxTx, MaxWaiting

VARIABLES
  polls,         \* whether it is the one on epoll
  life, rx, tx, waiting, watched, ready, batch, cur, clients, at, polite

epollVars == <<life, rx, tx, waiting, watched, ready, batch, cur, clients, at, polite>>

Epoll == INSTANCE EpollServer WITH
             Fds <- ClientFds, Backlog <- MaxWaiting,
             backlog <- waiting, client_num <- clients, pc <- at

ASSUME EpollParameters == Epoll!EpollAssumption /\ Epoll!ListenerAssumption

OnSelect(A) == ~polls /\ A /\ UNCHANGED <<polls, epollVars>>
OnEpoll(A) == polls /\ A /\ UNCHANGED <<polls, vars>>

MCNext == OnSelect(Next) \/ OnEpoll(Epoll!Next)

MCInit == polls \in BOOLEAN /\ Init /\ Epoll!Init

\* The server's thread runs when its call can return; peers need do nothing.
MCSpec ==
  /\ MCInit
  /\ [][MCNext]_<<polls, vars, epollVars>>
  /\ WF_<<polls, vars, epollVars>>(OnSelect(ServerStep) \/ OnEpoll(Epoll!ServerStep))

------------------------------------------------------------------------------
(* Properties: those of SelectServer, and of EpollServer *)

(* EventsAreCurrent of EpollServer. *)
EventsAreCurrent == Epoll!EventsAreCurrent

(* LeaversRemoved of EpollServer. *)
LeaversRemoved == Epoll!LeaversRemoved
==============================================================================
