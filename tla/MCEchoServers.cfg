SPECIFICATION MCSpec
CONSTANTS
  FdSize = 2
  ServerFd = 3
  Fds = {4, 5, 6}
  MaxBacklog = 2
  MaxFailures = 1
  ClientFds = {4, 5}
  MaxEvents = 2
  Chunk = 2
  MaxRx = 3
  MaxTx = 1
  MaxWaiting = 1
INVARIANTS ClientsSeen WatchedAreOpen EventsAreCurrent
PROPERTIES ClosedClientsLeave BacklogServed LeaversRemoved
CHECK_DEADLOCK FALSE
