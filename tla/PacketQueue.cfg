SPECIFICATION FairSpec
CONSTANTS
  Producers = {p1, p2}
  Consumers = {c1, c2}
  Packets = {k1, k2, k3}
  QueueMaxSize = 2
  NoThread = NoThread
  NoPacket = NoPacket
INVARIANT PlacesAccounted
PROPERTIES ImplementsFifo EveryPacketComesOut
CHECK_DEADLOCK FALSE
