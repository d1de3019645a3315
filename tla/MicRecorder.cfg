\* A queue of two buffers, each of which takes two captured blocks: the capture
\* may run dry within a buffer, and the idle thread keeps one block; the
\* microphone counts as stale after the second time-out.
SPECIFICATION FairSpec
CONSTANTS
  Packet = {"p"}
  NoPacket = NoPacket
  Capacity = 2
  FifoLimit = 3
  LiveLimit = 1
  Need = 2
  StaleTimeouts = 2
PROPERTIES
  ShownAndLetGo
CHECK_DEADLOCK FALSE
