SPECIFICATION OutputSpec
CONSTANTS
  Packet <- MCPacket
  NoPacket = NoPacket
  RingSize = 3
  Capacity = 3
  Waves = 2
  CountModulus = 2
  FrameSlots = 3
  MinImages = 2
  MaxImages = 3
  FrameFaults = {"create"}
INVARIANT
  OneImageHeld
CHECK_DEADLOCK FALSE
