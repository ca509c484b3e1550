SPECIFICATION Spec
CONSTANTS Packets <- SmallPackets
          Size = 8
          MaxLen = 2
          None = None
INVARIANTS DropFindsPacket
