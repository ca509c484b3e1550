SPECIFICATION FairSpec
CONSTANTS Packets <- SmallPackets
          Size = 8
          MaxLen = 2
          None = None
INVARIANTS TypeOK
PROPERTIES PacketsInOrder PublishEnds
