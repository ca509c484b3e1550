SPECIFICATION FairSpec
CONSTANTS KeepAlive = 2
          ReconnectTimeout = 1
          SendTimeout = 2
          QMax = 3
          MaxOwed = 2
INVARIANTS TypeOK ConnAckExpected ReconnectIsClean WakeupPending
PROPERTIES Reconnects QueueMoves
