CONSTANTS
  Conns = {c1}
  Bufs = {b1, b2}
  Lens = {1, 3}
  MTU = 1
  QLen = 2
  MaxUnacked = 2
  DirectReplies = TRUE
  None = None
SPECIFICATION FairSpec
PROPERTIES QueueDrains ReceivedIsParsed
