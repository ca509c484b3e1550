CONSTANTS
  BufSize = 140
  Incoming <- MCIncoming
  MaxPackets = 3
  Cuts = {1, 2, 3, 5, 6}
  Topics <- MCTopics
  Datas <- MCDatas
  Infos <- MCInfos
  MaxCalls = 2
  FirstId = {0, 65534}
SPECIFICATION Spec
INVARIANTS DeliveredInOrder AnswersMatch SentAsAsked
CHECK_DEADLOCK FALSE
