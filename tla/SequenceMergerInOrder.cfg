SPECIFICATION FairSpec
CONSTANTS
  Streams = {1, 2}
  NumQueues = 4
  Route <- OwnQueue
  Capacity = 2
  MaxSeq = 4
  MaxPackets = 4
  Beats = {}
  InOrder = TRUE
  MaxSpinWaitGap = 1
  Word = 8
  NoMsg = NoMsg
INVARIANTS
  NoSilentLoss
  OnlyLostIsSkipped
  GapsDetectedCountsRuns
PROPERTIES
  ArrivedIsDelivered
