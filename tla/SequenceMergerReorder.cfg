SPECIFICATION FairSpec
CONSTANTS
  Streams = {1, 2}
  NumQueues = 4
  Route <- SplitAndShared
  Capacity = 2
  MaxSeq = 4
  MaxPackets = 2
  Beats = {3}
  InOrder = FALSE
  MaxSpinWaitGap = 1
  Word = 8
  NoMsg = NoMsg
INVARIANTS
  TypeOK
  OldestIsFront
  NoSilentLoss
PROPERTIES
  ImplementsDelivery
  InSequence
  QueuesDrain
