SPECIFICATION LiveFeedSpec
CONSTANTS
  N = 2
  MaxStarts = 1
  Types = {"N"}
  Malformed = Malformed
  Capacity = 1
  MaxPackets = 2
  MaxErrors = 1
INVARIANTS
  TypeOK
  PacketsAddUp
  AllOrNone
PROPERTIES
  NoReceptionAfterStop
  CallsReturn
  LoopsEnd
  SystemEnds
