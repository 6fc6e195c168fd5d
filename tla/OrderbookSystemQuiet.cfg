SPECIFICATION FairSpec
CONSTANTS
  N = 1
  MaxStarts = 1
  Types = {"N"}
  Malformed = Malformed
  Capacity = 1
  MaxPackets = 2
  MaxErrors = 1
PROPERTIES
  CallsReturn
