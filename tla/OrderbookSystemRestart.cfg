SPECIFICATION Spec
CONSTANTS
  N = 1
  MaxStarts = 2
  Types = {"N"}
  Malformed = Malformed
  Capacity = 1
  MaxPackets = 2
  MaxErrors = 1
INVARIANTS
  RunningReceives
