SPECIFICATION Spec
CONSTANTS
  Ids = {1, 2, 3, 4}
  Refs = {1, 2}
  Nil = Nil
  Buckets = {1, 2}
  Bucket <- MCBucket
  BucketSize = 2
  Prices = {1, 2, 3}
  Nodes = {1, 2, 3}
  Header = 0
  None = None
  MaxLevel = 2
INVARIANTS
  TypeOK
  BucketsPacked
  TreesNested
  BestIsExtreme
PROPERTIES
  ImplementsIndex
