SPECIFICATION Spec
CONSTANTS
  T1 = T1
  Tokens = {T1}
  A = A
  B = B
  Ids = {A, B}
  NoId = NoId
  Prices = {1, 2}
  Quantities = {1, 2}
  p1 = p1
  p2 = p2
  Ptrs = {p1, p2}
  Nil = Nil
  Bucket <- OneBucket
  BucketSize = 8
  MaxQty = 3
  FreshIds = TRUE
INVARIANT BestLevelsHaveOrders
