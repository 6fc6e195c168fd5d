SPECIFICATION Spec
CONSTANTS
  T1 = T1
  Tokens = {T1}
  A = A
  B = B
  C = C
  Ids = {A, B, C}
  NoId = NoId
  Prices = {1, 2}
  Quantities = {1}
  p1 = p1
  p2 = p2
  p3 = p3
  Ptrs = {p1, p2, p3}
  Nil = Nil
  Bucket <- OneBucket
  BucketSize = 8
  MaxQty = 2
  FreshIds = TRUE
SYMMETRY Interchangeable
INVARIANTS NoGhosts CancelRemoves
PROPERTY ImplementsLOB
