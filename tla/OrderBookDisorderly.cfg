SPECIFICATION Spec
CONSTANTS
  T1 = T1
  Tokens = {T1}
  A = A
  B = B
  Ids = {A, B}
  NoId = NoId
  Prices = {1, 2}
  Quantities = {1, 2}
  p1 = p1
  p2 = p2
  p3 = p3
  Ptrs = {p1, p2, p3}
  Nil = Nil
  Bucket <- OneBucket
  BucketSize = 1
  MaxQty = 2
  FreshIds = FALSE
SYMMETRY Interchangeable
INVARIANTS
  TypeOK
  MapIsSound
  LinksAgree
  PoolIsDisjoint
  LevelsAddUp
  RestingIsOpen
PROPERTY LossesAccounted
