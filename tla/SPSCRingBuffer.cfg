SPECIFICATION Spec
CONSTANTS
  m1 = m1
  m2 = m2
  NoItem = NoItem
  Items = {m1, m2}
  Size = 2
  MaxHead = 5
  Word = 16
INVARIANTS
  TypeOK
  CachesAreSafe
  NoSlotRace
  LoadedItemIsFront
PROPERTY ImplementsFIFO
