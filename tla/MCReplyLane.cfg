SPECIFICATION Spec
CONSTANTS
  t1 = t1
  t2 = t2
  m1 = m1
  m2 = m2
  Threads = {t1}
  Markets = {m1}
  MarketOf <- OneMarket
  Slots = {s1, s2}
  MaxMessages = 2
SYMMETRY Symmetry
INVARIANTS
  TypeOK
  CursorWasGiven
