SPECIFICATION FairSpec
CONSTANTS
  t1 = t1
  t2 = t2
  m1 = m1
  m2 = m2
  Threads = {t1, t2}
  Markets = {m1, m2}
  MarketOf <- TwoMarkets
  Slots = {s1}
  MaxMessages = 1
PROPERTIES
  NoBuyerStarves
