SPECIFICATION FairSpec
CONSTANTS
  Last = 2
  Reply = {1}
  Threads = 2
  MaxTrouble = 2
INVARIANTS TypeOK
PROPERTIES VerdictIsFinal OrphansAreMute PassSettles
