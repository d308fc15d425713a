SPECIFICATION FairSpec
CONSTANTS
  Last = 1
  Reply = {1}
  Threads = 1
  MaxTrouble = 1
PROPERTIES StraysAreReaped
