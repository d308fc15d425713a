SPECIFICATION PollSpec
CONSTANTS
  MaxUpdates = 2
  MaxOther = 0
  Batch = 1
  Failures = FALSE
PROPERTIES
  LateArrivalIsRouted
