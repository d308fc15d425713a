SPECIFICATION FairSpec
CONSTANTS
  Intents = {i1}
  Texts = {a, b}
  MinVerify = 1
  MaxVerify = 2
  Start = "agreed"
  Terminal = {"closed"}
  Lane = Lane
  Nobody = Nobody
PROPERTIES
  NeverForgotten
  EveryCallReturns
