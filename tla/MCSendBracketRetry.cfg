SPECIFICATION Spec
CONSTANTS
  Intents = {i1}
  Texts = {a}
  MinVerify = 1
  MaxVerify = 1
  Start = "active"
  Terminal = {}
  Lane = Lane
  Nobody = Nobody
INVARIANTS
  RetrySafe
