SPECIFICATION Spec
CONSTANTS
  Intents = {i1, i2}
  Texts = {a}
  MinVerify = 1
  MaxVerify = 1
  Start = "active"
  Terminal = {}
  Lane = Lane
  Nobody = Nobody
SYMMETRY Symmetry
VIEW View
INVARIANTS
  TypeOK
  WriteAhead
  SettledIsOnPage
  AskIsAbout
PROPERTIES
  OpenQuestionHolds
  KeepsPromise
