SPECIFICATION FairSpec
CONSTANTS
  lane = lane
  tool = tool
  Callers <- MCCallers
  Lane <- lane
  Clients = {c1, c2}
  Ports = {p1, p2}
  NoClient = NoClient
  NoCaller = NoCaller
  RecycleMax = 2
  FailLimit = 1
  MaxFaults = 1
INVARIANTS TypeOK ServersAreBounded
PROPERTIES BracketIsWhole NoImmortalWedge
