CONSTANTS
  u1 = u1
  u2 = u2
  s1 = s1
  s2 = s2
  j1 = j1
  p1 = p1
  p2 = p2
  User = {u1, u2}
  Service = Service
  Socket = {s1, s2}
  Job = {j1}
  NoJob = NoJob
  NoThread = NoThread
  MaxCalls = 3
  Peer = {p1, p2}
  Addresses <- TheAddresses
  MaxTroubles = 4
SPECIFICATION Spec
INVARIANTS
  ListIsStable NobodyOversleeps
  ProxiesHaveOneOwner
PROPERTIES
  EveryoneIsServed
  HandshakesEnd
  SearchesWell
CHECK_DEADLOCK FALSE
