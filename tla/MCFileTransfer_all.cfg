SPECIFICATION BothSpec
CONSTANTS
  a = a  b = b
  Primary = primary  NoScreen = noScreen
  Conn <- Clients
  Senders <- JustA
  Receivers <- All
  Items = 2  Chunks = 1
  Faults = TRUE  Expiry = FALSE  Drops = FALSE
  MaxTransfers = 2  MaxRequests = 2  MaxConnects = 1
INVARIANTS ResourcesMatchSessions OutcomesAgree DataAreInTurn FilesGoWhereDropped
PROPERTY TransfersEndDespiteFaults
