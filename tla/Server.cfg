SPECIFICATION ServerSpec
CONSTANTS
  c1 = c1
  c2 = c2
  c3 = c3
  home = home
  copy = copy
  Conns = {c1, c2, c3}
  NoConn = NoConn
  Holders = {home, copy}
  Home = home
  Overlap = FALSE
  Keep = 1
  Buffer = 1
  MaxChanges = 2
  MaxDrops = 1
  MaxRestarts = 1
  Messages = {1, 2}
  MaxQueued = 1
  MaxLoads = 2
  Groups = {"g1", "g2"}
  Rules = {1}
  User = "u"
  Requests = {1, 2}
  MaxRequests = 3
  Users = {"ann", "bob"}
  Logins = {1}
  Limit = 1
  MaxWrites = 2
  Names = {"t"}
  Agent = "agent"
  Queues = {"q1", "q2"}
  NoQueue = "none"
  Sweepers = {1, 2}
  Members = {"u"}
  Writers = {1, 2}
  MaxId = 3
  Homes = {"h1", "h2"}
  Codes = {"c"}
  NoCode = "none"
  Nobody = "nobody"
  MaxPending = 2
  Tries = 1
  MaxIds = 2
  NoCall = 0
  MaxResumes = 1
  MaxSessions = 3
  Servers = {1, 2}
  Contracts = {1, 2}
  MaxToolChanges = 1
  MaxFaults = 1
CONSTRAINT Small
CHECK_DEADLOCK FALSE
INVARIANT NeverLockedOut
INVARIANT RetiredRecognised
INVARIANT OneConnection
INVARIANT PageRight
INVARIANT ParticipantShown
INVARIANT RightsKept
INVARIANT CatalogRight
INVARIANT ReportedOnce
INVARIANT EnrolledRightly
INVARIANT McpToolsServed
