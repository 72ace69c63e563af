CONSTANTS
  Accounts = {a1, a2}
  Workers = {w1, w2}
  PlainRoles = {"player"}
  Lifetime = 1
  Leeway = 1
  Tokens = 2
  TeamIds = {t1, t2}
  Players = {p1}
  NoTeam = NoTeam
  Unborn = Unborn
  Requests = {q1, q2}
  Budget = 5
  Connections = {c1, c2}
  Viewers = {u1, u2}
  Channels = {g1, g2}
  Addresses = {i1, i2}
  Names = {n1, n2}
  AddressLimit = 1
  NameLimit = 2
  Window = 2
  InFlight = 2
  Games = {"x", "y"}
  GameTeams <- MCGameTeams
  Goroutines = {o1, o2}
  Subnets = 2
  Squads = {s1, s2, s3}
  Flags = {f1, f2}
  InitialTotal = 60
  FlagValue = 20
  FirstBloodBonus = 2
  RoundDefense = 10
  TotalRounds = 2
  MaxAttacks = 3
  Boxes = {"b1"}
  Checkers = {"k1", "k2"}
  MaxEvents = 3
  Services = {"v1", "v2"}
  Unsupported = {"v2"}
  Probes = {h1, h2}
  NoProbe = NoProbe
  FailureCount = 2
  QueueLimit = 1
  Senders = {z1, z2}
  AlertKinds = {k1}
  Notifiers = {j1, j2}
  Silence = 2
  Machines = {m1, m2}
INIT MCInit
NEXT MCNext
INVARIANTS
  AdminRemains LoggedOutStaysOut ClaimsAgeOut
   ConnectionHasItsGames WritesReachOpenConnections
  LimitIsKeptAndFair ContainersInTeamNetworks StrictZeroSum RowSaysWhatWasSeen
  AlertsTellTheState SilencedAfterDelivery ReloadGivesTheState
PROPERTIES MemberKeepsTeam
CHECK_DEADLOCK FALSE
SYMMETRY Symmetry
CONSTRAINT OneTaken
