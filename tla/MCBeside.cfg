\* The parts beside the relay, each with two or three goroutines; the bounds are explained
\* in the README.
SPECIFICATION MCSpec
CONSTANTS
  a1 = a1  a2 = a2  s1 = s1
  e1 = e1  e2 = e2  e3 = e3
  c1 = c1  c2 = c2
  route = route  q1 = q1  q2 = q2
  root = root  ann = ann  h1 = h1  h2 = h2
  u1 = u1  u2 = u2
  k1 = k1  k2 = k2  tape = tape  disk = disk
  bob = bob  mail = mail  p1 = p1  p2 = p2
  Attempts <- MCAttempts
  Syncs <- MCSyncs
  MaxFaults = 1
  Evaluators <- MCEvaluators
  Window = 2
  Threshold = 2
  Horizon = 4
  MaxLogs = 4
  Callers <- MCCallers
  MaxRequests = 2
  Duration = 2
  Expiration = 2
  Parts = 2
  Patience = 1
  LastPart = 6
  MaxErrors = 1
  Routes <- MCRoutes
  Requests <- MCRequests
  InvalidMax = 2
  LookBack = 2
  Cooldown = 2
  LastMinute = 4
  MaxRecords = 6
  Users <- MCUsers
  Founder = root
  Handlers <- MCHandlers
  MaxWrites = 4
  Updates <- MCUpdates
  MaxUpdates = 5
  Restorers <- MCRestorers
  Packages <- MCPackages
  People <- MCPeople
  Addresses <- MCAddresses
  Presenters <- MCPresenters
  Valid = 2
  MaxPairs = 1
  MaxCodes = 3
  LastTime = 3
INVARIANTS
  TypesOK
  HealthTold
  BurstToldOnce
  LimitKept
  InvalidBounded
  LastWordKept
  LoginLeft
  RestoreReversible
  CodesKept
VIEW MCView
CHECK_DEADLOCK FALSE
