SPECIFICATION Console
CONSTANTS
  k1 = k1
  k2 = k2
  Keys = {k1, k2}
  Ttl = 1
  MaxIdle = 1
  StepsBack = TRUE
  Horizon = 3
  MaxLeases = 2
  MaxIds = 2
  Models <- MCModels
  Sources <- MCSources
  Configured <- MCConfigured
  Profiles <- MCProfiles
  Offers <- MCOffers
  NoProvider = NoProvider
  FreshFor = 1
  StaleLimit = 3
  OldAge = 8
  NoAge = NoAge
  Aliases = {al, am}
  Targets = {x, y}
  Origin = x
  NoTarget = NoTarget
  RouteOf <- MCRouteOf
  Names <- MCNames
  Shapes <- MCShapes
  Cheap = "medium"
  Metered = {"codex"}
  Sessions = {s1}
  Inflight = {q1}
  NoRoute = NoRoute
  NoSession = NoSession
  Deltas <- MCDeltas
  MaxChunks = 3
  NoBlock = NoBlock
SYMMETRY MCSymmetry
INVARIANTS LeaseHolderKeepsSession IdentityIsDurable TerminationIsRemembered WrittenStateLoads BaseStays GateMatchesRegistry PercentagesAreRecent ConfirmedSurvives RolesRotateFamilies StreamShape FoldKeepsAnswer
PROPERTIES KeepsLedger SessionKeepsItsRoute
CHECK_DEADLOCK FALSE
