SPECIFICATION PlannerSpec
CONSTANTS
  RouteOf <- MCRouteOf
  Names <- MCNames
  Shapes <- MCShapes
  Cheap = "medium"
  Metered = {"codex"}
  Sessions = {s1}
  Inflight = {q1}
  NoRoute = NoRoute
  NoSession = NoSession
INVARIANT DelegatedTurnsLeaveNoTrace
CHECK_DEADLOCK FALSE
