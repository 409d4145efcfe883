CONSTANTS
  k1 = k1  k2 = k2
  Callers = {k1, k2}
  MaxGeneration = 2
  MaxTurn = 1
  None = None
  Unread = Unread
SPECIFICATION OAuthSpec
INVARIANTS SingleFlight LogoutIsFinal RevokedLoginLeavesNothing PendingHasPoller
PROPERTIES LoginsSettle
CHECK_DEADLOCK FALSE
