CONSTANTS
  c1 = c1  c2 = c2
  NumAccounts = 1
  Keys = {"session"}
  Callers = {c1, c2}
  KeyOf <- MCKeyOf
  Targets = {"zen"}  Pooled = {"zen"}  Direct = {"api"}  Terminal = {"native"}
  Serves <- MCServes
  Volatile = {1}
  Plans <- MixedPlans
  Streaming = {c1, c2}
  Messages = {c2}
  MaxAttempts = 2
  RouteCooldowns = {1}
  BaseCooldown = 1
  MaxCooldown = 1
  MinRetryAfter = 1
  MaxRetryAfter = 1
  StickyTtl = 1
  MaxSticky = 1
  RetryAfters = {}
  Diagnostics = {"quota"}
  NoDiagnostic = "none"
  Horizon = 1
  MaxFailures = 9
SPECIFICATION ExecSpec
INVARIANTS OnlyCutChatStreamsStayOpen
PROPERTIES NoFallbackAfterOutput EveryRequestEnds
CHECK_DEADLOCK FALSE
