CONSTANTS
  c1 = c1  c2 = c2
  NumAccounts = 2
  Keys = {"session"}
  Callers = {c1}
  KeyOf <- MCKeyOf
  Targets = {"zen"}  Pooled = {"zen"}  Direct = {"api"}  Terminal = {"native"}
  Serves <- MCServes
  Volatile = {}
  Plans <- PooledOnly
  Streaming = {c1}
  Messages = {}
  MaxAttempts = 2
  RouteCooldowns = {1}
  BaseCooldown = 1
  MaxCooldown = 1
  MinRetryAfter = 1
  MaxRetryAfter = 1
  StickyTtl = 1
  MaxSticky = 1
  RetryAfters = {}
  Diagnostics = {"quota", "denied"}
  NoDiagnostic = "none"
  Horizon = 1
  MaxFailures = 9
SPECIFICATION ExecSpec
INVARIANT FinishedMeansAnswered
CHECK_DEADLOCK FALSE
