CONSTANTS
  n1 = n1  n2 = n2  c1 = c1
  NumAccounts = 2
  Keys = {"native", "chat"}
  Callers = {n1, c1}
  Native = {n1}
  KeyOf <- MCKeyOf
  ModelOf <- MCModelOf
  Targets = {"jev"}
  Serves <- MCServes
  Volatile = {}
  MaxAttempts = 2
  Budget = 2
  AttemptBudget = 1
  FailureDelay = 1
  NativeCap = 1
  Asked = {1}
  BaseCooldown = 1
  MaxCooldown = 1
  MinRetryAfter = 1
  MaxRetryAfter = 1
  StickyTtl = 1
  MaxSticky = 1
  RetryAfters = {1}
  Diagnostics = {}
  NoDiagnostic = "none"
  Horizon = 2
  MaxFailures = 2
SPECIFICATION CallSpec
INVARIANT GenerationDetectsFailure
PROPERTIES Spec CancellationIsNoFailure QuarantineRespected AffinityEarned
CHECK_DEADLOCK FALSE
