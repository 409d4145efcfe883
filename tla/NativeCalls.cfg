CONSTANTS
  n1 = n1  n2 = n2  c1 = c1
  NumAccounts = 4
  Keys = {"native"}
  Callers = {n1}
  Native = {n1}
  KeyOf <- MCKeyOf
  ModelOf <- MCModelOf
  Targets = {"jev"}
  Serves <- MCServes
  Volatile = {1}
  MaxAttempts = 3
  Budget = 3
  AttemptBudget = 2
  FailureDelay = 1
  NativeCap = 2
  Asked = {1, 2}
  BaseCooldown = 1
  MaxCooldown = 1
  MinRetryAfter = 1
  MaxRetryAfter = 3
  StickyTtl = 1
  MaxSticky = 1
  RetryAfters = {1, 2}
  Diagnostics = {}
  NoDiagnostic = "none"
  Horizon = 4
  MaxFailures = 9
SPECIFICATION CallSpec
INVARIANTS BackupsGetATurn
PROPERTIES EveryCallEnds
CHECK_DEADLOCK FALSE
