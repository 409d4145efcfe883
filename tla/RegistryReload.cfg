CONSTANTS
  k1 = k1  k2 = k2
  Keys = {k1, k2}
  Ttl = 1
  MaxIdle = 1
  StepsBack = TRUE
  Horizon = 3
  MaxLeases = 1
  MaxIds = 3
SPECIFICATION RegistrySpec
INVARIANTS SurvivesRestarts
CHECK_DEADLOCK FALSE
