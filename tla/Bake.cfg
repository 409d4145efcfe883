SPECIFICATION PrefSpec
CONSTANTS
  Aliases = {al, am}
  Targets = {x, y}
  Origin = x
  NoTarget = NoTarget
INVARIANT LiveAsConfirmed
CHECK_DEADLOCK FALSE
