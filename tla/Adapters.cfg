SPECIFICATION Adapters
CONSTANTS
  a1 = a1
  a2 = a2
  a3 = a3
  p1 = p1
  p2 = p2
  Askers = {a1, a2, a3}
  Pools = {p1, p2}
  Keys = {k1}
  NoKey = NoKey
  Nobody = Nobody
  Home <- ZenHome
  Ttl = 0
  ZenHorizon = 1
  Holders = {h1, h2}
  NoHolder = NoHolder
  MaxVersion = 2
  Turns = {t1, t2, t3}
  NoTurn = NoTurn
  Openers = {t1}
  MaxCalls = 2
  RunLimit = 1
  SessionTtl = 2
  Requests = {r1, r2}
  NoLane = NoLane
  BodyLimit = 1
  IdleLimit = 2
  HandshakeLimit = 1
  MaxChunks = 1
INVARIANTS OneSessionPerKey OneRefresh NoDeadCall OneHead
PROPERTIES OutageKeepsValidToken EveryAskEnds TurnsEnd SessionsClose SpecialistsSettle
CHECK_DEADLOCK FALSE
