SPECIFICATION CommandsSpec
CONSTANTS
  Asks = {a1}
  Workers = {w1, w2}
  Desks = {t1}
  Peers <- TwoPeers
  MaxTries = 3
  Rounds = 2
  Upsets = 1
  Acts = 2
  None = None
  Nobody = Nobody
  p1 = p1  p2 = p2
  People = {u1, u2}
  CardIds = {c1}
  Texts = {"t"}
  MaxCalls = 3
  Mishaps = 2
INVARIANTS TypeOK RowsTellTruth TrailTellsTruth CardTellsHolder HeldUntilReleased
PROPERTIES ToldIsDone
CHECK_DEADLOCK FALSE
