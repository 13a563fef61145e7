SPECIFICATION Spec
CONSTANTS
  Ids = {0, 1, 2}
  Keys = {k1, k2, k3, k4}
  NoKey = NoKey
  LongTerm = LongTerm
  Msgs = {m1, m2}
  Count = 2
  Ttl = 1
  MaxTime = 2
  Faults = TRUE
INVARIANTS TypeOK Backed OnlyBurntOrExpired OneTime
PROPERTIES WithdrawsOnlyUsed
SYMMETRY Symmetry
CHECK_DEADLOCK FALSE
