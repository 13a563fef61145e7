SPECIFICATION Spec
CONSTANTS
  Keys = {k1, k2, k3}
  FirstKey = k1
  None = None
  Forms = {"zone", "hash"}
  Lifetimes = {0, 1, 2}
  MaxHops = 1
  HopBounds = {1, 2}
  Skew = 1
  MaxTime = 3
  MaxRecords = 2
  MaxRevs = 1
CONSTRAINT OneLifetimeIfRevoked
INVARIANTS WalkMatchesReference
PROPERTIES RevokedNotTrusted Transparent HeadNotStale
VIEW View
SYMMETRY Symmetry
CHECK_DEADLOCK FALSE
