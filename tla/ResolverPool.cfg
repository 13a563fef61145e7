SPECIFICATION Spec
CONSTANTS
  Hosts = {1, 2}
  Queries <- Calls
  Names = {"n", "bad"}
  NameOf <- Wanted
  BadNames = {"bad"}
  Threshold = 1
  Cooldown = 1
  MaxFailures = 2
  MaxTime = 1
INVARIANTS TypeOK NoMissWhileServed
PROPERTIES DemotedForCause
CHECK_DEADLOCK FALSE
