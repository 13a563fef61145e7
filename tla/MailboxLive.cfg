SPECIFICATION FairSpec
CONSTANTS
  Senders <- Pair
  Users <- FarUsers
  UserOf <- PairUser
  Zones = {"own", "far"}
  OwnZone = "own"
  ZoneOf <- FarZone
  Slots = {0}
  Msgs <- OneMsg
  Sender <- FromStranger
  SlotOf <- OneSlot
  Prekeys = {"p1"}
  NoPrekey = "no_prekey"
  PrekeyExp = 9
  Workers = {"w1"}
  NoMsg = "none"
  InitContacts <- AliceFar
  RotationOn = FALSE
  Ttl = 1
  MaxTime = 1
PROPERTIES Arrives
CHECK_DEADLOCK FALSE
