SPECIFICATION Spec
CONSTANTS
  Senders <- Keys
  Users <- KeysUsers
  UserOf <- KeysUser
  Zones = {"own", "far"}
  OwnZone = "own"
  ZoneOf <- KeysFar
  Slots = {0}
  Msgs <- OneMsg
  Sender <- FromAlice2
  SlotOf <- OneSlot
  Prekeys = {"p1"}
  NoPrekey = "no_prekey"
  PrekeyExp = 2
  Workers = {"w1"}
  NoMsg = "none"
  InitContacts <- AliceFar
  RotationOn = TRUE
  Ttl = 2
  MaxTime = 3
INVARIANTS TypeOK OneCopyBeforeExpiry
PROPERTIES KeepsPromise
CHECK_DEADLOCK FALSE
