SPECIFICATION Spec
CONSTANTS
  Senders <- Pair
  Users <- Pair
  UserOf <- PairUser
  Zones = {"own"}
  OwnZone = "own"
  ZoneOf <- PairZone
  Slots = {0}
  Msgs <- TwoMsgs
  Sender <- PairSender
  SlotOf <- TwoSlots
  Prekeys = {"p1"}
  NoPrekey = "no_prekey"
  PrekeyExp = 9
  Workers = {"w1"}
  NoMsg = "none"
  InitContacts <- PinnedOrNone
  RotationOn = FALSE
  Ttl = 1
  MaxTime = 1
INVARIANTS OneCopyUnderPrekey ForwardSecrecy NoSilentLoss
PROPERTIES BlockedSkipsDecrypt
CHECK_DEADLOCK FALSE
