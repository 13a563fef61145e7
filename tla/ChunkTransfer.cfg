SPECIFICATION Spec
CONSTANTS
    DATA_PER_CHUNK = 2
    LEN_PREFIX = 1
    MAX_M = 6
    Messages <- MCMessages
    SenderAddr <- MCSender
    SenderSpk = "A"
    RecipientSpk = "R"
    Profiles <- MCProfiles
    Directory <- MCDirectory
    Alien <- MCAlien
    MaxFaults = 2
CHECK_DEADLOCK FALSE
INVARIANTS AnyKSuffice BodyIntact LabelIsSenders AnnouncedWhole
PROPERTIES Recovers
