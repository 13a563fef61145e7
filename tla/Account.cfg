SPECIFICATION Spec
CONSTANTS
    Passwords = {"p", "q"}
    Names = {"identity", "rotate", "slot"}
    Announced = {"identity"}
    Identity = "identity"
    Rotation = "rotate"
    MaxSalts = 2
    MaxFaults = 2
INVARIANTS SaltKept
PROPERTIES AnnouncesOwnKey
