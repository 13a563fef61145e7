SPECIFICATION Spec
CONSTANTS
    Passwords = {"p", "q"}
    Names = {"identity", "rotate", "slot"}
    Announced = {"identity"}
    Identity = "identity"
    Rotation = "rotate"
    MaxSalts = 1
    MaxFaults = 0
INVARIANTS ToldOpens
