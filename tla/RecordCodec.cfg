SPECIFICATION CodecSpec
CONSTANTS
    Lengths = {1, 10, 35}
    Counts = {1, 2}
    BodyLens <- MCBodyLens
    Skew = 1
    Clock = {0, 1, 2, 3, 4, 5}
CHECK_DEADLOCK FALSE
INVARIANTS WholeBody RoundTrip KindsApart
