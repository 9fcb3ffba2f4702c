SPECIFICATION FairSpec
CONSTANTS
    Serials = {s1, s2}
    Stations = {x}
    Platforms = {p1, p2}
    Boards = {b1, b2}
    NoBoard = noboard
    None = none
    MaxSecrets = 3
    MaxOps = 2
    MaxLate = 1
INVARIANTS SecretsStayHome LostRotationIsFlagged StateIsCoherent
PROPERTIES ClaimReachesDevice
