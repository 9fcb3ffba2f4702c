SPECIFICATION Spec
CONSTANTS
    Serials = {s1, s2}
    Stations = {x}
    Platforms = {p1}
    Boards = {b1}
    NoBoard = noboard
    None = none
    MaxSecrets = 2
    MaxOps = 1
    MaxLate = 1
PROPERTIES PrintedCodeIsKept
