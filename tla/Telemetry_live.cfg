SPECIFICATION FairSpec
CONSTANTS
    Stations = {s1}
    NoStation = NoStation
    Boots = {b1, b2, b3}
    NoBoot = NoBoot
    Capacity = 2
    Batch = 2
    MaxSamples = 2
    MaxLate = 0
    Poison = {1}
PROPERTY EveryRowSettles
