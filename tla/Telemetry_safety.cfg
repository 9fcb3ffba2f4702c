SPECIFICATION Spec
CONSTANTS
    Stations = {s1, s2}
    NoStation = NoStation
    Boots = {b1, b2}
    NoBoot = NoBoot
    Capacity = 2
    Batch = 2
    MaxSamples = 3
    MaxLate = 1
    Poison = {}
INVARIANTS OutboxIsSound NoSilentLoss OwnStationOnly ReceiptsApply UploadsFollowGoodSync
PROPERTIES OnlySettledRowsLeave ImplementsDelivery
SYMMETRY Symmetry
