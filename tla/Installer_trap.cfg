SPECIFICATION InstallerSpec
CONSTANTS
    Releases = {r1, i1, i2}
    Bootstraps = {i1, i2}
    Bootstrap = i1
    NoRelease = none
    Pids = {p1}
    NoPid = none
    Boots = {b1, b2, b3, b4}
    NoBoot = none
    CONFIRM_SECONDS = 1
    MaxUptime = 2
    MaxFaults = 1
    MaxActs = 1
PROPERTIES FailureRestartsPrevious
SYMMETRY Symmetry
CHECK_DEADLOCK FALSE
