SPECIFICATION InstallerFairSpec
CONSTANTS
    Releases = {r1, i1, i2}
    Bootstraps = {i1, i2}
    Bootstrap = i1
    NoRelease = none
    Pids = {p1}
    NoPid = none
    Boots = {b1, b2, b3}
    NoBoot = none
    CONFIRM_SECONDS = 1
    MaxUptime = 1
    MaxFaults = 1
    MaxActs = 1
INVARIANTS CurrentIsSound
PROPERTIES IdentityWorkIsExclusive KeepsDeployment TrialUndisturbed MonitoringHandedBack TrialComesBack
CHECK_DEADLOCK FALSE
