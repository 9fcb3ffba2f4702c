SPECIFICATION FairSpec
CONSTANTS
    Releases = {r0, r1}
    Bootstrap = r0
    NoRelease = none
    Pids = {p1}
    NoPid = none
    Boots = {b1, b2, b3, b4}
    NoBoot = none
    CONFIRM_SECONDS = 1
    MaxUptime = 2
    MaxFaults = 2
INVARIANTS OnlyEarnedIsGood ResolvedIsTrusted RollbackTarget
PROPERTIES PhaseOrder SettlesRunning ImplementsDeployment UpdateSettles
