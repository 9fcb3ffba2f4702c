SPECIFICATION Spec
CONSTANTS
    CAPACITY = 1
    MIN = 2
    Modbus = TRUE
    Asked = TRUE
    MaxRows = 2
    MaxClock = 2
    MaxBacksteps = 1
    MaxFailures = 1
INVARIANTS CountersAccount ClockIsFollowed ReportIsSound
