SPECIFICATION LogSpec
CONSTANTS
    MAX_BUFFERED = 2
    MaxEntries = 7
INVARIANTS LogIsAccounted
