SPECIFICATION Spec
CONSTANTS
    Technicians = {t1, t2}
    Nobody = Nobody
    Seconds = {1, 2}
    MaxSerial = 3
INVARIANTS OnlySuccessIsFollowed ErasedOnce
PROPERTIES InstallsOwnCheckout
SYMMETRY TechniciansSymmetry
