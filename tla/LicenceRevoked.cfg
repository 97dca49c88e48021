INIT LicenceInit
NEXT LicenceNext
CONSTANTS
    GraceHours = 2
    CheckEvery = 1
    MaxLicenceTime = 5
    MaxLostWrites = 0
    MaxStops = 0
INVARIANT RevokedStaysClosed
CHECK_DEADLOCK FALSE
