SPECIFICATION MCSpec
CONSTANTS
    Keys = {k1, k2}
    Devices = {d1, d2}
    Desktops = {s1, s2}
    Handlers = {h1, h2}
    DeviceLimit = 1
    Sessions = {w1, w2}
    Tokens = {t1}
    Credentials = {c1, c2}
    Resets = {r1, r2}
    MaxEndings = 2
    MaxSyncs = 2
SYMMETRY MCSymmetry
INVARIANTS
    RevokedStaysRevoked
    DevicesWithinLimit
    EndingsEndSessions
    ResetsAreSpentOnce
    DeletedStaysInactive
CHECK_DEADLOCK FALSE
