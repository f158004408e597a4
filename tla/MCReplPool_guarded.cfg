SPECIFICATION Spec

CONSTANTS
    Callers = {c1, c2}
    Sessions = {s1, s2, s3, s4}
    c1 = c1
    c2 = c2
    s1 = s1
    s2 = s2
    s3 = s3
    s4 = s4
    Keys = {k1, k2}
    k1 = k1
    k2 = k2
    f1 = f1
    f2 = f2
    File <- FileOf
    Size = 1
    Guarded = TRUE
    Cancels = FALSE
    NoSession = NoSession
    NoKey = NoKey

SYMMETRY Alike

INVARIANTS
    MonitorInvariant
    ExclusiveUse
    AtMostOneOver

PROPERTIES
    BrokenNeverHandedOut
