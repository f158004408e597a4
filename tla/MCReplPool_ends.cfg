SPECIFICATION FairSpec

CONSTANTS
    Callers = {c1, c2, c3}
    Sessions = {s1, s2, s3}
    c1 = c1
    c2 = c2
    c3 = c3
    s1 = s1
    s2 = s2
    s3 = s3
    Keys = {k1}
    k1 = k1
    k2 = k2
    f1 = f1
    f2 = f2
    File <- FileOf
    Size = 1
    Guarded = FALSE
    Cancels = FALSE
    NoSession = NoSession
    NoKey = NoKey

INVARIANTS
    NoProcessLeaks

PROPERTIES
    WaitersWake
