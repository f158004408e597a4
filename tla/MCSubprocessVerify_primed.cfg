SPECIFICATION Spec
CONSTANTS
    Callers = {c1}
    Texts = {1, 2}
    Content <- PrimedVersions
    Names = {foo, long, hidden, prime}
    Holes = {h1, h2, h4, h5, h6, h7}
    Longer <- LongerNames
    Proofs = {p, ps}
    p = p
    Blacklisted = {ps}
    Right <- SomeRight
    SubName = SubName
    SubHole = SubHole
    MaxConcurrent = 1
    SorryDBMode = TRUE
    Isolates = TRUE
    MaxEdits = 1
    MaxCrashes = 1
    None = None
    NoDecl = NoDecl
    Nameless = Nameless
    Synthesized = Synthesized
    AnyName = AnyName
    Primed = {prime}
    prime = prime
    foo = foo
    long = long
    hidden = hidden
    h1 = h1
    h2 = h2
    h4 = h4
    h5 = h5
    h6 = h6
    h7 = h7

INVARIANT
    EveryTheoremIsFound
