SPECIFICATION Spec
CONSTANTS
    Backends = {"dojo", "interact", "repl"}
    Callers = {c1, c2}
    Keys = {k1, k2}
    Procs = {1, 2, 3, 4, 5}
    MaxAbandoned = 1
    None = None
INVARIANTS
    TableInOrder
    OneUser
    NoProcessEscapes

SYMMETRY Alike
