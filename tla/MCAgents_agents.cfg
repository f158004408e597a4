SPECIFICATION Spec
CONSTANTS
    Subgoals = {g1, g2}
    Proofs = {p1, p2}
    Whole = Whole
    None = None
    MaxSublemmas = 2
    Retries = 1
    Recursive = TRUE
    MaxIters = {2, 4}
    Patience = 1
    ReplanMax = 1
    MaxLessons = 2
    Sorries = {0, 1}
    MaxSolves = 2
    Unbuildable = {1}
    Tactics = {a, b}
    Shapes <- SearchShapes
    BudgetFactor = 1
    Reports <- SearchReports
    Knobs = {"depth", "width", "share"}
    KnobRange <- KnobRanges
    BaseConfigs <- Bases
    EvalEvery = 2
INVARIANTS
    LoopsInOrder
    SolvedIsEarned
    BudgetsAreKept

PROPERTIES
    CacheIsEarned
    OneStepAtATime

SYMMETRY Alike
