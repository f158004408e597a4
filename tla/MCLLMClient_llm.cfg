SPECIFICATION FairSpec

CONSTANTS
    Providers = {deepseek, kimi}
    DeepSeek = {deepseek}
    deepseek = deepseek
    kimi = kimi
    Roles = {PROVER, CRITIC}
    PROVER = PROVER
    CRITIC = CRITIC
    Primary <- RoleToProvider
    Chain <- FallbackChain
    Callers = {c1, c2, c3}
    Requests <- SomeRequests
    direct = direct
    MaxConcurrent = 1
    Retries = 1
    Threshold = 2
    MaxCalls = 4
    NoKey = NoKey
    NoProvider = NoProvider

INVARIANTS
    CallsInOrder
    BreakerIsEarned

PROPERTIES
    OpenBreakerAdmitsNone
    CallsEnd

CHECK_DEADLOCK FALSE
