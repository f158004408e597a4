SPECIFICATION BootSpec
CONSTANTS
    main = main
    dev = dev
    Refs = {main, dev}
    Versions <- AllVersions
    Archives = {"lean", "zip"}
    Size <- Sizes
    Mirrors = 2
    Announcing = {1}
    MaxAttempts = 2
    Reports <- SomeReports
    MinSolved = 7
    HardRejects = 2
    MaxRuns = 2
    MaxCrashes = 1
INVARIANTS
    DownloadIsWhole
    RunsOnWholeParts
    PassIsEarned
