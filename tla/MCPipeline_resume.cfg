SPECIFICATION Spec
CONSTANTS
  t1 = t1
  t2 = t2
  t3 = t3
  t4 = t4
  t5 = t5
  w1 = w1
  w2 = w2
  p1 = p1
  p2 = p2
  g1 = g1
  NoProof = NoProof
  NoTask = NoTask
  NoGoal = NoGoal
  NoWorker = NoWorker
  Workers = {w1, w2}
  AxiomQuota = 1
  CheckpointEvery = 2
  EscalationThreshold = 2
  ChainInOwnTask = FALSE
  MaxRuns = 3
  TaskSets <- AllTasks
  ResumeModes = {TRUE}
  Tasks <- TwoTasks
  Proofs = {p1, p2}
  Goals = {g1}
  Goal <- SameGoal
  Accepts <- TwoAccepts
  Rank <- TwoRank
  PhaseOrder <- WithAgents
SYMMETRY WorkerSymmetry
CHECK_DEADLOCK FALSE
INVARIANTS VerifiedSolutions BooksAgree AxiomsWithinQuota AxiomsAreEarned ReportIsTrue OneWorkerPerTask
PROPERTIES DecidedNeverRestarted CheckpointIsLedger
