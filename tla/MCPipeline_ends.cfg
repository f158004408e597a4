SPECIFICATION FairSpec
CONSTANTS
  t1 = t1
  t2 = t2
  t3 = t3
  t4 = t4
  t5 = t5
  w1 = w1
  w2 = w2
  p1 = p1
  p2 = p2
  g1 = g1
  NoProof = NoProof
  NoTask = NoTask
  NoGoal = NoGoal
  NoWorker = NoWorker
  Workers = {w1, w2}
  AxiomQuota = 1
  CheckpointEvery = 2
  EscalationThreshold = 3
  ChainInOwnTask = FALSE
  MaxRuns = 1
  TaskSets <- AllFive
  ResumeModes = {TRUE}
  Tasks <- FiveTasks
  Proofs = {p1}
  Goals = {g1}
  Goal <- NoGoals
  Accepts <- NoneAccepts
  Rank <- FiveRank
  PhaseOrder <- OnePhase
CHECK_DEADLOCK FALSE
INVARIANT BoundedLoss
PROPERTY RunEnds
