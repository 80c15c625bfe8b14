\* Two queue runners whose messages stay hidden while they work.
CONSTANTS
    j1 = j1  j2 = j2  q1 = q1  q2 = q2  d1 = d1  c1 = c1
    Jobs = {j1, j2}
    QueueRunners = {q1, q2}
    DirectRunners = {}
    Cancellers = {}
    NoOne = NoOne
    Faults = {"driver"}
    DriverOutputs = {{"script", "plot", "log"}}
    VisibilityCoversRun = TRUE
SPECIFICATION FairSpec
INVARIANTS LoopSurvives NoneStranded
PROPERTIES EveryJobEnds QueueDrains
CHECK_DEADLOCK FALSE
