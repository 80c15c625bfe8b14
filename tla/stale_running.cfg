\* A queue runner is killed within its run or leaves it by an exception; it is started again.
CONSTANTS
    j1 = j1  j2 = j2  q1 = q1  q2 = q2  d1 = d1  c1 = c1
    Jobs = {j1, j2}
    QueueRunners = {q1}
    DirectRunners = {}
    Cancellers = {}
    NoOne = NoOne
    Faults = {"runner", "prepare", "secrets"}
    DriverOutputs = {{"script", "plot", "log"}}
    VisibilityCoversRun = FALSE
SPECIFICATION SupervisedSpec
PROPERTIES StaleRunningRecovered
CHECK_DEADLOCK FALSE
