\* Two queue runners and two jobs: duplicate deliveries, crashes, restarts.
CONSTANTS
    j1 = j1  j2 = j2  q1 = q1  q2 = q2  d1 = d1  c1 = c1
    Jobs = {j1, j2}
    QueueRunners = {q1, q2}
    DirectRunners = {}
    Cancellers = {}
    NoOne = NoOne
    Faults = {"runner", "prepare"}
    DriverOutputs = {{"script", "plot", "log"}}
    VisibilityCoversRun = FALSE
SPECIFICATION Spec
SYMMETRY Symmetry
INVARIANTS ExclusiveExecution NoMessageLost Consistency
PROPERTIES QueueSpec
CHECK_DEADLOCK FALSE
