\* A queue runner and a direct runner claim two jobs at once.
CONSTANTS
    j1 = j1  j2 = j2  q1 = q1  q2 = q2  d1 = d1  c1 = c1
    Jobs = {j1, j2}
    QueueRunners = {q1}
    DirectRunners = {d1}
    Cancellers = {}
    NoOne = NoOne
    Faults = {}
    DriverOutputs = {{"script", "plot", "log"}}
    VisibilityCoversRun = FALSE
SPECIFICATION Spec
INVARIANTS SingleActive
CHECK_DEADLOCK FALSE
