\* The driver prints something and then times out.
CONSTANTS
    j1 = j1  j2 = j2  q1 = q1  q2 = q2  d1 = d1  c1 = c1
    Jobs = {j1}
    QueueRunners = {q1}
    DirectRunners = {}
    Cancellers = {}
    NoOne = NoOne
    Faults = {}
    DriverOutputs = {{"script", "log"}}
    VisibilityCoversRun = FALSE
SPECIFICATION Spec
INVARIANTS TimeoutIsReported
CHECK_DEADLOCK FALSE
