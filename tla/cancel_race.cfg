\* A cancel request meets a queue runner.
CONSTANTS
    j1 = j1  j2 = j2  q1 = q1  q2 = q2  d1 = d1  c1 = c1
    Jobs = {j1}
    QueueRunners = {q1}
    DirectRunners = {}
    Cancellers = {c1}
    NoOne = NoOne
    Faults = {}
    DriverOutputs = {{"script", "plot", "log"}}
    VisibilityCoversRun = FALSE
SPECIFICATION Spec
PROPERTIES CancelOnlyQueued
CHECK_DEADLOCK FALSE
