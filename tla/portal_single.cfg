\* One queue runner and every failure of a service or of the runner.
CONSTANTS
    j1 = j1  j2 = j2  q1 = q1  q2 = q2  d1 = d1  c1 = c1
    Jobs = {j1, j2}
    QueueRunners = {q1}
    DirectRunners = {}
    Cancellers = {}
    NoOne = NoOne
    Faults = {"web", "enqueue", "prepare", "driver", "upload", "record", "secrets", "runner"}
    DriverOutputs = {{"script", "plot", "log"}, {"script", "log"}}
    VisibilityCoversRun = FALSE
SPECIFICATION Spec
SYMMETRY Symmetry
INVARIANTS SingleActive
PROPERTIES LifecycleSpec
CHECK_DEADLOCK FALSE
