\* A page opened on a job that is not over yet.
CONSTANTS
    j1 = j1  q1 = q1  c1 = c1  u1 = u1
    Jobs = {j1}
    QueueRunners = {q1}
    DirectRunners = {}
    Cancellers = {}
    Users = {u1}
    NoOne = NoOne
    Faults = {}
    DriverOutputs = {{"script", "plot", "log"}}
    VisibilityCoversRun = TRUE
SPECIFICATION SiteSpec
INVARIANTS PollsWhileActive
CHECK_DEADLOCK FALSE
