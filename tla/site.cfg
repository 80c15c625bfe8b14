\* A user, a job, a queue runner and a cancel request.
CONSTANTS
    j1 = j1  q1 = q1  c1 = c1  u1 = u1
    Jobs = {j1}
    QueueRunners = {q1}
    DirectRunners = {}
    Cancellers = {c1}
    Users = {u1}
    NoOne = NoOne
    Faults = {"read"}
    DriverOutputs = {{"script", "plot", "log"}}
    VisibilityCoversRun = TRUE
SPECIFICATION FairSite
INVARIANTS SiteTypeOK AuditTrail PageFollowsJob
PROPERTIES PageNeverGoesBack PageComesToRest
CHECK_DEADLOCK FALSE
