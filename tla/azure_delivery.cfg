\* Two queue runners, a direct runner and a cancel request on one Azure queue, requests that
\* fail half way.
CONSTANTS
    j1 = j1  q1 = q1  q2 = q2  d1 = d1  c1 = c1
    Jobs = {j1}
    QueueRunners = {q1, q2}
    DirectRunners = {d1}
    Cancellers = {c1}
    NoOne = NoOne
    Faults = {"web", "enqueue", "runner"}
    DriverOutputs = {{"script", "plot", "log"}}
    VisibilityCoversClaim = TRUE
SPECIFICATION FairSpec
INVARIANTS TypeOK ExclusiveExecution SeenMessageKept
PROPERTIES SeenJobsEnd ServiceDrains NeverStartedAgain CompletedStands
CHECK_DEADLOCK FALSE
