\* One job, a queue runner, a direct runner, every failure, every output.
CONSTANTS
    j1 = j1  j2 = j2  q1 = q1  q2 = q2  d1 = d1  c1 = c1
    Jobs = {j1}
    QueueRunners = {q1}
    DirectRunners = {d1}
    Cancellers = {c1}
    NoOne = NoOne
    Faults = {"web", "enqueue", "prepare", "driver", "upload", "record", "database", "secrets", "runner"}
    DriverOutputs <- AnyOutput
    VisibilityCoversRun = FALSE
SPECIFICATION Spec
INVARIANTS TypeOK CompletedHasArtifacts LinksResolve ArtifactsFollowFiles
PROPERTIES NeverStartedAgain CompletedStands
CHECK_DEADLOCK FALSE
