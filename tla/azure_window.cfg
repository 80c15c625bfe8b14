\* A runner that receives the message before the web request wrote its record.
CONSTANTS
    j1 = j1  q1 = q1  q2 = q2  d1 = d1  c1 = c1
    Jobs = {j1}
    QueueRunners = {q1}
    DirectRunners = {}
    Cancellers = {}
    NoOne = NoOne
    Faults = {}
    DriverOutputs = {{"script", "plot", "log"}}
    VisibilityCoversClaim = TRUE
SPECIFICATION Spec
PROPERTIES DeletesOnlyTerminal
CHECK_DEADLOCK FALSE
