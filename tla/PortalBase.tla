----------------------------- MODULE PortalBase -----------------------------
(***************************************************************************)
(* Constants and value sets shared by the modules of the plot portal.      *)
(***************************************************************************)
EXTENDS Naturals, FiniteSets

CONSTANTS
    Jobs,           \* submission ids the portal may hand out
    QueueRunners,   \* processes of the run_local_job_runner command
    DirectRunners,  \* processes of the plot_runner command (no queue involved)
    Cancellers,     \* web requests that POST to the cancel view
    Faults,         \* the kinds of failure the instance lets happen
    DriverOutputs,  \* the sets of artifacts a driver run may leave behind
    NoOne           \* neither a job nor a process

Runners == QueueRunners \cup DirectRunners

FaultKinds == {"web",       \* the web process stops inside create_queued_job
               "enqueue",   \* queue_client.enqueue_job raises
               "prepare",   \* the work directory or the inputs cannot be written
               "driver",    \* the driver subprocess cannot be started
               "upload",    \* put_artifact raises
               "record",    \* a JobArtifact row cannot be created
               "database",  \* an update of the job row raises
               "secrets",   \* the secret store (Key Vault) cannot be asked
               "read",      \* a view of the job page answers with an error
               "runner"}    \* a runner process is killed

\* JobStatus; "absent" stands for a row that does not exist yet.
JobStatus == {"queued", "running", "completed", "failed", "cancelled"}
Status == JobStatus \cup {"absent"}
TerminalValues == {"completed", "failed", "cancelled"}

\* The failure_message texts the code distinguishes.
FailureMessages == {"", "enqueue failed", "timed out", "exit code", "crashed",
                    "cancelled by user"}

\* The artifacts _write_known_artifacts looks for, in the order it does.
KnownArtifacts == <<"script", "report", "plot", "log">>
KnownKinds == {"script", "report", "plot", "log"}

\* The actors are distinct, and NoOne is none of them; the instance
\* chooses among the failures and the artifacts the code knows.
ASSUME ActorsAssumption ==
    /\ QueueRunners \cap DirectRunners = {}
    /\ NoOne \notin Jobs \cup QueueRunners \cup DirectRunners
    /\ Faults \subseteq FaultKinds
    /\ DriverOutputs \subseteq SUBSET KnownKinds
=============================================================================
