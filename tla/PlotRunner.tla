----------------------------- MODULE PlotRunner -----------------------------
(***************************************************************************)
(* run_command_plot_job (portal/runner.py): claim, work directory, driver  *)
(* subprocess, artifact upload, artifact rows, terminal status.  A step    *)
(* ends where the function touches the database or another process.        *)
(***************************************************************************)
EXTENDS JobStore, PlotDriver

VARIABLES
    pc,         \* where the runner process stands
    current,    \* the job it works on, or NoOne
    files,      \* the known artifacts its work directory holds
    result,     \* what the driver run returned
    stored,     \* blobs in the artifact store, per job
    recorded    \* JobArtifact rows, per job

runVars == <<pc, current, files, result, stored, recorded>>

Results == {"none", "ok", "exit", "timeout"}

\* Inside run_command_plot_job after claim_job returned.
RunPoints == {"prepare", "drive", "upload", "record", "mark", "stamp", "rescue"}
RunnerPoints == RunPoints \cup {"idle", "inspect", "claim", "claiming", "settle",
                                "delete", "abandon", "dead"}
                          \cup {"receiving", "unlinking", "returning"}  \* Azure only

RunTypeOK ==
    /\ pc \in [Runners -> RunnerPoints]
    /\ current \in [Runners -> Jobs \cup {NoOne}]
    /\ files \in [Runners -> SUBSET KnownKinds]
    /\ result \in [Runners -> Results]
    /\ stored \in [Jobs -> SUBSET KnownKinds]
    /\ recorded \in [Jobs -> SUBSET KnownKinds]

RunInit ==
    /\ pc = [r \in Runners |-> "idle"]
    /\ current = [r \in Runners |-> NoOne]
    /\ files = [r \in Runners |-> {}]
    /\ result = [r \in Runners |-> "none"]
    /\ stored = [j \in Jobs |-> {}]
    /\ recorded = [j \in Jobs |-> {}]

Goto(r, point) == pc' = [pc EXCEPT ![r] = point]

\* The process turns to job j: its work directory and result start empty.
TakeUp(r, j, point) ==
    /\ Goto(r, point)
    /\ current' = [current EXCEPT ![r] = j]
    /\ files' = [files EXCEPT ![r] = {}]
    /\ result' = [result EXCEPT ![r] = "none"]
    /\ UNCHANGED <<stored, recorded>>

PutDown(r, point) == TakeUp(r, NoOne, point)

\* Faulty variant: the message of a run that raised is discarded.
RaiseDropsMessage(r) == IF r \in QueueRunners
                        THEN /\ Goto(r, "delete")
                             /\ UNCHANGED <<current, files, result, stored, recorded>>
                        ELSE PutDown(r, "idle")

\* An exception leaves run_command_plot_job: the queue loop abandons the
\* message, the plot_runner command ends.
Raise(r) == IF r \in QueueRunners
            THEN /\ Goto(r, "abandon")
                 /\ UNCHANGED <<current, files, result, stored, recorded>>
            ELSE PutDown(r, "idle")

\* Moves that change nothing but the program point.
Step(r, from, to) ==
    /\ pc[r] = from
    /\ Goto(r, to)
    /\ UNCHANGED <<current, files, result, stored, recorded>>

-----------------------------------------------------------------------------
BeginClaim(r) == Step(r, "claim", "claiming") /\ ClaimLock(r, current[r])

ClaimFails(r) == pc[r] = "claim" /\ ClaimRefused(current[r]) /\ Raise(r)

FinishClaim(r) == Step(r, "claiming", "prepare") /\ ClaimCommit(r, current[r])

\* prepare_runner_work_dir, build_plot_runner_context, _write_runner_inputs:
\* they run before the try statement.
Prepare(r) == Step(r, "prepare", "drive") /\ UNCHANGED storeVars

PrepareRaises(r) ==
    /\ "prepare" \in Faults
    /\ pc[r] = "prepare"
    /\ Raise(r)
    /\ UNCHANGED storeVars

-----------------------------------------------------------------------------
(* The run log is appended to after every exit.  A run that is killed at   *)
(* its timeout leaves what it had produced by then.                        *)

Required == {"plot", "log"}

DriverResult(run) == IF run.code = 0 THEN "ok" ELSE "exit"

FilesAfter(res) ==
    {F \in DriverOutputs :
       \/ res = "timeout" /\ "log" \in F
       \/ \E run \in DriverRuns : DriverResult(run) = res /\ F = run.files \cup {"log"}}

DriverReturns(r, res, F) ==
    /\ pc[r] = "drive"
    /\ F \in FilesAfter(res)
    /\ Goto(r, "upload")
    /\ files' = [files EXCEPT ![r] = F]
    /\ result' = [result EXCEPT ![r] = res]
    /\ UNCHANGED <<current, stored, recorded>>
    /\ UNCHANGED storeVars

\* TimeoutExpired carries the captured output as bytes: joining it with the
\* timeout line raises TypeError unless the driver had printed nothing.
TimeoutWithOutput(r, F) ==
    /\ pc[r] = "drive"
    /\ Goto(r, "rescue")
    /\ files' = [files EXCEPT ![r] = F]
    /\ result' = [result EXCEPT ![r] = "timeout"]
    /\ UNCHANGED <<current, stored, recorded>>
    /\ UNCHANGED storeVars

\* Faulty variant: the driver is started before the try statement.
DriverRaisesOutside(r) ==
    /\ "driver" \in Faults
    /\ pc[r] = "drive"
    /\ Raise(r)
    /\ UNCHANGED storeVars

DriverRaises(r) ==
    /\ "driver" \in Faults
    /\ Step(r, "drive", "rescue")
    /\ UNCHANGED storeVars

-----------------------------------------------------------------------------
(* _write_known_artifacts: first every blob is put, then every row is      *)
(* created, both in the order of KnownArtifacts.                           *)

FirstFiles(r, n) == files[r] \cap {KnownArtifacts[i] : i \in 1..n}

PutArtifacts(r, n, to) ==
    /\ pc[r] = "upload"
    /\ Goto(r, to)
    /\ stored' = [stored EXCEPT ![current[r]] = @ \cup FirstFiles(r, n)]
    /\ UNCHANGED <<current, files, result, recorded>>
    /\ UNCHANGED storeVars

RecordArtifacts(r, n, to) ==
    /\ pc[r] = "record"
    /\ Goto(r, to)
    /\ recorded' = [recorded EXCEPT ![current[r]] = @ \cup FirstFiles(r, n)]
    /\ UNCHANGED <<current, files, result, stored>>
    /\ UNCHANGED storeVars

\* Faulty variant: the rows are forgotten.
UploadOnly(r) == PutArtifacts(r, 4, "mark")

\* Faulty variant: a blob that cannot be put is skipped, its row is not.
UploadIgnoresErrors(r) ==
    "upload" \in Faults /\ \E n \in 0..3 : PutArtifacts(r, n, "record")

UploadAll(r) == PutArtifacts(r, 4, "record")
UploadRaises(r) == "upload" \in Faults /\ \E n \in 0..3 : PutArtifacts(r, n, "rescue")
RecordAll(r) == RecordArtifacts(r, 4, "mark")
RecordRaises(r) == "record" \in Faults /\ \E n \in 0..3 : RecordArtifacts(r, n, "rescue")

-----------------------------------------------------------------------------
MarkTimedOut(r) ==
    /\ result[r] = "timeout"
    /\ Step(r, "mark", "settle")
    /\ MarkFailed(current[r], "timed out")

MarkExitCode(r) ==
    /\ result[r] = "exit"
    /\ Step(r, "mark", "settle")
    /\ MarkFailed(current[r], "exit code")

MarkSuccess(r) ==
    /\ result[r] = "ok"
    /\ Step(r, "mark", "stamp")
    /\ MarkCompleted(current[r])

\* The update of runtime_seconds that follows mark_completed.
StampRuntime(r) == Step(r, "stamp", "settle") /\ UNCHANGED storeVars

UpdateRaises(r, from) ==
    /\ "database" \in Faults
    /\ Step(r, from, "rescue")
    /\ UNCHANGED storeVars

\* except Exception: mark_failed("Runner crashed: ...")
Rescue(r) ==
    /\ Step(r, "rescue", "settle")
    /\ MarkFailed(current[r], "crashed")

\* The handler itself fails: in mark_failed, or in _runner_secret_values when
\* the secret store cannot be asked.
RescueRaises(r) ==
    /\ Faults \cap {"database", "secrets"} # {}
    /\ pc[r] = "rescue"
    /\ Raise(r)
    /\ UNCHANGED storeVars

RunStep(r) ==
    \/ BeginClaim(r) \/ ClaimFails(r) \/ FinishClaim(r)
    \/ Prepare(r) \/ PrepareRaises(r)
    \/ \E res \in {"ok", "exit", "timeout"}, F \in DriverOutputs :
          DriverReturns(r, res, F)
    \/ \E F \in DriverOutputs : TimeoutWithOutput(r, F)
    \/ DriverRaises(r)
    \/ UploadAll(r) \/ UploadRaises(r) \/ RecordAll(r) \/ RecordRaises(r)
    \/ MarkTimedOut(r) \/ MarkExitCode(r) \/ MarkSuccess(r) \/ StampRuntime(r)
    \/ UpdateRaises(r, "mark") \/ UpdateRaises(r, "stamp")
    \/ Rescue(r) \/ RescueRaises(r)
-----------------------------------------------------------------------------
\* A runner past the claim of its job and before the job's terminal status
\* has been read back.
Executing(r) == pc[r] \in RunPoints \cup {"settle"}

\* No job is executed by two runners at once, and none while its row still
\* says it has to be started, however often its message is delivered
\* (services.claim_job, select_for_update).
ExclusiveExecution ==
    \A r1, r2 \in Runners :
        Executing(r1) =>
            /\ status[current[r1]] # "queued"
            /\ Executing(r2) /\ current[r1] = current[r2] => r1 = r2

\* The job has a runner as long as it is running: nobody was killed within its
\* run (the run stale_running shows what happens then).
Attended(j) ==
    status[j] = "running" => \E r \in Runners : Executing(r) /\ current[r] = j

\* Where no runner is killed, no preparation fails and the failure handler can
\* do its work, no job is left running by nobody: whatever the driver, the
\* uploads and the rows do, the runner that claimed a job also ends it (the try
\* statement of run_command_plot_job).
NoneStranded == \A j \in Jobs : Attended(j)

-----------------------------------------------------------------------------
(* The claim protocol, part by part: the inductive form of the above.      *)

\* A row lock belongs to a runner between the two statements of claim_job.
LocksMatchClaims ==
    \A j \in Jobs, r \in Runners :
        rowLock[j] = r <=> pc[r] = "claiming" /\ current[r] = j

\* claim_job keeps the lock only of a queued job; nobody writes it meanwhile.
LockedRowsAreQueued == \A j \in Jobs : rowLock[j] # NoOne => status[j] = "queued"

\* A row exists from the first commit of create_queued_job on, and a cancel
\* request only saves a row that exists.
RowsFollowRequests ==
    /\ \A j \in Jobs : request[j] = "none" <=> status[j] = "absent"
    /\ \A c \in Cancellers : cancelling[c] # NoOne => status[cancelling[c]] # "absent"

\* A runner at work has a job.
BusyRunnersHaveJobs ==
    \A r \in Runners : pc[r] \notin {"idle", "dead"} => current[r] \in Jobs

\* An executing runner's job has been claimed.
ExecutionsHaveStarted ==
    \A r \in Runners : Executing(r) => status[current[r]] \notin {"absent", "queued"}

\* Two runners never execute the same job.
ExecutionsDiffer ==
    \A r1, r2 \in Runners :
        Executing(r1) /\ Executing(r2) /\ current[r1] = current[r2] => r1 = r2

-----------------------------------------------------------------------------
\* Who takes a completed job's status back.
ResultsStand ==
    \A j \in Jobs : status[j] = "completed" /\ status'[j] # "completed" =>
        \/ \E c \in Cancellers : cancelling[c] = j
        \/ request[j] = "unsent"
        \/ \E r \in Runners : pc[r] = "rescue" /\ current[r] = j /\ result[r] = "ok"

\* A completed job stays completed, but for the three writes that test nothing:
\* of a cancel request that saw it queued, of a request whose message could not
\* be sent, and of its own runner, when the update after mark_completed raised.
\* No other runner, no redelivered message and no other failure takes a result
\* back (services.py: mark_cancelled, create_queued_job; run_command_plot_job).
CompletedStands == [][ResultsStand]_status

\* The part of the runner's record that CompletedStands rests on: whoever executes
\* a completed job is the runner that completed it.
CompletionsAreOwn ==
    \A r \in Runners :
        Executing(r) /\ status[current[r]] = "completed" =>
            pc[r] \in {"stamp", "settle", "rescue"} /\ result[r] = "ok"

-----------------------------------------------------------------------------
\* A completed job has its plot and its log in the artifact store and in the
\* artifact table, whatever codex and its script did to the work directory (the
\* checks of _run_codex_driver, the order of run_command_plot_job's steps).
CompletedHasArtifacts ==
    \A j \in Jobs :
        status[j] = "completed" => Required \subseteq recorded[j] \cap stored[j]

\* Every row the job page links to has its blob: job_artifact and
\* job_generated_code never meet a missing one, whatever failed half way
\* (the two loops of _write_known_artifacts).
LinksResolve == \A j \in Jobs : recorded[j] \subseteq stored[j]

\* What the work directory holds, all of it, is stored before it is recorded, and
\* recorded before the terminal status; a driver that ended with 0 left the
\* required files (_write_known_artifacts and run_command_plot_job).
ArtifactsFollowFiles ==
    \A r \in Runners :
        /\ pc[r] \in {"record", "mark"} => files[r] \subseteq stored[current[r]]
        /\ pc[r] = "mark" => files[r] \subseteq recorded[current[r]]
        /\ pc[r] \in {"upload", "record", "mark"} /\ result[r] = "ok"
              => Required \subseteq files[r]
=============================================================================
