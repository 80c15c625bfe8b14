-------------------------- MODULE PlotRunner_proof --------------------------
(***************************************************************************)
(* Proofs about the job table and run_command_plot_job, whatever queue     *)
(* brings the jobs: Portal_proof and AzurePortal_proof build on them.      *)
(***************************************************************************)
EXTENDS PlotRunner, TLAPS

\* The steps of create_queued_job.
RequestStep(j) ==
    \/ CreateRow(j) \/ EnqueueReturns(j) \/ EnqueueRaises(j)
    \/ SaveMessageId(j) \/ RecordEnqueueFailure(j) \/ WebCrash(j)

\* The steps of mark_cancelled.
CancelStep(c) == (\E j \in Jobs : CancelCheck(c, j)) \/ CancelSave(c)

-----------------------------------------------------------------------------
(* Type correctness.                                                       *)

RunnerTypeOK == StoreTypeOK /\ RunTypeOK

\* An empty job table and idle runners are well typed.
LEMMA RunnerTypeInit == StoreInit /\ RunInit => RunnerTypeOK
<1>1. StoreInit => StoreTypeOK
  BY DEF StoreInit, StoreTypeOK, Status, FailureMessages, RequestStates
<1>2. RunInit => RunTypeOK
  BY DEF RunInit, RunTypeOK, Results, RunnerPoints
<1> QED BY <1>1, <1>2 DEF RunnerTypeOK

\* The web request that creates a job keeps every variable in its type.
LEMMA TypeRequest ==
  ASSUME RunnerTypeOK, NEW j \in Jobs, RequestStep(j), UNCHANGED runVars
  PROVE  RunnerTypeOK'
<1> USE DEF RunnerTypeOK, StoreTypeOK, RunTypeOK, runVars
<1>1. CASE CreateRow(j)
  BY <1>1 DEF CreateRow, Status, JobStatus, RequestStates
<1>2. CASE EnqueueReturns(j) \/ EnqueueRaises(j) \/ SaveMessageId(j) \/ WebCrash(j)
  BY <1>2 DEF EnqueueReturns, EnqueueRaises, SaveMessageId, WebCrash, RequestStates
<1>3. CASE RecordEnqueueFailure(j)
  BY <1>3 DEF RecordEnqueueFailure, WriteRow, Status, JobStatus, RequestStates, FailureMessages
<1> QED BY <1>1, <1>2, <1>3 DEF RequestStep

\* So does a cancel request.
LEMMA TypeCancelStep ==
  ASSUME RunnerTypeOK, NEW c \in Cancellers, CancelStep(c), UNCHANGED runVars
  PROVE  RunnerTypeOK'
  BY DEF RunnerTypeOK, StoreTypeOK, RunTypeOK, runVars, CancelStep, CancelCheck, CancelSave,
     WriteRow, Status, JobStatus, FailureMessages

\* A runner that moves on, takes a job up or puts it down keeps the types.
LEMMA TypeMove ==
  ASSUME RunnerTypeOK, NEW r \in Runners, NEW p \in RunnerPoints,
         NEW j \in Jobs \cup {NoOne}, NEW from, Step(r, from, p) \/ TakeUp(r, j, p),
         UNCHANGED storeVars
  PROVE  RunnerTypeOK'
  BY DEF RunnerTypeOK, StoreTypeOK, RunTypeOK, storeVars, Step, TakeUp, Goto, Results

\* A killed runner keeps the types.
LEMMA TypeCrash ==
  ASSUME RunnerTypeOK, NEW r \in Runners, PutDown(r, "dead"), ReleaseLocks(r)
  PROVE  RunnerTypeOK'
  BY DEF RunnerTypeOK, StoreTypeOK, RunTypeOK, PutDown, TakeUp, Goto, Results,
     RunnerPoints, ReleaseLocks

\* run_command_plot_job keeps every variable in its type.
LEMMA TypeRun ==
  ASSUME RunnerTypeOK, NEW r \in Runners, RunStep(r)
  PROVE  RunnerTypeOK'
<1> USE DEF RunnerTypeOK, StoreTypeOK, RunTypeOK, storeVars, runVars,
            Step, Goto, Raise, PutDown, TakeUp, RunPoints, RunnerPoints
<1>1. CASE BeginClaim(r)
  BY <1>1 DEF BeginClaim, ClaimLock
<1>2. CASE ClaimFails(r)
  BY <1>2 DEF ClaimFails, ClaimRefused, Results
<1>3. CASE FinishClaim(r)
  BY <1>3 DEF FinishClaim, ClaimCommit, Status, JobStatus
<1>4. CASE Prepare(r) \/ DriverRaises(r) \/ StampRuntime(r)
           \/ UpdateRaises(r, "mark") \/ UpdateRaises(r, "stamp")
  BY <1>4 DEF Prepare, DriverRaises, StampRuntime, UpdateRaises
<1>5. CASE PrepareRaises(r) \/ RescueRaises(r)
  BY <1>5 DEF PrepareRaises, RescueRaises, Results
<1>6. ASSUME NEW res \in {"ok", "exit", "timeout"}, NEW F \in DriverOutputs,
             DriverReturns(r, res, F) \/ TimeoutWithOutput(r, F)
      PROVE  RunnerTypeOK'
  BY <1>6, ActorsAssumption DEF DriverReturns, TimeoutWithOutput, Results
<1>7. ASSUME NEW n \in Nat, NEW to \in {"record", "rescue"}, PutArtifacts(r, n, to)
      PROVE  RunnerTypeOK'
  BY <1>7 DEF PutArtifacts, FirstFiles
<1>8. ASSUME NEW n \in Nat, NEW to \in {"mark", "rescue"}, RecordArtifacts(r, n, to)
      PROVE  RunnerTypeOK'
  BY <1>8 DEF RecordArtifacts, FirstFiles
<1>9. ASSUME NEW from \in {"mark", "rescue"}, Step(r, from, "settle"),
             NEW msg \in FailureMessages, MarkFailed(current[r], msg)
      PROVE  RunnerTypeOK'
  <2>1. StoreTypeOK'
    BY <1>9 DEF MarkFailed, WriteRow, Status, JobStatus
  <2>2. RunTypeOK'
    BY <1>9
  <2> QED BY <2>1, <2>2
<1>10. CASE MarkTimedOut(r) \/ MarkExitCode(r) \/ Rescue(r)
  BY <1>9, <1>10 DEF MarkTimedOut, MarkExitCode, Rescue, FailureMessages
<1>11. CASE MarkSuccess(r)
  BY <1>11 DEF MarkSuccess, MarkCompleted, WriteRow, Status, JobStatus, FailureMessages
<1> HIDE DEF RunnerTypeOK, Step, Goto, Raise, PutDown, TakeUp
<1>12. CASE UploadAll(r) \/ UploadRaises(r) \/ RecordAll(r) \/ RecordRaises(r)
  BY <1>7, <1>8, <1>12 DEF UploadAll, UploadRaises, RecordAll, RecordRaises
<1>13. CASE \/ \E res \in {"ok", "exit", "timeout"}, F \in DriverOutputs :
                DriverReturns(r, res, F)
            \/ \E F \in DriverOutputs : TimeoutWithOutput(r, F)
  BY <1>6, <1>13
<1> QED
  BY <1>1, <1>2, <1>3, <1>4, <1>5, <1>12, <1>13, <1>11, <1>10 DEF RunStep

-----------------------------------------------------------------------------
(* The claim protocol: who holds a row lock, who executes which job.       *)

ClaimInv ==
    /\ LocksMatchClaims
    /\ LockedRowsAreQueued
    /\ RowsFollowRequests
    /\ BusyRunnersHaveJobs
    /\ ExecutionsHaveStarted
    /\ ExecutionsDiffer

\* The claim protocol holds in the empty portal.
LEMMA ClaimInit == StoreInit /\ RunInit => ClaimInv
<1> SUFFICES ASSUME StoreInit, RunInit PROVE ClaimInv
  OBVIOUS
<1> USE DEF StoreInit, RunInit
<1>1. LocksMatchClaims /\ LockedRowsAreQueued
  BY ActorsAssumption DEF LocksMatchClaims, LockedRowsAreQueued, Runners
<1>2. RowsFollowRequests /\ BusyRunnersHaveJobs
  BY DEF RowsFollowRequests, BusyRunnersHaveJobs
<1>3. ExecutionsHaveStarted /\ ExecutionsDiffer
  BY DEF ExecutionsHaveStarted, ExecutionsDiffer, Executing, RunPoints
<1> QED BY <1>1, <1>2, <1>3 DEF ClaimInv

\* The protocol speaks of the job table and of where the runners stand only.
LEMMA ClaimCalm ==
  ASSUME ClaimInv, UNCHANGED <<storeVars, runVars>>
  PROVE  ClaimInv'
  BY DEF storeVars, runVars, ClaimInv, LocksMatchClaims, LockedRowsAreQueued,
     RowsFollowRequests, BusyRunnersHaveJobs, ExecutionsHaveStarted, ExecutionsDiffer,
     Executing

\* The row lock of claim_job makes executions exclusive.
LEMMA ClaimsExclude == ClaimInv => ExclusiveExecution
  BY DEF ClaimInv, ExecutionsHaveStarted, ExecutionsDiffer, ExclusiveExecution

\* Writing a terminal status into an unlocked row disturbs no runner.
LEMMA WriteKeepsClaims ==
  ASSUME RunnerTypeOK, ClaimInv, NEW j \in Jobs, NEW st \in TerminalValues,
         NEW msg \in FailureMessages, WriteRow(j, st, msg), UNCHANGED <<pc, current>>
  PROVE  /\ LocksMatchClaims' /\ LockedRowsAreQueued' /\ BusyRunnersHaveJobs'
         /\ ExecutionsHaveStarted' /\ ExecutionsDiffer'
<1> USE DEF RunnerTypeOK, StoreTypeOK, RunTypeOK, ClaimInv, WriteRow
<1>1. LocksMatchClaims' /\ BusyRunnersHaveJobs'
  BY DEF LocksMatchClaims, BusyRunnersHaveJobs
<1>2. LockedRowsAreQueued'
  BY DEF LockedRowsAreQueued
<1>3. ExecutionsHaveStarted'
  BY DEF ExecutionsHaveStarted, Executing, TerminalValues
<1>4. ExecutionsDiffer'
  BY DEF ExecutionsDiffer, Executing
<1> QED BY <1>1, <1>2, <1>3, <1>4

\* A row that exists goes on existing when it is written.
LEMMA WriteKeepsRows ==
  ASSUME RunnerTypeOK, RowsFollowRequests, NEW j \in Jobs, NEW st \in TerminalValues,
         NEW msg \in FailureMessages, WriteRow(j, st, msg), status[j] # "absent"
  PROVE  \A k \in Jobs : status'[k] = "absent" <=> status[k] = "absent"
  BY DEF RunnerTypeOK, StoreTypeOK, WriteRow, TerminalValues

\* The failure handler of create_queued_job writes an unlocked row that exists.
LEMMA RefusalKeepsClaims ==
  ASSUME RunnerTypeOK, ClaimInv, NEW j \in Jobs, RecordEnqueueFailure(j), UNCHANGED runVars
  PROVE  ClaimInv'
<1>1. WriteRow(j, "failed", "enqueue failed") /\ UNCHANGED cancelling
  BY DEF RecordEnqueueFailure
<1>2. request[j] = "unsent" /\ request' = [request EXCEPT ![j] = "refused"]
  BY DEF RecordEnqueueFailure
<1>3. status[j] # "absent"
  BY <1>2 DEF ClaimInv, RowsFollowRequests
<1>4. "failed" \in TerminalValues /\ "enqueue failed" \in FailureMessages
  BY DEF TerminalValues, FailureMessages
<1>5. \A k \in Jobs : status'[k] = "absent" <=> status[k] = "absent"
  BY <1>1, <1>3, <1>4, WriteKeepsRows DEF ClaimInv
<1>6. RowsFollowRequests'
  BY <1>1, <1>2, <1>5 DEF RunnerTypeOK, StoreTypeOK, ClaimInv, RowsFollowRequests
<1> QED BY <1>1, <1>4, <1>6, WriteKeepsClaims DEF ClaimInv, runVars

\* create_queued_job never touches a locked row, and changes no runner.
LEMMA ClaimRequest ==
  ASSUME RunnerTypeOK, ClaimInv, NEW j \in Jobs, RequestStep(j), UNCHANGED runVars
  PROVE  ClaimInv'
<1> USE DEF RunnerTypeOK, StoreTypeOK, RunTypeOK, ClaimInv, LocksMatchClaims,
     LockedRowsAreQueued, RowsFollowRequests, BusyRunnersHaveJobs, ExecutionsHaveStarted,
     ExecutionsDiffer, Executing, runVars
<1>1. CASE CreateRow(j)
  BY <1>1, ActorsAssumption DEF CreateRow
<1>2. CASE EnqueueReturns(j) \/ SaveMessageId(j)
  BY <1>2 DEF EnqueueReturns, SaveMessageId
<1>3. CASE EnqueueRaises(j) \/ WebCrash(j)
  BY <1>3 DEF EnqueueRaises, WebCrash
<1>4. CASE RecordEnqueueFailure(j)
  BY <1>4, RefusalKeepsClaims
<1> QED BY <1>1, <1>2, <1>3, <1>4 DEF RequestStep

\* mark_cancelled writes an unlocked row that exists.
LEMMA CancelKeepsClaims ==
  ASSUME RunnerTypeOK, ClaimInv, NEW c \in Cancellers, CancelSave(c), UNCHANGED runVars
  PROVE  ClaimInv'
<1> DEFINE j == cancelling[c]
<1>1. j \in Jobs /\ status[j] # "absent"
  BY DEF CancelSave, RunnerTypeOK, StoreTypeOK, ClaimInv, RowsFollowRequests
<1>2. WriteRow(j, "cancelled", "cancelled by user") /\ UNCHANGED request
  BY DEF CancelSave
<1>3. "cancelled" \in TerminalValues /\ "cancelled by user" \in FailureMessages
  BY DEF TerminalValues, FailureMessages
<1>4. \A k \in Jobs : status'[k] = "absent" <=> status[k] = "absent"
  BY <1>1, <1>2, <1>3, WriteKeepsRows DEF ClaimInv
<1>5. cancelling' = [cancelling EXCEPT ![c] = NoOne]
  BY DEF CancelSave
<1>6. RowsFollowRequests'
  BY <1>2, <1>4, <1>5 DEF RunnerTypeOK, StoreTypeOK, ClaimInv, RowsFollowRequests
<1> QED BY <1>1, <1>2, <1>3, <1>6, WriteKeepsClaims DEF ClaimInv, runVars

\* The two steps of the cancel view keep the protocol.
LEMMA ClaimCancel ==
  ASSUME RunnerTypeOK, ClaimInv, NEW c \in Cancellers, CancelStep(c), UNCHANGED runVars
  PROVE  ClaimInv'
<1>1. ASSUME NEW j \in Jobs, CancelCheck(c, j), UNCHANGED runVars PROVE ClaimInv'
  BY <1>1, ActorsAssumption
  DEF RunnerTypeOK, StoreTypeOK, RunTypeOK, ClaimInv, LocksMatchClaims, LockedRowsAreQueued,
      RowsFollowRequests, BusyRunnersHaveJobs, ExecutionsHaveStarted, ExecutionsDiffer,
      Executing, runVars, CancelCheck
<1>2. ASSUME CancelSave(c), UNCHANGED runVars PROVE ClaimInv'
  BY <1>2, CancelKeepsClaims
<1> QED BY <1>1, <1>2 DEF CancelStep

\* A runner that neither enters nor leaves claim_job and starts no execution
\* keeps the protocol.
LEMMA MoveKeepsClaims ==
  ASSUME RunnerTypeOK, ClaimInv, NEW r \in Runners, NEW p \in RunnerPoints \ {"claiming"},
         NEW j \in Jobs \cup {NoOne},
         UNCHANGED storeVars, pc[r] # "claiming",
         pc' = [pc EXCEPT ![r] = p], current' = [current EXCEPT ![r] = j],
         p \notin {"idle", "dead"} => j \in Jobs,
         p \in RunPoints \cup {"settle"} => Executing(r) /\ j = current[r]
  PROVE  ClaimInv'
<1> USE DEF RunnerTypeOK, StoreTypeOK, RunTypeOK, ClaimInv, storeVars
<1>1. LocksMatchClaims' /\ LockedRowsAreQueued' /\ RowsFollowRequests'
  BY DEF LocksMatchClaims, LockedRowsAreQueued, RowsFollowRequests
<1>2. BusyRunnersHaveJobs'
  BY DEF BusyRunnersHaveJobs
<1>3. \A q \in Runners : Executing(q)' => Executing(q) /\ current'[q] = current[q]
  BY DEF Executing
<1>4. ExecutionsHaveStarted' /\ ExecutionsDiffer'
  BY <1>3 DEF ExecutionsHaveStarted, ExecutionsDiffer
<1> QED BY <1>1, <1>2, <1>4

\* mark_completed and mark_failed, called by the runner that executes the job.
LEMMA MarkKeepsClaims ==
  ASSUME RunnerTypeOK, ClaimInv, NEW r \in Runners, Executing(r),
         NEW p \in {"stamp", "settle"}, NEW st \in TerminalValues,
         NEW msg \in FailureMessages, WriteRow(current[r], st, msg),
         pc' = [pc EXCEPT ![r] = p], UNCHANGED <<request, cancelling, current>>
  PROVE  ClaimInv'
<1> USE DEF RunnerTypeOK, StoreTypeOK, RunTypeOK
<1>1. /\ current[r] \in Jobs /\ status[current[r]] # "absent"
      /\ pc[r] # "claiming" /\ p \in RunPoints \cup {"settle"}
  BY DEF ClaimInv, BusyRunnersHaveJobs, ExecutionsHaveStarted, Executing, RunPoints
<1>2. \A k \in Jobs : status'[k] = "absent" <=> status[k] = "absent"
  BY <1>1, WriteKeepsRows DEF ClaimInv
<1>3. RowsFollowRequests'
  BY <1>2 DEF ClaimInv, RowsFollowRequests
<1>4. \A k \in Jobs : status'[k] # status[k] => status'[k] \in TerminalValues /\ rowLock[k] = NoOne
  BY <1>1 DEF WriteRow
<1>5. LocksMatchClaims' /\ LockedRowsAreQueued' /\ BusyRunnersHaveJobs'
  <2>1. rowLock' = rowLock
    BY DEF WriteRow
  <2>2. LocksMatchClaims'
    BY <1>1, <2>1 DEF ClaimInv, LocksMatchClaims, RunPoints
  <2>3. LockedRowsAreQueued'
    BY <1>4, <2>1 DEF ClaimInv, LockedRowsAreQueued
  <2>4. BusyRunnersHaveJobs'
    BY <1>1 DEF ClaimInv, BusyRunnersHaveJobs
  <2> QED BY <2>2, <2>3, <2>4
<1>6. \A q \in Runners : Executing(q)' => Executing(q)
  BY <1>1 DEF Executing
<1>7. ExecutionsHaveStarted' /\ ExecutionsDiffer'
  <2>1. ExecutionsHaveStarted'
    BY <1>4, <1>6 DEF ClaimInv, ExecutionsHaveStarted, BusyRunnersHaveJobs, Executing,
       RunPoints, TerminalValues
  <2>2. ExecutionsDiffer'
    BY <1>6 DEF ClaimInv, ExecutionsDiffer
  <2> QED BY <2>1, <2>2
<1> QED BY <1>3, <1>5, <1>7 DEF ClaimInv

\* claim_job locks the row of a queued job that nobody else has locked.
LEMMA BeginKeepsClaims ==
  ASSUME RunnerTypeOK, ClaimInv, NEW r \in Runners, BeginClaim(r)
  PROVE  ClaimInv'
<1> USE DEF RunnerTypeOK, StoreTypeOK, RunTypeOK, BeginClaim, ClaimLock, Step, Goto
<1>1. current[r] \in Jobs
  BY DEF ClaimInv, BusyRunnersHaveJobs
<1>2. LocksMatchClaims'
  BY <1>1, ActorsAssumption DEF ClaimInv, LocksMatchClaims, Runners
<1>3. LockedRowsAreQueued' /\ RowsFollowRequests' /\ BusyRunnersHaveJobs'
  BY <1>1 DEF ClaimInv, LockedRowsAreQueued, RowsFollowRequests, BusyRunnersHaveJobs
<1>4. \A q \in Runners : Executing(q)' => Executing(q)
  BY DEF Executing, RunPoints
<1>5. ExecutionsHaveStarted' /\ ExecutionsDiffer'
  BY <1>4 DEF ClaimInv, ExecutionsHaveStarted, ExecutionsDiffer
<1> QED BY <1>2, <1>3, <1>5 DEF ClaimInv

\* claim_job commits: the job was queued until now, so nobody executes it yet.
LEMMA FinishKeepsClaims ==
  ASSUME RunnerTypeOK, ClaimInv, NEW r \in Runners, FinishClaim(r)
  PROVE  ClaimInv'
<1> USE DEF RunnerTypeOK, StoreTypeOK, RunTypeOK, FinishClaim, ClaimCommit, Step, Goto
<1>1. current[r] \in Jobs /\ status[current[r]] = "queued"
  BY ActorsAssumption
  DEF ClaimInv, BusyRunnersHaveJobs, LocksMatchClaims, LockedRowsAreQueued, Runners
<1>2. LocksMatchClaims'
  BY <1>1, ActorsAssumption DEF ClaimInv, LocksMatchClaims, Runners
<1>3. LockedRowsAreQueued'
  BY <1>1 DEF ClaimInv, LockedRowsAreQueued
<1>4. RowsFollowRequests' /\ BusyRunnersHaveJobs'
  BY <1>1 DEF ClaimInv, RowsFollowRequests, BusyRunnersHaveJobs
<1>5. \A q \in Runners \ {r} :
         Executing(q)' => /\ Executing(q)
                          /\ current'[q] = current[q]
                          /\ current[q] # current[r]
  BY <1>1 DEF Executing, ClaimInv, ExecutionsHaveStarted
<1>6. ExecutionsHaveStarted'
  BY <1>1, <1>5 DEF ClaimInv, ExecutionsHaveStarted
<1>7. ExecutionsDiffer'
  BY <1>5 DEF ClaimInv, ExecutionsDiffer
<1> QED BY <1>2, <1>3, <1>4, <1>6, <1>7 DEF ClaimInv

\* A killed runner gives its lock back and executes nothing any more.
LEMMA CrashKeepsClaims ==
  ASSUME RunnerTypeOK, ClaimInv, NEW r \in Runners, PutDown(r, "dead"), ReleaseLocks(r)
  PROVE  ClaimInv'
<1> USE DEF RunnerTypeOK, StoreTypeOK, RunTypeOK, ReleaseLocks, PutDown, TakeUp, Goto
<1>1. LocksMatchClaims'
  BY ActorsAssumption DEF ClaimInv, LocksMatchClaims, Runners
<1>2. LockedRowsAreQueued' /\ RowsFollowRequests' /\ BusyRunnersHaveJobs'
  BY DEF ClaimInv, LockedRowsAreQueued, RowsFollowRequests, BusyRunnersHaveJobs
<1>3. \A q \in Runners : Executing(q)' => Executing(q) /\ current'[q] = current[q]
  BY DEF Executing, RunPoints
<1>4. ExecutionsHaveStarted' /\ ExecutionsDiffer'
  BY <1>3 DEF ClaimInv, ExecutionsHaveStarted, ExecutionsDiffer
<1> QED BY <1>1, <1>2, <1>4 DEF ClaimInv

\* run_command_plot_job keeps the protocol.
LEMMA ClaimRun ==
  ASSUME RunnerTypeOK, ClaimInv, NEW r \in Runners, RunStep(r)
  PROVE  ClaimInv'
<1>1. BeginClaim(r) \/ FinishClaim(r) => ClaimInv'
  BY BeginKeepsClaims, FinishKeepsClaims
<1>2. current[r] \in Jobs \cup {NoOne}
  BY DEF RunnerTypeOK, RunTypeOK
<1>3. pc[r] # "idle" /\ pc[r] # "dead" => current[r] \in Jobs
  BY DEF ClaimInv, BusyRunnersHaveJobs
<1>4. ASSUME pc[r] \in RunPoints \cup {"claim"}, Raise(r), UNCHANGED storeVars
      PROVE  ClaimInv'
  <2>1. CASE r \in QueueRunners
    <3>1. pc' = [pc EXCEPT ![r] = "abandon"] /\ current' = [current EXCEPT ![r] = current[r]]
      BY <1>4, <2>1 DEF Raise, Goto, RunnerTypeOK, RunTypeOK
    <3>2. "abandon" \in RunnerPoints \ {"claiming"} /\ "abandon" \notin RunPoints \cup {"settle"}
      BY DEF RunnerPoints, RunPoints
    <3> QED BY <1>2, <1>3, <1>4, <3>1, <3>2, MoveKeepsClaims DEF RunPoints
  <2>2. CASE r \notin QueueRunners
    <3>1. pc' = [pc EXCEPT ![r] = "idle"] /\ current' = [current EXCEPT ![r] = NoOne]
      BY <1>4, <2>2 DEF Raise, PutDown, TakeUp, Goto
    <3>2. "idle" \in RunnerPoints \ {"claiming"} /\ "idle" \notin RunPoints \cup {"settle"}
      BY DEF RunnerPoints, RunPoints
    <3> QED BY <1>4, <3>1, <3>2, MoveKeepsClaims DEF RunPoints
  <2> QED BY <2>1, <2>2
<1>5. ClaimFails(r) \/ PrepareRaises(r) \/ RescueRaises(r) => ClaimInv'
  BY <1>4 DEF ClaimFails, ClaimRefused, PrepareRaises, RescueRaises, RunPoints
<1>6. ASSUME NEW p \in RunPoints \cup {"settle"}, pc[r] \in RunPoints,
             Goto(r, p), UNCHANGED <<storeVars, current>>
      PROVE  ClaimInv'
  <2>1. Executing(r) /\ pc[r] # "claiming" /\ pc[r] # "idle" /\ pc[r] # "dead"
    BY <1>6 DEF Executing, RunPoints
  <2>2. p \in RunnerPoints \ {"claiming"}
    BY DEF RunnerPoints, RunPoints
  <2>3. current' = [current EXCEPT ![r] = current[r]]
    BY <1>6 DEF RunnerTypeOK, RunTypeOK
  <2> QED BY <1>2, <1>3, <1>6, <2>1, <2>2, <2>3, MoveKeepsClaims DEF Goto, storeVars
<1>7. CASE Prepare(r) \/ DriverRaises(r) \/ StampRuntime(r)
            \/ UpdateRaises(r, "mark") \/ UpdateRaises(r, "stamp")
  BY <1>6, <1>7 DEF Prepare, DriverRaises, StampRuntime, UpdateRaises, Step, RunPoints
<1>8. CASE \/ \E res \in {"ok", "exit", "timeout"}, F \in DriverOutputs :
               DriverReturns(r, res, F)
           \/ \E F \in DriverOutputs : TimeoutWithOutput(r, F)
  BY <1>6, <1>8 DEF DriverReturns, TimeoutWithOutput, RunPoints
<1>9. UploadAll(r) \/ UploadRaises(r) \/ RecordAll(r) \/ RecordRaises(r) => ClaimInv'
  BY <1>6 DEF UploadAll, UploadRaises, RecordAll, RecordRaises, PutArtifacts,
     RecordArtifacts, RunPoints
<1>10. MarkTimedOut(r) \/ MarkExitCode(r) \/ Rescue(r) => ClaimInv'
  BY MarkKeepsClaims DEF MarkTimedOut, MarkExitCode, Rescue, MarkFailed, Step, Goto,
     Executing, RunPoints, TerminalValues, FailureMessages
<1>11. MarkSuccess(r) => ClaimInv'
  BY MarkKeepsClaims DEF MarkSuccess, MarkCompleted, Step, Goto, Executing, RunPoints,
     TerminalValues, FailureMessages
<1> QED
  BY <1>1, <1>5, <1>7, <1>8, <1>9, <1>10, <1>11 DEF RunStep

\* The loop takes a job up, puts it down, or goes from one point outside the run
\* to another.
LEMMA LoopKeepsClaims ==
  ASSUME RunnerTypeOK, ClaimInv, NEW r \in Runners, UNCHANGED storeVars,
         NEW p \in RunnerPoints \ (RunPoints \cup {"settle", "claiming"}),
         \/ pc[r] # "claiming" /\ p \notin {"idle", "dead"} /\ \E j \in Jobs : TakeUp(r, j, p)
         \/ pc[r] # "claiming" /\ p \in {"idle", "dead"} /\ PutDown(r, p)
         \/ \E from \in RunnerPoints \ {"idle", "dead", "claiming"} : Step(r, from, p)
  PROVE  ClaimInv'
<1>1. current[r] \in Jobs \cup {NoOne}
  BY DEF RunnerTypeOK, RunTypeOK
<1>2. ASSUME pc[r] # "claiming", p \notin {"idle", "dead"}, NEW j \in Jobs, TakeUp(r, j, p)
      PROVE  ClaimInv'
  BY <1>2, MoveKeepsClaims DEF TakeUp, Goto
<1>3. ASSUME pc[r] # "claiming", p \in {"idle", "dead"}, PutDown(r, p) PROVE ClaimInv'
  BY <1>3, MoveKeepsClaims DEF PutDown, TakeUp, Goto
<1>4. ASSUME NEW from \in RunnerPoints \ {"idle", "dead", "claiming"}, Step(r, from, p)
      PROVE  ClaimInv'
  <2>1. /\ pc[r] = from /\ pc' = [pc EXCEPT ![r] = p]
        /\ current' = [current EXCEPT ![r] = current[r]]
    BY <1>4 DEF Step, Goto, RunnerTypeOK, RunTypeOK
  <2>2. current[r] \in Jobs
    BY <2>1 DEF ClaimInv, BusyRunnersHaveJobs
  <2> QED BY <1>1, <2>1, <2>2, MoveKeepsClaims
<1> QED BY <1>2, <1>3, <1>4

-----------------------------------------------------------------------------
(* The statuses a step may write, and where a run goes.                    *)

StatusMoves ==
    \A j \in Jobs :
        \/ status'[j] = status[j]
        \/ status[j] = "absent" /\ status'[j] = "queued"
        \/ /\ status[j] = "queued" /\ status'[j] = "running"
           /\ \E r \in Runners : pc[r] = "claiming" /\ pc'[r] # "claiming" /\ current[r] = j
        \/ status[j] # "absent" /\ status'[j] \in TerminalValues

\* A step that writes no status.
LEMMA StatusCalm == ASSUME UNCHANGED status PROVE StatusMoves
  BY DEF StatusMoves

\* A terminal status written into a row that exists.
LEMMA StatusWrite ==
  ASSUME RunnerTypeOK, NEW j \in Jobs, NEW st \in TerminalValues,
         NEW msg \in FailureMessages, WriteRow(j, st, msg), status[j] # "absent"
  PROVE  StatusMoves
  BY DEF RunnerTypeOK, StoreTypeOK, WriteRow, StatusMoves

\* create_queued_job writes "queued" into a new row, and "failed" into its own.
LEMMA StatusRequest ==
  ASSUME RunnerTypeOK, ClaimInv, NEW j \in Jobs, RequestStep(j)
  PROVE  StatusMoves
<1>1. CASE CreateRow(j)
  BY <1>1 DEF CreateRow, StatusMoves, ClaimInv, RowsFollowRequests, RunnerTypeOK, StoreTypeOK
<1>2. CASE RecordEnqueueFailure(j)
  <2>1. status[j] # "absent" /\ WriteRow(j, "failed", "enqueue failed")
    BY <1>2 DEF RecordEnqueueFailure, ClaimInv, RowsFollowRequests
  <2> QED BY <2>1, StatusWrite DEF TerminalValues, FailureMessages
<1>3. CASE EnqueueReturns(j) \/ EnqueueRaises(j) \/ SaveMessageId(j) \/ WebCrash(j)
  BY <1>3, StatusCalm DEF EnqueueReturns, EnqueueRaises, SaveMessageId, WebCrash
<1> QED BY <1>1, <1>2, <1>3 DEF RequestStep

\* mark_cancelled writes a terminal status into a row that it has read.
LEMMA StatusCancel ==
  ASSUME RunnerTypeOK, ClaimInv, NEW c \in Cancellers, CancelStep(c)
  PROVE  StatusMoves
<1>1. CASE \E j \in Jobs : CancelCheck(c, j)
  BY <1>1, StatusCalm DEF CancelCheck
<1>2. CASE CancelSave(c)
  <2>1. /\ cancelling[c] \in Jobs /\ status[cancelling[c]] # "absent"
        /\ WriteRow(cancelling[c], "cancelled", "cancelled by user")
    BY <1>2 DEF CancelSave, ClaimInv, RowsFollowRequests, RunnerTypeOK, StoreTypeOK
  <2> QED BY <2>1, StatusWrite DEF TerminalValues, FailureMessages
<1> QED BY <1>1, <1>2 DEF CancelStep

\* run_command_plot_job writes "running" at its claim and then terminal statuses.
LEMMA StatusRun ==
  ASSUME RunnerTypeOK, ClaimInv, NEW r \in Runners, RunStep(r)
  PROVE  StatusMoves
<1>1. pc[r] \in RunPoints => current[r] \in Jobs /\ status[current[r]] # "absent"
  BY DEF ClaimInv, BusyRunnersHaveJobs, ExecutionsHaveStarted, Executing, RunPoints
<1>2. MarkTimedOut(r) \/ MarkExitCode(r) \/ MarkSuccess(r) \/ Rescue(r) => StatusMoves
  BY <1>1, StatusWrite DEF MarkTimedOut, MarkExitCode, MarkSuccess, Rescue, MarkFailed,
     MarkCompleted, Step, RunPoints, TerminalValues, FailureMessages
<1>3. CASE FinishClaim(r)
  <2>1. current[r] \in Jobs /\ status[current[r]] = "queued"
    BY <1>3, ActorsAssumption DEF FinishClaim, ClaimCommit, Step, ClaimInv, Runners,
       BusyRunnersHaveJobs, LocksMatchClaims, LockedRowsAreQueued
  <2>2. pc[r] = "claiming" /\ pc'[r] # "claiming"
    BY <1>3 DEF FinishClaim, Step, Goto, RunnerTypeOK, RunTypeOK
  <2> QED BY <1>3, <2>1, <2>2 DEF FinishClaim, ClaimCommit, StatusMoves, RunnerTypeOK, StoreTypeOK
<1>4. CASE UNCHANGED status
  BY <1>4, StatusCalm
<1> QED
  BY <1>2, <1>3, <1>4
  DEF RunStep, BeginClaim, ClaimLock, ClaimFails, ClaimRefused, Prepare, PrepareRaises,
      DriverReturns, TimeoutWithOutput, DriverRaises, UploadAll, UploadRaises, RecordAll,
      RecordRaises, PutArtifacts, RecordArtifacts, StampRuntime, UpdateRaises, RescueRaises,
      storeVars

\* Where a step of the run takes its runner: on with its job until the job is
\* settled, or out of the run by an exception.  No other runner moves.
Onward(r) ==
    /\ pc[r] \in RunPoints \cup {"claim", "claiming"}
    /\ \/ pc'[r] \in RunPoints \cup {"claiming", "settle"} /\ current'[r] = current[r]
       \/ r \in QueueRunners /\ pc'[r] = "abandon" /\ current'[r] = current[r]
       \/ r \notin QueueRunners /\ pc'[r] = "idle"
    /\ \A q \in Runners \ {r} : pc'[q] = pc[q] /\ current'[q] = current[q]

\* A step of the run moves its runner onward, and no request.
LEMMA RunGoes ==
  ASSUME RunnerTypeOK, NEW r \in Runners, RunStep(r)
  PROVE  Onward(r) /\ UNCHANGED request
<1>1. UNCHANGED request
  BY DEF RunStep, BeginClaim, ClaimLock, ClaimFails, ClaimRefused, FinishClaim,
     ClaimCommit, Prepare, PrepareRaises, DriverReturns, TimeoutWithOutput, DriverRaises,
     UploadAll, UploadRaises, RecordAll, RecordRaises, PutArtifacts, RecordArtifacts,
     MarkTimedOut, MarkExitCode, MarkSuccess, MarkFailed, MarkCompleted, StampRuntime,
     UpdateRaises, Rescue, RescueRaises, storeVars
<1>2. ASSUME NEW p \in RunPoints \cup {"claiming", "settle"},
             pc[r] \in RunPoints \cup {"claim", "claiming"}, Goto(r, p), UNCHANGED current
      PROVE  Onward(r)
  BY <1>2 DEF Onward, Goto, RunnerTypeOK, RunTypeOK
<1>3. ASSUME Raise(r), pc[r] \in RunPoints \cup {"claim"} PROVE Onward(r)
  BY <1>3 DEF Onward, Raise, PutDown, TakeUp, Goto, RunnerTypeOK, RunTypeOK
<1>4. CASE ClaimFails(r) \/ PrepareRaises(r) \/ RescueRaises(r)
  BY <1>1, <1>3, <1>4 DEF ClaimFails, PrepareRaises, RescueRaises, RunPoints
<1>5. CASE \/ BeginClaim(r) \/ FinishClaim(r) \/ Prepare(r) \/ DriverRaises(r)
           \/ MarkTimedOut(r) \/ MarkExitCode(r) \/ MarkSuccess(r) \/ StampRuntime(r)
           \/ UpdateRaises(r, "mark") \/ UpdateRaises(r, "stamp") \/ Rescue(r)
  BY <1>1, <1>2, <1>5 DEF BeginClaim, FinishClaim, Prepare, DriverRaises, MarkTimedOut,
     MarkExitCode, MarkSuccess, StampRuntime, UpdateRaises, Rescue, Step, RunPoints
<1>6. CASE \/ \E res \in {"ok", "exit", "timeout"}, F \in DriverOutputs :
               DriverReturns(r, res, F)
           \/ \E F \in DriverOutputs : TimeoutWithOutput(r, F)
  BY <1>1, <1>2, <1>6 DEF DriverReturns, TimeoutWithOutput, RunPoints
<1>7. CASE UploadAll(r) \/ UploadRaises(r) \/ RecordAll(r) \/ RecordRaises(r)
  BY <1>1, <1>2, <1>7 DEF UploadAll, UploadRaises, RecordAll, RecordRaises, PutArtifacts,
     RecordArtifacts, RunPoints
<1> QED BY <1>4, <1>5, <1>6, <1>7 DEF RunStep

-----------------------------------------------------------------------------
(* Artifacts: a completed job has its plot and its log, and a row of the   *)
(* artifact table has its blob.                                            *)

ArtifactInv == ArtifactsFollowFiles /\ CompletedHasArtifacts /\ LinksResolve

\* What ArtifactsFollowFiles says of one runner.
FollowsFiles(r) ==
    /\ pc[r] \in {"record", "mark"} => files[r] \subseteq stored[current[r]]
    /\ pc[r] = "mark" => files[r] \subseteq recorded[current[r]]
    /\ pc[r] \in {"upload", "record", "mark"} /\ result[r] = "ok"
          => Required \subseteq files[r]

\* The artifact invariant holds in an empty portal.
LEMMA ArtifactInit == StoreInit /\ RunInit => ArtifactInv
  BY DEF StoreInit, RunInit, ArtifactInv, ArtifactsFollowFiles, CompletedHasArtifacts,
     LinksResolve

\* The fourth step of _write_known_artifacts has handled every file.
LEMMA AllFiles ==
  ASSUME RunnerTypeOK, NEW r \in Runners
  PROVE  FirstFiles(r, 4) = files[r]
<1>1. /\ KnownArtifacts[1] = "script" /\ KnownArtifacts[2] = "report"
      /\ KnownArtifacts[3] = "plot" /\ KnownArtifacts[4] = "log"
  BY DEF KnownArtifacts
<1>2. /\ 1 \in 1..4 /\ 2 \in 1..4 /\ 3 \in 1..4 /\ 4 \in 1..4
  OBVIOUS
<1>3. KnownKinds \subseteq {KnownArtifacts[i] : i \in 1..4}
  BY <1>1, <1>2 DEF KnownKinds
<1>4. files[r] \subseteq KnownKinds
  BY DEF RunnerTypeOK, RunTypeOK
<1> QED BY <1>3, <1>4 DEF FirstFiles

\* A driver run that exits with 0, through whichever executor, leaves the plot,
\* the one file looked for after the script (_run_codex_driver), and the runner
\* the log.
LEMMA SuccessfulDriver ==
  ASSUME NEW F \in FilesAfter("ok")
  PROVE  Required \subseteq F
<1>1. PICK run \in DriverRuns : DriverResult(run) = "ok" /\ F = run.files \cup {"log"}
  BY DEF FilesAfter
<1>2. run.code = 0
  BY <1>1 DEF DriverResult
<1>3. CASE run \in RefusedRuns \cup KeylessRuns \cup CrashedRuns
  BY <1>2, <1>3 DEF RefusedRuns, KeylessRuns, CrashedRuns, Logged, Outcome
<1>4. CASE run \in FakeRuns
  BY <1>1, <1>4 DEF FakeRuns, Outcome, KnownKinds, Required
<1>5. CASE run \in CodexRuns
  <2>1. PICK made, left \in SUBSET (KnownKinds \ {"log"}), codex, uv \in {0, 1} :
           run = AfterCodex(made, left, codex, uv)
    BY <1>5 DEF CodexRuns
  <2>2. run = AfterScript(left, uv)
    BY <1>2, <2>1 DEF AfterCodex, Logged, Outcome
  <2>3. "plot" \in left /\ run.files = left \cup {"log"}
    BY <1>2, <2>2 DEF AfterScript, Logged, Outcome
  <2> QED BY <1>1, <2>3 DEF Required
<1> QED BY <1>3, <1>4, <1>5 DEF DriverRuns

\* What has to hold of a step for the artifacts to stay complete.
LEMMA ArtifactMoves ==
  ASSUME ArtifactInv, BusyRunnersHaveJobs',
         \A j \in Jobs :
            /\ stored[j] \subseteq stored'[j] /\ recorded[j] \subseteq recorded'[j]
            /\ recorded'[j] \subseteq recorded[j] \cup stored'[j]
            /\ status'[j] = "completed" =>
                  status[j] = "completed" \/ Required \subseteq recorded'[j] \cap stored'[j],
         \A r \in Runners :
            \/ pc'[r] \notin {"upload", "record", "mark"}
            \/ FollowsFiles(r)'
            \/ /\ pc'[r] = pc[r] /\ current'[r] = current[r]
               /\ files'[r] = files[r] /\ result'[r] = result[r]
  PROVE  ArtifactInv'
<1>1. ASSUME NEW r \in Runners PROVE FollowsFiles(r)'
  <2>1. CASE pc'[r] \notin {"upload", "record", "mark"}
    BY <2>1 DEF FollowsFiles
  <2>2. CASE /\ pc'[r] \in {"upload", "record", "mark"}
             /\ pc'[r] = pc[r] /\ current'[r] = current[r]
             /\ files'[r] = files[r] /\ result'[r] = result[r]
    <3>1. current[r] \in Jobs
      BY <2>2 DEF BusyRunnersHaveJobs
    <3>2. FollowsFiles(r)
      BY DEF ArtifactInv, ArtifactsFollowFiles, FollowsFiles
    <3> QED BY <2>2, <3>1, <3>2 DEF FollowsFiles
  <2> QED BY <2>1, <2>2
<1>2. ArtifactsFollowFiles'
  BY <1>1 DEF ArtifactsFollowFiles, FollowsFiles
<1>3. CompletedHasArtifacts'
  BY DEF ArtifactInv, CompletedHasArtifacts
<1>4. LinksResolve'
  BY DEF ArtifactInv, LinksResolve
<1> QED BY <1>2, <1>3, <1>4 DEF ArtifactInv

\* A step that neither uploads nor records nor completes, and takes no runner
\* into these phases.
LEMMA ArtifactCalm ==
  ASSUME ArtifactInv, BusyRunnersHaveJobs', UNCHANGED <<stored, recorded>>,
         \A j \in Jobs : status'[j] = "completed" => status[j] = "completed",
         \A r \in Runners :
            \/ pc'[r] \notin {"upload", "record", "mark"}
            \/ /\ pc'[r] = pc[r] /\ current'[r] = current[r]
               /\ files'[r] = files[r] /\ result'[r] = result[r]
  PROVE  ArtifactInv'
BY ArtifactMoves

\* run_command_plot_job keeps the artifact invariant.
LEMMA ArtifactRun ==
  ASSUME RunnerTypeOK, ClaimInv, ArtifactInv, NEW r \in Runners, RunStep(r)
  PROVE  ArtifactInv'
<1> USE DEF RunnerTypeOK, RunTypeOK
<1>0. BusyRunnersHaveJobs'
  BY ClaimRun DEF ClaimInv
<1>1. pc[r] \in RunPoints => current[r] \in Jobs
  BY DEF ClaimInv, BusyRunnersHaveJobs, RunPoints
<1>2. FollowsFiles(r)
  BY DEF ArtifactInv, ArtifactsFollowFiles, FollowsFiles
<1>3. ASSUME NEW p \in RunnerPoints \ {"upload", "record", "mark"}, Goto(r, p),
             UNCHANGED <<status, current, stored, recorded>>,
             \A q \in Runners \ {r} : files'[q] = files[q] /\ result'[q] = result[q]
      PROVE  ArtifactInv'
  BY <1>0, <1>3, ArtifactCalm DEF Goto
<1>4. ASSUME Raise(r), UNCHANGED status PROVE ArtifactInv'
  BY <1>0, <1>4, ArtifactCalm DEF Raise, PutDown, TakeUp, Goto
<1>5. CASE ClaimFails(r) \/ PrepareRaises(r) \/ RescueRaises(r)
  BY <1>4, <1>5 DEF ClaimFails, ClaimRefused, PrepareRaises, RescueRaises, storeVars
<1>6. CASE \/ BeginClaim(r) \/ Prepare(r) \/ DriverRaises(r) \/ StampRuntime(r)
           \/ UpdateRaises(r, "mark") \/ UpdateRaises(r, "stamp")
           \/ \E F \in DriverOutputs : TimeoutWithOutput(r, F)
  BY <1>3, <1>6 DEF BeginClaim, ClaimLock, Prepare, DriverRaises, StampRuntime,
     UpdateRaises, TimeoutWithOutput, Step, storeVars, RunnerPoints, RunPoints
<1>7. CASE FinishClaim(r)
  <2>1. \A j \in Jobs : status'[j] = "completed" => status[j] = "completed"
    BY <1>7 DEF FinishClaim, ClaimCommit, StoreTypeOK
  <2> QED BY <1>0, <1>7, <2>1, ArtifactCalm DEF FinishClaim, Step, Goto
<1>8. ASSUME NEW msg \in FailureMessages, MarkFailed(current[r], msg),
             NEW from \in {"mark", "rescue"}, Step(r, from, "settle")
      PROVE  ArtifactInv'
  <2>1. \A j \in Jobs : status'[j] = "completed" => status[j] = "completed"
    BY <1>8 DEF MarkFailed, WriteRow, StoreTypeOK
  <2> QED BY <1>0, <1>8, <2>1, ArtifactCalm DEF Step, Goto
<1>9. CASE MarkTimedOut(r) \/ MarkExitCode(r) \/ Rescue(r)
  BY <1>8, <1>9 DEF MarkTimedOut, MarkExitCode, Rescue, FailureMessages
<1>10. CASE MarkSuccess(r)
  <2>1. Required \subseteq recorded[current[r]] \cap stored[current[r]]
    BY <1>2, <1>10 DEF MarkSuccess, Step, FollowsFiles
  <2>2. \A j \in Jobs : status'[j] = "completed" => status[j] = "completed" \/ j = current[r]
    BY <1>10 DEF MarkSuccess, MarkCompleted, WriteRow, StoreTypeOK
  <2> QED BY <1>0, <1>10, <2>1, <2>2, ArtifactMoves DEF MarkSuccess, Step, Goto
<1>11. ASSUME NEW res \in {"ok", "exit", "timeout"}, NEW F \in DriverOutputs,
              DriverReturns(r, res, F)
       PROVE  ArtifactInv'
  <2>1. res = "ok" => Required \subseteq F
    BY <1>11, SuccessfulDriver DEF DriverReturns
  <2>2. FollowsFiles(r)'
    BY <1>11, <2>1 DEF DriverReturns, Goto, FollowsFiles
  <2> QED BY <1>0, <1>11, <2>2, ArtifactMoves DEF DriverReturns, Goto, storeVars
<1>12. ASSUME NEW n \in Nat, NEW p \in {"record", "rescue"}, PutArtifacts(r, n, p),
              p = "record" => n = 4
       PROVE  ArtifactInv'
  <2>1. current[r] \in Jobs /\ stored' = [stored EXCEPT ![current[r]] = @ \cup FirstFiles(r, n)]
    BY <1>1, <1>12 DEF PutArtifacts, RunPoints
  <2>2. p = "record" => FollowsFiles(r)'
    BY <1>2, <1>12, <2>1, AllFiles DEF PutArtifacts, Goto, FollowsFiles
  <2>3. \A j \in Jobs : stored[j] \subseteq stored'[j] /\ recorded'[j] = recorded[j]
    BY <1>12, <2>1 DEF PutArtifacts
  <2> QED BY <1>0, <1>12, <2>2, <2>3, ArtifactMoves DEF PutArtifacts, Goto, storeVars
<1>13. ASSUME NEW n \in Nat, NEW p \in {"mark", "rescue"}, RecordArtifacts(r, n, p),
              p = "mark" => n = 4
       PROVE  ArtifactInv'
  <2>1. current[r] \in Jobs /\ recorded' = [recorded EXCEPT ![current[r]] = @ \cup FirstFiles(r, n)]
    BY <1>1, <1>13 DEF RecordArtifacts, RunPoints
  <2>2. recorded'[current[r]] \subseteq recorded[current[r]] \cup stored[current[r]]
    BY <1>2, <1>13, <2>1 DEF RecordArtifacts, FirstFiles, FollowsFiles
  <2>3. p = "mark" => FollowsFiles(r)'
    BY <1>2, <1>13, <2>1, AllFiles DEF RecordArtifacts, Goto, FollowsFiles
  <2>4. \A j \in Jobs : /\ recorded[j] \subseteq recorded'[j] /\ stored'[j] = stored[j]
                        /\ recorded'[j] \subseteq recorded[j] \cup stored'[j]
    BY <1>13, <2>1, <2>2 DEF RecordArtifacts
  <2> QED BY <1>0, <1>13, <2>3, <2>4, ArtifactMoves DEF RecordArtifacts, Goto, storeVars
<1>14. CASE UploadAll(r) \/ UploadRaises(r) \/ RecordAll(r) \/ RecordRaises(r)
  BY <1>12, <1>13, <1>14 DEF UploadAll, UploadRaises, RecordAll, RecordRaises
<1> QED
  BY <1>5, <1>6, <1>7, <1>9, <1>10, <1>11, <1>14 DEF RunStep

\* The loop takes a job up, puts it down, or goes from one point to another: it
\* neither uploads nor records.
LEMMA LoopKeepsArtifacts ==
  ASSUME RunnerTypeOK, ArtifactInv, BusyRunnersHaveJobs', UNCHANGED status,
         NEW r \in Runners, NEW p \in RunnerPoints \ {"upload", "record", "mark"},
         NEW j \in Jobs \cup {NoOne}, NEW from, Step(r, from, p) \/ TakeUp(r, j, p)
  PROVE  ArtifactInv'
<1>1. UNCHANGED <<stored, recorded>>
  BY DEF Step, TakeUp
<1>2. \A q \in Runners :
         \/ pc'[q] \notin {"upload", "record", "mark"}
         \/ /\ pc'[q] = pc[q] /\ current'[q] = current[q]
            /\ files'[q] = files[q] /\ result'[q] = result[q]
  BY DEF Step, TakeUp, Goto, RunnerTypeOK, RunTypeOK
<1> QED BY <1>1, <1>2, ArtifactCalm

\* The web requests complete no job.
LEMMA RequestKeepsArtifacts ==
  ASSUME RunnerTypeOK, ArtifactInv, BusyRunnersHaveJobs', NEW j \in Jobs, RequestStep(j),
         UNCHANGED runVars
  PROVE  ArtifactInv'
<1>1. \A k \in Jobs : status'[k] = "completed" => status[k] = "completed"
  BY DEF RequestStep, CreateRow, EnqueueReturns, EnqueueRaises, SaveMessageId,
     RecordEnqueueFailure, WriteRow, WebCrash, RunnerTypeOK, StoreTypeOK
<1> QED BY <1>1, ArtifactCalm DEF runVars

\* Nor does a cancel request.
LEMMA CancelKeepsArtifacts ==
  ASSUME RunnerTypeOK, ArtifactInv, BusyRunnersHaveJobs', NEW c \in Cancellers,
         CancelStep(c), UNCHANGED runVars
  PROVE  ArtifactInv'
<1>1. \A k \in Jobs : status'[k] = "completed" => status[k] = "completed"
  BY DEF CancelStep, CancelCheck, CancelSave, WriteRow, RunnerTypeOK, StoreTypeOK
<1> QED BY <1>1, ArtifactCalm DEF runVars

-----------------------------------------------------------------------------
(* A result stands: the job of a runner at work is completed only by it.   *)

\* Where the run is once it has written "completed".
Concluding == {"stamp", "settle", "rescue"}

\* Nobody executes anything in the empty portal.
LEMMA OwnInit == StoreInit /\ RunInit => CompletionsAreOwn
  BY DEF StoreInit, RunInit, CompletionsAreOwn, Executing, RunPoints

\* A step in which every execution is new, concluded or goes on as it was.
LEMMA OwnMoves ==
  ASSUME CompletionsAreOwn,
         \A r \in Runners : Executing(r)' =>
            \/ status'[current'[r]] # "completed"
            \/ pc'[r] \in Concluding /\ result'[r] = "ok"
            \/ /\ pc'[r] = pc[r] /\ current'[r] = current[r] /\ result'[r] = result[r]
               /\ status'[current[r]] = "completed" => status[current[r]] = "completed"
  PROVE  CompletionsAreOwn'
  BY DEF CompletionsAreOwn, Executing, Concluding

\* A step that completes no job and in which whoever executes a job did so before.
LEMMA OwnCalm ==
  ASSUME CompletionsAreOwn, BusyRunnersHaveJobs,
         \A j \in Jobs : status'[j] = "completed" => status[j] = "completed",
         \A r \in Runners :
            \/ ~Executing(r)'
            \/ pc'[r] = pc[r] /\ current'[r] = current[r] /\ result'[r] = result[r]
  PROVE  CompletionsAreOwn'
<1>1. \A r \in Runners : Executing(r) => current[r] \in Jobs
  BY DEF BusyRunnersHaveJobs, Executing, RunPoints
<1> QED BY <1>1, OwnMoves DEF Executing

\* Neither create_queued_job nor mark_cancelled completes a job.
LEMMA OwnRequest ==
  ASSUME RunnerTypeOK, ClaimInv, CompletionsAreOwn, UNCHANGED runVars,
         \/ \E j \in Jobs : RequestStep(j)
         \/ \E c \in Cancellers : CancelStep(c)
  PROVE  CompletionsAreOwn'
<1>1. \A k \in Jobs : status'[k] = "completed" => status[k] = "completed"
  BY DEF RequestStep, CreateRow, EnqueueReturns, EnqueueRaises, SaveMessageId,
     RecordEnqueueFailure, WriteRow, WebCrash, CancelStep, CancelCheck, CancelSave,
     RunnerTypeOK, StoreTypeOK
<1> QED BY <1>1, OwnCalm DEF runVars, ClaimInv

\* The loop starts no execution.
LEMMA OwnLoop ==
  ASSUME RunnerTypeOK, ClaimInv, CompletionsAreOwn, UNCHANGED status,
         NEW r \in Runners, NEW p \in RunnerPoints \ (RunPoints \cup {"settle"}),
         NEW j \in Jobs \cup {NoOne}, NEW from, Step(r, from, p) \/ TakeUp(r, j, p)
  PROVE  CompletionsAreOwn'
<1>1. \A q \in Runners :
         \/ ~Executing(q)'
         \/ pc'[q] = pc[q] /\ current'[q] = current[q] /\ result'[q] = result[q]
  BY DEF Step, TakeUp, Goto, RunnerTypeOK, RunTypeOK, Executing
<1> QED BY <1>1, OwnCalm DEF ClaimInv

\* run_command_plot_job marks its own job, and nobody else executes it.
LEMMA OwnRun ==
  ASSUME RunnerTypeOK, ClaimInv, CompletionsAreOwn, NEW r \in Runners, RunStep(r)
  PROVE  CompletionsAreOwn'
<1> USE DEF RunnerTypeOK, StoreTypeOK, RunTypeOK
<1>1. Executing(r) => current[r] \in Jobs
  BY DEF ClaimInv, BusyRunnersHaveJobs, Executing, RunPoints
<1>2. \A q \in Runners \ {r} : Executing(q) /\ Executing(r) =>
         current[q] \in Jobs /\ current[q] # current[r]
  BY DEF ClaimInv, BusyRunnersHaveJobs, ExecutionsDiffer, Executing, RunPoints
<1>3. ASSUME NEW p \in RunPoints \cup {"settle"}, Goto(r, p), UNCHANGED <<status, current>>,
             \A q \in Runners \ {r} : result'[q] = result[q],
             \/ pc[r] \in RunPoints \ Concluding
             \/ pc[r] \in Concluding /\ p \in Concluding /\ result'[r] = result[r]
      PROVE  CompletionsAreOwn'
  <2>1. Executing(r) /\ pc'[r] = p
    BY <1>3 DEF Goto, Executing, Concluding, RunPoints
  <2>2. \A q \in Runners \ {r} : pc'[q] = pc[q]
    BY <1>3 DEF Goto
  <2>3. status[current[r]] # "completed" \/ (pc[r] \in Concluding /\ result[r] = "ok")
    BY <2>1 DEF CompletionsAreOwn, Concluding
  <2>4. status'[current'[r]] # "completed" \/ (pc'[r] \in Concluding /\ result'[r] = "ok")
    BY <1>3, <2>1, <2>3
  <2> QED BY <1>3, <2>2, <2>4, OwnMoves DEF Executing
<1>4. ASSUME Raise(r), UNCHANGED status PROVE CompletionsAreOwn'
  <2>1. CASE r \in QueueRunners
    BY <1>4, <2>1, OwnMoves DEF Raise, Goto, Executing, RunPoints
  <2>2. CASE r \notin QueueRunners
    BY <1>4, <2>2, OwnMoves DEF Raise, PutDown, TakeUp, Goto, Executing, RunPoints
  <2> QED BY <2>1, <2>2
<1>5. CASE ClaimFails(r) \/ PrepareRaises(r) \/ RescueRaises(r)
  BY <1>4, <1>5 DEF ClaimFails, ClaimRefused, PrepareRaises, RescueRaises, storeVars
<1>6. CASE BeginClaim(r)
  BY <1>6, OwnMoves DEF BeginClaim, ClaimLock, Step, Goto, Executing, RunPoints
<1>7. ASSUME NEW st \in Status, current[r] \in Jobs,
             status' = [status EXCEPT ![current[r]] = st],
             UNCHANGED <<current, result>>, NEW p \in RunnerPoints, Goto(r, p),
             st # "completed" \/ (p \in Concluding /\ result[r] = "ok"),
             \A q \in Runners \ {r} : Executing(q) => current[q] # current[r]
      PROVE  CompletionsAreOwn'
  <2>1. \A q \in Runners \ {r} : pc'[q] = pc[q] /\ (Executing(q) => current[q] \in Jobs)
    BY <1>7 DEF Goto, ClaimInv, BusyRunnersHaveJobs, Executing, RunPoints
  <2>2. ASSUME NEW q \in Runners \ {r}, Executing(q)'
        PROVE  status'[current[q]] = status[current[q]]
    BY <1>7, <2>1, <2>2 DEF Executing
  <2>3. pc'[r] = p /\ status'[current[r]] = st
    BY <1>7 DEF Goto
  <2> QED BY <1>7, <2>1, <2>2, <2>3, OwnMoves
<1>8. CASE FinishClaim(r)
  <2>1. current[r] \in Jobs /\ status[current[r]] = "queued"
    BY <1>8, ActorsAssumption DEF FinishClaim, ClaimCommit, Step, ClaimInv, Runners,
       BusyRunnersHaveJobs, LockedRowsAreQueued
  <2>2. \A q \in Runners \ {r} : Executing(q) => current[q] # current[r]
    BY <2>1 DEF ClaimInv, ExecutionsHaveStarted
  <2>3. /\ status' = [status EXCEPT ![current[r]] = "running"]
        /\ UNCHANGED <<current, result>> /\ Goto(r, "prepare")
    BY <1>8 DEF FinishClaim, ClaimCommit, Step
  <2>4. "running" \in Status /\ "prepare" \in RunnerPoints
    BY DEF Status, JobStatus, RunnerPoints, RunPoints
  <2> QED BY <1>7, <2>1, <2>2, <2>3, <2>4
<1>9. CASE MarkTimedOut(r) \/ MarkExitCode(r) \/ MarkSuccess(r) \/ Rescue(r)
  <2>1. Executing(r)
    BY <1>9 DEF MarkTimedOut, MarkExitCode, MarkSuccess, Rescue, Step, Executing, RunPoints
  <2>2. UNCHANGED <<current, result>>
    BY <1>9 DEF MarkTimedOut, MarkExitCode, MarkSuccess, Rescue, Step
  <2>3. \/ Goto(r, "settle") /\ status' = [status EXCEPT ![current[r]] = "failed"]
        \/ /\ Goto(r, "stamp") /\ status' = [status EXCEPT ![current[r]] = "completed"]
           /\ result[r] = "ok"
    BY <1>9 DEF MarkTimedOut, MarkExitCode, MarkSuccess, Rescue, MarkFailed, MarkCompleted,
       WriteRow, Step
  <2>4. /\ {"failed", "completed"} \subseteq Status
        /\ {"stamp", "settle"} \subseteq RunnerPoints \cap Concluding
    BY DEF Status, JobStatus, RunnerPoints, RunPoints, Concluding
  <2> QED BY <1>1, <1>2, <1>7, <2>1, <2>2, <2>3, <2>4
<1>10. CASE \/ Prepare(r) \/ DriverRaises(r) \/ StampRuntime(r)
            \/ UpdateRaises(r, "mark") \/ UpdateRaises(r, "stamp")
  BY <1>3, <1>10 DEF Prepare, DriverRaises, StampRuntime, UpdateRaises, Step, storeVars,
     RunPoints, Concluding
<1>11. CASE \/ \E res \in {"ok", "exit", "timeout"}, F \in DriverOutputs :
                DriverReturns(r, res, F)
            \/ \E F \in DriverOutputs : TimeoutWithOutput(r, F)
  BY <1>3, <1>11 DEF DriverReturns, TimeoutWithOutput, storeVars, RunPoints, Concluding
<1>12. CASE UploadAll(r) \/ UploadRaises(r) \/ RecordAll(r) \/ RecordRaises(r)
  BY <1>3, <1>12 DEF UploadAll, UploadRaises, RecordAll, RecordRaises, PutArtifacts,
     RecordArtifacts, storeVars, RunPoints, Concluding
<1> QED
  BY <1>5, <1>6, <1>8, <1>9, <1>10, <1>11, <1>12 DEF RunStep

\* A step that writes no status takes no result back.
LEMMA ResultsCalm == ASSUME UNCHANGED status PROVE ResultsStand
  BY DEF ResultsStand

\* A request writes over a row only when its message could not be sent, a cancel
\* request only over the row it has read.
LEMMA ResultsRequest ==
  ASSUME RunnerTypeOK, ClaimInv,
         \/ \E j \in Jobs : RequestStep(j)
         \/ \E c \in Cancellers : CancelStep(c)
  PROVE  ResultsStand
<1> USE DEF RunnerTypeOK, StoreTypeOK
<1>1. ASSUME NEW j \in Jobs, RequestStep(j) PROVE ResultsStand
  <2>1. CASE CreateRow(j)
    BY <2>1 DEF CreateRow, ResultsStand, ClaimInv, RowsFollowRequests
  <2>2. CASE RecordEnqueueFailure(j)
    BY <2>2 DEF RecordEnqueueFailure, WriteRow, ResultsStand
  <2>3. CASE EnqueueReturns(j) \/ EnqueueRaises(j) \/ SaveMessageId(j) \/ WebCrash(j)
    BY <2>3, ResultsCalm DEF EnqueueReturns, EnqueueRaises, SaveMessageId, WebCrash
  <2> QED BY <1>1, <2>1, <2>2, <2>3 DEF RequestStep
<1>2. ASSUME NEW c \in Cancellers, CancelStep(c) PROVE ResultsStand
  BY <1>2 DEF CancelStep, CancelCheck, CancelSave, WriteRow, ResultsStand
<1> QED BY <1>1, <1>2

\* A runner claims queued jobs only, and marks its own: over "completed" it
\* writes only from its failure handler.
LEMMA ResultsRun ==
  ASSUME RunnerTypeOK, ClaimInv, CompletionsAreOwn, NEW r \in Runners, RunStep(r)
  PROVE  ResultsStand
<1> USE DEF RunnerTypeOK, StoreTypeOK, RunTypeOK
<1>1. CASE FinishClaim(r)
  <2>1. current[r] \in Jobs /\ status[current[r]] = "queued"
    BY <1>1, ActorsAssumption DEF FinishClaim, ClaimCommit, Step, ClaimInv, Runners,
       BusyRunnersHaveJobs, LockedRowsAreQueued
  <2> QED BY <1>1, <2>1 DEF FinishClaim, ClaimCommit, ResultsStand
<1>2. CASE MarkTimedOut(r) \/ MarkExitCode(r) \/ MarkSuccess(r) \/ Rescue(r)
  <2>1. /\ \A j \in Jobs : status'[j] # status[j] => j = current[r]
        /\ pc[r] \in {"mark", "rescue"}
    BY <1>2 DEF MarkTimedOut, MarkExitCode, MarkSuccess, Rescue, MarkFailed, MarkCompleted,
       WriteRow, Step
  <2>2. status[current[r]] = "completed" => pc[r] = "rescue" /\ result[r] = "ok"
    BY <2>1 DEF CompletionsAreOwn, Executing, RunPoints
  <2> QED BY <2>1, <2>2 DEF ResultsStand
<1>3. CASE UNCHANGED status
  BY <1>3, ResultsCalm
<1> QED
  BY <1>1, <1>2, <1>3
  DEF RunStep, BeginClaim, ClaimLock, ClaimFails, ClaimRefused, Prepare, PrepareRaises,
      DriverReturns, TimeoutWithOutput, DriverRaises, UploadAll, UploadRaises, RecordAll,
      RecordRaises, PutArtifacts, RecordArtifacts, StampRuntime, UpdateRaises, RescueRaises,
      storeVars

-----------------------------------------------------------------------------
(* One runner: claim_job's unlocked look for a running job is enough.      *)

OneRunner == \A r1, r2 \in Runners : r1 = r2

SoleInv ==
    /\ SingleActive
    /\ \A r \in Runners : pc[r] = "claiming" => \A k \in Jobs : status[k] # "running"

\* Nothing runs in an empty portal.
LEMMA SoleInit == StoreInit /\ RunInit => SoleInv
  BY DEF StoreInit, RunInit, SoleInv, SingleActive

\* No runner enters claim_job but by locking a row.
EntersByLock ==
    \A q \in Runners : pc'[q] = "claiming" => pc[q] = "claiming" \/ BeginClaim(q)

\* A step of one runner to a point outside claim_job takes none into it.
LEMMA EnterElsewhere ==
  ASSUME RunnerTypeOK, NEW r \in Runners, NEW p \in RunnerPoints \ {"claiming"}, Goto(r, p)
  PROVE  EntersByLock
  BY DEF RunnerTypeOK, RunTypeOK, Goto, EntersByLock

\* In run_command_plot_job a runner is inside claim_job because it was, or has
\* just locked a row.
LEMMA EnterRun ==
  ASSUME RunnerTypeOK, NEW r \in Runners, RunStep(r)
  PROVE  EntersByLock
<1>1. ASSUME Raise(r) PROVE EntersByLock
  BY <1>1, EnterElsewhere DEF Raise, PutDown, TakeUp, RunnerPoints
<1>2. CASE ClaimFails(r) \/ PrepareRaises(r) \/ RescueRaises(r)
  BY <1>1, <1>2 DEF ClaimFails, PrepareRaises, RescueRaises
<1>3. CASE BeginClaim(r)
  BY <1>3 DEF BeginClaim, Step, Goto, RunnerTypeOK, RunTypeOK, EntersByLock
<1>4. CASE \/ FinishClaim(r) \/ Prepare(r) \/ DriverRaises(r)
           \/ MarkTimedOut(r) \/ MarkExitCode(r) \/ MarkSuccess(r) \/ StampRuntime(r)
           \/ UpdateRaises(r, "mark") \/ UpdateRaises(r, "stamp") \/ Rescue(r)
  BY <1>4, EnterElsewhere DEF FinishClaim, Prepare, DriverRaises, MarkTimedOut, MarkExitCode,
     MarkSuccess, StampRuntime, UpdateRaises, Rescue, Step, RunnerPoints, RunPoints
<1>5. CASE \/ \E res \in {"ok", "exit", "timeout"}, F \in DriverOutputs :
               DriverReturns(r, res, F)
           \/ \E F \in DriverOutputs : TimeoutWithOutput(r, F)
  BY <1>5, EnterElsewhere DEF DriverReturns, TimeoutWithOutput, RunnerPoints, RunPoints
<1>6. CASE UploadAll(r) \/ UploadRaises(r) \/ RecordAll(r) \/ RecordRaises(r)
  BY <1>6, EnterElsewhere DEF UploadAll, UploadRaises, RecordAll, RecordRaises, PutArtifacts,
     RecordArtifacts, RunnerPoints, RunPoints
<1> QED BY <1>2, <1>3, <1>4, <1>5, <1>6 DEF RunStep

\* With one runner, the row it is about to claim is claimed while no job runs.
LEMMA SoleMoves ==
  ASSUME OneRunner, SoleInv, StatusMoves, EntersByLock
  PROVE  SoleInv'
<1> DEFINE Starts(j) == \E r \in Runners : /\ pc[r] = "claiming" /\ pc'[r] # "claiming"
                                           /\ current[r] = j
<1>1. \A j \in Jobs : status'[j] = "running" => status[j] = "running" \/ Starts(j)
  BY DEF StatusMoves, TerminalValues
<1>2. ASSUME NEW j \in Jobs, NEW k \in Jobs, status'[j] = "running", status'[k] = "running"
      PROVE  j = k
  BY <1>1, <1>2 DEF OneRunner, SoleInv, SingleActive
<1>3. ASSUME NEW r \in Runners, pc'[r] = "claiming", NEW k \in Jobs
      PROVE  status'[k] # "running"
  <2>1. CASE pc[r] = "claiming"
    BY <1>1, <1>3, <2>1 DEF OneRunner, SoleInv
  <2>2. CASE BeginClaim(r)
    <3>1. status[k] # "running"
      BY <2>2 DEF BeginClaim, ClaimLock, AnotherRunning
    <3>2. status' = status
      BY <2>2 DEF BeginClaim, ClaimLock
    <3> QED BY <3>1, <3>2
  <2> QED BY <1>3, <2>1, <2>2 DEF EntersByLock
<1> QED BY <1>2, <1>3 DEF SoleInv, SingleActive

-----------------------------------------------------------------------------
(* The life cycle: one runner that can write the job table takes a job     *)
(* through it, whatever queue brought the job.                             *)

\* The step seen by the life cycle.
LifeStep == Lifecycle!Next \/ UNCHANGED status

\* The message of the job has been sent, or the web process stopped.
Sent == {"sent", "accepted", "lost"}

\* From the decision to claim the job on; and from the claim to the terminal status.
Claimed == RunPoints \cup {"claim", "claiming"}
Unfinished == RunPoints \ {"stamp"}

\* Until its message is sent nobody touches a job; a runner claims sent jobs
\* only, and its job runs until it writes the terminal status.
LifeInv ==
    /\ \A j \in Jobs : request[j] \in {"created", "unsent"} => status[j] = "queued"
    /\ \A r \in Runners : pc[r] \in Claimed => request[current[r]] \in Sent
    /\ \A r \in Runners : pc[r] \in Unfinished => status[current[r]] = "running"

\* Nobody has submitted or claimed anything yet.
LEMMA LifeInit == StoreInit /\ RunInit => LifeInv /\ Lifecycle!Init
  BY DEF StoreInit, RunInit, LifeInv, Claimed, Unfinished, RunPoints, Lifecycle!Init

\* A step that changes no status and starts no run; a runner that decides to
\* claim has a job whose message was sent.
LEMMA LifeCalm ==
  ASSUME LifeInv, UNCHANGED <<status, request>>,
         \A r \in Runners :
            \/ pc'[r] \notin Claimed
            \/ pc'[r] = "claim" /\ request[current'[r]] \in Sent
            \/ /\ pc[r] \in Claimed /\ current'[r] = current[r]
               /\ pc'[r] \in Unfinished => pc[r] \in Unfinished
  PROVE  LifeInv' /\ LifeStep
<1>1. Unfinished \subseteq Claimed /\ "claim" \notin Unfinished
  BY DEF Unfinished, Claimed, RunPoints
<1> QED BY <1>1 DEF LifeInv, LifeStep

\* A message that was sent stays sent.
LEMMA SentStays ==
  ASSUME RunnerTypeOK, NEW j \in Jobs, RequestStep(j), NEW k \in Jobs, request[k] \in Sent
  PROVE  request'[k] \in Sent
  BY DEF RunnerTypeOK, StoreTypeOK, RequestStep, CreateRow, EnqueueReturns, EnqueueRaises,
     SaveMessageId, RecordEnqueueFailure, WebCrash, Sent

\* The requests: only the job of the request changes, and no runner claims it
\* before its message is sent.
LEMMA LifeRequest ==
  ASSUME RunnerTypeOK, ClaimInv, LifeInv, NEW j \in Jobs, RequestStep(j), UNCHANGED runVars
  PROVE  LifeInv' /\ LifeStep
<1> USE DEF RunnerTypeOK, StoreTypeOK, RunTypeOK
<1>1. /\ \A r \in Runners : pc[r] \in Claimed => current[r] \in Jobs
      /\ Unfinished \subseteq Claimed
  BY DEF ClaimInv, BusyRunnersHaveJobs, Claimed, Unfinished, RunPoints
<1>2. \A r \in Runners : pc'[r] \in Claimed => request'[current'[r]] \in Sent
  BY <1>1, SentStays DEF runVars, LifeInv
<1>3. ASSUME request[j] \notin Sent
      PROVE  \A r \in Runners : pc[r] \in Claimed => current[r] # j
  BY <1>3 DEF LifeInv
<1>4. CASE CreateRow(j)
  <2>1. /\ request[j] = "none" /\ request' = [request EXCEPT ![j] = "created"]
        /\ status' = [status EXCEPT ![j] = "queued"] /\ UNCHANGED <<pc, current>>
    BY <1>4 DEF CreateRow, runVars
  <2>2. status[j] = "absent"
    BY <2>1 DEF ClaimInv, RowsFollowRequests
  <2>3. LifeInv'
    BY <1>1, <1>2, <1>3, <2>1 DEF LifeInv, Sent
  <2>4. Lifecycle!Submit(j)
    BY <2>1, <2>2 DEF Lifecycle!Submit, Lifecycle!Become
  <2> QED BY <2>3, <2>4 DEF LifeStep, Lifecycle!Next
<1>5. CASE RecordEnqueueFailure(j)
  <2>1. /\ request[j] = "unsent" /\ request' = [request EXCEPT ![j] = "refused"]
        /\ status' = [status EXCEPT ![j] = "failed"] /\ UNCHANGED <<pc, current>>
    BY <1>5 DEF RecordEnqueueFailure, WriteRow, runVars
  <2>2. status[j] = "queued"
    BY <2>1 DEF LifeInv
  <2>3. LifeInv'
    BY <1>1, <1>2, <1>3, <2>1 DEF LifeInv, Sent
  <2>4. Lifecycle!Refuse(j)
    BY <2>1, <2>2 DEF Lifecycle!Refuse, Lifecycle!Become
  <2> QED BY <2>3, <2>4 DEF LifeStep, Lifecycle!Next
<1>6. CASE EnqueueReturns(j) \/ EnqueueRaises(j) \/ SaveMessageId(j) \/ WebCrash(j)
  <2>1. /\ UNCHANGED <<status, pc, current>>
        /\ \A k \in Jobs : request'[k] \in {"created", "unsent"} =>
                            request[k] \in {"created", "unsent"}
    BY <1>6 DEF EnqueueReturns, EnqueueRaises, SaveMessageId, WebCrash, runVars
  <2> QED BY <1>2, <2>1 DEF LifeInv, LifeStep
<1> QED BY <1>4, <1>5, <1>6 DEF RequestStep

\* The runner writes a terminal status into the row of its running job.
LEMMA LifeFinish ==
  ASSUME OneRunner, RunnerTypeOK, ClaimInv, LifeInv, NEW r \in Runners, pc[r] \in Unfinished,
         NEW st \in {"completed", "failed"}, NEW p \in {"stamp", "settle"},
         status' = [status EXCEPT ![current[r]] = st], Goto(r, p),
         UNCHANGED <<request, current>>
  PROVE  LifeInv' /\ LifeStep
<1> USE DEF RunnerTypeOK, StoreTypeOK, RunTypeOK
<1>1. /\ p \notin Unfinished /\ Unfinished \subseteq Claimed
      /\ \A q \in Runners : q = r
  BY DEF Unfinished, Claimed, RunPoints, OneRunner
<1>2. /\ current[r] \in Jobs /\ status[current[r]] = "running"
      /\ request[current[r]] \in Sent
  BY <1>1 DEF ClaimInv, BusyRunnersHaveJobs, LifeInv, Unfinished, RunPoints
<1>3. LifeInv'
  BY <1>1, <1>2 DEF LifeInv, Goto, Sent
<1>4. Lifecycle!Finish(current[r])
  BY <1>2 DEF Lifecycle!Finish, Lifecycle!Become
<1> QED BY <1>2, <1>3, <1>4 DEF LifeStep, Lifecycle!Next

\* The claim commits: nothing else runs, and the job was queued until now.
LEMMA LifeClaim ==
  ASSUME OneRunner, RunnerTypeOK, ClaimInv, SoleInv, LifeInv, NEW r \in Runners, FinishClaim(r)
  PROVE  LifeInv' /\ LifeStep
<1> USE DEF RunnerTypeOK, StoreTypeOK, RunTypeOK
<1> DEFINE j == current[r]
<1>1. /\ pc[r] = "claiming" /\ pc' = [pc EXCEPT ![r] = "prepare"]
      /\ rowLock[j] = r /\ status' = [status EXCEPT ![j] = "running"]
      /\ UNCHANGED <<current, request>>
  BY DEF FinishClaim, Step, Goto, ClaimCommit
<1>2. j \in Jobs /\ status[j] = "queued" /\ request[j] \in Sent
  BY <1>1, ActorsAssumption
  DEF ClaimInv, BusyRunnersHaveJobs, LockedRowsAreQueued, LifeInv, Claimed, Runners
<1>3. \A k \in Jobs : status[k] # "running"
  BY <1>1 DEF SoleInv
<1>4. \A q \in Runners : q = r
  BY DEF OneRunner
<1>5. LifeInv'
  BY <1>1, <1>2, <1>4 DEF LifeInv, Sent
<1>6. Lifecycle!Start(j)
  BY <1>1, <1>2, <1>3 DEF Lifecycle!Start, Lifecycle!Become
<1> QED BY <1>2, <1>5, <1>6 DEF LifeStep, Lifecycle!Next

\* run_command_plot_job takes its job from queued to running to an end.
LEMMA LifeRun ==
  ASSUME OneRunner, "database" \notin Faults, RunnerTypeOK, ClaimInv, SoleInv, LifeInv,
         NEW r \in Runners, RunStep(r)
  PROVE  LifeInv' /\ LifeStep
<1>1. UNCHANGED request
  BY RunGoes
<1>2. ASSUME NEW p \in RunnerPoints, Goto(r, p), UNCHANGED status,
             \/ p \notin Claimed
             \/ /\ pc[r] \in Claimed /\ UNCHANGED current
                /\ p \in Unfinished => pc[r] \in Unfinished
      PROVE  LifeInv' /\ LifeStep
  <2>1. \A q \in Runners : q = r /\ pc'[q] = p
    BY <1>2 DEF Goto, OneRunner, RunnerTypeOK, RunTypeOK
  <2> QED BY <1>1, <1>2, <2>1, LifeCalm
<1>3. RunPoints \subseteq Claimed /\ "abandon" \notin Claimed /\ "idle" \notin Claimed
  BY DEF Claimed, RunPoints
<1>4. CASE ClaimFails(r) \/ PrepareRaises(r) \/ RescueRaises(r)
  BY <1>2, <1>3, <1>4 DEF ClaimFails, ClaimRefused, PrepareRaises, RescueRaises, Raise,
     PutDown, TakeUp, storeVars, RunnerPoints
<1>5. CASE BeginClaim(r)
  BY <1>2, <1>5 DEF BeginClaim, ClaimLock, Step, Claimed, Unfinished, RunPoints, RunnerPoints
<1>6. CASE FinishClaim(r)
  BY <1>6, LifeClaim
<1>7. CASE Prepare(r) \/ DriverRaises(r) \/ StampRuntime(r)
  BY <1>2, <1>7 DEF Prepare, DriverRaises, StampRuntime, Step, storeVars, Claimed, Unfinished,
     RunPoints, RunnerPoints
<1>8. CASE \/ \E res \in {"ok", "exit", "timeout"}, F \in DriverOutputs :
               DriverReturns(r, res, F)
           \/ \E F \in DriverOutputs : TimeoutWithOutput(r, F)
  BY <1>2, <1>8 DEF DriverReturns, TimeoutWithOutput, storeVars, Claimed, Unfinished,
     RunPoints, RunnerPoints
<1>9. CASE UploadAll(r) \/ UploadRaises(r) \/ RecordAll(r) \/ RecordRaises(r)
  BY <1>2, <1>9 DEF UploadAll, UploadRaises, RecordAll, RecordRaises, PutArtifacts,
     RecordArtifacts, storeVars, Claimed, Unfinished, RunPoints, RunnerPoints
<1>10. CASE MarkTimedOut(r) \/ MarkExitCode(r) \/ MarkSuccess(r) \/ Rescue(r)
  BY <1>10, LifeFinish DEF MarkTimedOut, MarkExitCode, MarkSuccess, Rescue, MarkFailed,
     MarkCompleted, WriteRow, Step, Unfinished, RunPoints
<1>11. ~UpdateRaises(r, "mark") /\ ~UpdateRaises(r, "stamp")
  BY DEF UpdateRaises
<1> QED
  BY <1>4, <1>5, <1>6, <1>7, <1>8, <1>9, <1>10, <1>11 DEF RunStep
-----------------------------------------------------------------------------
(* Who is left with a running job: its runner, unless a failure took it.   *)

\* The failures that take a runner away from a job it claimed, or keep the
\* failure handler from writing the row.
NothingStrands == Faults \cap {"runner", "prepare", "secrets", "database"} = {}

\* Past the terminal write: only now may the runner let go of the job.
Marked == {"stamp", "settle"}

AttendInv ==
    /\ NoneStranded
    /\ \A r \in Runners : pc[r] \in Marked => Terminal(current[r])

\* Nobody executes a job in the empty portal, and none is running.
LEMMA AttendInit == StoreInit /\ RunInit => AttendInv
  BY DEF StoreInit, RunInit, AttendInv, NoneStranded, Attended, Marked

\* A step that starts no job, and in which a runner keeps its job or has seen
\* it end.
LEMMA AttendCalm ==
  ASSUME ClaimInv, AttendInv, StatusMoves,
         \A j \in Jobs : status'[j] = "running" => status[j] = "running",
         \A r \in Runners :
            /\ Executing(r) => \/ pc[r] = "settle"
                               \/ pc'[r] \in RunPoints \cup {"settle"} /\ current'[r] = current[r]
            /\ pc'[r] \in Marked =>
                  \/ pc[r] \in Marked /\ current'[r] = current[r]
                  \/ current'[r] \in Jobs /\ status'[current'[r]] \in TerminalValues
  PROVE  AttendInv'
<1>1. \A j \in Jobs : Terminal(j) => Terminal(j)'
  BY DEF StatusMoves, Terminal, TerminalValues
<1>2. \A r \in Runners : Executing(r) => current[r] \in Jobs
  BY DEF ClaimInv, BusyRunnersHaveJobs, Executing, RunPoints
<1>3. ASSUME NEW j \in Jobs, status'[j] = "running"
      PROVE  \E r \in Runners : Executing(r)' /\ current'[r] = j
  <2>1. PICK r \in Runners : Executing(r) /\ current[r] = j
    BY <1>3 DEF AttendInv, NoneStranded, Attended
  <2>2. pc[r] # "settle"
    BY <1>3, <2>1 DEF AttendInv, Marked, Terminal, TerminalValues
  <2> QED BY <2>1, <2>2 DEF Executing
<1>4. ASSUME NEW r \in Runners, pc'[r] \in Marked PROVE Terminal(current[r])'
  <2>1. CASE pc[r] \in Marked /\ current'[r] = current[r]
    <3>1. current[r] \in Jobs /\ Terminal(current[r])
      BY <1>2, <2>1 DEF AttendInv, Marked, Executing, RunPoints
    <3> QED BY <1>1, <2>1, <3>1 DEF Terminal
  <2> QED BY <1>4, <2>1 DEF Terminal
<1> QED BY <1>3, <1>4 DEF AttendInv, NoneStranded, Attended

\* The steps of create_queued_job and mark_cancelled start no job.
LEMMA AttendRequest ==
  ASSUME RunnerTypeOK, ClaimInv, AttendInv, StatusMoves, UNCHANGED runVars,
         \/ \E j \in Jobs : RequestStep(j)
         \/ \E c \in Cancellers : CancelStep(c)
  PROVE  AttendInv'
<1>1. \A j \in Jobs : status'[j] = "running" => status[j] = "running"
  BY DEF RequestStep, CancelStep, CreateRow, EnqueueReturns, EnqueueRaises, SaveMessageId,
     RecordEnqueueFailure, WebCrash, CancelCheck, CancelSave, WriteRow, RunnerTypeOK,
     StoreTypeOK
<1> QED BY <1>1, AttendCalm DEF runVars, Executing

\* Outside the run the loop takes a job up or puts it down, and changes no status.
LEMMA AttendLoop ==
  ASSUME RunnerTypeOK, ClaimInv, AttendInv, UNCHANGED status, NEW r \in Runners,
         pc[r] \notin RunPoints, NEW p \in RunnerPoints \ (RunPoints \cup {"settle"}),
         NEW j \in Jobs \cup {NoOne}, NEW from, Step(r, from, p) \/ TakeUp(r, j, p)
  PROVE  AttendInv'
<1>1. \A q \in Runners \ {r} : pc'[q] = pc[q] /\ current'[q] = current[q]
  BY DEF Step, TakeUp, Goto, RunnerTypeOK, RunTypeOK
<1>2. pc'[r] = p /\ p \notin Marked
  BY DEF Step, TakeUp, Goto, RunnerTypeOK, RunTypeOK, Marked, RunPoints
<1> QED BY <1>1, <1>2, StatusCalm, AttendCalm DEF Executing, Marked

\* The claim commits: its runner executes the job from now on.
LEMMA AttendClaim ==
  ASSUME RunnerTypeOK, ClaimInv, AttendInv, NEW r \in Runners, FinishClaim(r)
  PROVE  AttendInv'
<1> USE DEF RunnerTypeOK, StoreTypeOK, RunTypeOK
<1>1. /\ pc[r] = "claiming" /\ pc' = [pc EXCEPT ![r] = "prepare"] /\ UNCHANGED current
      /\ rowLock[current[r]] = r /\ status' = [status EXCEPT ![current[r]] = "running"]
  BY DEF FinishClaim, Step, Goto, ClaimCommit
<1>2. current[r] \in Jobs /\ status[current[r]] = "queued"
  BY <1>1, ActorsAssumption DEF ClaimInv, BusyRunnersHaveJobs, LockedRowsAreQueued, Runners
<1>3. \A q \in Runners : Executing(q) => Executing(q)'
  BY <1>1 DEF Executing, RunPoints
<1>4. NoneStranded'
  BY <1>1, <1>2, <1>3 DEF AttendInv, NoneStranded, Attended, Executing, RunPoints
<1>5. ASSUME NEW q \in Runners, pc'[q] \in Marked PROVE Terminal(current[q])'
  <2>1. pc[q] \in Marked /\ Terminal(current[q]) /\ current[q] \in Jobs
    BY <1>1, <1>5 DEF AttendInv, Marked, ClaimInv, BusyRunnersHaveJobs
  <2>2. current[q] # current[r]
    BY <1>2, <2>1 DEF Terminal, TerminalValues
  <2> QED BY <1>1, <2>1, <2>2 DEF Terminal
<1> QED BY <1>4, <1>5 DEF AttendInv

\* A run without those failures ends the job before it leaves it.
LEMMA AttendRun ==
  ASSUME NothingStrands, RunnerTypeOK, ClaimInv, AttendInv, StatusMoves,
         NEW r \in Runners, RunStep(r)
  PROVE  AttendInv'
<1> USE DEF RunnerTypeOK, StoreTypeOK, RunTypeOK
<1>1. \A q \in Runners \ {r} : pc'[q] = pc[q] /\ current'[q] = current[q]
  BY RunGoes DEF Onward
<1>2. ASSUME NEW p \in RunPoints \cup {"settle"}, Goto(r, p), UNCHANGED <<status, current>>,
             p \in Marked => pc[r] \in Marked
      PROVE  AttendInv'
  BY <1>1, <1>2, AttendCalm DEF Goto, Executing
<1>3. CASE FinishClaim(r)
  BY <1>3, AttendClaim
<1>4. CASE BeginClaim(r) \/ ClaimFails(r)
  <2>1. pc[r] = "claim" /\ UNCHANGED status /\ pc'[r] \in {"claiming", "abandon", "idle"}
    BY <1>4 DEF BeginClaim, ClaimLock, ClaimFails, ClaimRefused, storeVars, Step, Raise,
       PutDown, TakeUp, Goto
  <2> QED BY <1>1, <2>1, AttendCalm DEF Executing, RunPoints, Marked
<1>5. CASE Prepare(r) \/ DriverRaises(r) \/ StampRuntime(r)
  BY <1>2, <1>5 DEF Prepare, DriverRaises, StampRuntime, Step, storeVars, RunPoints, Marked
<1>6. CASE \/ \E res \in {"ok", "exit", "timeout"}, F \in DriverOutputs :
               DriverReturns(r, res, F)
           \/ \E F \in DriverOutputs : TimeoutWithOutput(r, F)
  BY <1>2, <1>6 DEF DriverReturns, TimeoutWithOutput, storeVars, RunPoints, Marked
<1>7. CASE UploadAll(r) \/ UploadRaises(r) \/ RecordAll(r) \/ RecordRaises(r)
  BY <1>2, <1>7 DEF UploadAll, UploadRaises, RecordAll, RecordRaises, PutArtifacts,
     RecordArtifacts, storeVars, RunPoints, Marked
<1>8. ASSUME NEW st \in TerminalValues, NEW p \in Marked, Goto(r, p), UNCHANGED current,
             pc[r] \in RunPoints, status' = [status EXCEPT ![current[r]] = st]
      PROVE  AttendInv'
  <2>1. current[r] \in Jobs
    BY <1>8 DEF ClaimInv, BusyRunnersHaveJobs, RunPoints
  <2>2. \A j \in Jobs : status'[j] = "running" => status[j] = "running"
    BY <1>8, <2>1 DEF TerminalValues
  <2> QED BY <1>1, <1>8, <2>1, <2>2, AttendCalm DEF Goto, Executing, Marked, RunPoints
<1>9. CASE MarkTimedOut(r) \/ MarkExitCode(r) \/ MarkSuccess(r) \/ Rescue(r)
  BY <1>8, <1>9 DEF MarkTimedOut, MarkExitCode, MarkSuccess, Rescue, MarkFailed,
     MarkCompleted, WriteRow, Step, RunPoints, Marked, TerminalValues
<1>10. ~PrepareRaises(r) /\ ~RescueRaises(r) /\ ~UpdateRaises(r, "mark")
       /\ ~UpdateRaises(r, "stamp")
  BY DEF NothingStrands, PrepareRaises, RescueRaises, UpdateRaises
<1> QED
  BY <1>3, <1>4, <1>5, <1>6, <1>7, <1>9, <1>10 DEF RunStep
=============================================================================
