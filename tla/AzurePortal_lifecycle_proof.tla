--------------------- MODULE AzurePortal_lifecycle_proof ---------------------
(***************************************************************************)
(* The portal on the Azure queue implements JobLifecycle under the same    *)
(* conditions as on the database queue, although here a request can fail   *)
(* after its message was sent: a message without a record is dropped.      *)
(***************************************************************************)
EXTENDS AzurePortal_proof

LoneRunner ==
    /\ OneRunner
    /\ DirectRunners = {}
    /\ Cancellers = {}
    /\ "database" \notin Faults

\* A record is that of a request that came back from enqueue_job: a message
\* whose request may still fail has no record yet, and nobody claims its job.
RecordsAreSent == \A m \in records : request[m] \in Sent

\* Nobody but enqueue_job creates a record, and a request is never taken back.
LEMMA RecordsStaySent ==
  ASSUME TypeOK, ClaimInv, RecordsAreSent, [Next]_vars
  PROVE  RecordsAreSent'
<1> USE DEF TypeOK, StoreTypeOK, AzureTypeOK
<1>1. ASSUME UNCHANGED request, records' \subseteq records PROVE RecordsAreSent'
  BY <1>1 DEF RecordsAreSent
<1>2. ASSUME NEW j \in Jobs,
             Submit(j) \/ WebStep(j) \/ RequestFails(j) \/ VisibilityExpires(j)
      PROVE  RecordsAreSent'
  <2>1. CASE Submit(j) \/ FinishRequest(j) \/ RequestFails(j)
    <3>1. \A k \in Jobs : request[k] \in Sent => request'[k] \in Sent
      BY <2>1, SentStays, TypeParts DEF Submit, FinishRequest, RequestFails, RequestStep
    <3>2. UNCHANGED records
      BY <2>1 DEF Submit, FinishRequest, RequestFails, azureVars, mirrorVars
    <3> QED BY <3>1, <3>2 DEF RecordsAreSent
  <2>2. CASE Enqueued(j)
    BY <2>2 DEF Enqueued, EnqueueReturns, CreateRecord, RecordsAreSent, Sent
  <2>3. CASE Send(j) \/ VisibilityExpires(j)
    BY <1>1, <2>3 DEF Send, SendMessage, VisibilityExpires, ServiceShows, Serve, mirrorVars,
       storeVars
  <2> QED BY <1>2, <2>1, <2>2, <2>3 DEF WebStep
<1>3. ASSUME NEW r \in Runners, Run(r) PROVE RecordsAreSent'
  BY <1>1, <1>3, RunGoes, TypeParts DEF Run, azureVars, mirrorVars
<1>4. ASSUME NEW r \in Runners, LoopStep(r) PROVE RecordsAreSent'
  <2>1. UNCHANGED request
    BY <1>4, LoopMoves DEF storeVars
  <2>2. records' \subseteq records
    BY <1>4 DEF LoopStep, Receive, ServiceReceive, NoteReceipt, MirrorReceive, DeleteInService,
       ServiceDelete, ShowInService, ServiceUpdate, Unlink, MirrorDelete, Return, MirrorUpdate,
       LoopDies, ServiceRefuses, MirrorRaises, Serve, mirrorVars, azureVars
  <2> QED BY <1>1, <2>1, <2>2
<1>5. ASSUME NEW r \in Runners, Decide(r) \/ StartDirect(r) \/ Crash(r) \/ Restart(r)
      PROVE  RecordsAreSent'
  BY <1>1, <1>5, LocalSteps DEF storeVars, ReleaseLocks, azureVars, mirrorVars
<1>6. CASE UNCHANGED vars \/ \E c \in Cancellers : Cancel(c)
  BY <1>1, <1>6 DEF vars, Cancel, CancelCheck, CancelSave, storeVars, azureVars, mirrorVars
<1> QED BY <1>2, <1>3, <1>4, <1>5, <1>6 DEF Next, RunnerStep, LoopStep

\* The loop claims only where it found a record.
LEMMA DecisionNeedsRecord ==
  ASSUME TypeOK, ClaimInv, RecordsAreSent, NEW r \in Runners, Decide(r), pc'[r] = "claim"
  PROVE  current' = current /\ request[current[r]] \in Sent
<1> USE DEF TypeOK, RunTypeOK
<1>1. CASE Local!Inspect(r)
  <2>1. /\ pc[r] = "inspect" /\ current' = current
        /\ Local!Decision(current[r]) = "claim"
    BY <1>1 DEF Local!Inspect, Local!Step, Local!Goto
  <2>2. current[r] \in Jobs
    BY <2>1 DEF ClaimInv, BusyRunnersHaveJobs
  <2>3. current[r] \in records
    BY <2>1, <2>2 DEF Local!Decision, Records
  <2> QED BY <2>1, <2>3 DEF RecordsAreSent
<1>2. CASE Local!Settle(r)
  BY <1>2 DEF Local!Settle, Local!Step, Local!PutDown, Local!TakeUp, Local!Goto
<1> QED BY <1>1, <1>2 DEF Decide

\* The loop, crashes and restarts change no status.
LEMMA LifeLoop ==
  ASSUME LoneRunner, TypeOK, ClaimInv, RecordsAreSent, LifeInv, NEW r \in Runners,
         LoopStep(r) \/ Decide(r) \/ StartDirect(r) \/ Crash(r) \/ Restart(r)
  PROVE  LifeInv' /\ LifeStep
<1> USE DEF TypeOK, RunTypeOK
<1>1. \A q \in Runners : q = r
  BY DEF LoneRunner, OneRunner
<1>2. UNCHANGED <<status, request>>
  BY LoopMoves, LocalSteps DEF storeVars, ReleaseLocks
<1>3. \/ pc'[r] \notin Claimed
      \/ pc'[r] = "claim" /\ Decide(r)
  <2>1. {"receiving", "inspect", "delete", "abandon", "unlinking", "returning", "idle",
         "dead"} \cap Claimed = {}
    BY DEF Claimed, RunPoints
  <2>2. CASE LoopStep(r)
    BY <2>1, <2>2, LoopMoves DEF Step, PutDown, TakeUp, Goto
  <2>3. CASE Decide(r) \/ Crash(r) \/ Restart(r)
    BY <2>1, <2>3 DEF Decide, Crash, Restart, Local!Inspect, Local!Decision, Local!Settle,
       Local!Crash, Local!Restart, Local!Step, Local!PutDown, Local!TakeUp, Local!Goto
  <2>4. ~StartDirect(r)
    BY DEF StartDirect, Local!StartDirect, LoneRunner
  <2> QED BY <2>2, <2>3, <2>4
<1>4. pc'[r] = "claim" /\ Decide(r) => request[current'[r]] \in Sent
  BY DecisionNeedsRecord
<1> QED BY <1>1, <1>2, <1>3, <1>4, LifeCalm

\* Every step keeps LifeInv and is a step of the life cycle, or none.
LEMMA LifeAlways ==
  ASSUME LoneRunner, TypeOK, ClaimInv, SoleInv, RecordsAreSent, LifeInv, [Next]_vars
  PROVE  LifeInv' /\ LifeStep
<1>1. ASSUME UNCHANGED <<status, request, pc, current>> PROVE LifeInv' /\ LifeStep
  BY <1>1, LifeCalm DEF LifeInv
<1>2. ASSUME NEW j \in Jobs,
             Submit(j) \/ WebStep(j) \/ RequestFails(j) \/ VisibilityExpires(j)
      PROVE  LifeInv' /\ LifeStep
  BY <1>1, <1>2, RequestSteps, LifeRequest, TypeParts DEF VisibilityExpires, storeVars, runVars
<1>3. ASSUME NEW r \in Runners, Run(r) PROVE LifeInv' /\ LifeStep
  BY <1>3, LifeRun, TypeParts DEF Run, LoneRunner
<1>4. CASE UNCHANGED vars
  BY <1>1, <1>4 DEF vars, storeVars, runVars
<1> QED BY <1>2, <1>3, <1>4, LifeLoop DEF Next, RunnerStep, LoopStep, LoneRunner

\* With one queue runner, no cancel request and a job table that can be written,
\* every step of the portal on the Azure queue is a step of the promised life
\* cycle, even when a request fails after the service has its message.
THEOREM AzureLifecycleImplemented ==
  ASSUME LoneRunner
  PROVE  Spec => LifecycleSpec
<1>1. Init => LifeInv /\ Lifecycle!Init /\ SoleInv
  BY LifeInit, SoleInit DEF Init
<1>2. Init => RecordsAreSent
  BY DEF Init, AzureInit, RecordsAreSent
<1>3. TypeOK /\ ClaimInv /\ RecordsAreSent /\ [Next]_vars => RecordsAreSent'
  BY RecordsStaySent
<1>4. TypeOK /\ ClaimInv /\ SoleInv /\ [Next]_vars => SoleInv'
  BY StatusStep, EnterClaim, SoleMoves DEF LoneRunner
<1>5. TypeOK /\ ClaimInv /\ SoleInv /\ RecordsAreSent /\ LifeInv /\ [Next]_vars
        => LifeInv' /\ [Lifecycle!Next]_status
  BY LifeAlways DEF LifeStep
<1>6. Lifecycle!Spec <=> Lifecycle!Init /\ [][Lifecycle!Next]_status
  BY DEF Lifecycle!Spec
<1> QED
  BY <1>1, <1>2, <1>3, <1>4, <1>5, <1>6, ClaimsAlways, PTL DEF Spec, LifecycleSpec
=============================================================================
