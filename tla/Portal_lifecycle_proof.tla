------------------------ MODULE Portal_lifecycle_proof ------------------------
(***************************************************************************)
(* The portal implements JobLifecycle where one queue runner works alone:  *)
(* the findings about two claims and about cancel requests need another    *)
(* actor, and a terminal status is overwritten only when the update that   *)
(* follows mark_completed fails.                                           *)
(***************************************************************************)
EXTENDS Portal_deployment_proof

LoneRunner ==
    /\ OneRunner
    /\ DirectRunners = {}
    /\ Cancellers = {}
    /\ "database" \notin Faults

\* A record in the message table is that of a job whose message was sent: so a
\* runner that finds the record claims no job whose request may still fail.
RecordsAreSent == \A j \in Jobs : record[j] # "none" => request[j] \in Sent

\* A record comes with the enqueue, and a request is never taken back.
LEMMA RecordsStaySent ==
  ASSUME TypeOK, ClaimInv, RecordsAreSent, [Next]_vars
  PROVE  RecordsAreSent'
<1> USE DEF TypeOK, StoreTypeOK, QueueTypeOK
<1>1. ASSUME UNCHANGED request,
             \A j \in Jobs : record'[j] # "none" => record[j] # "none"
      PROVE  RecordsAreSent'
  BY <1>1 DEF RecordsAreSent
<1>2. ASSUME NEW j \in Jobs,
             Submit(j) \/ WebStep(j) \/ RequestFails(j) \/ VisibilityExpires(j)
      PROVE  RecordsAreSent'
  <2>1. CASE Submit(j) \/ FinishRequest(j) \/ RequestFails(j)
    <3>1. \A k \in Jobs : request[k] \in Sent => request'[k] \in Sent
      BY <2>1, SentStays, TypeParts DEF Submit, FinishRequest, RequestFails, RequestStep
    <3>2. UNCHANGED record
      BY <2>1 DEF Submit, FinishRequest, RequestFails, queueVars
    <3> QED BY <3>1, <3>2 DEF RecordsAreSent
  <2>2. CASE Enqueue(j)
    BY <2>2 DEF Enqueue, EnqueueReturns, EnqueueJob, RecordsAreSent, Sent
  <2>3. CASE VisibilityExpires(j)
    BY <1>1, <2>3 DEF VisibilityExpires, BecomesVisible, storeVars
  <2> QED BY <1>2, <2>1, <2>2, <2>3 DEF WebStep
<1>3. ASSUME NEW c \in Cancellers, Cancel(c) PROVE RecordsAreSent'
  BY <1>1, <1>3 DEF Cancel, CancelCheck, CancelSave, queueVars
<1>4. ASSUME NEW r \in Runners, Run(r) PROVE RecordsAreSent'
  BY <1>1, <1>4, RunGoes, TypeParts DEF Run, queueVars
<1>5. ASSUME NEW r \in Runners,
             \/ Receive(r) \/ Inspect(r) \/ Settle(r) \/ Delete(r) \/ Abandon(r)
             \/ LoopDies(r) \/ StartDirect(r) \/ Crash(r) \/ Restart(r)
      PROVE  RecordsAreSent'
  BY <1>1, <1>5 DEF Receive, ReceiveMessage, OldestVisible, Inspect, Settle, Delete,
     DeleteMessage, Abandon, AbandonMessage, ReceiptValid, LoopDies, ReceiptExpired,
     StartDirect, Crash, ReleaseLocks, Restart, storeVars, queueVars
<1>6. CASE UNCHANGED vars
  BY <1>1, <1>6 DEF vars, storeVars, queueVars
<1> QED BY <1>2, <1>3, <1>4, <1>5, <1>6 DEF Next, RunnerStep

\* The loop changes no status; it decides to claim a job whose record it found.
LEMMA LifeLoop ==
  ASSUME LoneRunner, TypeOK, ClaimInv, RecordsAreSent, LifeInv, NEW r \in Runners,
         \/ Receive(r) \/ Inspect(r) \/ Settle(r) \/ Delete(r) \/ Abandon(r)
         \/ LoopDies(r) \/ StartDirect(r) \/ Crash(r) \/ Restart(r)
  PROVE  LifeInv' /\ LifeStep
<1> USE DEF TypeOK, RunTypeOK, Step, PutDown, TakeUp, Goto
<1>1. \A q \in Runners : q = r
  BY DEF LoneRunner, OneRunner
<1>2. {"idle", "dead", "inspect", "delete", "abandon"} \cap Claimed = {}
  BY DEF Claimed, RunPoints
<1>3. UNCHANGED <<status, request>>
  BY DEF Receive, Inspect, Settle, Delete, Abandon, LoopDies, StartDirect, Crash,
     ReleaseLocks, Restart, storeVars
<1>4. CASE Inspect(r)
  <2>1. pc[r] = "inspect" /\ pc'[r] = Decision(current[r]) /\ current' = current
    BY <1>4 DEF Inspect
  <2>2. Decision(current[r]) = "claim" => request[current[r]] \in Sent
    BY <2>1 DEF Decision, RecordsAreSent, ClaimInv, BusyRunnersHaveJobs
  <2> QED BY <1>1, <1>2, <1>3, <2>1, <2>2, LifeCalm DEF Decision
<1>5. CASE ~Inspect(r)
  <2>1. pc'[r] \in {"idle", "dead", "inspect", "delete", "abandon"}
    BY <1>5 DEF Receive, Settle, Delete, Abandon, LoopDies, StartDirect, Crash, Restart,
       LoneRunner
  <2> QED BY <1>1, <1>2, <1>3, <2>1, LifeCalm
<1> QED BY <1>4, <1>5

\* Every step keeps LifeInv and is a step of the life cycle, or none.
LEMMA LifeAlways ==
  ASSUME LoneRunner, TypeOK, ClaimInv, SoleInv, RecordsAreSent, LifeInv, [Next]_vars
  PROVE  LifeInv' /\ LifeStep
<1>1. ASSUME UNCHANGED <<status, request, pc, current>> PROVE LifeInv' /\ LifeStep
  BY <1>1, LifeCalm DEF LifeInv
<1>2. ASSUME NEW j \in Jobs,
             Submit(j) \/ WebStep(j) \/ RequestFails(j) \/ VisibilityExpires(j)
      PROVE  LifeInv' /\ LifeStep
  BY <1>1, <1>2, RequestSteps, LifeRequest, TypeParts DEF VisibilityExpires, storeVars, runVars
<1>3. ASSUME NEW r \in Runners, Run(r) PROVE LifeInv' /\ LifeStep
  BY <1>3, LifeRun, TypeParts DEF Run, LoneRunner
<1>4. CASE UNCHANGED vars
  BY <1>1, <1>4 DEF vars, storeVars, runVars
<1> QED BY <1>2, <1>3, <1>4, LifeLoop DEF Next, RunnerStep, LoneRunner

\* With one queue runner, no cancel request and a job table that can be written,
\* every step of the portal is a step of the promised life cycle: no job starts
\* beside another, none ends twice, and only queued jobs are refused.
THEOREM LifecycleImplemented ==
  ASSUME LoneRunner
  PROVE  Spec => LifecycleSpec
<1>1. Init => LifeInv /\ Lifecycle!Init /\ SoleInv
  BY LifeInit, SoleInit DEF Init
<1>2. Init => RecordsAreSent
  BY DEF Init, QueueInit, RecordsAreSent
<1>3. TypeOK /\ ClaimInv /\ RecordsAreSent /\ [Next]_vars => RecordsAreSent'
  BY RecordsStaySent
<1>4. TypeOK /\ ClaimInv /\ SoleInv /\ [Next]_vars => SoleInv'
  BY SoleStep DEF LoneRunner
<1>5. TypeOK /\ ClaimInv /\ SoleInv /\ RecordsAreSent /\ LifeInv /\ [Next]_vars
        => LifeInv' /\ [Lifecycle!Next]_status
  BY LifeAlways DEF LifeStep
<1>6. Lifecycle!Spec <=> Lifecycle!Init /\ [][Lifecycle!Next]_status
  BY DEF Lifecycle!Spec
<1> QED
  BY <1>1, <1>2, <1>3, <1>4, <1>5, <1>6, TypeCorrect, ClaimProtocol, PTL
  DEF Spec, LifecycleSpec
=============================================================================
