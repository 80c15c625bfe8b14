----------------------- MODULE Portal_deployment_proof -----------------------
(***************************************************************************)
(* What holds of Portal only where it is deployed in a certain way: with   *)
(* one runner process, or with a visibility timeout longer than any run.   *)
(***************************************************************************)
EXTENDS Portal_proof

-----------------------------------------------------------------------------
(* One runner: claim_job's unlocked look for a running job is enough.      *)

\* No step of the portal takes a runner into claim_job but by locking a row.
LEMMA EnterClaim ==
  ASSUME TypeOK, [Next]_vars
  PROVE  EntersByLock
<1> USE TypeParts
<1>1. ASSUME UNCHANGED pc PROVE EntersByLock
  BY <1>1 DEF EntersByLock
<1>2. ASSUME NEW j \in Jobs,
             Submit(j) \/ WebStep(j) \/ RequestFails(j) \/ VisibilityExpires(j)
      PROVE  EntersByLock
  BY <1>1, <1>2, RequestSteps DEF VisibilityExpires, runVars
<1>3. ASSUME NEW r \in Runners, Run(r) PROVE EntersByLock
  BY <1>3, EnterRun DEF Run
<1>4. ASSUME NEW r \in Runners,
             \/ Receive(r) \/ Inspect(r) \/ Settle(r) \/ Delete(r) \/ Abandon(r)
             \/ LoopDies(r) \/ StartDirect(r) \/ Crash(r) \/ Restart(r)
      PROVE  EntersByLock
  BY <1>4, EnterElsewhere DEF Receive, Inspect, Decision, Settle, Delete, Abandon, LoopDies,
     StartDirect, Crash, Restart, Step, PutDown, TakeUp, RunnerPoints
<1>5. CASE UNCHANGED vars \/ \E c \in Cancellers : Cancel(c)
  BY <1>1, <1>5 DEF vars, runVars, Cancel
<1> QED BY <1>2, <1>3, <1>4, <1>5 DEF Next, RunnerStep

\* With one runner, every step keeps SoleInv.
LEMMA SoleStep ==
  ASSUME OneRunner, TypeOK, ClaimInv, SoleInv, [Next]_vars
  PROVE  SoleInv'
BY StatusStep, EnterClaim, SoleMoves

\* With a single runner process, crashed and restarted as it may be, at most one
\* job is running.
THEOREM OneRunnerOneJob ==
  ASSUME OneRunner
  PROVE  Spec => []SingleActive
<1>1. Init => SoleInv
  BY SoleInit DEF Init
<1>2. TypeOK /\ ClaimInv /\ SoleInv /\ [Next]_vars => SoleInv'
  BY SoleStep
<1>3. SoleInv => SingleActive
  BY DEF SoleInv
<1> QED BY <1>1, <1>2, <1>3, TypeCorrect, ClaimProtocol, PTL DEF Spec

-----------------------------------------------------------------------------
(* No killed runner, no failure outside the try statement of the run.      *)

\* Without the failures that strand a job, every step keeps AttendInv.
LEMMA AttendStep ==
  ASSUME NothingStrands, TypeOK, ClaimInv, AttendInv, [Next]_vars
  PROVE  AttendInv'
<1>1. RunnerTypeOK /\ StatusMoves
  BY TypeParts, StatusStep
<1>2. ASSUME UNCHANGED <<status, pc, current>> PROVE AttendInv'
  BY <1>1, <1>2, AttendCalm DEF Executing
<1>3. ASSUME NEW j \in Jobs,
             Submit(j) \/ WebStep(j) \/ RequestFails(j) \/ VisibilityExpires(j)
      PROVE  AttendInv'
  BY <1>1, <1>2, <1>3, RequestSteps, AttendRequest DEF VisibilityExpires, storeVars, runVars
<1>4. ASSUME NEW c \in Cancellers, Cancel(c) PROVE AttendInv'
  BY <1>1, <1>4, CancelSteps, AttendRequest
<1>5. ASSUME NEW r \in Runners, Run(r) PROVE AttendInv'
  BY <1>1, <1>5, AttendRun DEF Run
<1>6. ASSUME NEW r \in Runners,
             \/ Receive(r) \/ Inspect(r) \/ Settle(r) \/ Delete(r) \/ Abandon(r)
             \/ LoopDies(r) \/ StartDirect(r) \/ Restart(r)
      PROVE  AttendInv'
  <2>1. UNCHANGED status /\ pc[r] \notin RunPoints
    BY <1>6 DEF Receive, Inspect, Settle, Delete, Abandon, LoopDies, StartDirect, Restart,
       storeVars, Step, RunPoints
  <2>2. \E p \in RunnerPoints \ (RunPoints \cup {"settle"}), j \in Jobs \cup {NoOne},
        from \in RunnerPoints :
           Step(r, from, p) \/ TakeUp(r, j, p)
    BY <1>6 DEF Receive, Inspect, Decision, Settle, Delete, Abandon, LoopDies, StartDirect,
       Restart, PutDown, RunnerPoints, RunPoints
  <2> QED BY <1>1, <2>1, <2>2, AttendLoop
<1>7. CASE UNCHANGED vars
  BY <1>2, <1>7 DEF vars, storeVars, runVars
<1>8. ASSUME NEW r \in Runners PROVE ~Crash(r)
  BY DEF Crash, NothingStrands
<1> QED BY <1>3, <1>4, <1>5, <1>6, <1>7, <1>8 DEF Next, RunnerStep

\* Only a killed runner, a failing preparation or a failing failure handler leaves
\* a job running by nobody: an expired receipt, a late cancel request or a failing
\* upload does not.
THEOREM RunningJobsAttended ==
  ASSUME NothingStrands
  PROVE  Spec => []NoneStranded
<1>1. Init => AttendInv
  BY AttendInit DEF Init
<1>2. TypeOK /\ ClaimInv /\ AttendInv /\ [Next]_vars => AttendInv'
  BY AttendStep
<1>3. AttendInv => NoneStranded
  BY DEF AttendInv
<1> QED BY <1>1, <1>2, <1>3, TypeCorrect, ClaimProtocol, PTL DEF Spec

-----------------------------------------------------------------------------
(* A visibility timeout longer than any run: receipts never expire.        *)

\* A queue runner that works on a message is the last that received it, and
\* the message is hidden from the others.
ReceiptInv ==
    /\ \A j \in Jobs : request[j] \in {"none", "created"} => record[j] = "none"
    /\ \A r \in Runners : pc[r] \in {"inspect", "delete", "abandon"} => r \in QueueRunners
    /\ \A r \in QueueRunners :
          pc[r] \notin {"idle", "dead"} =>
              record[current[r]] = "hidden" /\ receipt[current[r]] = r

\* A step that leaves the messages alone, and in which a runner goes on with
\* its message or puts it down.
LEMMA ReceiptCalm ==
  ASSUME ReceiptInv, UNCHANGED queueVars,
         \A j \in Jobs : request'[j] \in {"none", "created"} => request[j] \in {"none", "created"},
         \A r \in Runners :
            \/ pc'[r] \in {"idle", "dead"}
            \/ /\ pc'[r] \in {"inspect", "delete", "abandon"} => r \in QueueRunners
               /\ r \in QueueRunners => pc[r] \notin {"idle", "dead"} /\ current'[r] = current[r]
  PROVE  ReceiptInv'
BY DEF ReceiptInv, queueVars, Runners

\* run_command_plot_job leaves the message and its receipt to its runner.
LEMMA ReceiptRun ==
  ASSUME TypeOK, ReceiptInv, NEW r \in Runners, Run(r)
  PROVE  ReceiptInv'
<1>1. RunStep(r) /\ UNCHANGED queueVars
  BY DEF Run
<1>2. /\ UNCHANGED request /\ pc[r] \notin {"idle", "dead"}
      /\ \/ pc'[r] \notin {"idle", "dead", "inspect", "delete"} /\ current'[r] = current[r]
         \/ pc'[r] = "idle"
      /\ pc'[r] = "abandon" => r \in QueueRunners
      /\ \A q \in Runners \ {r} : pc'[q] = pc[q] /\ current'[q] = current[q]
  BY <1>1, RunGoes, TypeParts DEF Onward, RunPoints
<1> QED BY <1>1, <1>2, ReceiptCalm DEF ReceiptInv, Runners

\* Every step of the portal keeps the receipts of the working runners current.
LEMMA ReceiptStep ==
  ASSUME VisibilityCoversRun, TypeOK, ClaimInv, ReceiptInv, [Next]_vars
  PROVE  ReceiptInv'
<1> USE DEF TypeOK, QueueTypeOK, RunTypeOK
<1>1. \A r \in Runners : pc[r] \notin {"idle", "dead"} => current[r] \in Jobs
  BY DEF ClaimInv, BusyRunnersHaveJobs
<1>2. ASSUME NEW j \in Jobs,
             Submit(j) \/ WebStep(j) \/ RequestFails(j) \/ VisibilityExpires(j)
      PROVE  ReceiptInv'
  <2>1. CASE Submit(j) \/ FinishRequest(j) \/ RequestFails(j)
    <3>1. \A k \in Jobs :
             request'[k] \in {"none", "created"} => request[k] \in {"none", "created"}
      BY <2>1 DEF Submit, CreateRow, FinishRequest, SaveMessageId, RecordEnqueueFailure,
         RequestFails, EnqueueRaises, WebCrash, StoreTypeOK
    <3>2. UNCHANGED <<queueVars, runVars>>
      BY <2>1 DEF Submit, FinishRequest, RequestFails
    <3> QED BY <3>1, <3>2, ReceiptCalm DEF runVars, ReceiptInv, Runners
  <2>2. CASE Enqueue(j)
    BY <1>1, <2>2 DEF Enqueue, EnqueueReturns, EnqueueJob, StoreTypeOK, runVars,
       ReceiptInv, Runners
  <2>3. CASE VisibilityExpires(j)
    BY <1>1, <2>3 DEF VisibilityExpires, BecomesVisible, storeVars, runVars, ReceiptInv, Runners
  <2> QED BY <1>2, <2>1, <2>2, <2>3 DEF WebStep
<1>3. ASSUME NEW c \in Cancellers, Cancel(c) PROVE ReceiptInv'
  BY <1>3, ReceiptCalm DEF Cancel, CancelCheck, CancelSave, runVars, ReceiptInv, Runners
<1>4. ASSUME NEW r \in Runners,
             \/ Receive(r) \/ Inspect(r) \/ Settle(r) \/ Delete(r) \/ Abandon(r)
             \/ LoopDies(r) \/ StartDirect(r) \/ Crash(r) \/ Restart(r)
      PROVE  ReceiptInv'
  <2> USE DEF Step, PutDown, TakeUp, Goto
  <2>1. CASE Receive(r)
    BY <1>1, <2>1 DEF Receive, ReceiveMessage, OldestVisible, storeVars, ReceiptInv, Runners
  <2>2. CASE Inspect(r)
    BY <2>2, ReceiptCalm DEF Inspect, Decision, storeVars, ReceiptInv, Runners
  <2>3. CASE Settle(r)
    BY <2>3, ReceiptCalm DEF Settle, storeVars, ReceiptInv, Runners
  <2>4. CASE Delete(r)
    BY <1>1, <2>4 DEF Delete, DeleteMessage, ReceiptValid, storeVars, ReceiptInv, Runners
  <2>5. CASE Abandon(r)
    BY <1>1, <2>5 DEF Abandon, AbandonMessage, ReceiptValid, storeVars, ReceiptInv, Runners
  <2>6. CASE LoopDies(r) \/ Crash(r) \/ Restart(r)
    BY <2>6, ReceiptCalm DEF LoopDies, ReceiptExpired, Crash, ReleaseLocks, Restart,
       storeVars, ReceiptInv, Runners
  <2>7. CASE StartDirect(r)
    BY <2>7, ReceiptCalm, ActorsAssumption DEF StartDirect, storeVars, ReceiptInv, Runners
  <2> QED BY <1>4, <2>1, <2>2, <2>3, <2>4, <2>5, <2>6, <2>7
<1>5. CASE UNCHANGED vars
  BY <1>5, ReceiptCalm DEF vars, storeVars, runVars, ReceiptInv, Runners
<1> QED BY <1>2, <1>3, <1>4, <1>5, ReceiptRun DEF Next, RunnerStep

\* Where the visibility timeout is longer than any run, no runner loop ends on
\* an expired receipt, and every runner deletes the message it worked on.
THEOREM LongTimeoutKeepsLoops ==
  ASSUME VisibilityCoversRun
  PROVE  Spec => []LoopSurvives
<1>1. Init => ReceiptInv
  <2> SUFFICES ASSUME Init PROVE ReceiptInv
    OBVIOUS
  <2>1. /\ \A r \in Runners : pc[r] = "idle"
        /\ \A j \in Jobs : record[j] = "none"
    BY DEF Init, QueueInit, RunInit
  <2> QED BY <2>1 DEF ReceiptInv, Runners
<1>2. TypeOK /\ ClaimInv /\ ReceiptInv /\ [Next]_vars => ReceiptInv'
  BY ReceiptStep
<1>3. ReceiptInv => LoopSurvives
  BY DEF ReceiptInv, LoopSurvives, ReceiptValid, Runners
<1> QED BY <1>1, <1>2, <1>3, TypeCorrect, ClaimProtocol, PTL DEF Spec
=============================================================================
