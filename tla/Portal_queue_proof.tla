-------------------------- MODULE Portal_queue_proof --------------------------
(***************************************************************************)
(* The portal implements the promise of its job queue: every step of       *)
(* Portal is a step of WorkQueue, or leaves the queue as it is.            *)
(***************************************************************************)
EXTENDS Portal_proof

Over == {j \in Jobs : Terminal(j)}

\* The step seen by the queue.
QueueStep == Queue!Next \/ UNCHANGED <<MessageState, Over>>

\* A message is sent by the request that created its job, and sent once.
SentOnce == \A j \in Jobs : request[j] \in {"none", "created"} => created[j] = 0

-----------------------------------------------------------------------------
\* Only the return of enqueue_job sets created_at, and it ends the request's
\* state "created".
LEMMA SentStep ==
  ASSUME TypeOK, SentOnce, [Next]_vars
  PROVE  SentOnce'
<1> USE DEF SentOnce, TypeOK, StoreTypeOK, QueueTypeOK
<1>1. ASSUME UNCHANGED <<request, created>> PROVE SentOnce'
  BY <1>1
<1>2. ASSUME NEW j \in Jobs,
             Submit(j) \/ WebStep(j) \/ RequestFails(j) \/ VisibilityExpires(j)
      PROVE  SentOnce'
  BY <1>2 DEF Submit, CreateRow, WebStep, Enqueue, EnqueueReturns, EnqueueJob,
     FinishRequest, SaveMessageId, RecordEnqueueFailure, RequestFails, EnqueueRaises,
     WebCrash, VisibilityExpires, BecomesVisible, storeVars, queueVars
<1>3. ASSUME NEW c \in Cancellers, Cancel(c) PROVE SentOnce'
  BY <1>1, <1>3 DEF Cancel, CancelCheck, CancelSave, queueVars
<1>4. ASSUME NEW r \in Runners, Run(r) PROVE SentOnce'
  BY <1>1, <1>4
  DEF Run, RunStep, BeginClaim, ClaimLock, ClaimFails, ClaimRefused, FinishClaim,
      ClaimCommit, Prepare, PrepareRaises, DriverReturns, TimeoutWithOutput, DriverRaises,
      UploadAll, UploadRaises, RecordAll, RecordRaises, PutArtifacts, RecordArtifacts,
      MarkTimedOut, MarkExitCode, MarkSuccess, StampRuntime, UpdateRaises, Rescue,
      RescueRaises, MarkFailed, MarkCompleted, storeVars, queueVars
<1>5. ASSUME NEW r \in Runners,
             \/ Receive(r) \/ Inspect(r) \/ Settle(r) \/ Delete(r) \/ Abandon(r)
             \/ LoopDies(r) \/ StartDirect(r) \/ Crash(r) \/ Restart(r)
      PROVE  SentOnce'
  BY <1>1, <1>5 DEF Receive, ReceiveMessage, Inspect, Settle, Delete, DeleteMessage,
     Abandon, AbandonMessage, LoopDies, ReceiptExpired, StartDirect, Crash, ReleaseLocks,
     Restart, storeVars, queueVars
<1>6. CASE UNCHANGED vars
  BY <1>1, <1>6 DEF vars, storeVars, queueVars
<1> QED BY <1>2, <1>3, <1>4, <1>5, <1>6 DEF Next, RunnerStep

\* A step that leaves the message table alone and writes at most one row of
\* the job table concludes at most one job.
LEMMA RowMovesQueue ==
  ASSUME TypeOK, StatusMoves, UNCHANGED <<record, created>>, NEW j \in Jobs,
         \A k \in Jobs \ {j} : status'[k] = status[k]
  PROVE  QueueStep
<1>1. UNCHANGED MessageState
  BY DEF MessageState
<1>2. \A k \in Jobs : Terminal(k) => Terminal(k)'
  BY DEF StatusMoves, Terminal, TerminalValues
<1>3. CASE Terminal(j)' /\ ~Terminal(j)
  <2>1. j \notin Over /\ Over' = Over \cup {j}
    BY <1>2, <1>3 DEF Over, Terminal
  <2>2. Queue!Conclude(j)
    BY <1>1, <2>1 DEF Queue!Conclude, Over
  <2> QED BY <2>2 DEF QueueStep, Queue!Next
<1>4. CASE ~(Terminal(j)' /\ ~Terminal(j))
  <2>1. Over' = Over
    BY <1>2, <1>4 DEF Over, Terminal
  <2> QED BY <1>1, <2>1 DEF QueueStep
<1> QED BY <1>3, <1>4

\* Likewise for a step that writes no row at all.
LEMMA QueueCalm ==
  ASSUME UNCHANGED <<record, created, status>>
  PROVE  QueueStep
BY DEF QueueStep, MessageState, Over, Terminal

\* A step that changes the state of one message and no job's status.
LEMMA MessageMovesQueue ==
  ASSUME NEW m \in Jobs, UNCHANGED status, NEW to,
         MessageState' = [MessageState EXCEPT ![m] = to],
         \/ MessageState[m] = "unsent" /\ to = "waiting"
         \/ MessageState[m] = "waiting" /\ to = "taken"
         \/ MessageState[m] = "taken" /\ to = "waiting"
         \/ MessageState[m] \in {"waiting", "taken"} /\ to = "gone" /\ m \in Over
         \/ MessageState[m] = to
  PROVE  QueueStep
<1>1. UNCHANGED Over
  BY DEF Over, Terminal
<1>2. CASE MessageState[m] = to
  BY <1>1, <1>2 DEF QueueStep, MessageState
<1>3. CASE MessageState[m] # to
  <2>1. Queue!Send(m) \/ Queue!Take(m) \/ Queue!Return(m) \/ Queue!Remove(m)
    BY <1>1, <1>3 DEF Queue!Send, Queue!Take, Queue!Return, Queue!Remove, Queue!Move, Over
  <2> QED BY <2>1 DEF QueueStep, Queue!Next
<1> QED BY <1>2, <1>3
-----------------------------------------------------------------------------
\* Every step of the portal is a step of the promised queue.
LEMMA QueueRefinement ==
  ASSUME TypeOK, ClaimInv, MessageInv, SentOnce, [Next]_vars
  PROVE  QueueStep
<1> USE DEF TypeOK, StoreTypeOK, QueueTypeOK
<1>1. StatusMoves
  BY StatusStep
<1>2. ASSUME NEW j \in Jobs, UNCHANGED queueVars,
             \A k \in Jobs \ {j} : status'[k] = status[k]
      PROVE  QueueStep
  BY <1>1, <1>2, RowMovesQueue DEF queueVars
<1>3. ASSUME UNCHANGED queueVars, UNCHANGED status PROVE QueueStep
  BY <1>3, QueueCalm DEF queueVars
<1>4. ASSUME NEW j \in Jobs, NEW st, NEW msg, WriteRow(j, st, msg), UNCHANGED queueVars
      PROVE  QueueStep
  BY <1>2, <1>4 DEF WriteRow
<1>5. ASSUME NEW j \in Jobs,
             Submit(j) \/ WebStep(j) \/ RequestFails(j) \/ VisibilityExpires(j)
      PROVE  QueueStep
  <2>1. CASE Submit(j)
    BY <1>2, <2>1 DEF Submit, CreateRow
  <2>2. CASE Enqueue(j)
    <3>1. created[j] = 0 /\ record[j] = "none"
      BY <2>2 DEF Enqueue, EnqueueReturns, SentOnce, MessageInv, MessagesWereCreated
    <3>2. record' = [record EXCEPT ![j] = "visible"] /\ UNCHANGED status
          /\ created' = [created EXCEPT ![j] = sent + 1]
      BY <2>2 DEF Enqueue, EnqueueReturns, EnqueueJob
    <3>3. MessageState' = [MessageState EXCEPT ![j] = "waiting"] /\ MessageState[j] = "unsent"
      BY <3>1, <3>2 DEF MessageState
    <3> QED BY <3>2, <3>3, MessageMovesQueue
  <2>3. CASE FinishRequest(j)
    BY <1>3, <1>4, <2>3 DEF FinishRequest, SaveMessageId, RecordEnqueueFailure
  <2>4. CASE RequestFails(j)
    BY <1>3, <2>4 DEF RequestFails, EnqueueRaises, WebCrash
  <2>5. CASE VisibilityExpires(j)
    <3>1. /\ record[j] = "hidden" /\ record' = [record EXCEPT ![j] = "visible"]
          /\ UNCHANGED <<created, status>>
      BY <2>5 DEF VisibilityExpires, BecomesVisible, storeVars
    <3>2. MessageState' = [MessageState EXCEPT ![j] = "waiting"] /\ MessageState[j] = "taken"
      BY <3>1 DEF MessageState
    <3> QED BY <3>1, <3>2, MessageMovesQueue
  <2> QED BY <1>5, <2>1, <2>2, <2>3, <2>4, <2>5 DEF WebStep
<1>6. ASSUME NEW c \in Cancellers, Cancel(c) PROVE QueueStep
  <2>1. CASE \E j \in Jobs : CancelCheck(c, j)
    BY <1>3, <1>6, <2>1 DEF Cancel, CancelCheck
  <2>2. CASE CancelSave(c)
    <3>1. cancelling[c] \in Jobs /\ WriteRow(cancelling[c], "cancelled", "cancelled by user")
      BY <2>2 DEF CancelSave
    <3> QED BY <1>4, <1>6, <3>1 DEF Cancel
  <2> QED BY <1>6, <2>1, <2>2 DEF Cancel
<1>7. ASSUME NEW r \in Runners, Run(r) PROVE QueueStep
  <2>1. pc[r] \in RunPoints \cup {"claiming"} => current[r] \in Jobs
    BY DEF ClaimInv, BusyRunnersHaveJobs, RunPoints
  <2>2. CASE MarkTimedOut(r) \/ MarkExitCode(r) \/ MarkSuccess(r) \/ Rescue(r)
    BY <1>4, <1>7, <2>1, <2>2 DEF Run, MarkTimedOut, MarkExitCode, MarkSuccess, Rescue,
       MarkFailed, MarkCompleted, Step, RunPoints
  <2>3. CASE FinishClaim(r)
    BY <1>2, <1>7, <2>1, <2>3 DEF Run, FinishClaim, ClaimCommit, Step
  <2>4. CASE UNCHANGED status
    BY <1>3, <1>7, <2>4 DEF Run
  <2> QED
    BY <1>7, <2>2, <2>3, <2>4
    DEF Run, RunStep, BeginClaim, ClaimLock, ClaimFails, ClaimRefused, Prepare,
        PrepareRaises, DriverReturns, TimeoutWithOutput, DriverRaises, UploadAll,
        UploadRaises, RecordAll, RecordRaises, PutArtifacts, RecordArtifacts,
        StampRuntime, UpdateRaises, RescueRaises, storeVars
<1>8. ASSUME NEW r \in Runners, Receive(r) PROVE QueueStep
  <2>1. PICK m \in Jobs : ReceiveMessage(r, m)
    BY <1>8 DEF Receive
  <2>2. /\ record[m] = "visible" /\ record' = [record EXCEPT ![m] = "hidden"]
        /\ UNCHANGED <<created, status>>
    BY <1>8, <2>1 DEF Receive, ReceiveMessage, OldestVisible, storeVars
  <2>3. MessageState' = [MessageState EXCEPT ![m] = "taken"] /\ MessageState[m] = "waiting"
    BY <2>2 DEF MessageState
  <2> QED BY <2>2, <2>3, MessageMovesQueue
<1>9. ASSUME NEW r \in Runners, Delete(r) PROVE QueueStep
  <2> DEFINE m == current[r]
  <2>1. m \in Jobs /\ m \in Over /\ record[m] # "none" /\ created[m] # 0
    BY <1>9 DEF Delete, DeleteMessage, ReceiptValid, ClaimInv, BusyRunnersHaveJobs,
       MessageInv, MessagesWereCreated, DeletionsAreSafe, Over
  <2>2. record' = [record EXCEPT ![m] = "none"] /\ UNCHANGED <<created, status>>
    BY <1>9 DEF Delete, DeleteMessage, storeVars
  <2>3. /\ MessageState' = [MessageState EXCEPT ![m] = "gone"]
        /\ MessageState[m] \in {"waiting", "taken"}
    BY <2>1, <2>2 DEF MessageState
  <2> HIDE DEF m
  <2> QED BY <2>1, <2>2, <2>3, MessageMovesQueue
<1>10. ASSUME NEW r \in Runners, Abandon(r) PROVE QueueStep
  <2> DEFINE m == current[r]
  <2>1. m \in Jobs /\ record[m] # "none"
    BY <1>10 DEF Abandon, AbandonMessage, ReceiptValid, ClaimInv, BusyRunnersHaveJobs
  <2>2. record' = [record EXCEPT ![m] = "visible"] /\ UNCHANGED <<created, status>>
    BY <1>10 DEF Abandon, AbandonMessage, storeVars
  <2>3. /\ MessageState' = [MessageState EXCEPT ![m] = "waiting"]
        /\ MessageState[m] \in {"waiting", "taken"}
    BY <2>1, <2>2 DEF MessageState
  <2> HIDE DEF m
  <2> QED BY <2>1, <2>2, <2>3, MessageMovesQueue
<1>11. ASSUME NEW r \in Runners,
              Inspect(r) \/ Settle(r) \/ LoopDies(r) \/ StartDirect(r) \/ Crash(r) \/ Restart(r)
       PROVE  QueueStep
  BY <1>3, <1>11 DEF Inspect, Settle, LoopDies, ReceiptExpired, StartDirect, Crash,
     ReleaseLocks, Restart, storeVars
<1>12. CASE UNCHANGED vars
  BY <1>3, <1>12 DEF vars, storeVars
<1> QED
  BY <1>5, <1>6, <1>7, <1>8, <1>9, <1>10, <1>11, <1>12 DEF Next, RunnerStep

\* The portal keeps the promise of its queue: a message is sent once, waits or
\* is taken until its job is terminal, and goes only then.
THEOREM QueueImplemented == Spec => QueueSpec
<1>1. Init => Queue!Init
  <2> SUFFICES ASSUME Init PROVE Queue!Init
    OBVIOUS
  <2>1. \A j \in Jobs : ~Terminal(j) /\ record[j] = "none" /\ created[j] = 0
    BY DEF Init, StoreInit, QueueInit, Terminal, TerminalValues
  <2>2. MessageState = [m \in Jobs |-> "unsent"]
    BY <2>1 DEF MessageState
  <2>3. {j \in Jobs : Terminal(j)} = {}
    BY <2>1
  <2> QED BY <2>2, <2>3 DEF Queue!Init
<1>2. Init => SentOnce
  BY DEF Init, StoreInit, QueueInit, SentOnce
<1>3. Spec => []SentOnce
  BY <1>2, SentStep, TypeCorrect, PTL DEF Spec
<1>4. Spec => []MessageInv
  BY MessageInit, MessageStep, TypeCorrect, ClaimProtocol, PTL DEF Spec
<1>5. TypeOK /\ ClaimInv /\ MessageInv /\ SentOnce /\ [Next]_vars
        => [Queue!Next]_<<MessageState, Over>>
  BY QueueRefinement DEF QueueStep
<1>6. Queue!Spec <=> Queue!Init /\ [][Queue!Next]_<<MessageState, Over>>
  BY DEF Queue!Spec, Over
<1> QED
  BY <1>1, <1>3, <1>4, <1>5, <1>6, TypeCorrect, ClaimProtocol, PTL DEF Spec, QueueSpec
=============================================================================
