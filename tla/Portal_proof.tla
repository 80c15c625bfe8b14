---------------------------- MODULE Portal_proof ----------------------------
(***************************************************************************)
(* Proofs about Portal, for every set of jobs, runners and cancel requests *)
(* and every choice of failures and driver outputs.                        *)
(***************************************************************************)
EXTENDS Portal, PlotRunner_proof

\* The types of the job table and the runners, apart from those of the queue.
LEMMA TypeParts == TypeOK <=> RunnerTypeOK /\ QueueTypeOK
  BY DEF TypeOK, RunnerTypeOK

\* The same of the next state.
LEMMA TypePartsNext == TypeOK' <=> RunnerTypeOK' /\ QueueTypeOK'
  BY DEF TypeOK, RunnerTypeOK

\* What the portal does with its tables is a step of create_queued_job.
LEMMA RequestSteps ==
  ASSUME NEW j \in Jobs, Submit(j) \/ WebStep(j) \/ RequestFails(j)
  PROVE  RequestStep(j) /\ UNCHANGED runVars
  BY DEF Submit, WebStep, Enqueue, FinishRequest, RequestFails, RequestStep

-----------------------------------------------------------------------------
(* Type correctness.                                                       *)

\* The empty portal is well typed.
LEMMA TypeInit == Init => TypeOK
  BY RunnerTypeInit, TypeParts DEF Init, QueueInit, QueueTypeOK

\* The web requests and the passing of time keep every variable in its type.
LEMMA TypeWeb ==
  ASSUME TypeOK, NEW j \in Jobs,
         Submit(j) \/ WebStep(j) \/ RequestFails(j) \/ VisibilityExpires(j)
  PROVE  TypeOK'
<1>1. CASE Submit(j) \/ WebStep(j) \/ RequestFails(j)
  <2>1. RunnerTypeOK'
    BY <1>1, RequestSteps, TypeRequest, TypeParts
  <2>2. QueueTypeOK'
    BY <1>1 DEF TypeOK, QueueTypeOK, queueVars, Submit, WebStep, Enqueue, EnqueueJob,
       FinishRequest, RequestFails
  <2> QED BY <2>1, <2>2, TypePartsNext
<1>2. CASE VisibilityExpires(j)
  BY <1>2 DEF TypeOK, StoreTypeOK, QueueTypeOK, RunTypeOK, storeVars, runVars,
     VisibilityExpires, BecomesVisible
<1> QED BY <1>1, <1>2

\* The cancel view touches neither the messages nor the runners.
LEMMA CancelSteps ==
  ASSUME NEW c \in Cancellers, Cancel(c)
  PROVE  CancelStep(c) /\ UNCHANGED <<queueVars, runVars>>
  BY DEF Cancel, CancelStep

\* The two steps of the cancel view keep every variable in its type.
LEMMA TypeCancel ==
  ASSUME TypeOK, NEW c \in Cancellers, Cancel(c)
  PROVE  TypeOK'
<1>1. RunnerTypeOK'
  BY CancelSteps, TypeCancelStep, TypeParts
<1>2. QueueTypeOK'
  BY CancelSteps DEF TypeOK, QueueTypeOK, queueVars
<1> QED BY <1>1, <1>2, TypePartsNext

\* The loop of run_local_job_runner, the start of a direct runner, crashes and
\* restarts keep every variable in its type.
LEMMA TypeLoop ==
  ASSUME TypeOK, NEW r \in Runners,
         \/ Receive(r) \/ Inspect(r) \/ Settle(r) \/ Delete(r) \/ Abandon(r)
         \/ LoopDies(r) \/ StartDirect(r) \/ Crash(r) \/ Restart(r)
  PROVE  TypeOK'
<1>1. QueueTypeOK'
  BY DEF TypeOK, QueueTypeOK, queueVars, Receive, ReceiveMessage, Inspect, Settle, Delete,
     DeleteMessage, Abandon, AbandonMessage, LoopDies, ReceiptExpired, StartDirect, Crash,
     Restart
<1>2. RunnerTypeOK
  BY TypeParts
<1>3. /\ {"inspect", "claim", "delete", "abandon", "idle", "dead"} \subseteq RunnerPoints
      /\ NoOne \in Jobs \cup {NoOne}
  BY DEF RunnerPoints
<1>4. CASE Crash(r)
  BY <1>1, <1>2, <1>4, TypeCrash, TypePartsNext DEF Crash
<1>5. CASE Inspect(r) \/ Settle(r)
  BY <1>1, <1>2, <1>3, <1>5, TypeMove, TypePartsNext DEF Inspect, Decision, Settle, PutDown
<1>6. CASE Receive(r) \/ StartDirect(r)
  BY <1>1, <1>2, <1>3, <1>6, TypeMove, TypePartsNext DEF Receive, StartDirect
<1>7. CASE Delete(r) \/ Abandon(r) \/ LoopDies(r) \/ Restart(r)
  BY <1>1, <1>2, <1>3, <1>7, TypeMove, TypePartsNext DEF Delete, Abandon, LoopDies, Restart,
     PutDown
<1> QED BY <1>4, <1>5, <1>6, <1>7

\* Every reachable state is well typed: statuses are JobStatus values, a lock
\* is held by a runner, artifacts are of the known kinds.
THEOREM TypeCorrect == Spec => []TypeOK
<1>1. TypeOK /\ [Next]_vars => TypeOK'
  <2> SUFFICES ASSUME TypeOK, [Next]_vars PROVE TypeOK'
    OBVIOUS
  <2>1. CASE UNCHANGED vars
    BY <2>1 DEF vars, storeVars, queueVars, runVars, TypeOK, StoreTypeOK,
       QueueTypeOK, RunTypeOK
  <2>2. ASSUME NEW r \in Runners, Run(r) PROVE TypeOK'
    <3>1. RunnerTypeOK'
      BY <2>2, TypeRun, TypeParts DEF Run
    <3>2. QueueTypeOK'
      BY <2>2 DEF Run, queueVars, TypeOK, QueueTypeOK
    <3> QED BY <3>1, <3>2, TypePartsNext
  <2>3. CASE Next
    BY <2>2, <2>3, TypeWeb, TypeCancel, TypeLoop DEF Next, RunnerStep
  <2> QED BY <2>1, <2>3
<1> QED BY <1>1, TypeInit, PTL DEF Spec

-----------------------------------------------------------------------------
(* The claim protocol.                                                     *)

\* The loop of run_local_job_runner, direct starts, crashes and restarts keep
\* the protocol.
LEMMA ClaimLoop ==
  ASSUME TypeOK, ClaimInv, NEW r \in Runners,
         \/ Receive(r) \/ Inspect(r) \/ Settle(r) \/ Delete(r) \/ Abandon(r)
         \/ LoopDies(r) \/ StartDirect(r) \/ Crash(r) \/ Restart(r)
  PROVE  ClaimInv'
<1>1. /\ {"inspect", "claim", "delete", "abandon", "idle", "dead"}
              \subseteq RunnerPoints \ (RunPoints \cup {"settle", "claiming"})
      /\ {"inspect", "settle"} \subseteq RunnerPoints \ {"idle", "dead", "claiming"}
      /\ RunnerTypeOK
  BY TypeParts DEF RunnerPoints, RunPoints
<1>2. Receive(r) \/ StartDirect(r) => ClaimInv'
  BY <1>1, LoopKeepsClaims DEF Receive, StartDirect
<1>3. Inspect(r) => ClaimInv'
  BY <1>1, LoopKeepsClaims DEF Inspect, Decision
<1>4. Settle(r) => ClaimInv'
  BY <1>1, LoopKeepsClaims DEF Settle
<1>5. Delete(r) \/ Abandon(r) \/ LoopDies(r) \/ Restart(r) => ClaimInv'
  BY <1>1, LoopKeepsClaims DEF Delete, Abandon, LoopDies, Restart
<1>6. Crash(r) => ClaimInv'
  BY <1>1, CrashKeepsClaims DEF Crash
<1> QED BY <1>2, <1>3, <1>4, <1>5, <1>6

\* Every step of the portal keeps the claim protocol.
LEMMA ClaimStep ==
  ASSUME TypeOK, ClaimInv, [Next]_vars
  PROVE  ClaimInv'
<1> USE TypeParts
<1>1. CASE UNCHANGED vars
  BY <1>1, ClaimCalm DEF vars
<1>2. ASSUME NEW j \in Jobs, Submit(j) \/ WebStep(j) \/ RequestFails(j) PROVE ClaimInv'
  BY <1>2, RequestSteps, ClaimRequest
<1>3. ASSUME NEW j \in Jobs, VisibilityExpires(j) PROVE ClaimInv'
  BY <1>3, ClaimCalm DEF VisibilityExpires
<1>4. ASSUME NEW r \in Runners, Run(r) PROVE ClaimInv'
  BY <1>4, ClaimRun DEF Run
<1>5. ASSUME NEW c \in Cancellers, Cancel(c) PROVE ClaimInv'
  BY <1>5, CancelSteps, ClaimCancel
<1>6. CASE Next
  BY <1>2, <1>3, <1>4, <1>5, <1>6, ClaimLoop DEF Next, RunnerStep
<1> QED BY <1>1, <1>6

\* Locks, rows and runners agree in every reachable state: this is the inductive
\* invariant of services.claim_job.
THEOREM ClaimProtocol == Spec => []ClaimInv
BY ClaimInit, ClaimStep, TypeCorrect, PTL DEF Spec, Init

\* However often a message is delivered and whatever runners are started, no
\* job is executed by two of them at once: the row lock of claim_job is enough.
THEOREM ExecutionIsExclusive == Spec => []ExclusiveExecution
BY ClaimsExclude, ClaimProtocol, PTL

-----------------------------------------------------------------------------
(* The statuses a step may write.                                          *)

\* Every step of the portal moves the statuses as StatusMoves says.
LEMMA StatusStep ==
  ASSUME TypeOK, ClaimInv, [Next]_vars
  PROVE  StatusMoves
<1>1. RunnerTypeOK
  BY TypeParts
<1>2. ASSUME NEW j \in Jobs, Submit(j) \/ WebStep(j) \/ RequestFails(j) PROVE StatusMoves
  BY <1>1, <1>2, RequestSteps, StatusRequest
<1>3. ASSUME NEW c \in Cancellers, Cancel(c) PROVE StatusMoves
  BY <1>1, <1>3, CancelSteps, StatusCancel
<1>4. ASSUME NEW r \in Runners, Run(r) PROVE StatusMoves
  BY <1>1, <1>4, StatusRun DEF Run
<1>5. ASSUME NEW r \in Runners,
             \/ Receive(r) \/ Inspect(r) \/ Settle(r) \/ Delete(r) \/ Abandon(r)
             \/ LoopDies(r) \/ StartDirect(r) \/ Crash(r) \/ Restart(r)
      PROVE  StatusMoves
  BY <1>5, StatusCalm DEF Receive, Inspect, Settle, Delete, Abandon, LoopDies, StartDirect,
     Crash, ReleaseLocks, Restart, storeVars
<1>6. ASSUME NEW j \in Jobs, VisibilityExpires(j) PROVE StatusMoves
  BY <1>6, StatusCalm DEF VisibilityExpires, storeVars
<1>7. CASE UNCHANGED vars
  BY <1>7, StatusCalm DEF vars, storeVars
<1> QED
  BY <1>2, <1>3, <1>4, <1>5, <1>6, <1>7 DEF Next, RunnerStep

\* A job that ended is never queued or running again, and a running job is
\* never queued again.
THEOREM StartedOnce == Spec => NeverStartedAgain
<1>1. TypeOK /\ ClaimInv /\ [Next]_vars =>
        [\A j \in Jobs : /\ Terminal(j) => Terminal(j)'
                         /\ status[j] = "running" => status'[j] # "queued"]_status
  <2> SUFFICES ASSUME TypeOK, ClaimInv, [Next]_vars, NEW j \in Jobs
               PROVE  /\ Terminal(j) => Terminal(j)'
                      /\ status[j] = "running" => status'[j] # "queued"
    OBVIOUS
  <2> QED BY StatusStep DEF StatusMoves, Terminal, TerminalValues
<1> QED BY <1>1, TypeCorrect, ClaimProtocol, PTL DEF Spec, NeverStartedAgain

-----------------------------------------------------------------------------
(* Messages: none is lost before its job is terminal.                      *)

MessageInv == MessagesWereCreated /\ DeletionsAreSafe /\ NoMessageLost

\* The message invariant holds in the empty portal.
LEMMA MessageInit == Init => MessageInv
  BY DEF Init, StoreInit, QueueInit, RunInit, MessageInv, MessagesWereCreated,
     DeletionsAreSafe, NoMessageLost

\* What has to hold of a step for the messages to stay safe: a record leaves
\* the table for a terminal job only, and a runner decides to delete for a
\* terminal job only.
LEMMA MessageMoves ==
  ASSUME MessageInv, StatusMoves, BusyRunnersHaveJobs', 
         \A j \in Jobs :
            /\ created[j] # 0 => created'[j] # 0
            /\ record'[j] = "none" =>
                  \/ record[j] = "none" /\ created'[j] = created[j]
                  \/ Terminal(j)
            /\ record'[j] # "none" => created'[j] # 0,
         \A r \in Runners :
            /\ pc'[r] = "inspect" =>
                  \/ pc[r] = "inspect" /\ current'[r] = current[r]
                  \/ created[current'[r]] # 0
            /\ pc'[r] = "delete" =>
                  \/ pc[r] = "delete" /\ current'[r] = current[r]
                  \/ Terminal(current'[r])
  PROVE  MessageInv'
<1>1. \A j \in Jobs : Terminal(j) => Terminal(j)'
  BY DEF StatusMoves, Terminal, TerminalValues
<1>2. \A r \in Runners : pc'[r] \in {"inspect", "delete"} => current'[r] \in Jobs
  BY DEF BusyRunnersHaveJobs
<1>3. MessagesWereCreated'
  BY <1>2 DEF MessageInv, MessagesWereCreated
<1>4. DeletionsAreSafe'
  BY <1>1, <1>2 DEF MessageInv, DeletionsAreSafe
<1>5. NoMessageLost'
  BY <1>1 DEF MessageInv, NoMessageLost
<1> QED BY <1>3, <1>4, <1>5 DEF MessageInv

\* Every step of the portal keeps the message invariant.
LEMMA MessageStep ==
  ASSUME TypeOK, ClaimInv, MessageInv, [Next]_vars
  PROVE  MessageInv'
<1>1. StatusMoves /\ BusyRunnersHaveJobs'
  BY StatusStep, ClaimStep DEF ClaimInv
<1> USE DEF TypeOK, QueueTypeOK, RunTypeOK
<1>2. ASSUME UNCHANGED queueVars, 
             \A r \in Runners : 
                pc'[r] \in {"inspect", "delete"} =>
                    pc'[r] = pc[r] /\ current'[r] = current[r]
      PROVE  MessageInv'
  BY <1>1, <1>2, MessageMoves DEF queueVars, MessageInv, MessagesWereCreated
<1>3. ASSUME NEW j \in Jobs,
             Submit(j) \/ WebStep(j) \/ RequestFails(j) \/ VisibilityExpires(j)
      PROVE  MessageInv'
  <2>1. CASE Submit(j) \/ FinishRequest(j) \/ RequestFails(j)
    BY <1>2, <2>1 DEF Submit, FinishRequest, RequestFails, runVars
  <2>2. CASE Enqueue(j)
    <3>1. UNCHANGED <<pc, current>> /\ EnqueueJob(j)
      BY <2>2 DEF Enqueue, runVars
    <3>2. \A k \in Jobs : /\ created[k] # 0 => created'[k] # 0
                          /\ record'[k] = "none" => record[k] = "none" /\ created'[k] = created[k]
                          /\ record'[k] # "none" => created'[k] # 0
      BY <3>1 DEF EnqueueJob, MessageInv, MessagesWereCreated
    <3> QED BY <1>1, <3>1, <3>2, MessageMoves
  <2>3. CASE VisibilityExpires(j)
    <3>1. UNCHANGED <<pc, current, created>> /\ BecomesVisible(j)
      BY <2>3 DEF VisibilityExpires, BecomesVisible, runVars
    <3>2. \A k \in Jobs : record'[k] = "none" <=> record[k] = "none"
      BY <3>1 DEF BecomesVisible
    <3> QED BY <1>1, <3>1, <3>2, MessageMoves DEF MessageInv, MessagesWereCreated
  <2> QED BY <1>3, <2>1, <2>2, <2>3 DEF WebStep
<1>4. ASSUME NEW c \in Cancellers, Cancel(c) PROVE MessageInv'
  BY <1>2, <1>4 DEF Cancel, runVars
<1>5. ASSUME NEW r \in Runners, Run(r) PROVE MessageInv'
  <2>1. UNCHANGED queueVars
    BY <1>5 DEF Run
  <2>2. ASSUME NEW p \in RunnerPoints \ {"inspect", "delete"}, Goto(r, p), UNCHANGED current
        PROVE  MessageInv'
    BY <1>2, <2>1, <2>2 DEF Goto
  <2>3. ASSUME Raise(r) PROVE MessageInv'
    BY <1>2, <2>1, <2>3 DEF Raise, PutDown, TakeUp, Goto
  <2>4. CASE ClaimFails(r) \/ PrepareRaises(r) \/ RescueRaises(r)
    BY <2>3, <2>4 DEF ClaimFails, PrepareRaises, RescueRaises
  <2>5. CASE \/ BeginClaim(r) \/ FinishClaim(r) \/ Prepare(r) \/ DriverRaises(r)
             \/ MarkTimedOut(r) \/ MarkExitCode(r) \/ MarkSuccess(r) \/ StampRuntime(r)
             \/ UpdateRaises(r, "mark") \/ UpdateRaises(r, "stamp") \/ Rescue(r)
    BY <2>2, <2>5 DEF BeginClaim, FinishClaim, Prepare, DriverRaises, MarkTimedOut,
       MarkExitCode, MarkSuccess, StampRuntime, UpdateRaises, Rescue, Step,
       RunnerPoints, RunPoints
  <2>6. CASE \/ \E res \in {"ok", "exit", "timeout"}, F \in DriverOutputs :
                 DriverReturns(r, res, F)
             \/ \E F \in DriverOutputs : TimeoutWithOutput(r, F)
    BY <2>2, <2>6 DEF DriverReturns, TimeoutWithOutput, RunnerPoints, RunPoints
  <2>7. CASE UploadAll(r) \/ UploadRaises(r) \/ RecordAll(r) \/ RecordRaises(r)
    BY <2>2, <2>7 DEF UploadAll, UploadRaises, RecordAll, RecordRaises, PutArtifacts,
       RecordArtifacts, RunnerPoints, RunPoints
  <2> QED BY <1>5, <2>4, <2>5, <2>6, <2>7 DEF Run, RunStep
<1>6. ASSUME NEW r \in Runners,
             \/ Receive(r) \/ Inspect(r) \/ Settle(r) \/ Delete(r) \/ Abandon(r)
             \/ LoopDies(r) \/ StartDirect(r) \/ Crash(r) \/ Restart(r)
      PROVE  MessageInv'
  <2> USE DEF Step, PutDown, TakeUp, Goto
  <2>1. CASE Receive(r)
    <3>1. PICK m \in Jobs : ReceiveMessage(r, m) /\ TakeUp(r, m, "inspect")
      BY <2>1 DEF Receive
    <3>2. created[m] # 0 /\ UNCHANGED created
      BY <3>1 DEF ReceiveMessage, OldestVisible, MessageInv, MessagesWereCreated
    <3>3. \A k \in Jobs : record'[k] = "none" <=> record[k] = "none"
      BY <3>1 DEF ReceiveMessage, OldestVisible
    <3> QED BY <1>1, <3>1, <3>2, <3>3, MessageMoves DEF MessageInv, MessagesWereCreated
  <2>2. CASE Inspect(r)
    <3>1. current[r] \in Jobs /\ created[current[r]] # 0 /\ UNCHANGED <<record, created, current>>
      BY <2>2 DEF Inspect, queueVars, ClaimInv, BusyRunnersHaveJobs, MessageInv,
         MessagesWereCreated
    <3>2. Decision(current[r]) = "delete" => Terminal(current[r])
      BY <3>1 DEF Decision, MessageInv, NoMessageLost
    <3>3. pc' = [pc EXCEPT ![r] = Decision(current[r])] /\ Decision(current[r]) # "inspect"
      BY <2>2 DEF Inspect, Decision
    <3> QED BY <1>1, <3>1, <3>2, <3>3, MessageMoves DEF MessageInv, MessagesWereCreated
  <2>3. CASE Settle(r)
    <3>1. UNCHANGED <<record, created>>
      BY <2>3 DEF Settle, queueVars
    <3>2. CASE r \in DirectRunners
      BY <1>2, <2>3, <3>2 DEF Settle
    <3>3. CASE r \notin DirectRunners
      <4> DEFINE p == IF Terminal(current[r]) THEN "delete" ELSE "abandon"
      <4>1. pc' = [pc EXCEPT ![r] = p] /\ UNCHANGED current
        BY <2>3, <3>3 DEF Settle
      <4>2. p # "inspect" /\ (p = "delete" => Terminal(current[r]))
        OBVIOUS
      <4> HIDE DEF p
      <4> QED BY <1>1, <3>1, <4>1, <4>2, MessageMoves DEF MessageInv, MessagesWereCreated
    <3> QED BY <3>2, <3>3
  <2>4. CASE Delete(r)
    <3>1. current[r] \in Jobs /\ Terminal(current[r]) /\ UNCHANGED created
      BY <2>4 DEF Delete, DeleteMessage, ClaimInv, BusyRunnersHaveJobs, MessageInv,
         DeletionsAreSafe
    <3>2. record' = [record EXCEPT ![current[r]] = "none"]
      BY <2>4 DEF Delete, DeleteMessage
    <3> QED BY <1>1, <2>4, <3>1, <3>2, MessageMoves DEF Delete, MessageInv,
            MessagesWereCreated
  <2>5. CASE Abandon(r)
    <3>1. UNCHANGED created /\ \A k \in Jobs : record'[k] = "none" <=> record[k] = "none"
      BY <2>5 DEF Abandon, AbandonMessage, ReceiptValid
    <3> QED BY <1>1, <2>5, <3>1, MessageMoves DEF Abandon, MessageInv, MessagesWereCreated
  <2>6. CASE LoopDies(r) \/ StartDirect(r) \/ Crash(r) \/ Restart(r)
    BY <1>2, <2>6 DEF LoopDies, ReceiptExpired, StartDirect, Crash, Restart
  <2> QED BY <1>6, <2>1, <2>2, <2>3, <2>4, <2>5, <2>6
<1>7. CASE UNCHANGED vars
  BY <1>2, <1>7 DEF vars, runVars
<1> QED
  BY <1>3, <1>4, <1>5, <1>6, <1>7 DEF Next, RunnerStep

\* A message that was queued stays in the queue until its job is terminal.
THEOREM MessagesAreKept == Spec => []NoMessageLost
<1>1. MessageInv => NoMessageLost
  BY DEF MessageInv
<1>2. Spec => []MessageInv
  BY MessageInit, MessageStep, TypeCorrect, ClaimProtocol, PTL DEF Spec
<1> QED BY <1>1, <1>2, PTL

-----------------------------------------------------------------------------
(* Artifacts: a completed job has its plot and its log.                    *)

\* Every step of the portal keeps the artifact invariant.
LEMMA ArtifactStep ==
  ASSUME TypeOK, ClaimInv, ArtifactInv, [Next]_vars
  PROVE  ArtifactInv'
<1>1. RunnerTypeOK /\ BusyRunnersHaveJobs'
  BY ClaimStep, TypeParts DEF ClaimInv
<1>2. ASSUME NEW j \in Jobs, Submit(j) \/ WebStep(j) \/ RequestFails(j) PROVE ArtifactInv'
  BY <1>1, <1>2, RequestSteps, RequestKeepsArtifacts
<1>3. ASSUME NEW c \in Cancellers, Cancel(c) PROVE ArtifactInv'
  BY <1>1, <1>3, CancelSteps, CancelKeepsArtifacts
<1>4. ASSUME NEW r \in Runners,
             \/ Receive(r) \/ Inspect(r) \/ Settle(r) \/ Delete(r) \/ Abandon(r)
             \/ LoopDies(r) \/ StartDirect(r) \/ Crash(r) \/ Restart(r)
      PROVE  ArtifactInv'
  <2>1. UNCHANGED status
    BY <1>4 DEF Receive, Inspect, Settle, Delete, Abandon, LoopDies, StartDirect,
       Crash, ReleaseLocks, Restart, storeVars
  <2>2. /\ {"inspect", "claim", "delete", "abandon", "idle", "dead"}
                \subseteq RunnerPoints \ {"upload", "record", "mark"}
        /\ NoOne \in Jobs \cup {NoOne}
    BY DEF RunnerPoints
  <2>3. CASE Inspect(r) \/ Settle(r)
    BY <1>1, <2>1, <2>2, <2>3, LoopKeepsArtifacts DEF Inspect, Decision, Settle, PutDown
  <2>4. CASE Receive(r) \/ StartDirect(r)
    BY <1>1, <2>1, <2>2, <2>4, LoopKeepsArtifacts DEF Receive, StartDirect
  <2>5. CASE Delete(r) \/ Abandon(r) \/ LoopDies(r) \/ Crash(r) \/ Restart(r)
    BY <1>1, <2>1, <2>2, <2>5, LoopKeepsArtifacts
    DEF Delete, Abandon, LoopDies, Crash, Restart, PutDown
  <2> QED BY <1>4, <2>3, <2>4, <2>5
<1>5. CASE UNCHANGED vars \/ \E j \in Jobs : VisibilityExpires(j)
  BY <1>1, <1>5, ArtifactCalm DEF vars, VisibilityExpires, storeVars, runVars
<1>6. ASSUME NEW r \in Runners, Run(r) PROVE ArtifactInv'
  BY <1>1, <1>6, ArtifactRun DEF Run
<1> QED
  BY <1>2, <1>3, <1>4, <1>5, <1>6 DEF Next, RunnerStep

\* The artifact invariant holds at every step.
LEMMA ArtifactsAlways == Spec => []ArtifactInv
  BY ArtifactInit, ArtifactStep, TypeCorrect, ClaimProtocol, PTL DEF Spec, Init

\* A completed job has its plot and its log in the artifact store and in the
\* artifact table, whatever codex and its script leave, remove or overwrite.
THEOREM CompletedJobsHaveArtifacts == Spec => []CompletedHasArtifacts
<1>1. ArtifactInv => CompletedHasArtifacts
  BY DEF ArtifactInv
<1> QED BY <1>1, ArtifactsAlways, PTL

\* Every row the job page links to has its blob.
THEOREM ArtifactLinksResolve == Spec => []LinksResolve
<1>1. ArtifactInv => LinksResolve
  BY DEF ArtifactInv
<1> QED BY <1>1, ArtifactsAlways, PTL

\* What a work directory holds is stored before it is recorded, and recorded before
\* the terminal status, whatever the driver left and whatever failed.
THEOREM ArtifactsInOrder == Spec => []ArtifactsFollowFiles
<1>1. ArtifactInv => ArtifactsFollowFiles
  BY DEF ArtifactInv
<1> QED BY <1>1, ArtifactsAlways, PTL

-----------------------------------------------------------------------------
(* A result stands.                                                        *)

\* The loop of run_local_job_runner, direct starts, crashes and restarts write no
\* status and start no execution.
LEMMA OwnOutside ==
  ASSUME RunnerTypeOK, ClaimInv, CompletionsAreOwn, NEW r \in Runners,
         \/ Receive(r) \/ Inspect(r) \/ Settle(r) \/ Delete(r) \/ Abandon(r)
         \/ LoopDies(r) \/ StartDirect(r) \/ Crash(r) \/ Restart(r)
  PROVE  UNCHANGED status /\ CompletionsAreOwn'
<1>1. UNCHANGED status
  BY DEF Receive, Inspect, Settle, Delete, Abandon, LoopDies, StartDirect,
     Crash, ReleaseLocks, Restart, storeVars
<1>2. /\ {"inspect", "claim", "delete", "abandon", "idle", "dead"}
              \subseteq RunnerPoints \ (RunPoints \cup {"settle"})
      /\ NoOne \in Jobs \cup {NoOne}
  BY DEF RunnerPoints, RunPoints
<1>3. CASE Inspect(r) \/ Settle(r)
  BY <1>1, <1>2, <1>3, OwnLoop DEF Inspect, Decision, Settle, PutDown
<1>4. CASE Receive(r) \/ StartDirect(r)
  BY <1>1, <1>2, <1>4, OwnLoop DEF Receive, StartDirect
<1>5. CASE Delete(r) \/ Abandon(r) \/ LoopDies(r) \/ Crash(r) \/ Restart(r)
  BY <1>1, <1>2, <1>5, OwnLoop DEF Delete, Abandon, LoopDies, Crash, Restart, PutDown
<1> QED BY <1>1, <1>3, <1>4, <1>5

\* Every step keeps the runners the owners of their results, and takes a result
\* back in the three ways of ResultsStand only.
LEMMA OwnStep ==
  ASSUME TypeOK, ClaimInv, CompletionsAreOwn, [Next]_vars
  PROVE  CompletionsAreOwn' /\ ResultsStand
<1>1. RunnerTypeOK
  BY TypeParts
<1>2. ASSUME NEW j \in Jobs, Submit(j) \/ WebStep(j) \/ RequestFails(j)
      PROVE  CompletionsAreOwn' /\ ResultsStand
  BY <1>1, <1>2, RequestSteps, OwnRequest, ResultsRequest
<1>3. ASSUME NEW c \in Cancellers, Cancel(c) PROVE CompletionsAreOwn' /\ ResultsStand
  BY <1>1, <1>3, CancelSteps, OwnRequest, ResultsRequest
<1>4. ASSUME NEW r \in Runners, Run(r) PROVE CompletionsAreOwn' /\ ResultsStand
  BY <1>1, <1>4, OwnRun, ResultsRun DEF Run
<1>5. CASE UNCHANGED vars \/ \E j \in Jobs : VisibilityExpires(j)
  BY <1>5, OwnCalm, ResultsCalm DEF vars, VisibilityExpires, storeVars, runVars, ClaimInv
<1> QED
  BY <1>1, <1>2, <1>3, <1>4, <1>5, OwnOutside, ResultsCalm DEF Next, RunnerStep

\* Whoever executes a completed job is the runner that completed it.
LEMMA CompletionsAlwaysOwn == Spec => []CompletionsAreOwn
  BY OwnInit, OwnStep, TypeCorrect, ClaimProtocol, PTL DEF Spec, Init

\* A completed job stays completed, whatever is delivered again, crashes or fails,
\* but for a cancel request that saw it queued, a request whose message could not be
\* sent, and the failure handler of the runner that completed it.
THEOREM CompletedJobsStand == Spec => CompletedStands
<1>1. TypeOK /\ ClaimInv /\ CompletionsAreOwn /\ [Next]_vars => [ResultsStand]_status
  BY OwnStep
<1> QED BY <1>1, TypeCorrect, ClaimProtocol, CompletionsAlwaysOwn, PTL
        DEF Spec, CompletedStands

-----------------------------------------------------------------------------
\* Locks, rows, runners and messages agree at every step.
THEOREM EverythingConsistent == Spec => []Consistency
<1>1. ClaimInv /\ MessageInv /\ CompletionsAreOwn => Consistency
  BY DEF ClaimInv, MessageInv, Consistency
<1>2. Spec => []MessageInv
  BY MessageInit, MessageStep, TypeCorrect, ClaimProtocol, PTL DEF Spec
<1> QED BY <1>1, <1>2, ClaimProtocol, CompletionsAlwaysOwn, PTL
=============================================================================
