-------------------------- MODULE AzurePortal_proof --------------------------
(***************************************************************************)
(* The claim protocol holds on the Azure queue as well, for every set of   *)
(* jobs and runners: it rests on the job table and on where the runners    *)
(* stand, and no step of the queue service or of its mirror comes near.    *)
(***************************************************************************)
EXTENDS AzurePortal, PlotRunner_proof

\* The types of the job table and the runners, apart from those of the queue.
LEMMA TypeParts == TypeOK <=> RunnerTypeOK /\ AzureTypeOK
  BY DEF TypeOK, RunnerTypeOK

\* The same of the next state.
LEMMA TypePartsNext == TypeOK' <=> RunnerTypeOK' /\ AzureTypeOK'
  BY DEF TypeOK, RunnerTypeOK

\* The web process takes the steps of create_queued_job.
LEMMA RequestSteps ==
  ASSUME NEW j \in Jobs, Submit(j) \/ WebStep(j) \/ RequestFails(j)
  PROVE  /\ UNCHANGED runVars
         /\ RequestStep(j) \/ UNCHANGED storeVars
  BY DEF Submit, WebStep, Send, Enqueued, FinishRequest, RequestFails, RequestStep

\* The cancel view touches neither the queue nor the runners.
LEMMA CancelSteps ==
  ASSUME NEW c \in Cancellers, Cancel(c)
  PROVE  CancelStep(c) /\ UNCHANGED <<azureVars, runVars>>
  BY DEF Cancel, CancelStep

\* Inspect, Settle, the direct runners, crashes and restarts are moves of one
\* runner that leave the queue alone.
LEMMA LocalSteps ==
  ASSUME NEW r \in Runners, Decide(r) \/ StartDirect(r) \/ Crash(r) \/ Restart(r)
  PROVE  /\ UNCHANGED azureVars
         /\ \/ /\ UNCHANGED storeVars
               /\ \/ \E p \in {"delete", "abandon", "claim"} :
                        Step(r, "inspect", p) \/ Step(r, "settle", p)
                  \/ pc[r] = "settle" /\ PutDown(r, "idle")
                  \/ pc[r] = "dead" /\ PutDown(r, "idle")
                  \/ pc[r] = "idle" /\ \E j \in Jobs : TakeUp(r, j, "claim")
            \/ Crash(r) /\ PutDown(r, "dead") /\ ReleaseLocks(r)
<1> USE DEF Local!Step, Local!PutDown, Local!TakeUp, Local!Goto, Local!storeVars,
            Step, PutDown, TakeUp, Goto, storeVars
<1>1. CASE Decide(r)
  BY <1>1 DEF Decide, Local!Inspect, Local!Decision, Local!Settle
<1>2. CASE StartDirect(r) \/ Restart(r)
  BY <1>2 DEF StartDirect, Restart, Local!StartDirect, Local!Restart
<1>3. CASE Crash(r)
  BY <1>3 DEF Crash, Local!Crash, Local!ReleaseLocks, ReleaseLocks
<1> QED BY <1>1, <1>2, <1>3
-----------------------------------------------------------------------------
(* Type correctness.                                                       *)

\* The empty queue and the empty portal are well typed.
LEMMA TypeInit == Init => TypeOK
  BY RunnerTypeInit, TypeParts DEF Init, AzureInit, AzureTypeOK

\* Every call of the queue service and every statement on its mirror keeps their
\* variables in their types.
LEMMA AzureTypes ==
  ASSUME AzureTypeOK, NEW m \in Jobs, NEW r \in Runners,
         \/ SendMessage(m) \/ CreateRecord(m) \/ ServiceShows(m)
         \/ ServiceReceive(r, m) \/ ServiceDelete(r, m) \/ ServiceUpdate(r, m)
         \/ MirrorReceive(r, m) \/ MirrorDelete(r, m) \/ MirrorUpdate(r, m)
         \/ ServiceRefuses(r, m) \/ MirrorRaises(r, m) \/ UNCHANGED azureVars
  PROVE  AzureTypeOK'
<1> USE DEF AzureTypeOK, azureVars, serviceVars, mirrorVars, Serve
<1>1. CASE SendMessage(m) \/ CreateRecord(m) \/ ServiceShows(m)
  BY <1>1 DEF SendMessage, CreateRecord, ServiceShows
<1>2. CASE ServiceReceive(r, m) \/ ServiceDelete(r, m) \/ ServiceUpdate(r, m)
  BY <1>2 DEF ServiceReceive, ServiceDelete, ServiceUpdate
<1>3. CASE MirrorReceive(r, m) \/ MirrorDelete(r, m) \/ MirrorUpdate(r, m)
  BY <1>3 DEF MirrorReceive, MirrorDelete, MirrorUpdate
<1>4. CASE ServiceRefuses(r, m) \/ MirrorRaises(r, m) \/ UNCHANGED azureVars
  BY <1>4 DEF ServiceRefuses, MirrorRaises
<1> QED BY <1>1, <1>2, <1>3, <1>4

\* The steps of the loop around its calls of the queue.
LoopStep(r) ==
    \/ Receive(r) \/ NoteReceipt(r) \/ DeleteInService(r) \/ Unlink(r)
    \/ ShowInService(r) \/ Return(r) \/ LoopDies(r)

\* Such a step moves one runner between points outside the run, and leaves the
\* job table alone.
LEMMA LoopMoves ==
  ASSUME NEW r \in Runners, LoopStep(r)
  PROVE  /\ UNCHANGED storeVars
         /\ \/ Step(r, "receiving", "inspect")
            \/ Step(r, "delete", "unlinking") \/ Step(r, "abandon", "returning")
            \/ pc[r] = "idle" /\ \E j \in Jobs : TakeUp(r, j, "receiving")
            \/ /\ pc[r] \in {"unlinking", "returning", "delete", "abandon"}
               /\ PutDown(r, "idle") \/ PutDown(r, "dead")
  BY DEF LoopStep, Receive, NoteReceipt, DeleteInService, Unlink, ShowInService, Return,
     LoopDies

\* The loop keeps the queue's variables in their types.
LEMMA LoopAzureTypes ==
  ASSUME AzureTypeOK, BusyRunnersHaveJobs, NEW r \in Runners, LoopStep(r)
  PROVE  AzureTypeOK'
<1>1. CASE Receive(r)
  BY <1>1, AzureTypes DEF Receive
<1>2. CASE ~Receive(r)
  <2>1. pc[r] \in {"receiving", "delete", "abandon", "unlinking", "returning"}
    BY <1>2 DEF LoopStep, NoteReceipt, DeleteInService, Unlink, ShowInService, Return,
       LoopDies, Step
  <2>2. current[r] \in Jobs
    BY <2>1 DEF BusyRunnersHaveJobs
  <2> QED
    BY <1>2, <2>2, AzureTypes DEF LoopStep, NoteReceipt, DeleteInService, Unlink,
       ShowInService, Return, LoopDies
<1> QED BY <1>1, <1>2

-----------------------------------------------------------------------------
(* Types and claims together: a runner that calls the queue has a job.     *)

\* The web process and the passing of time.
LEMMA WebKeeps ==
  ASSUME TypeOK, ClaimInv, NEW j \in Jobs,
         Submit(j) \/ WebStep(j) \/ RequestFails(j) \/ VisibilityExpires(j)
  PROVE  TypeOK' /\ ClaimInv'
<1>1. RunnerTypeOK /\ AzureTypeOK
  BY TypeParts
<1>2. AzureTypeOK'
  BY <1>1 DEF AzureTypeOK, azureVars, mirrorVars, Serve, Submit, WebStep, Send, SendMessage,
     Enqueued, CreateRecord, FinishRequest, RequestFails, VisibilityExpires, ServiceShows
<1>3. \/ UNCHANGED <<storeVars, runVars>>
      \/ RequestStep(j) /\ UNCHANGED runVars
  BY RequestSteps DEF VisibilityExpires
<1>4. CASE UNCHANGED <<storeVars, runVars>>
  <2>1. RunnerTypeOK'
    BY <1>1, <1>4 DEF RunnerTypeOK, StoreTypeOK, RunTypeOK, storeVars, runVars
  <2> QED BY <1>2, <1>4, <2>1, ClaimCalm, TypePartsNext
<1>5. CASE RequestStep(j) /\ UNCHANGED runVars
  BY <1>1, <1>2, <1>5, TypeRequest, ClaimRequest, TypePartsNext
<1> QED BY <1>3, <1>4, <1>5

\* The cancel requests.
LEMMA CancelKeeps ==
  ASSUME TypeOK, ClaimInv, NEW c \in Cancellers, Cancel(c)
  PROVE  TypeOK' /\ ClaimInv'
<1>1. RunnerTypeOK /\ AzureTypeOK
  BY TypeParts
<1>2. RunnerTypeOK' /\ ClaimInv'
  BY <1>1, CancelSteps, TypeCancelStep, ClaimCancel
<1>3. AzureTypeOK'
  BY <1>1, CancelSteps DEF AzureTypeOK, azureVars
<1> QED BY <1>2, <1>3, TypePartsNext

\* The runners.
LEMMA RunnerKeeps ==
  ASSUME TypeOK, ClaimInv, NEW r \in Runners,
         RunnerStep(r) \/ StartDirect(r) \/ Crash(r) \/ Restart(r)
  PROVE  TypeOK' /\ ClaimInv'
<1>1. RunnerTypeOK /\ AzureTypeOK /\ BusyRunnersHaveJobs
  BY TypeParts DEF ClaimInv
<1>2. /\ {"receiving", "inspect", "claim", "delete", "abandon", "unlinking", "returning",
           "idle", "dead"} \subseteq RunnerPoints \ (RunPoints \cup {"settle", "claiming"})
      /\ {"receiving", "inspect", "settle", "delete", "abandon"}
             \subseteq RunnerPoints \ {"idle", "dead", "claiming"}
      /\ NoOne \in Jobs \cup {NoOne}
  BY DEF RunnerPoints, RunPoints
<1>3. ASSUME UNCHANGED azureVars PROVE AzureTypeOK'
  BY <1>1, <1>3 DEF AzureTypeOK, azureVars
<1>4. ASSUME UNCHANGED storeVars, NEW p \in {"inspect", "claim", "delete", "abandon",
                                            "unlinking", "returning"},
             NEW from \in {"receiving", "inspect", "settle", "delete", "abandon"},
             Step(r, from, p)
      PROVE  RunnerTypeOK' /\ ClaimInv'
  BY <1>1, <1>2, <1>4, TypeMove, LoopKeepsClaims
<1>5. ASSUME UNCHANGED storeVars, pc[r] = "idle", NEW p \in {"receiving", "claim"},
             NEW j \in Jobs, TakeUp(r, j, p)
      PROVE  RunnerTypeOK' /\ ClaimInv'
  BY <1>1, <1>2, <1>5, TypeMove, LoopKeepsClaims
<1>6. ASSUME UNCHANGED storeVars, pc[r] # "claiming", NEW p \in {"idle", "dead"}, PutDown(r, p)
      PROVE  RunnerTypeOK' /\ ClaimInv'
  BY <1>1, <1>2, <1>6, TypeMove, LoopKeepsClaims DEF PutDown
<1>7. CASE Run(r)
  BY <1>1, <1>3, <1>7, TypeRun, ClaimRun, TypePartsNext DEF Run
<1>8. CASE LoopStep(r)
  <2>1. RunnerTypeOK' /\ ClaimInv'
    BY <1>4, <1>5, <1>6, <1>8, LoopMoves
  <2> QED BY <1>1, <1>8, <2>1, LoopAzureTypes, TypePartsNext
<1>9. CASE Decide(r) \/ StartDirect(r) \/ Crash(r) \/ Restart(r)
  <2>1. /\ UNCHANGED azureVars
        /\ \/ /\ UNCHANGED storeVars
              /\ \/ \E p \in {"delete", "abandon", "claim"} :
                       Step(r, "inspect", p) \/ Step(r, "settle", p)
                 \/ pc[r] = "settle" /\ PutDown(r, "idle")
                 \/ pc[r] = "dead" /\ PutDown(r, "idle")
                 \/ pc[r] = "idle" /\ \E j \in Jobs : TakeUp(r, j, "claim")
           \/ PutDown(r, "dead") /\ ReleaseLocks(r)
    BY <1>9, LocalSteps
  <2>2. CASE PutDown(r, "dead") /\ ReleaseLocks(r)
    BY <1>1, <1>3, <2>1, <2>2, TypeCrash, CrashKeepsClaims, TypePartsNext
  <2>3. CASE ~(PutDown(r, "dead") /\ ReleaseLocks(r))
    <3>1. RunnerTypeOK' /\ ClaimInv'
      BY <1>4, <1>5, <1>6, <2>1, <2>3
    <3> QED BY <1>3, <2>1, <3>1, TypePartsNext
  <2> QED BY <2>2, <2>3
<1> QED BY <1>7, <1>8, <1>9 DEF RunnerStep, LoopStep

\* Types and claims form an inductive invariant.
LEMMA ClaimsAlways == Spec => [](TypeOK /\ ClaimInv)
<1>1. Init => TypeOK /\ ClaimInv
  BY TypeInit, ClaimInit DEF Init
<1>2. TypeOK /\ ClaimInv /\ [Next]_vars => TypeOK' /\ ClaimInv'
  <2> SUFFICES ASSUME TypeOK, ClaimInv, [Next]_vars PROVE TypeOK' /\ ClaimInv'
    OBVIOUS
  <2>1. CASE UNCHANGED vars
    <3>1. TypeOK'
      BY <2>1 DEF vars, storeVars, runVars, azureVars, TypeOK, StoreTypeOK, RunTypeOK,
         AzureTypeOK
    <3> QED BY <2>1, <3>1, ClaimCalm DEF vars
  <2>2. CASE Next
    BY <2>2, WebKeeps, CancelKeeps, RunnerKeeps DEF Next
  <2> QED BY <2>1, <2>2
<1> QED BY <1>1, <1>2, PTL DEF Spec

\* The service, its mirror and the runners are well typed in every reachable state.
THEOREM AzureTypeCorrect == Spec => []TypeOK
BY ClaimsAlways, PTL

\* A message delivered twice, before its record exists or after its receipt was
\* superseded, still never makes two runners execute its job.
THEOREM AzureExecutionIsExclusive == Spec => []ExclusiveExecution
BY ClaimsAlways, ClaimsExclude, PTL

-----------------------------------------------------------------------------
(* What the portal promises with the database queue holds here as well: no *)
(* job starts twice, a completed job has its artifacts, and it stands.     *)

\* Every step of the portal moves the statuses as StatusMoves says.
LEMMA StatusStep ==
  ASSUME TypeOK, ClaimInv, [Next]_vars
  PROVE  StatusMoves
<1>1. RunnerTypeOK
  BY TypeParts
<1>2. ASSUME NEW j \in Jobs,
             Submit(j) \/ WebStep(j) \/ RequestFails(j) \/ VisibilityExpires(j)
      PROVE  StatusMoves
  BY <1>1, <1>2, RequestSteps, StatusRequest, StatusCalm DEF VisibilityExpires, storeVars
<1>3. ASSUME NEW r \in Runners, RunnerStep(r) \/ StartDirect(r) \/ Crash(r) \/ Restart(r)
      PROVE  StatusMoves
  <2>1. CASE Run(r)
    BY <1>1, <2>1, StatusRun DEF Run
  <2>2. CASE LoopStep(r)
    BY <2>2, LoopMoves, StatusCalm DEF storeVars
  <2>3. CASE Decide(r) \/ StartDirect(r) \/ Crash(r) \/ Restart(r)
    BY <2>3, LocalSteps, StatusCalm DEF ReleaseLocks, storeVars
  <2> QED BY <1>3, <2>1, <2>2, <2>3 DEF RunnerStep, LoopStep
<1>4. ASSUME NEW c \in Cancellers, Cancel(c) PROVE StatusMoves
  BY <1>1, <1>4, CancelSteps, StatusCancel
<1>5. CASE UNCHANGED vars
  BY <1>5, StatusCalm DEF vars, storeVars
<1> QED BY <1>2, <1>3, <1>4, <1>5 DEF Next

\* However often the service delivers a message, a job that ended is never queued or
\* running again, and a running job is never queued again.
THEOREM AzureStartedOnce == Spec => NeverStartedAgain
<1>1. TypeOK /\ ClaimInv /\ [Next]_vars =>
        [\A j \in Jobs : /\ Terminal(j) => Terminal(j)'
                         /\ status[j] = "running" => status'[j] # "queued"]_status
  <2> SUFFICES ASSUME TypeOK, ClaimInv, [Next]_vars, NEW j \in Jobs
               PROVE  /\ Terminal(j) => Terminal(j)'
                      /\ status[j] = "running" => status'[j] # "queued"
    OBVIOUS
  <2> QED BY StatusStep DEF StatusMoves, Terminal, TerminalValues
<1> QED BY <1>1, ClaimsAlways, PTL DEF Spec, NeverStartedAgain

\* Outside the run a runner only moves on, takes a job up or puts it down; a
\* killed one gives back its lock, too.
LEMMA LoopSteps ==
  ASSUME NEW r \in Runners,
         LoopStep(r) \/ Decide(r) \/ StartDirect(r) \/ Crash(r) \/ Restart(r)
  PROVE  /\ UNCHANGED status
         /\ \E p \in {"receiving", "inspect", "claim", "delete", "abandon", "unlinking",
                     "returning", "idle", "dead"}, j \in Jobs \cup {NoOne} :
               TakeUp(r, j, p) \/ \E from \in RunnerPoints : Step(r, from, p)
<1> USE DEF PutDown, storeVars, ReleaseLocks, RunnerPoints
<1>1. CASE LoopStep(r)
  BY <1>1, LoopMoves
<1>2. CASE Decide(r) \/ StartDirect(r) \/ Crash(r) \/ Restart(r)
  BY <1>2, LocalSteps
<1> QED BY <1>1, <1>2

\* Every step of the portal keeps the artifact invariant.
LEMMA ArtifactStep ==
  ASSUME TypeOK, ClaimInv, ClaimInv', ArtifactInv, [Next]_vars
  PROVE  ArtifactInv'
<1>1. RunnerTypeOK /\ BusyRunnersHaveJobs'
  BY TypeParts DEF ClaimInv
<1>2. ASSUME UNCHANGED <<status, pc, current, files, result, stored, recorded>>
      PROVE  ArtifactInv'
  BY <1>1, <1>2, ArtifactCalm
<1>3. ASSUME NEW j \in Jobs,
             Submit(j) \/ WebStep(j) \/ RequestFails(j) \/ VisibilityExpires(j)
      PROVE  ArtifactInv'
  BY <1>1, <1>2, <1>3, RequestSteps, RequestKeepsArtifacts
  DEF VisibilityExpires, storeVars, runVars
<1>4. ASSUME NEW r \in Runners, Run(r) PROVE ArtifactInv'
  BY <1>1, <1>4, ArtifactRun DEF Run
<1>5. ASSUME NEW r \in Runners,
             LoopStep(r) \/ Decide(r) \/ StartDirect(r) \/ Crash(r) \/ Restart(r)
      PROVE  ArtifactInv'
  <2>1. {"receiving", "inspect", "claim", "delete", "abandon", "unlinking", "returning",
         "idle", "dead"} \subseteq RunnerPoints \ {"upload", "record", "mark"}
    BY DEF RunnerPoints
  <2> QED BY <1>1, <1>5, <2>1, LoopSteps, LoopKeepsArtifacts
<1>6. ASSUME NEW c \in Cancellers, Cancel(c) PROVE ArtifactInv'
  BY <1>1, <1>6, CancelSteps, CancelKeepsArtifacts
<1>7. CASE UNCHANGED vars
  BY <1>2, <1>7 DEF vars, storeVars, runVars
<1> QED BY <1>3, <1>4, <1>5, <1>6, <1>7 DEF Next, RunnerStep, LoopStep

\* The artifact invariant holds at every step.
LEMMA ArtifactsAlways == Spec => []ArtifactInv
BY ArtifactInit, ArtifactStep, ClaimsAlways, PTL DEF Spec, Init

\* A completed job has its plot and its log stored and recorded, whatever codex and
\* its script leave, remove or overwrite.
THEOREM AzureCompletedJobsHaveArtifacts == Spec => []CompletedHasArtifacts
<1>1. ArtifactInv => CompletedHasArtifacts
  BY DEF ArtifactInv
<1> QED BY <1>1, ArtifactsAlways, PTL

\* Every row the job page links to has its blob.
THEOREM AzureLinksResolve == Spec => []LinksResolve
<1>1. ArtifactInv => LinksResolve
  BY DEF ArtifactInv
<1> QED BY <1>1, ArtifactsAlways, PTL

\* Every step keeps the runners the owners of their results, and takes a result
\* back in the three ways of ResultsStand only.
LEMMA OwnStep ==
  ASSUME TypeOK, ClaimInv, CompletionsAreOwn, [Next]_vars
  PROVE  CompletionsAreOwn' /\ ResultsStand
<1>1. RunnerTypeOK
  BY TypeParts
<1>2. ASSUME UNCHANGED <<status, pc, current, result>>
      PROVE  CompletionsAreOwn' /\ ResultsStand
  BY <1>2, OwnCalm, ResultsCalm DEF ClaimInv
<1>3. ASSUME NEW j \in Jobs,
             Submit(j) \/ WebStep(j) \/ RequestFails(j) \/ VisibilityExpires(j)
      PROVE  CompletionsAreOwn' /\ ResultsStand
  BY <1>1, <1>2, <1>3, RequestSteps, OwnRequest, ResultsRequest
  DEF VisibilityExpires, storeVars, runVars
<1>4. ASSUME NEW c \in Cancellers, Cancel(c) PROVE CompletionsAreOwn' /\ ResultsStand
  BY <1>1, <1>4, CancelSteps, OwnRequest, ResultsRequest
<1>5. ASSUME NEW r \in Runners, Run(r) PROVE CompletionsAreOwn' /\ ResultsStand
  BY <1>1, <1>5, OwnRun, ResultsRun DEF Run
<1>6. ASSUME NEW r \in Runners,
             LoopStep(r) \/ Decide(r) \/ StartDirect(r) \/ Crash(r) \/ Restart(r)
      PROVE  CompletionsAreOwn' /\ ResultsStand
  <2>1. {"receiving", "inspect", "claim", "delete", "abandon", "unlinking", "returning",
         "idle", "dead"} \subseteq RunnerPoints \ (RunPoints \cup {"settle"})
    BY DEF RunnerPoints, RunPoints
  <2> QED BY <1>1, <1>6, <2>1, LoopSteps, OwnLoop, ResultsCalm
<1>7. CASE UNCHANGED vars
  BY <1>2, <1>7 DEF vars, storeVars, runVars
<1> QED BY <1>3, <1>4, <1>5, <1>6, <1>7 DEF Next, RunnerStep, LoopStep

\* A completed job stays completed, however often its message is delivered, but for
\* a cancel request that saw it queued, a request whose enqueue_job raised, and the
\* failure handler of the runner that completed it.
THEOREM AzureCompletedJobsStand == Spec => CompletedStands
<1>1. TypeOK /\ ClaimInv /\ CompletionsAreOwn /\ [Next]_vars =>
         CompletionsAreOwn' /\ [ResultsStand]_status
  BY OwnStep
<1>2. Init => CompletionsAreOwn
  BY OwnInit DEF Init
<1> QED BY <1>1, <1>2, ClaimsAlways, PTL DEF Spec, CompletedStands

-----------------------------------------------------------------------------
(* One runner process, as docker-compose.yml starts it.                    *)

\* No step takes a runner into claim_job but by locking a row.
LEMMA EnterClaim ==
  ASSUME TypeOK, [Next]_vars
  PROVE  EntersByLock
<1> USE TypeParts
<1>1. ASSUME UNCHANGED pc PROVE EntersByLock
  BY <1>1 DEF EntersByLock
<1>2. ASSUME NEW j \in Jobs,
             Submit(j) \/ WebStep(j) \/ RequestFails(j) \/ VisibilityExpires(j)
      PROVE  EntersByLock
  BY <1>1, <1>2, RequestSteps DEF VisibilityExpires, runVars
<1>3. ASSUME NEW r \in Runners, Run(r) PROVE EntersByLock
  BY <1>3, EnterRun DEF Run
<1>4. ASSUME NEW r \in Runners,
             LoopStep(r) \/ Decide(r) \/ StartDirect(r) \/ Crash(r) \/ Restart(r)
      PROVE  EntersByLock
  <2>1. \E p \in RunnerPoints \ {"claiming"} : Goto(r, p)
    BY <1>4, LoopSteps DEF TakeUp, Step, RunnerPoints
  <2> QED BY <2>1, EnterElsewhere
<1>5. CASE UNCHANGED vars \/ \E c \in Cancellers : Cancel(c)
  BY <1>1, <1>5 DEF vars, runVars, Cancel
<1> QED BY <1>2, <1>3, <1>4, <1>5 DEF Next, RunnerStep, LoopStep

\* With one runner process at most one job is running, although claim_job locks
\* nothing but its own row and a killed runner's message is delivered again.
THEOREM AzureOneRunnerOneJob ==
  ASSUME OneRunner
  PROVE  Spec => []SingleActive
<1>1. Init => SoleInv
  BY SoleInit DEF Init
<1>2. TypeOK /\ ClaimInv /\ SoleInv /\ [Next]_vars => SoleInv'
  BY StatusStep, EnterClaim, SoleMoves
<1>3. SoleInv => SingleActive
  BY DEF SoleInv
<1> QED BY <1>1, <1>2, <1>3, ClaimsAlways, PTL DEF Spec

-----------------------------------------------------------------------------
(* A running job keeps its runner.                                         *)

\* Without the failures that strand a job, every step keeps AttendInv.
LEMMA AttendStep ==
  ASSUME NothingStrands, TypeOK, ClaimInv, AttendInv, [Next]_vars
  PROVE  AttendInv'
<1>1. RunnerTypeOK /\ StatusMoves
  BY TypeParts, StatusStep
<1>2. ASSUME UNCHANGED <<status, pc, current>> PROVE AttendInv'
  BY <1>1, <1>2, AttendCalm DEF Executing
<1>3. ASSUME NEW j \in Jobs,
             Submit(j) \/ WebStep(j) \/ RequestFails(j) \/ VisibilityExpires(j)
      PROVE  AttendInv'
  BY <1>1, <1>2, <1>3, RequestSteps, AttendRequest DEF VisibilityExpires, storeVars, runVars
<1>4. ASSUME NEW c \in Cancellers, Cancel(c) PROVE AttendInv'
  BY <1>1, <1>4, CancelSteps, AttendRequest
<1>5. ASSUME NEW r \in Runners, Run(r) PROVE AttendInv'
  BY <1>1, <1>5, AttendRun DEF Run
<1>6. ASSUME NEW r \in Runners,
             LoopStep(r) \/ Decide(r) \/ StartDirect(r) \/ Crash(r) \/ Restart(r)
      PROVE  AttendInv'
  <2>1. ~Crash(r)
    BY DEF Crash, Local!Crash, NothingStrands
  <2>2. /\ UNCHANGED status
        /\ pc[r] \notin RunPoints
    BY <1>6, <2>1, LoopMoves, LocalSteps DEF storeVars, Step, RunPoints
  <2>3. \E p \in RunnerPoints \ (RunPoints \cup {"settle"}), j \in Jobs \cup {NoOne} :
           TakeUp(r, j, p) \/ \E from \in RunnerPoints : Step(r, from, p)
    BY <1>6, LoopSteps DEF RunnerPoints, RunPoints
  <2> QED BY <1>1, <2>2, <2>3, AttendLoop
<1>7. CASE UNCHANGED vars
  BY <1>2, <1>7 DEF vars, storeVars, runVars
<1> QED BY <1>3, <1>4, <1>5, <1>6, <1>7 DEF Next, RunnerStep, LoopStep

\* On the Azure queue, too, only a killed runner, a failing preparation or a
\* failing failure handler leaves a job running by nobody; an error of the queue
\* that ends the loop does not.
THEOREM AzureRunningJobsAttended ==
  ASSUME NothingStrands
  PROVE  Spec => []NoneStranded
<1>1. Init => AttendInv
  BY AttendInit DEF Init
<1>2. TypeOK /\ ClaimInv /\ AttendInv /\ [Next]_vars => AttendInv'
  BY AttendStep
<1>3. AttendInv => NoneStranded
  BY DEF AttendInv
<1> QED BY <1>1, <1>2, <1>3, ClaimsAlways, PTL DEF Spec

-----------------------------------------------------------------------------
(* With a visibility timeout longer than the work around the run, a        *)
(* message is lost only in the window before its record.                   *)

\* Where only a loop stands.
AtQueue == {"receiving", "inspect", "delete", "abandon", "unlinking", "returning"}

\* From its receive to its decision a runner holds the message, and so does one that
\* will delete the message of an unfinished job: it has found no record.
Waiting(r) ==
    \/ pc[r] \in {"receiving", "inspect"}
    \/ pc[r] = "delete" /\ ~Terminal(current[r])

\* A record with a receipt has met a receive; its message may go only when its
\* job is terminal.
Settled(m) == mirror[m] = NoOne \/ Terminal(m)

SeenInv ==
    /\ \A r \in Runners : pc[r] \in AtQueue => r \in QueueRunners
    /\ \A r \in QueueRunners : Waiting(r) =>
          queued[current[r]] = "hidden" /\ popReceipt[current[r]] = r
    /\ \A r \in QueueRunners : pc[r] = "delete" => Settled(current[r])
    /\ \A m \in Jobs : m \notin records => mirror[m] = NoOne
    /\ \A m \in Jobs : Settled(m) \/ Held(m)

\* A step that leaves the queue alone, and in which every runner goes on with
\* its message or puts it down.
LEMMA SeenCalm ==
  ASSUME SeenInv, StatusMoves, UNCHANGED azureVars, BusyRunnersHaveJobs',
         \A r \in Runners :
            \/ pc'[r] \in {"idle", "dead"}
            \/ /\ pc'[r] \in AtQueue => r \in QueueRunners
               /\ r \in QueueRunners => /\ current'[r] = current[r]
                                        /\ pc'[r] \in {"receiving", "inspect"} =>
                                             pc'[r] = pc[r]
                                        /\ pc'[r] = "delete" =>
                                             \/ pc[r] = "delete" \/ Terminal(current[r])
                                             \/ pc[r] = "inspect" /\ Settled(current[r])
  PROVE  SeenInv'
<1>1. /\ queued' = queued /\ popReceipt' = popReceipt
      /\ records' = records /\ mirror' = mirror
  BY DEF azureVars
<1>2. \A m \in Jobs : Settled(m) => Settled(m)'
  BY <1>1 DEF Settled, Terminal, StatusMoves, TerminalValues
<1>3. \A m \in Jobs : Held(m)' = Held(m)
  BY <1>1 DEF Held
<1>4. \A r \in QueueRunners : r \in Runners
  BY DEF Runners
<1>5. /\ \A r \in Runners : pc'[r] \in AtQueue => r \in QueueRunners
      /\ \A r \in QueueRunners : Waiting(r)' =>
            queued'[current'[r]] = "hidden" /\ popReceipt'[current'[r]] = r
  <2>1. \A m \in Jobs : Terminal(m) => Terminal(m)'
    BY DEF Terminal, StatusMoves, TerminalValues
  <2>2. ASSUME NEW r \in QueueRunners, Waiting(r)'
        PROVE  Waiting(r) /\ current'[r] = current[r]
    <3>1. pc'[r] \in {"receiving", "inspect", "delete"}
      BY <2>2 DEF Waiting
    <3>2. current'[r] = current[r] /\ current[r] \in Jobs
      BY <1>4, <3>1 DEF BusyRunnersHaveJobs
    <3>3. CASE pc'[r] = "delete"
      <4>1. ~Terminal(current[r])'
        BY <2>2, <3>3 DEF Waiting
      <4>2. ~Terminal(current[r])
        BY <2>1, <3>2, <4>1 DEF Terminal
      <4> QED BY <1>4, <3>2, <3>3, <4>2 DEF Waiting
    <3> QED BY <1>4, <3>1, <3>2, <3>3 DEF Waiting
  <2> QED BY <1>1, <1>4, <2>2 DEF SeenInv, AtQueue
<1>6. ASSUME NEW r \in QueueRunners, pc'[r] = "delete" PROVE Settled(current[r])'
  <2>1. current'[r] \in Jobs /\ current'[r] = current[r] /\ Settled(current[r])
    BY <1>4, <1>6 DEF SeenInv, BusyRunnersHaveJobs, Settled
  <2> QED BY <1>2, <2>1 DEF Settled, Terminal
<1> QED BY <1>1, <1>2, <1>3, <1>5, <1>6 DEF SeenInv

\* A runner decides to delete when the job is terminal, or when its message has
\* no record; a direct runner decides nothing about messages.
LEMMA DecisionsAreSettled ==
  ASSUME TypeOK, SeenInv, ClaimInv, NEW r \in Runners, Decide(r)
  PROVE  \/ pc'[r] = "idle"
         \/ /\ r \in QueueRunners /\ pc[r] \in {"inspect", "settle"}
            /\ current'[r] = current[r]
            /\ pc'[r] \in {"delete", "abandon", "claim"}
            /\ pc'[r] = "delete" =>
                  \/ Terminal(current[r])
                  \/ pc[r] = "inspect" /\ Settled(current[r])
<1> USE DEF TypeOK, RunTypeOK, Local!Step, Local!PutDown, Local!TakeUp, Local!Goto
<1>1. CASE Local!Inspect(r)
  <2>1. pc[r] = "inspect" /\ pc' = [pc EXCEPT ![r] = Local!Decision(current[r])]
        /\ current' = current
    BY <1>1 DEF Local!Inspect
  <2>2. current[r] \in Jobs /\ r \in QueueRunners
    BY <2>1 DEF ClaimInv, BusyRunnersHaveJobs, SeenInv, AtQueue
  <2>3. Local!Decision(current[r]) \in {"delete", "abandon", "claim"}
    BY DEF Local!Decision
  <2>4. Local!Decision(current[r]) = "delete" =>
           current[r] \notin records \/ Terminal(current[r])
    BY <2>2 DEF Local!Decision, Local!Terminal, Terminal, Records, Local!TerminalValues,
       TerminalValues
  <2> QED BY <2>1, <2>2, <2>3, <2>4 DEF SeenInv, Settled
<1>2. CASE Local!Settle(r)
  BY <1>2 DEF Local!Settle, Local!Terminal, Terminal, Local!TerminalValues, TerminalValues,
     Runners, Settled
<1> QED BY <1>1, <1>2 DEF Decide

\* Settled messages stay settled when the mirror is left alone.
LEMMA SettledStays ==
  ASSUME StatusMoves, NEW m \in Jobs, Settled(m), mirror'[m] = mirror[m]
  PROVE  Settled(m)'
  BY DEF Settled, Terminal, StatusMoves, TerminalValues

\* The web process sends messages and creates records nobody has a receipt for.
LEMMA SeenWeb ==
  ASSUME VisibilityCoversClaim, TypeOK, ClaimInv, ClaimInv', SeenInv, StatusMoves,
         NEW j \in Jobs,
         Submit(j) \/ WebStep(j) \/ RequestFails(j) \/ VisibilityExpires(j)
  PROVE  SeenInv'
<1> USE DEF TypeOK, AzureTypeOK
<1>1. \A r \in QueueRunners : r \in Runners
  BY DEF Runners
<1>2. \A r \in QueueRunners : Waiting(r) \/ pc[r] = "delete" => current[r] \in Jobs
  BY <1>1 DEF ClaimInv, BusyRunnersHaveJobs, Waiting
<1>3. CASE Submit(j) \/ FinishRequest(j) \/ RequestFails(j)
  <2>1. UNCHANGED <<azureVars, runVars>>
    BY <1>3 DEF Submit, FinishRequest, RequestFails
  <2> QED BY <2>1, SeenCalm DEF runVars, ClaimInv, SeenInv
<1>4. CASE Enqueued(j)
  <2>1. /\ UNCHANGED <<pc, current, queued, popReceipt, mirror>>
        /\ records' = records \cup {j}
    BY <1>4 DEF Enqueued, CreateRecord, runVars
  <2>2. \A m \in Jobs : Settled(m) => Settled(m)'
    BY <2>1, SettledStays
  <2>3. status' = status
    BY <1>4 DEF Enqueued, EnqueueReturns
  <2> QED BY <1>2, <2>1, <2>2, <2>3 DEF SeenInv, Held, Settled, Terminal, Waiting
<1>5. CASE Send(j) \/ VisibilityExpires(j)
  <2>1. /\ UNCHANGED <<pc, current, records, mirror, status>>
        /\ queued' = [queued EXCEPT ![j] = "visible"]
        /\ \A m \in Jobs \ {j} : popReceipt'[m] = popReceipt[m]
    BY <1>5 DEF Send, SendMessage, VisibilityExpires, ServiceShows, Serve, mirrorVars,
       storeVars, runVars
  <2>2. \A r \in QueueRunners : Waiting(r) => ~Executing(r)
    BY DEF Waiting, Executing, RunPoints
  <2>3. \A r \in QueueRunners : Waiting(r) => current[r] # j
    BY <1>1, <1>5, <2>2 DEF Send, SendMessage, VisibilityExpires, SeenInv
  <2> QED BY <1>2, <2>1, <2>3 DEF SeenInv, Held, Settled, Terminal, Waiting
<1> QED BY <1>3, <1>4, <1>5 DEF WebStep

\* A run, a decision, a start and an end of a process leave the queue alone.
LEMMA SeenRun ==
  ASSUME TypeOK, ClaimInv, ClaimInv', SeenInv, StatusMoves, NEW r \in Runners,
         Run(r) \/ Decide(r) \/ StartDirect(r) \/ Crash(r) \/ Restart(r)
  PROVE  SeenInv'
<1> USE DEF TypeOK, RunTypeOK, AtQueue
<1>1. BusyRunnersHaveJobs' /\ \A q \in QueueRunners : q \in Runners
  BY DEF ClaimInv, Runners
<1>2. \A q \in Runners : pc[q] \in AtQueue => q \in QueueRunners
  BY DEF SeenInv
<1>3. CASE Run(r)
  <2>1. Onward(r) /\ UNCHANGED azureVars
    BY <1>3, RunGoes, TypeParts DEF Run
  <2> QED BY <1>1, <1>2, <2>1, SeenCalm DEF Onward, RunPoints
<1>4. CASE Decide(r)
  <2>1. \A q \in Runners \ {r} : pc'[q] = pc[q] /\ current'[q] = current[q]
    BY <1>4, LocalSteps DEF Step, PutDown, TakeUp, Goto
  <2>2. UNCHANGED azureVars
    BY <1>4 DEF Decide
  <2> QED BY <1>1, <1>2, <1>4, <2>1, <2>2, DecisionsAreSettled, SeenCalm
<1>5. CASE StartDirect(r)
  <2>1. /\ r \in DirectRunners /\ pc' = [pc EXCEPT ![r] = "claim"]
        /\ \A q \in Runners \ {r} : current'[q] = current[q]
        /\ UNCHANGED azureVars
    BY <1>5 DEF StartDirect, Local!StartDirect, Local!TakeUp, Local!Goto
  <2>2. r \notin QueueRunners
    BY <2>1, ActorsAssumption
  <2> QED BY <1>1, <1>2, <2>1, <2>2, SeenCalm
<1>6. CASE Crash(r) \/ Restart(r)
  <2>1. /\ pc'[r] \in {"idle", "dead"}
        /\ \A q \in Runners \ {r} : pc'[q] = pc[q] /\ current'[q] = current[q]
        /\ UNCHANGED azureVars
    BY <1>6 DEF Crash, Restart, Local!Crash, Local!Restart, Local!PutDown, Local!TakeUp,
       Local!Goto
  <2> QED BY <1>1, <1>2, <2>1, SeenCalm
<1> QED BY <1>3, <1>4, <1>5, <1>6

\* The loop's calls of the queue: only the holder of the receipt answers.
LEMMA SeenLoop ==
  ASSUME TypeOK, ClaimInv, ClaimInv', SeenInv, StatusMoves, NEW r \in Runners, LoopStep(r)
  PROVE  SeenInv'
<1> USE DEF TypeOK, RunTypeOK, AzureTypeOK, AtQueue, Waiting
<1>1. /\ \A q \in QueueRunners : q \in Runners
      /\ \A q \in Runners : pc[q] \notin {"idle", "dead"} => current[q] \in Jobs
      /\ UNCHANGED storeVars
  BY LoopMoves DEF ClaimInv, BusyRunnersHaveJobs, Runners
<1>2. status' = status
  BY <1>1 DEF storeVars
<1>3. CASE Receive(r)
  BY <1>1, <1>2, <1>3 DEF Receive, ServiceReceive, Serve, mirrorVars, TakeUp, Goto, SeenInv,
     Held, Settled, Terminal
<1>4. CASE NoteReceipt(r)
  BY <1>1, <1>2, <1>4 DEF NoteReceipt, MirrorReceive, Step, Goto, SeenInv, Held, Settled,
     Terminal
<1>5. CASE DeleteInService(r)
  BY <1>1, <1>2, <1>5 DEF DeleteInService, ServiceDelete, ReceiptHonoured, Serve, mirrorVars,
     Step, Goto, SeenInv, Held, Settled, Terminal
<1>6. CASE ShowInService(r)
  BY <1>1, <1>2, <1>6 DEF ShowInService, ServiceUpdate, ReceiptHonoured, Serve, mirrorVars,
     Step, Goto, SeenInv, Held, Settled, Terminal
<1>7. CASE Unlink(r)
  BY <1>1, <1>2, <1>7 DEF Unlink, MirrorDelete, MirrorMatches, serviceVars, PutDown, TakeUp,
     Goto, SeenInv, Held, Settled, Terminal
<1>8. CASE Return(r) \/ LoopDies(r)
  <2>1. /\ UNCHANGED azureVars /\ pc'[r] \in {"idle", "dead"}
        /\ \A q \in Runners \ {r} : pc'[q] = pc[q] /\ current'[q] = current[q]
    BY <1>8 DEF Return, MirrorUpdate, LoopDies, ServiceRefuses, MirrorRaises, PutDown, TakeUp,
       Goto
  <2> QED BY <1>1, <2>1, SeenCalm DEF SeenInv, ClaimInv
<1> QED BY <1>3, <1>4, <1>5, <1>6, <1>7, <1>8 DEF LoopStep

\* Where the visibility timeout is longer than the work around the run (a run may
\* take as long as it likes), a message that a runner found a record for stays in the
\* service until its job is terminal, whatever requests and runners do: what is lost
\* is lost before its record was seen.
THEOREM SeenMessagesAreKept ==
  ASSUME VisibilityCoversClaim
  PROVE  Spec => []SeenMessageKept
<1>1. Init => SeenInv
  <2>1. Init => /\ \A r \in QueueRunners \cup DirectRunners : pc[r] = "idle"
                /\ \A m \in Jobs : mirror[m] = NoOne
    BY DEF Init, RunInit, AzureInit, Runners
  <2> QED BY <2>1 DEF SeenInv, Settled, AtQueue, Waiting, Runners
<1>2. TypeOK /\ ClaimInv /\ (TypeOK /\ ClaimInv)' /\ SeenInv /\ [Next]_vars => SeenInv'
  <2> SUFFICES ASSUME TypeOK, ClaimInv, ClaimInv', SeenInv, [Next]_vars PROVE SeenInv'
    OBVIOUS
  <2>1. StatusMoves
    BY StatusStep
  <2>2. CASE UNCHANGED vars \/ \E c \in Cancellers : Cancel(c)
    BY <2>1, <2>2, SeenCalm DEF vars, Cancel, runVars, ClaimInv, SeenInv
  <2>3. CASE Next
    BY <2>1, <2>2, <2>3, SeenWeb, SeenRun, SeenLoop DEF Next, RunnerStep, LoopStep
  <2> QED BY <2>2, <2>3
<1>3. SeenInv => SeenMessageKept
  BY DEF SeenInv, Settled, SeenMessageKept
<1> QED BY <1>1, <1>2, <1>3, ClaimsAlways, PTL DEF Spec
=============================================================================
