----------------------------- MODULE AzurePortal -----------------------------
(***************************************************************************)
(* The portal with QUEUE_BACKEND=azure, as docker-compose.yml deploys it:  *)
(* the web requests, the loop and the runners of Portal, with the message  *)
(* in the queue service and its record in the database.  What the loop     *)
(* decides is taken from Portal, which sees the records.                   *)
(***************************************************************************)
EXTENDS PlotRunner, AzureQueue

CONSTANT VisibilityCoversClaim   \* TRUE: QUEUE_VISIBILITY_TIMEOUT_SECONDS is longer
                                 \* than all a runner does with a message, but for
                                 \* the run (as 120 s, the default, is; a run may
                                 \* take 600 s)

ASSUME VisibilityAssumption == VisibilityCoversClaim \in BOOLEAN

vars == <<storeVars, runVars, azureVars>>

Records == [m \in Jobs |-> IF m \in records THEN "hidden" ELSE "none"]

\* The loop looks a record up by its message id; no one asks for the order or
\* the number of the records.
Local == INSTANCE Portal WITH
    record <- Records,
    receipt <- mirror,
    created <- [m \in Jobs |-> IF m \in records THEN 1 ELSE 0],
    sent <- 0,
    VisibilityCoversRun <- FALSE

Init == StoreInit /\ RunInit /\ AzureInit

-----------------------------------------------------------------------------
(* The web process.                                                        *)

Submit(j) == CreateRow(j) /\ UNCHANGED <<azureVars, runVars>>

Send(j) == request[j] = "created" /\ SendMessage(j) /\ UNCHANGED <<storeVars, runVars>>

Enqueued(j) == EnqueueReturns(j) /\ CreateRecord(j) /\ UNCHANGED runVars

FinishRequest(j) == /\ SaveMessageId(j) \/ RecordEnqueueFailure(j)
                    /\ UNCHANGED <<azureVars, runVars>>

\* enqueue_job raises, or the process stops, before the message is sent or
\* between the message and its record.
RequestFails(j) == /\ EnqueueRaises(j) \/ WebCrash(j)
                   /\ UNCHANGED <<azureVars, runVars>>

\* cancel_job leaves the message to the loop.
Cancel(c) == /\ (\E j \in Jobs : CancelCheck(c, j)) \/ CancelSave(c)
             /\ UNCHANGED <<azureVars, runVars>>

-----------------------------------------------------------------------------
(* The loop of run_local_job_runner.                                       *)

Receive(r) ==
    /\ r \in QueueRunners
    /\ pc[r] = "idle"
    /\ \E m \in Jobs : ServiceReceive(r, m) /\ TakeUp(r, m, "receiving")
    /\ UNCHANGED storeVars

NoteReceipt(r) ==
    /\ Step(r, "receiving", "inspect")
    /\ MirrorReceive(r, current[r])
    /\ UNCHANGED storeVars

DeleteInService(r) ==
    /\ Step(r, "delete", "unlinking")
    /\ ServiceDelete(r, current[r])
    /\ UNCHANGED storeVars

ShowInService(r) ==
    /\ Step(r, "abandon", "returning")
    /\ ServiceUpdate(r, current[r])
    /\ UNCHANGED storeVars

Unlink(r) ==
    /\ pc[r] = "unlinking"
    /\ MirrorDelete(r, current[r])
    /\ PutDown(r, "idle")
    /\ UNCHANGED storeVars

Return(r) ==
    /\ pc[r] = "returning"
    /\ MirrorUpdate(r, current[r])
    /\ PutDown(r, "idle")
    /\ UNCHANGED storeVars

\* Neither the error of the service nor the KeyError of the mirror is caught:
\* the process ends.
LoopDies(r) ==
    /\ \/ pc[r] \in {"delete", "abandon"} /\ ServiceRefuses(r, current[r])
       \/ pc[r] \in {"unlinking", "returning"} /\ MirrorRaises(r, current[r])
    /\ PutDown(r, "dead")
    /\ UNCHANGED storeVars

\* Time passes for a received message: while its receiver executes the job, or
\* after somebody gave the message up or died.
VisibilityExpires(m) ==
    /\ VisibilityCoversClaim =>
          ~\E r \in Runners : current[r] = m /\ popReceipt[m] = r /\ ~Executing(r)
    /\ ServiceShows(m)
    /\ UNCHANGED <<storeVars, runVars>>

Run(r) == RunStep(r) /\ UNCHANGED azureVars

\* What the process decides between its calls of the queue is Portal's.
Decide(r) == UNCHANGED azureVars /\ (Local!Inspect(r) \/ Local!Settle(r))

StartDirect(r) == UNCHANGED azureVars /\ Local!StartDirect(r)
Crash(r) == UNCHANGED azureVars /\ Local!Crash(r)
Restart(r) == UNCHANGED azureVars /\ Local!Restart(r)

WebStep(j) == Send(j) \/ Enqueued(j) \/ FinishRequest(j)

RunnerStep(r) == \/ Receive(r) \/ NoteReceipt(r) \/ Run(r) \/ Decide(r)
                 \/ DeleteInService(r) \/ Unlink(r)
                 \/ ShowInService(r) \/ Return(r) \/ LoopDies(r)

Next ==
    \/ \E j \in Jobs : Submit(j) \/ WebStep(j) \/ RequestFails(j) \/ VisibilityExpires(j)
    \/ \E c \in Cancellers : Cancel(c)
    \/ \E r \in Runners : RunnerStep(r) \/ StartDirect(r) \/ Crash(r) \/ Restart(r)

Spec == Init /\ [][Next]_vars

\* As Portal's; and the processes are not killed for ever.  Nobody has to start a
\* dead one again: docker-compose.yml gives the runner no restart policy.
Fairness ==
    /\ \A r \in Runners : WF_vars(RunnerStep(r))
    /\ \A j \in Jobs : WF_vars(WebStep(j)) /\ WF_vars(VisibilityExpires(j))
    /\ <>[][\A r \in Runners : Crash(r) => LoopDies(r)]_vars

FairSpec == Spec /\ Fairness
-----------------------------------------------------------------------------
\* The service, the mirror, the store and the runners keep the values their
\* columns and program points allow.
TypeOK == StoreTypeOK /\ RunTypeOK /\ AzureTypeOK

\* A message that a runner found a record for stays in the service until its
\* job is terminal: only the window of enqueue_job can lose a job.
SeenMessageKept ==
    \A m \in Jobs : m \in records /\ mirror[m] # NoOne /\ ~Terminal(m) => Held(m)

\* Every loop is dead, of a KeyError or killed; nothing but an operator helps.
NoLoopLeft == \A r \in QueueRunners : pc[r] = "dead"

\* Once a receive has met the record, the job ends unless the last loop dies
\* first, although messages are redelivered during a run, runners are killed
\* before they claim and loops die of a KeyError on the way.
SeenJobsEnd == \A m \in Jobs :
    []Attended(m) => (mirror[m] # NoOne ~> Terminal(m) \/ NoLoopLeft)

\* The service does not keep a message for ever, with or without a record, unless
\* the last loop dies.
ServiceDrains == \A m \in Jobs :
    []Attended(m) => (queued[m] # "unsent" ~> queued[m] = "deleted" \/ NoLoopLeft)

\* A message leaves the queue only after its job reached a terminal status.
DeletesOnlyTerminal ==
    [][\A m \in Jobs : Held(m) /\ queued'[m] = "deleted" => Terminal(m)]_vars
=============================================================================
