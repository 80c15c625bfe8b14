------------------------------- MODULE Portal -------------------------------
(***************************************************************************)
(* The plot portal at work: web requests submit and cancel jobs, queue     *)
(* runners (run_local_job_runner) take messages from the database queue    *)
(* and run the jobs they name, direct runners (plot_runner) run a job by   *)
(* its id.  All of them meet in the job table and the message table.       *)
(***************************************************************************)
EXTENDS PlotRunner, DatabaseQueue

CONSTANT VisibilityCoversRun    \* TRUE: QUEUE_VISIBILITY_TIMEOUT_SECONDS is
                                \* longer than any run (the defaults, 120 s
                                \* and 600 s, are the other way round)

ASSUME VisibilityAssumption == VisibilityCoversRun \in BOOLEAN

vars == <<storeVars, queueVars, runVars>>

\* Job rows, messages, runners and artifacts keep the values their columns and
\* program points allow.
TypeOK == StoreTypeOK /\ QueueTypeOK /\ RunTypeOK

Init == StoreInit /\ QueueInit /\ RunInit

-----------------------------------------------------------------------------
(* The web process.                                                        *)

Submit(j) == CreateRow(j) /\ UNCHANGED <<queueVars, runVars>>

Enqueue(j) == EnqueueReturns(j) /\ EnqueueJob(j) /\ UNCHANGED runVars

FinishRequest(j) == /\ SaveMessageId(j) \/ RecordEnqueueFailure(j)
                    /\ UNCHANGED <<queueVars, runVars>>

RequestFails(j) == /\ EnqueueRaises(j) \/ WebCrash(j)
                   /\ UNCHANGED <<queueVars, runVars>>

Cancel(c) == /\ (\E j \in Jobs : CancelCheck(c, j)) \/ CancelSave(c)
             /\ UNCHANGED <<queueVars, runVars>>

-----------------------------------------------------------------------------
(* The loop of run_local_job_runner.                                       *)

Receive(r) ==
    /\ r \in QueueRunners
    /\ pc[r] = "idle"
    /\ \E m \in Jobs : ReceiveMessage(r, m) /\ TakeUp(r, m, "inspect")
    /\ UNCHANGED storeVars

\* Faulty variant: a message whose job is already running is discarded.
DecisionDropsBusy(m) ==
    IF record[m] = "none" \/ status[m] # "queued" THEN "delete" ELSE "claim"

\* What the loop does with the message depends on the record and on the
\* status it reads, once, before it acts.
Decision(m) ==
    IF record[m] = "none" \/ Terminal(m) THEN "delete"
    ELSE IF status[m] # "queued" THEN "abandon"
    ELSE "claim"

Inspect(r) ==
    /\ Step(r, "inspect", Decision(current[r]))
    /\ UNCHANGED <<storeVars, queueVars>>

\* After the run the job row is read again: only a terminal job lets the
\* message go.  The plot_runner command just ends.
Settle(r) ==
    /\ pc[r] = "settle"
    /\ IF r \in DirectRunners THEN PutDown(r, "idle")
       ELSE Step(r, "settle", IF Terminal(current[r]) THEN "delete" ELSE "abandon")
    /\ UNCHANGED <<storeVars, queueVars>>

Delete(r) ==
    /\ pc[r] = "delete"
    /\ DeleteMessage(r, current[r])
    /\ PutDown(r, "idle")
    /\ UNCHANGED storeVars

Abandon(r) ==
    /\ pc[r] = "abandon"
    /\ AbandonMessage(r, current[r])
    /\ PutDown(r, "idle")
    /\ UNCHANGED storeVars

\* Nothing catches the KeyError of delete_message and abandon_message: the
\* process ends.
LoopDies(r) ==
    /\ pc[r] \in {"delete", "abandon"}
    /\ ReceiptExpired(r, current[r])
    /\ PutDown(r, "dead")
    /\ UNCHANGED storeVars

-----------------------------------------------------------------------------
StartDirect(r) ==
    /\ r \in DirectRunners
    /\ pc[r] = "idle"
    /\ \E j \in Jobs : status[j] # "absent" /\ TakeUp(r, j, "claim")
    /\ UNCHANGED <<storeVars, queueVars>>

Crash(r) ==
    /\ "runner" \in Faults
    /\ pc[r] \notin {"idle", "dead"}
    /\ PutDown(r, "dead")
    /\ ReleaseLocks(r)
    /\ UNCHANGED queueVars

\* An operator starts the process again.
Restart(r) ==
    /\ pc[r] = "dead"
    /\ PutDown(r, "idle")
    /\ UNCHANGED <<storeVars, queueVars>>

\* Time passes for a received message; not while its receiver still works
\* on it, where the visibility timeout is longer than any run.
VisibilityExpires(m) ==
    /\ VisibilityCoversRun => ~\E r \in Runners : current[r] = m /\ receipt[m] = r
    /\ BecomesVisible(m)
    /\ UNCHANGED <<storeVars, runVars>>

-----------------------------------------------------------------------------
Run(r) == RunStep(r) /\ UNCHANGED queueVars

WebStep(j) == Enqueue(j) \/ FinishRequest(j)

RunnerStep(r) == \/ Receive(r) \/ Inspect(r) \/ Run(r) \/ Settle(r)
                 \/ Delete(r) \/ Abandon(r) \/ LoopDies(r)

Next ==
    \/ \E j \in Jobs : Submit(j) \/ WebStep(j) \/ RequestFails(j)
                       \/ VisibilityExpires(j)
    \/ \E c \in Cancellers : Cancel(c)
    \/ \E r \in Runners : RunnerStep(r) \/ StartDirect(r) \/ Crash(r) \/ Restart(r)

Spec == Init /\ [][Next]_vars

\* A started process keeps running, the web server finishes the requests it
\* took, and time passes; nobody has to submit, cancel, or start a runner.
Fairness ==
    /\ \A r \in Runners : WF_vars(RunnerStep(r))
    /\ \A j \in Jobs : WF_vars(WebStep(j)) /\ WF_vars(VisibilityExpires(j))

FairSpec == Spec /\ Fairness

\* As FairSpec, and every dead runner process is started again.
SupervisedSpec == FairSpec /\ \A r \in Runners : WF_vars(Restart(r))
-----------------------------------------------------------------------------
\* A message that was queued stays in the queue until its job is terminal,
\* so that an unfinished job is never left to nobody (the delete branches of
\* run_local_job_runner).
NoMessageLost ==
    \A j \in Jobs : created[j] # 0 /\ ~Terminal(j) => record[j] # "none"

\* A runner never finds its receipt expired when it deletes or abandons the
\* message it handled, so its loop survives (run_local_job_runner).
LoopSurvives ==
    \A r \in Runners : pc[r] \in {"delete", "abandon"} => ReceiptValid(r, current[r])

\* Only a queued job is cancelled (mark_cancelled).
CancelOnlyQueued ==
    [][\A j \in Jobs : status[j] # "cancelled" /\ status'[j] = "cancelled"
                          => status[j] = "queued"]_vars

\* When nothing else goes wrong, a job whose driver timed out fails with the
\* timeout message and the artifacts produced until then
\* (run_plot_driver_subprocess).
TimeoutIsReported ==
    \A r \in Runners :
        pc[r] = "settle" /\ result[r] = "timeout" =>
            /\ message[current[r]] = "timed out"
            /\ files[r] \subseteq recorded[current[r]]

\* A terminal job is reached from every queued message.
EveryJobEnds == \A j \in Jobs : created[j] # 0 ~> Terminal(j)

\* No message circulates for ever.
QueueDrains == \A j \in Jobs : created[j] # 0 ~> record[j] = "none"

\* A job whose runner died is eventually taken to a terminal status.
StaleRunningRecovered == \A j \in Jobs : status[j] = "running" ~> Terminal(j)

\* The message table seen as the queue it stands for: a record is waiting or
\* taken, and one that was created and is no more is gone.
MessageState == [m \in Jobs |-> IF record[m] = "visible" THEN "waiting"
                                ELSE IF record[m] = "hidden" THEN "taken"
                                ELSE IF created[m] = 0 THEN "unsent" ELSE "gone"]

\* DatabaseQueueClient and the loop that uses it implement WorkQueue: a message
\* is sent once, is delivered until its job is terminal, and goes only then.
Queue == INSTANCE WorkQueue WITH Jobs <- Jobs, state <- MessageState,
                                 over <- {j \in Jobs : Terminal(j)}
QueueSpec == Queue!Spec
-----------------------------------------------------------------------------
(* The inductive invariant behind the safety properties, part by part.     *)

\* A record, and a message a runner holds, was once enqueued.
MessagesWereCreated ==
    /\ \A j \in Jobs : record[j] # "none" => created[j] # 0
    /\ \A r \in Runners : pc[r] = "inspect" => created[current[r]] # 0

\* A runner decides to delete the message of a terminal job only.
DeletionsAreSafe == \A r \in Runners : pc[r] = "delete" => Terminal(current[r])

\* Locks, rows, runners and messages agree at every step: the claim protocol
\* of services.claim_job and the loop of run_local_job_runner, in the form that
\* every step preserves.
Consistency ==
    /\ LocksMatchClaims
    /\ LockedRowsAreQueued
    /\ RowsFollowRequests
    /\ BusyRunnersHaveJobs
    /\ ExecutionsHaveStarted
    /\ ExecutionsDiffer
    /\ MessagesWereCreated
    /\ DeletionsAreSafe
    /\ NoMessageLost
    /\ CompletionsAreOwn
=============================================================================
