# Verification of the HEP plot portal

TLA+ modules, TLC configurations and TLAPS proofs for the plot portal under
`src/`: a Django site where approved users submit plot requests, a queue, and
runner processes that execute the requests with an external driver and store
the artifacts.

## 1. Inventory

| Component | State | Operations | Modelled in |
|---|---|---|---|
| Job store and services (`portal/services.py`, `portal/models.py`) | `Job` rows | `create_queued_job`, `claim_job`, `mark_completed`, `mark_failed`, `mark_cancelled` | `JobStore`, abstractly `JobLifecycle` |
| Database queue (`portal/queue.py`, `DatabaseQueueClient`) | `QueueMessageRecord` rows | enqueue, receive, delete, abandon; a received message becomes visible again | `DatabaseQueue`, abstractly `WorkQueue` |
| Queue runner loop (`run_local_job_runner`) | local variables of one turn | receive, inspect, run, settle, delete or abandon | `Portal`, `AzurePortal` |
| Plot runner (`portal/runner.py`) | work directory, driver result, blobs, `JobArtifact` rows | `run_command_plot_job` | `PlotRunner` |
| Direct runner (`plot_runner`, `plot_runner_cli`) | none | run one job by its id | `Portal` |
| Submission and cancel views (`portal/views.py`) | the request under way | submit, clone, cancel | `Portal`, `JobStore` |
| Plot driver (`portal/plot_driver.py`) | files of the work directory | fake and codex executors | `PlotDriver` |
| Artifact stores (`portal/artifacts.py`) | blobs | `put_artifact`; reads and deletion | `PlotRunner` (put), `JobPage` (read) |
| Azure queue (`AzureQueueClient`) | service message and mirror record | as the database queue, each operation a call of the service and a statement on the record | `AzureQueue`, `AzurePortal` |
| Job page (`templates/portal/job_detail.html`) | poll timer, displayed status | refresh until terminal | `JobPage`, `Site` |
| Accounts and approval (`auth.py`, admin views, `bootstrap_local_demo`) | `UserProfile` rows | sign in, approve, reject, bootstrap | `Accounts`, `Site` |
| Secrets (`portal/secrets.py`) | configuration | stateless lookups | as failures, in `PlotDriver` and `PlotRunner` |
| In-memory queue | list in one process | as the database queue, for tests | not modelled |
| Backend profiles, forms, settings | configuration | stateless | not modelled |

**Interactions.** A web request creates the job row, commits, sends the message,
then saves the message id: three commits, with every other process free to act
in between. A runner takes the oldest visible message, which hides it for the
visibility timeout, reads the record and the job's status, and runs the job or
gives the message up. `claim_job` locks the job's row (`SELECT ... FOR UPDATE`)
and looks for another running job without a lock. The run itself holds no
transaction: driver, upload, artifact rows and terminal status are separate
steps. Cancel requests and direct runners meet the queue runners only in the
job table. With the Azure queue the message is in a service, and every operation is
two: the call of the service, then the statement on the record that mirrors it.
The job page polls two views while a job is active; `approval_required` sends it
to the account page when its user is rejected meanwhile.

**Hard behaviours.** At-least-once delivery (the default visibility timeout,
120 s, is shorter than the default driver timeout, 600 s), several runners,
runner and web processes that stop at any point, checks made on a status that
another process changes before the write, uploads that fail half way, and a
handler of failures that can fail itself. A message and a record that disagree
when a process stops between the two. A page that shows two answers, each read at
a time of its own.

**What makes the components right.**

- Job store: a job follows its life cycle, at most one job runs, a terminal
  job is not started again, only queued jobs are cancelled.
- Queue: no message disappears before its job is terminal; every message leaves
  the queue in the end; a receipt is not used after it expired (`WorkQueue`).
- Runner: a job is executed by one runner; a completed job has its artifacts and stays
  completed; a timeout is reported; a job whose runner died is recovered.
- Page: it polls while the job is active, then stops, and never shows an older state.
- Accounts: the audit columns agree with the approval state.

`PROJECT.json` lists the hazards line by line with the properties aimed at them.

## 2. Modules

```
PortalBase      constants, value sets, assumption on the actors
  JobStore      the job table, one action per statement or transaction; what holds
                of the statuses
  PlotDriver    a run of the driver process: its exit codes and what it leaves
    PlotRunner  (JobStore + PlotDriver) run_command_plot_job, one action per step;
                the claim protocol, the order of the artifacts
      PlotRunner_proof         lemmas on the job table and the runs, for any queue
  DatabaseQueue the message table
    Portal      (PlotRunner + DatabaseQueue) web, loop, direct runners, crashes,
                specification, properties
      MCPortal                 model values and symmetry for TLC
      Portal_proof             (+ PlotRunner_proof) proofs for every instance
        Portal_deployment_proof  proofs for one runner, for long timeouts, and without
                               the failures that strand a job
          Portal_lifecycle_proof proof that a lone runner implements JobLifecycle
        Portal_queue_proof       proof that the portal implements WorkQueue
  AzureQueue    the queue service and the records that mirror it
    AzurePortal (PlotRunner + AzureQueue) the portal on the Azure queue; takes the
                decisions of the loop from an instance of Portal
      AzurePortal_proof        (+ PlotRunner_proof) proofs for every instance
        AzurePortal_lifecycle_proof  a lone runner implements JobLifecycle
      MCAzure
  Accounts      profiles and their audit columns
    JobPage     (PlotRunner + Accounts) the script of the job page and its views
      Site      (Portal + JobPage) accounts, pages and the portal together
        MCSite
        Site_proof             (+ Portal_proof) the site implements Portal; its accounts
                               and pages
  JobLifecycle  the promised life cycle of a job row
  WorkQueue     what the portal needs of a queue
```

### State

| Variable | In the code |
|---|---|
| `status`, `message` | `Job.status`, `Job.failure_message` ("absent": no row; messages by the place that writes them) |
| `rowLock` | the row lock of `claim_job`'s transaction, from line 87 to the commit |
| `request` | how far `create_queued_job` has come for the job |
| `cancelling` | the row a cancel view has read and found queued, not yet saved |
| `record`, `receipt` | `QueueMessageRecord`: existence and `visible_at <= now`; the last `pop_receipt` |
| `created`, `sent` | the order of `created_at` |
| `pc`, `current` | the program point of a runner process and its job |
| `files`, `result` | known artifacts in the work directory, `PlotDriverResult` |
| `stored`, `recorded` | blobs and `JobArtifact` rows of a job |
| `queued`, `popReceipt` | the message in the Azure service, and the receipt it honours |
| `records`, `mirror` | the `QueueMessageRecord` rows of the Azure queue, and their `pop_receipt` |
| `approval`, `approvedAt`, `rejectedAt` | `UserProfile.approval_state` and the two groups of audit columns |
| `page`, `subject`, `shown`, `code` | the timer and requests of an open job page, its job, the status and the code it shows |
| `statusAnswer`, `codeAnswer` | the two answers of the refresh under way |

### Decisions

- **Database.** PostgreSQL at READ COMMITTED, as in `docker-compose.yml`.
  The queue is the default one (`QUEUE_BACKEND = "database"`) in `Portal`, and the
  one the compose file sets (`azure`) in `AzurePortal`. A
  plain read sees committed rows and never waits; `FOR UPDATE` waits and then
  sees the latest version; an UPDATE waits for a locked row. A transaction whose
  intermediate states nobody sees is one step. `claim_job` is two: the lock with
  the look for running jobs (`ClaimLock`), and the write with the commit
  (`ClaimCommit`), because another transaction can commit between them.
- **Check, then write.** `mark_cancelled` is two steps (`CancelCheck`,
  `CancelSave`). `mark_completed` and `mark_failed` also read and save, but test
  nothing in what they read and save a fixed set of columns: one step.
- **Messages** are named by their job, since `create_queued_job` sends exactly
  one per job and nothing sends it again. Each receive writes a fresh receipt; a
  runner holds one message at a time, so "my receipt is current" is
  `receipt[m] = r`. A runner that gives up a message and receives it again has
  the fresh receipt in the code as well.
- **The loop** reads the record and then the status of its job. `Inspect` reads
  both at once: a record that disappears between the two reads was deleted for a
  terminal job, and the decision is the same.
- **The driver** ends in one of `DriverRuns`: refused, fake, without a key, codex with
  its checks of exit codes, script and plot, or ended by an exception anywhere.
  What codex leaves is any set of artifacts, and so is what the script it wrote leaves
  afterwards: the script may remove files, `generated.py` among them, and the driver looks
  for the plot only. So a completed job has its plot and log (`Required`), not always its
  script. A non-zero code is 1: no code tells them apart. `FilesAfter` is what
  `run_plot_driver_subprocess` then finds, with the run log it always appends to;
  an instance takes the sets it explores from `DriverOutputs`.
- **A timeout** has two outcomes: `DriverReturns(r, "timeout", F)` when nothing
  had been captured, and `TimeoutWithOutput` when something had:
  `subprocess.run(text=True)` leaves bytes in `TimeoutExpired.stdout` on POSIX,
  and joining them with text raises inside the handler. What was captured is output of
  the driver process itself: `portal.plot_driver` sends that of codex and of the script to
  `run.log` and prints nothing before it ends, so with it the second outcome needs another
  driver command or a word of its interpreter.
- **Failures** (`Faults`) are chosen per run: the web process stops; `enqueue_job`
  raises; preparation, the driver start, an upload, an artifact row or an update
  of the job row raises; a view of the job page fails; a runner process stops. A stopped runner loses its
  connection, and the database undoes its transaction. An error of the queue's
  own tables or of `_bump_retry_count` (an overflow of the small integer `retry_count`,
  too) ends the loop: the fault "runner" covers it.
- **Secrets.** A secret store that cannot be asked ends the driver (`CrashedRuns`) and
  fails the runner's crash handler, which asks it for the values to redact
  (`RescueRaises`, fault "secrets").
- **The Azure queue** promises no order. A receive, delete or update is a step of the
  service, and the mirror follows in a step of its own; a process can stop or be
  overtaken in between. The service honours the last receipt it issued, also after the
  message became visible again; an update issues one that nobody keeps. A
  message is not dropped after seven days, and `receive_messages` updates its record
  in one step, as its transaction does.
- **Shared with Portal.** Both modules take the requests and `RunStep` from `JobStore` and
  `PlotRunner`. `AzurePortal` also instantiates `Portal` with the records as its message
  table, and uses its actions that leave the queue alone: `Inspect`, `Settle`,
  `StartDirect`, `Crash`, `Restart`.
- **The page** is judged by the words its script looks for. The text of a failure message
  is taken to contain none of them, and the `messages` of the base page are outside the
  node the script reads. A rejected user's requests are redirected and followed to the
  account page. An answer with an error status (fault "read") is not rejected by `fetch`:
  its text, taken to contain none of the words, is shown. The status is shown before the
  text of the code answer is awaited (`ShowStatus`, `ShowCode`), which can still fail. A page may be closed, and a request lost, at any time.
- **Accounts.** Each decision saves constants, so reading the row first changes nothing.
  Staff pass every check and are not among the `Users`; in `Site` a job is submitted
  while some user is approved, and that user may watch it.
- **Left out, because no code decides anything by it:** `retry_count` (but for its
  overflow, see above), `dequeue_count`, `queue_message_id`, time stamps, `result_metadata`. Prompt,
  dataset, backend profile and file contents are opaque.

Definitions that `PROJECT.json` names as faulty forms (`SaveWholeRow`,
`PopMessage`, ...) belong to no specification. Each stands before the definition
it would replace and documents the mistake that a property guards against.

## 3. Runs

Run `tlc -config <name>.cfg <module>`; the module is `MCPortal` unless the table names it.

| Run | Instance | Shows |
|---|---|---|
| `portal_safety` | 2 jobs, 2 queue runners, killed runners, failing preparation, early redelivery | `ExclusiveExecution`, `NoMessageLost`, the inductive invariant `Consistency`, and that the portal implements `WorkQueue` (`QueueSpec`) |
| `portal_artifacts` | 1 job, a queue runner, a direct runner, a cancel request, all failures, all 16 driver outputs | `TypeOK`, `CompletedHasArtifacts`, `LinksResolve`, `ArtifactsFollowFiles`, `NeverStartedAgain`, `CompletedStands` |
| `portal_single` | 2 jobs, 1 queue runner, all failures but the job row update | `SingleActive`, and that the portal implements `JobLifecycle` |
| `portal_progress` | 2 jobs, 2 queue runners, long visibility timeout, failing driver starts, fair | `LoopSurvives`, `NoneStranded`, `EveryJobEnds`, `QueueDrains` |
| `single_active` | 2 jobs, a queue and a direct runner | `SingleActive` violated |
| `cancel_race` | 1 job, 1 runner, a cancel request | `CancelOnlyQueued` violated |
| `stale_running` | 2 jobs, 1 runner that may be killed and is restarted, failing preparation and secret store, fair | `StaleRunningRecovered` violated |
| `timeout_report` | 1 job, 1 runner, no failure but the timeout | `TimeoutIsReported` violated |
| `azure_delivery` (`MCAzure`) | 1 job, 2 queue runners, a direct runner, a cancel request, killed runners, requests that fail at any point, a visibility timeout shorter than a run, fair | `TypeOK`, `ExclusiveExecution`, `SeenMessageKept`, `NeverStartedAgain`, `CompletedStands`, `SeenJobsEnd`, `ServiceDrains` |
| `azure_window` (`MCAzure`) | 1 job, 1 queue runner, no failure | `DeletesOnlyTerminal` violated |
| `site` (`MCSite`) | 1 user, 1 job, 1 queue runner, a cancel request, failing views, decisions on the account without bound, fair | `SiteTypeOK`, `AuditTrail`, the inductive invariant `PageFollowsJob`, `PageNeverGoesBack`, `PageComesToRest` |
| `page_polling` (`MCSite`) | 1 user, 1 job, 1 queue runner | `PollsWhileActive` violated |

**Bounds.** Two jobs are enough for one job to block another (claims, the order of
the queue); two runners are enough for a duplicate delivery, an expired receipt
and a race of claims. Deliveries, crashes and restarts are not bounded. `sent` is
bounded by the number of jobs, since every job is sent once. No state
constraint is used. The Azure instance has one job: its hazards are between the
actors of one message, and no code orders or compares messages. Its messages are
redelivered in the middle of a run, as with the deployed 120 s against 600 s; what
`VisibilityCoversClaim` excludes is a timeout that does not even cover the other things a
runner does with a message. With such a one a receipt can reach the mirror after another
runner deleted the message, `SeenMessageKept` does not hold, and with a killed runner
neither does `SeenJobsEnd`. The artifacts do not depend on the queue: they are checked
with every failure and output in `portal_artifacts` and proved for both queues. The site has one user, since a page only shows a job of its own user. Deadlock is not checked: with all jobs terminal and the
queue empty nothing has to happen.

**Fairness.** Weak fairness of each runner process (a started process goes on; the
loop has no blocking call without a timeout), of each web request once its row
exists, and of the passing of time. Submitting, cancelling, starting a direct
runner, crashes and faults are never forced. No property of a passing run assumes that a
dead runner is started again: no code does it, and `docker-compose.yml` gives the
`local-job-runner` no restart policy. Only the violation run `stale_running` does
(`SupervisedSpec`), as the most favourable supervisor there can be, and the
job is still not recovered. `EveryJobEnds` and `QueueDrains` need a visibility
timeout longer than a run and no killed runner: the findings show what
happens otherwise. Under a failing preparation or a killed runner they do not hold.
In `AzurePortal` runners are killed, though not for ever, and a `KeyError` ends a loop for
good. So `SeenJobsEnd` and `ServiceDrains` hold as long as a loop is left (`NoLoopLeft`
is the other way out), and they are about jobs that never run without a runner
(`Attended`): the others are those of `stale_running`. `SiteFairness` adds that the timer of an open page
fires and its requests are answered; that pages are closed, answers lost, or accounts
decided on is never forced. `PageComesToRest` says that polling ends for a user who
stays approved, unless the status view goes on failing. The label of finding 6 lets it hold
sooner than it should, and it also holds with the label taken out of the partial; a test
for every terminal word in place of some breaks it.

**Findings** (the violation runs; the documents are in `src/docs/`).

1. `single_active`: two claims of different jobs at the same time both succeed;
   the specification wants at most one running job (v1-spec line 494).
2. `cancel_race`: a running job is overwritten with cancelled (v1-spec line 623).
   The runner later overwrites that again with its own result.
3. `stale_running`: the message of a job whose runner died, or left its run by an exception
   of the preparation or of the crash handler, circulates for ever, and the stuck job stops
   every other claim. The specification asks for one of two things: that the message
   becomes visible again, which it does, or a watchdog (v1-spec lines 609-610). The job
   is recovered by neither. The plan ticks off how stale jobs are detected (line 150) and
   leaves their detection open (line 288).
4. `timeout_report`: a driver process that wrote something to its own output and timed out
   is reported as a crash, without its artifacts (plan line 379, v1-spec lines 611-613).
5. `azure_window`: a runner that is faster than the web request finds a message without
   its record and deletes it; the job is queued for ever (v1-spec line 264).
6. `page_polling`: the label "Completed:" of the status partial counts as a terminal
   status, so the page stops polling after its first refresh (v1-spec line 586).

## 4. Proofs

`tlapm` on the eight `*_proof.tla` modules proves, for every set of jobs, runners and
cancel requests, every choice of faults and every set of driver outputs, from
`ActorsAssumption` alone unless stated:

| Theorem | Property |
|---|---|
| `TypeCorrect` | `TypeOK` |
| `ClaimProtocol` | `ClaimInv`, the first six parts of `Consistency` |
| `ExecutionIsExclusive` | `ExclusiveExecution` |
| `StartedOnce` | `NeverStartedAgain` |
| `MessagesAreKept` | `NoMessageLost` |
| `CompletedJobsHaveArtifacts` | `CompletedHasArtifacts` |
| `ArtifactsInOrder` | `ArtifactsFollowFiles` |
| `CompletedJobsStand` | `CompletedStands` |
| `EverythingConsistent` | `Consistency` |
| `ArtifactLinksResolve` | `LinksResolve` |
| `QueueImplemented` | `QueueSpec`, that is, `WorkQueue` under the mapping `MessageState` |
| `OneRunnerOneJob` | `SingleActive`, assuming at most one runner process |
| `LongTimeoutKeepsLoops` | `LoopSurvives`, assuming `VisibilityCoversRun` |
| `RunningJobsAttended` | `NoneStranded`, assuming `NothingStrands`: none of the faults "runner", "prepare", "secrets", "database" |
| `LifecycleImplemented` | `LifecycleSpec`, assuming `LoneRunner`: one runner process, no direct runner, no cancel request, no failing update of a job row |
| `AzureTypeCorrect` | `TypeOK` of `AzurePortal` |
| `AzureExecutionIsExclusive` | `ExclusiveExecution` on the Azure queue |
| `SeenMessagesAreKept` | `SeenMessageKept`, assuming `VisibilityCoversClaim` |
| `AzureStartedOnce` | `NeverStartedAgain` on the Azure queue |
| `AzureCompletedJobsStand` | `CompletedStands` on the Azure queue |
| `AzureCompletedJobsHaveArtifacts` | `CompletedHasArtifacts` on the Azure queue |
| `AzureLinksResolve` | `LinksResolve` on the Azure queue |
| `AzureOneRunnerOneJob` | `SingleActive` on the Azure queue, assuming at most one runner process |
| `AzureRunningJobsAttended` | `NoneStranded` on the Azure queue, assuming `NothingStrands` |
| `AzureLifecycleImplemented` | `LifecycleSpec` on the Azure queue, assuming `LoneRunner` |
| `SiteImplementsPortal` | `Spec` of `Portal`, from `SiteSpec`: every theorem about `Portal` holds of the site |
| `SiteTypeCorrect` | `SiteTypeOK` |
| `AuditTrailKept` | `AuditTrail` |
| `PagesFollowJobs` | `PageFollowsJob` |
| `PagesNeverGoBack` | `PageNeverGoesBack` |

**The argument.** `ExclusiveExecution` is not inductive: it says nothing of a runner
that is about to claim. `ClaimInv` adds that a row lock is held exactly by the
runner inside `claim_job` (`LocksMatchClaims`), that a locked row is queued
(`LockedRowsAreQueued`), that rows exist as far as requests have come, and that
an executing runner's job has left "queued" (`ExecutionsHaveStarted`). So a
runner that commits a claim finds a job that nobody executes
(`FinishKeepsClaims`), and nobody else writes the row while it is locked
(`WriteKeepsClaims`). From `ClaimInv` every step moves a status only along
`StatusMoves`, which gives `StartedOnce`, and with it the messages: a runner
that has decided to delete saw a terminal status, which stays terminal
(`MessageInv`). The artifacts follow the order of `_write_known_artifacts`:
`ArtifactInv` carries "everything in the work directory is stored, then
recorded" from the upload to `mark_completed`; that a successful run left its plot
and log is a lemma about `DriverRuns` (`SuccessfulDriver`). `CompletedStands` needs to know
who may still write the row of a completed job: by `CompletionsAreOwn` a runner that executes
one has completed it itself and is past its terminal write, unless the update after that
write raised. The other two writers are the views, and `CompletedStands` names the state
in which each of them does it. For `QueueImplemented`
every step of a message or of a job's status is a step of `WorkQueue` or leaves its two
variables alone: a record is sent once because its request sends once, and it is
deleted by a runner whose job is terminal (`DeletionsAreSafe`). `SingleActive` with one runner
needs that nothing runs while that runner is inside `claim_job` (`SoleInv`);
`LoopSurvives` needs that a working queue runner's message is hidden and
its receipt current (`ReceiptInv`). `NoneStranded` is the other side of finding 3: it names
the failures that can leave a job running by nobody. A runner lets go of a job when it has
settled it, and by then its own terminal write, which nothing undoes, is done (`AttendInv`);
each fault that `NothingStrands` excludes takes the runner away before that. `LifecycleImplemented` builds on `SoleInv`: until its
message is sent nobody touches a queued job, and a job stays running from the commit of
its claim to its first terminal write (`LifeInv`), so no status is overwritten; each
assumption of `LoneRunner` excludes an actor or a failure that does overwrite one.

The claim protocol, the status moves, the artifacts, the single runner, the life cycle and
who attends a running job
are proved in `PlotRunner_proof` for the steps of the job table and of a run, without a
queue. `Portal_proof` and `AzurePortal_proof` add that the loop, with
either queue, only moves runners between points outside the run (`LoopKeepsClaims`,
`LoopKeepsArtifacts`, `EnterElsewhere`): a message delivered twice, or before its record
exists, meets the same row lock. For the life cycle the two queues differ in one fact,
`RecordsAreSent`: a job whose request may still fail has no record. The database queue
sends by creating the record; on the Azure queue a message can be received before the
request that sent it fails, but the loop finds no record and does not claim the job, so
the failure handler overwrites a queued job and no other.
`SeenMessagesAreKept` needs the receipts (`SeenInv`): outside the run, from its receive to
its answer (`Waiting`), a runner holds the last receipt of a hidden message, so a runner that
found no record cannot delete the message once another one has met the record. After a run the
receipt may have expired, and then the service refuses the delete. Without
`VisibilityCoversClaim` that argument fails, since a slow runner may write its receipt
into a record while the next one, which found none, is about to delete.

Every step of the site is a step of `Portal` or leaves its variables alone
(`SiteSteps`), which gives `SiteImplementsPortal`, and the theorems about `Portal` hold
of the site. `PageNeverGoesBack` is not inductive: an answer under way may be older than
what the page shows. `PageFollowsJob` puts the three in order, shown text, answer, row
(`TextsTrailRows`); the row only moves on, because by `StatusMoves` no status falls in rank
(`StatusRises`) and artifact rows stay (`RecordsStay`), and a new request starts from blank
answers. That a code answer never denies code which was shown is `CodeIsRecorded`; only the
account page and an error take shown code away.
`AuditTrail` is inductive by itself; the theorem is about any number of users and any
order of decisions.

**Only model-checked:** the liveness properties (liveness under fairness is out of
the prover's reach: `EveryJobEnds`, `QueueDrains`, `SeenJobsEnd`, `ServiceDrains`,
`PageComesToRest`), and that the properties of the violation runs fail. Every safety
property of a passing run is proved. What `DriverRuns` contains is enumerated, not
computed by recursion, so nothing here needs an induction over data.

## 5. Not modelled, and what is left

- **In-memory queue.** `get_queue_client` makes an empty one at every call; it lives in one
  process and serves tests. Its operations are those of the database queue.
- **Backend profiles, forms, settings, URLs, admin lists.** Stateless lookups and
  validation of strings; an accepted submission is an opaque job.
- **Secrets.** The lookups are stateless; their failures are modelled (section 2).
- **Artifact stores.** Deleting and listing a job's artifacts has no caller in the portal.
- **`run_fake_plot_job`** is called by tests only.
- **Malformed message bodies.** No code of the portal writes one.
- **What the page shows beside the status.** `job_detail` passes no code to its template, and
  the code answer may be older than the status answer; no run is about their agreement.

Left for later: a weaker form of the life cycle that holds with several runners and cancel
requests, and what holds of the
Azure queue with a visibility timeout that does not even cover a claim.
