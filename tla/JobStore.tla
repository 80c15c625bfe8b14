------------------------------ MODULE JobStore ------------------------------
(***************************************************************************)
(* The job table and the service functions that change it                  *)
(* (portal/services.py).  A step is one database statement or one          *)
(* transaction whose intermediate states no other connection sees: the     *)
(* database is PostgreSQL at READ COMMITTED, where a plain read never      *)
(* waits, SELECT ... FOR UPDATE waits for the row and then sees the latest *)
(* committed version, and an UPDATE waits for a row another transaction    *)
(* has locked.                                                             *)
(***************************************************************************)
EXTENDS PortalBase

VARIABLES
    status,         \* Job.status
    message,        \* Job.failure_message
    rowLock,        \* the runner holding the row lock of claim_job, or NoOne
    request,        \* where the web request that creates the job stands
    cancelling      \* the job a cancel request has checked and not yet saved

storeVars == <<status, message, rowLock, request, cancelling>>

RequestStates == {"none", "created", "sent", "unsent", "accepted", "refused",
                  "lost"}

StoreTypeOK ==
    /\ status \in [Jobs -> Status]
    /\ message \in [Jobs -> FailureMessages]
    /\ rowLock \in [Jobs -> Runners \cup {NoOne}]
    /\ request \in [Jobs -> RequestStates]
    /\ cancelling \in [Cancellers -> Jobs \cup {NoOne}]

StoreInit ==
    /\ status = [j \in Jobs |-> "absent"]
    /\ message = [j \in Jobs |-> ""]
    /\ rowLock = [j \in Jobs |-> NoOne]
    /\ request = [j \in Jobs |-> "none"]
    /\ cancelling = [c \in Cancellers |-> NoOne]

Terminal(j) == status[j] \in TerminalValues

\* UPDATE of the status and the failure message of an existing row.
WriteRow(j, st, msg) ==
    /\ rowLock[j] = NoOne
    /\ status' = [status EXCEPT ![j] = st]
    /\ message' = [message EXCEPT ![j] = msg]
    /\ UNCHANGED rowLock

-----------------------------------------------------------------------------
(* create_queued_job, one web request per job.                             *)

CreateRow(j) ==
    /\ request[j] = "none"
    /\ request' = [request EXCEPT ![j] = "created"]
    /\ status' = [status EXCEPT ![j] = "queued"]
    /\ UNCHANGED <<message, rowLock, cancelling>>

\* The store's part of a successful enqueue_job call: control comes back.
EnqueueReturns(j) ==
    /\ request[j] = "created"
    /\ request' = [request EXCEPT ![j] = "sent"]
    /\ UNCHANGED <<status, message, rowLock, cancelling>>

EnqueueRaises(j) ==
    /\ "enqueue" \in Faults
    /\ request[j] = "created"
    /\ request' = [request EXCEPT ![j] = "unsent"]
    /\ UNCHANGED <<status, message, rowLock, cancelling>>

\* Faulty variant: the try statement also covers the save of the message id.
RecordFailureOfRequest(j) ==
    /\ request[j] \in {"unsent", "sent"}
    /\ request' = [request EXCEPT ![j] = "refused"]
    /\ WriteRow(j, "failed", "enqueue failed")
    /\ UNCHANGED cancelling

\* The handler of a failed enqueue overwrites whatever the row holds by now.
RecordEnqueueFailure(j) ==
    /\ request[j] = "unsent"
    /\ request' = [request EXCEPT ![j] = "refused"]
    /\ WriteRow(j, "failed", "enqueue failed")
    /\ UNCHANGED cancelling

\* Faulty variant: save() writes back every column of the row read long ago.
SaveWholeRow(j) ==
    /\ request[j] = "sent"
    /\ request' = [request EXCEPT ![j] = "accepted"]
    /\ WriteRow(j, "queued", "")
    /\ UNCHANGED cancelling

\* save(update_fields=["queue_message_id"]): no other column is written.
SaveMessageId(j) ==
    /\ request[j] = "sent"
    /\ rowLock[j] = NoOne
    /\ request' = [request EXCEPT ![j] = "accepted"]
    /\ UNCHANGED <<status, message, rowLock, cancelling>>

\* The web process stops between two of these steps; the rows stay.
WebCrash(j) ==
    /\ "web" \in Faults
    /\ request[j] \in {"created", "sent", "unsent"}
    /\ request' = [request EXCEPT ![j] = "lost"]
    /\ UNCHANGED <<status, message, rowLock, cancelling>>

-----------------------------------------------------------------------------
(* claim_job.  The row is locked; the look for a running job is a plain    *)
(* read of the committed rows, and locks nothing.                          *)

\* Faulty variant: filter(pk=job.pk) in place of exclude(pk=job.pk).
SameRunning(j) == status[j] = "running"

AnotherRunning(j) == \E k \in Jobs \ {j} : status[k] = "running"

\* Faulty variant: the status of the locked row is not tested.
ClaimLockAnyStatus(r, j) ==
    /\ rowLock[j] = NoOne
    /\ ~AnotherRunning(j)
    /\ rowLock' = [rowLock EXCEPT ![j] = r]
    /\ UNCHANGED <<status, message, request, cancelling>>

ClaimLock(r, j) ==
    /\ rowLock[j] = NoOne
    /\ status[j] = "queued"
    /\ ~AnotherRunning(j)
    /\ rowLock' = [rowLock EXCEPT ![j] = r]
    /\ UNCHANGED <<status, message, request, cancelling>>

\* JobNotClaimableError or SingleActiveJobError: the transaction rolls back.
ClaimRefused(j) ==
    /\ rowLock[j] = NoOne
    /\ status[j] # "queued" \/ AnotherRunning(j)
    /\ UNCHANGED storeVars

ClaimCommit(r, j) ==
    /\ rowLock[j] = r
    /\ rowLock' = [rowLock EXCEPT ![j] = NoOne]
    /\ status' = [status EXCEPT ![j] = "running"]
    /\ UNCHANGED <<message, request, cancelling>>

\* The connection of a dead process is closed and its transaction undone.
ReleaseLocks(r) ==
    /\ rowLock' = [j \in Jobs |-> IF rowLock[j] = r THEN NoOne ELSE rowLock[j]]
    /\ UNCHANGED <<status, message, request, cancelling>>

-----------------------------------------------------------------------------
(* mark_completed and mark_failed re-read the row but test nothing in it.  *)

\* Faulty variant: a status outside JobStatus.
MarkDone(j) ==
    /\ WriteRow(j, "done", "")
    /\ UNCHANGED <<request, cancelling>>

MarkCompleted(j) ==
    /\ WriteRow(j, "completed", "")
    /\ UNCHANGED <<request, cancelling>>

MarkFailed(j, msg) ==
    /\ WriteRow(j, "failed", msg)
    /\ UNCHANGED <<request, cancelling>>

(* mark_cancelled reads the row, tests it and saves it, with neither a     *)
(* lock nor a transaction around the three.                                *)

CancelCheck(c, j) ==
    /\ cancelling[c] = NoOne
    /\ status[j] = "queued"
    /\ cancelling' = [cancelling EXCEPT ![c] = j]
    /\ UNCHANGED <<status, message, rowLock, request>>

CancelSave(c) ==
    /\ cancelling[c] # NoOne
    /\ WriteRow(cancelling[c], "cancelled", "cancelled by user")
    /\ cancelling' = [cancelling EXCEPT ![c] = NoOne]
    /\ UNCHANGED request
-----------------------------------------------------------------------------
\* A job that ended is never queued or running again, and one that runs is
\* never queued again: duplicate messages cannot start it a second time.
NeverStartedAgain ==
    [][\A j \in Jobs :
         /\ Terminal(j) => Terminal(j)'
         /\ status[j] = "running" => status'[j] # "queued"]_status

\* At most one job is running (claim_job, SingleActiveJobError).
SingleActive ==
    \A j, k \in Jobs : status[j] = "running" /\ status[k] = "running" => j = k

\* Every step is a step of the promised life cycle of JobLifecycle, or leaves
\* the statuses alone (all of services.py).
Lifecycle == INSTANCE JobLifecycle WITH Jobs <- Jobs, status <- status
LifecycleSpec == Lifecycle!Spec
=============================================================================
