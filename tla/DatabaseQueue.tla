---------------------------- MODULE DatabaseQueue ----------------------------
(***************************************************************************)
(* The QueueMessageRecord table behind DatabaseQueueClient                 *)
(* (portal/queue.py).  create_queued_job sends one message per job, so a   *)
(* message is named by its job.  Every receive writes a fresh pop_receipt; *)
(* a runner handles one message at a time, so the receipt is modelled by   *)
(* the runner that received the message last: the receipt a runner holds   *)
(* is current exactly when receipt[m] is that runner.                      *)
(***************************************************************************)
EXTENDS PortalBase

VARIABLES
    record,     \* "none": no record; "visible": visible_at <= now; "hidden"
    receipt,    \* the runner that received the message last, or NoOne
    created,    \* created_at as a position in the order of creation, 0: never
    sent        \* the records created so far

queueVars == <<record, receipt, created, sent>>

QueueTypeOK ==
    /\ record \in [Jobs -> {"none", "visible", "hidden"}]
    /\ receipt \in [Jobs -> Runners \cup {NoOne}]
    /\ created \in [Jobs -> Nat]
    /\ sent \in Nat

QueueInit ==
    /\ record = [m \in Jobs |-> "none"]
    /\ receipt = [m \in Jobs |-> NoOne]
    /\ created = [m \in Jobs |-> 0]
    /\ sent = 0

EnqueueJob(m) ==
    /\ record' = [record EXCEPT ![m] = "visible"]
    /\ receipt' = [receipt EXCEPT ![m] = NoOne]
    /\ sent' = sent + 1
    /\ created' = [created EXCEPT ![m] = sent + 1]

\* Faulty variant: the filter on visible_at is missing.
OldestRecord(m) ==
    /\ record[m] # "none"
    /\ \A k \in Jobs : record[k] # "none" => created[m] <= created[k]

\* filter(visible_at__lte=now).order_by("created_at")[:1]
OldestVisible(m) ==
    /\ record[m] = "visible"
    /\ \A k \in Jobs : record[k] = "visible" => created[m] <= created[k]

\* Faulty variant: receiving takes the message out of the table.
PopMessage(r, m) ==
    /\ OldestVisible(m)
    /\ record' = [record EXCEPT ![m] = "none"]
    /\ receipt' = [receipt EXCEPT ![m] = r]
    /\ UNCHANGED <<created, sent>>

ReceiveMessage(r, m) ==
    /\ OldestVisible(m)
    /\ record' = [record EXCEPT ![m] = "hidden"]
    /\ receipt' = [receipt EXCEPT ![m] = r]
    /\ UNCHANGED <<created, sent>>

\* filter(message_id=..., pop_receipt=...): the record is there and nobody
\* received the message since.
ReceiptValid(r, m) == record[m] # "none" /\ receipt[m] = r

\* Faulty variant: the message is hidden once more, not deleted.
HideMessage(r, m) ==
    /\ ReceiptValid(r, m)
    /\ record' = [record EXCEPT ![m] = "hidden"]
    /\ UNCHANGED <<receipt, created, sent>>

DeleteMessage(r, m) ==
    /\ ReceiptValid(r, m)
    /\ record' = [record EXCEPT ![m] = "none"]
    /\ UNCHANGED <<receipt, created, sent>>

\* Faulty variant: update_or_create, which brings back a deleted record.
PutBack(r, m) ==
    /\ record' = [record EXCEPT ![m] = "visible"]
    /\ UNCHANGED <<receipt, created, sent>>

AbandonMessage(r, m) ==
    /\ ReceiptValid(r, m)
    /\ record' = [record EXCEPT ![m] = "visible"]
    /\ UNCHANGED <<receipt, created, sent>>

\* KeyError("Queue message not found or receipt expired")
ReceiptExpired(r, m) ==
    /\ ~ReceiptValid(r, m)
    /\ UNCHANGED queueVars

\* The clock passes visible_at of a received message.
BecomesVisible(m) ==
    /\ record[m] = "hidden"
    /\ record' = [record EXCEPT ![m] = "visible"]
    /\ UNCHANGED <<receipt, created, sent>>
=============================================================================
