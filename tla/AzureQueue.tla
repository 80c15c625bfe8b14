----------------------------- MODULE AzureQueue -----------------------------
(***************************************************************************)
(* AzureQueueClient (portal/queue.py).  The message is held by the Azure   *)
(* queue service; QueueMessageRecord mirrors it in the database, and every *)
(* operation is a call of the service followed by a statement on the       *)
(* mirror.  A message is named by its job, and a receipt by the runner     *)
(* that got it, as in DatabaseQueue.  The service promises no order.       *)
(***************************************************************************)
EXTENDS PortalBase

VARIABLES
    queued,     \* the message in the service
    popReceipt, \* the receipt the service honours, or NoOne
    records,    \* the jobs that have a QueueMessageRecord
    mirror      \* the pop_receipt column of the record, or NoOne

azureVars == <<queued, popReceipt, records, mirror>>
mirrorVars == <<records, mirror>>
serviceVars == <<queued, popReceipt>>

AzureInit ==
    /\ queued = [m \in Jobs |-> "unsent"]
    /\ popReceipt = [m \in Jobs |-> NoOne]
    /\ records = {}
    /\ mirror = [m \in Jobs |-> NoOne]

AzureTypeOK ==
    /\ queued \in [Jobs -> {"unsent", "visible", "hidden", "deleted"}]
    /\ popReceipt \in [Jobs -> Runners \cup {NoOne}]
    /\ records \subseteq Jobs
    /\ mirror \in [Jobs -> Runners \cup {NoOne}]

Held(m) == queued[m] \in {"visible", "hidden"}

\* The service puts the message in a new state and issues a receipt to who.
Serve(m, state, who) ==
    /\ queued' = [queued EXCEPT ![m] = state]
    /\ popReceipt' = [popReceipt EXCEPT ![m] = who]
    /\ UNCHANGED mirrorVars

-----------------------------------------------------------------------------
(* enqueue_job: send_message, then the record.                             *)

SendMessage(m) == queued[m] = "unsent" /\ Serve(m, "visible", NoOne)

CreateRecord(m) ==
    /\ queued[m] # "unsent"
    /\ records' = records \cup {m}
    /\ UNCHANGED <<queued, popReceipt, mirror>>

-----------------------------------------------------------------------------
(* receive_messages: the service hides the message and issues a receipt;   *)
(* then the record, if there is one by now, is given the receipt.          *)

\* Faulty variant: receiving takes the message out of the service.
ServicePops(r, m) == queued[m] = "visible" /\ Serve(m, "deleted", r)

ServiceReceive(r, m) == queued[m] = "visible" /\ Serve(m, "hidden", r)

MirrorReceive(r, m) ==
    /\ mirror' = IF m \in records THEN [mirror EXCEPT ![m] = r] ELSE mirror
    /\ UNCHANGED <<queued, popReceipt, records>>

-----------------------------------------------------------------------------
(* delete_message and abandon_message.  The service refuses a receipt that *)
(* is not the last one it issued; the mirror raises KeyError for a record  *)
(* that is not there or has another receipt.                               *)

ReceiptHonoured(r, m) == Held(m) /\ popReceipt[m] = r

\* Faulty variant: the message is hidden once more, not deleted.
ServiceHides(r, m) == ReceiptHonoured(r, m) /\ Serve(m, "hidden", r)

ServiceDelete(r, m) == ReceiptHonoured(r, m) /\ Serve(m, "deleted", r)

\* visibility_timeout=0: the message shows again, under a new receipt that
\* nobody keeps.
ServiceUpdate(r, m) == ReceiptHonoured(r, m) /\ Serve(m, "visible", NoOne)

ServiceRefuses(r, m) == ~ReceiptHonoured(r, m) /\ UNCHANGED azureVars

MirrorMatches(r, m) == m \in records /\ mirror[m] = r

MirrorDelete(r, m) ==
    /\ MirrorMatches(r, m)
    /\ records' = records \ {m}
    /\ mirror' = [mirror EXCEPT ![m] = NoOne]
    /\ UNCHANGED serviceVars

\* Only visible_at is updated: the old receipt stays in the row.
MirrorUpdate(r, m) == MirrorMatches(r, m) /\ UNCHANGED azureVars

MirrorRaises(r, m) == ~MirrorMatches(r, m) /\ UNCHANGED azureVars

\* The visibility timeout of a received message is over; its receipt stays
\* good until somebody else receives the message.
ServiceShows(m) == queued[m] = "hidden" /\ Serve(m, "visible", popReceipt[m])
=============================================================================
