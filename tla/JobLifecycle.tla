---------------------------- MODULE JobLifecycle ----------------------------
(***************************************************************************)
(* What the portal promises about one job row, whatever happens inside:    *)
(* a queued job starts running, is cancelled or cannot be queued; a        *)
(* running job completes or fails; a terminal status is final; at most one *)
(* job runs at a time.  (JobStatus in portal/models.py and the transitions *)
(* the services are written for.)                                          *)
(***************************************************************************)
CONSTANT Jobs
VARIABLE status

Init == status = [j \in Jobs |-> "absent"]

Become(j, from, to) == status[j] = from /\ status' = [status EXCEPT ![j] = to]

Submit(j) == Become(j, "absent", "queued")
Start(j) == /\ \A k \in Jobs : status[k] # "running"
            /\ Become(j, "queued", "running")
Refuse(j) == Become(j, "queued", "failed")
Cancel(j) == Become(j, "queued", "cancelled")
Finish(j) == \E end \in {"completed", "failed"} : Become(j, "running", end)

Next == \E j \in Jobs : Submit(j) \/ Start(j) \/ Refuse(j) \/ Cancel(j) \/ Finish(j)

Spec == Init /\ [][Next]_status
=============================================================================
