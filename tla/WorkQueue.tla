------------------------------ MODULE WorkQueue ------------------------------
(***************************************************************************)
(* What the portal needs of its job queue, whatever holds the messages: a  *)
(* message is delivered again and again until the work it names is over,   *)
(* and only then may it go.  (QueueClient in portal/queue.py and the use   *)
(* that run_local_job_runner makes of it.)                                 *)
(***************************************************************************)
CONSTANT Jobs

VARIABLES
    state,  \* "unsent", "waiting", "taken" or "gone", per message
    over    \* the jobs whose work is over

Init == state = [m \in Jobs |-> "unsent"] /\ over = {}

Move(m, from, to) == /\ state[m] = from
                     /\ state' = [state EXCEPT ![m] = to]
                     /\ UNCHANGED over

Send(m) == Move(m, "unsent", "waiting")
Take(m) == Move(m, "waiting", "taken")
Return(m) == Move(m, "taken", "waiting")

\* A message goes after its work, from wherever it is by then.
Remove(m) == m \in over /\ (Move(m, "taken", "gone") \/ Move(m, "waiting", "gone"))

Conclude(m) == m \notin over /\ over' = over \cup {m} /\ UNCHANGED state

Next == \E m \in Jobs : Send(m) \/ Take(m) \/ Return(m) \/ Remove(m) \/ Conclude(m)

Spec == Init /\ [][Next]_<<state, over>>
=============================================================================
