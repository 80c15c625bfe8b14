------------------------------ MODULE Accounts ------------------------------
(***************************************************************************)
(* Accounts that wait for approval (portal/auth.py, the admin views of     *)
(* portal/views.py, the bootstrap_local_demo command).  A save writes      *)
(* constants, whatever the row read before holds, so each is one step.     *)
(* Staff users, who pass every check, are not among the Users.             *)
(***************************************************************************)
CONSTANT Users

VARIABLES
    approval,   \* UserProfile.approval_state, "absent" before the first sign-in
    approvedAt, \* approved_at (and approved_by, but for the bootstrap) is set
    rejectedAt  \* rejected_at, rejected_by and rejection_reason are set

accountVars == <<approval, approvedAt, rejectedAt>>

AccountsInit ==
    /\ approval = [u \in Users |-> "absent"]
    /\ approvedAt = [u \in Users |-> FALSE]
    /\ rejectedAt = [u \in Users |-> FALSE]

AccountsTypeOK ==
    /\ approval \in [Users -> {"absent", "pending", "approved", "rejected"}]
    /\ approvedAt \in [Users -> BOOLEAN]
    /\ rejectedAt \in [Users -> BOOLEAN]

IsUserApproved(u) == approval[u] = "approved"

\* The profile comes with the user (create_user_profile), or with the first
\* look at it (get_user_profile).
SignIn(u) ==
    /\ approval[u] = "absent"
    /\ approval' = [approval EXCEPT ![u] = "pending"]
    /\ UNCHANGED <<approvedAt, rejectedAt>>

ApproveUser(u) ==
    /\ approval[u] # "absent"
    /\ approval' = [approval EXCEPT ![u] = "approved"]
    /\ approvedAt' = [approvedAt EXCEPT ![u] = TRUE]
    /\ rejectedAt' = [rejectedAt EXCEPT ![u] = FALSE]

\* Faulty variant: a state outside ApprovalState.
DeclineUser(u) ==
    /\ approval[u] # "absent"
    /\ approval' = [approval EXCEPT ![u] = "declined"]
    /\ approvedAt' = [approvedAt EXCEPT ![u] = FALSE]
    /\ rejectedAt' = [rejectedAt EXCEPT ![u] = TRUE]

\* Faulty variant: update_fields leaves approved_at out.
RejectKeepsApproval(u) ==
    /\ approval[u] # "absent"
    /\ approval' = [approval EXCEPT ![u] = "rejected"]
    /\ rejectedAt' = [rejectedAt EXCEPT ![u] = TRUE]
    /\ UNCHANGED approvedAt

RejectUser(u) ==
    /\ approval[u] # "absent"
    /\ approval' = [approval EXCEPT ![u] = "rejected"]
    /\ approvedAt' = [approvedAt EXCEPT ![u] = FALSE]
    /\ rejectedAt' = [rejectedAt EXCEPT ![u] = TRUE]

\* The demo user is approved; what a rejection wrote is left in the row.
BootstrapDemo(u) ==
    /\ approval' = [approval EXCEPT ![u] = "approved"]
    /\ approvedAt' = [approvedAt EXCEPT ![u] = TRUE]
    /\ UNCHANGED rejectedAt

AccountStep(u) == SignIn(u) \/ ApproveUser(u) \/ RejectUser(u) \/ BootstrapDemo(u)

\* The audit fields tell how the account came to its state, in whatever order
\* administrators and the bootstrap command decide: a rejected account has its
\* rejection and no approval on record, an approved one its approval.
AuditTrail ==
    \A u \in Users :
        /\ approval[u] = "approved" => approvedAt[u]
        /\ approval[u] = "rejected" => rejectedAt[u] /\ ~approvedAt[u]
=============================================================================
