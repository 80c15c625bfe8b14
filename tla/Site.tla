-------------------------------- MODULE Site --------------------------------
(***************************************************************************)
(* The portal with its users: accounts are approved and rejected, approved *)
(* users submit jobs and watch them on the job page.                       *)
(***************************************************************************)
EXTENDS Portal, JobPage

siteVars == <<vars, accountVars, pageVars>>

SiteInit == Init /\ AccountsInit /\ PageInit

\* submit_job behind approval_required: the steps of a job's request begin for
\* an approved user only.
PortalStep ==
    /\ Next
    /\ \A j \in Jobs : request[j] = "none" /\ request'[j] # "none"
                          => \E u \in Users : IsUserApproved(u)
    /\ UNCHANGED <<accountVars, pageVars>>

Account(u) == AccountStep(u) /\ UNCHANGED <<vars, pageVars>>

Page(u) == (Visit(u) \/ Refresh(u) \/ RefreshFails(u)) /\ UNCHANGED <<vars, accountVars>>

SiteNext == PortalStep \/ \E u \in Users : Account(u) \/ Page(u)

SiteSpec == SiteInit /\ [][SiteNext]_siteVars

\* The portal's fairness; an open page goes on, and its requests are answered
\* or fail.  Nobody has to visit, to decide on an account, or to close a page.
SiteFairness ==
    /\ Fairness
    /\ \A u \in Users : WF_siteVars(Refresh(u) /\ UNCHANGED <<vars, accountVars>>)

FairSite == SiteSpec /\ SiteFairness
-----------------------------------------------------------------------------
\* Portal, accounts and pages keep the values their columns and texts allow.
SiteTypeOK == TypeOK /\ AccountsTypeOK /\ PageTypeOK

Rank(text) == CASE text = "queued" -> 1 [] text = "running" -> 2
                [] text \in TerminalValues -> 3

\* While a page is open, what it shows of its job never goes back, although
\* status and code are read at different times and shown later: a job that ran
\* is not shown queued, an ended one not running, and code vanishes only behind the
\* account page or an error.
PageNeverGoesBack ==
    [][\A u \in Users :
         /\ shown[u] \in JobStatus /\ shown'[u] \in JobStatus
               => Rank(shown[u]) <= Rank(shown'[u])
         /\ code[u] /\ page'[u] # "closed" /\ ~code'[u]
               => codeAnswer[u] \in {"account", "error"}]_siteVars

\* The page of a user who stays approved does not poll for ever, unless the status
\* view goes on failing (the test at the end of refresh).
PageComesToRest ==
    \A u \in Users :
        <>[](IsUserApproved(u) /\ statusAnswer[u] # "error") => []<>~Polling(u)

\* A page that has stopped polling, without having failed, shows a job that
\* is no more queued or running.
PollsWhileActive ==
    \A u \in Users : page[u] = "resting" => shown[u] \notin {"queued", "running"}
-----------------------------------------------------------------------------
(* What an open page knows, part by part: the inductive invariant behind   *)
(* PageNeverGoesBack.                                                      *)

\* A page that is opened starts blank: nothing is left of the last visit.
ClosedPagesAreBlank ==
    \A u \in Users : page[u] = "closed" =>
        /\ subject[u] = NoOne /\ shown[u] = "none" /\ ~code[u]
        /\ statusAnswer[u] = "none" /\ codeAnswer[u] = "none"

\* A page is about a job whose row exists.
PagesHaveJobs ==
    \A u \in Users : page[u] # "closed" =>
        subject[u] \in Jobs /\ status[subject[u]] # "absent"

\* Of two texts about one job, the first is not further on than the second.
NotAhead(text, later) ==
    text \in JobStatus /\ later \in JobStatus => Rank(text) <= Rank(later)

\* What is shown trails the answer under way, and both trail the row.
TextsTrailRows ==
    \A u \in Users : page[u] # "closed" =>
        /\ NotAhead(shown[u], statusAnswer[u])
        /\ NotAhead(shown[u], status[subject[u]])
        /\ NotAhead(statusAnswer[u], status[subject[u]])

\* Code that is shown or on its way was recorded; after it has been shown no answer
\* denies it, and none is missing when the second half of a refresh shows it.
CodeIsRecorded ==
    \A u \in Users : page[u] # "closed" =>
        /\ code[u] \/ codeAnswer[u] = "code" => "script" \in recorded[subject[u]]
        /\ code[u] => codeAnswer[u] # "no code"
        /\ page[u] = "halfway" => codeAnswer[u] # "none"

\* However long answers are under way, the page lags behind its job and never
\* runs ahead of it: what it shows, what it is about to show and what the rows
\* hold are in this order (refresh in job_detail.html and its two views).
PageFollowsJob ==
    ClosedPagesAreBlank /\ PagesHaveJobs /\ TextsTrailRows /\ CodeIsRecorded
=============================================================================
