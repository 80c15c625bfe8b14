----------------------------- MODULE Site_proof -----------------------------
(***************************************************************************)
(* Proofs about Site, for every set of users: the site implements the      *)
(* portal, accounts keep their audit trail, and a page follows its job.    *)
(***************************************************************************)
EXTENDS Site, Portal_proof

\* A step of the site is a step of the portal, of one account or of one page.
LEMMA SiteSteps ==
  ASSUME SiteNext
  PROVE  \/ Next /\ UNCHANGED <<accountVars, pageVars>>
         \/ \E u \in Users : AccountStep(u) /\ UNCHANGED <<vars, pageVars>>
         \/ \E u \in Users : /\ Visit(u) \/ Refresh(u) \/ RefreshFails(u)
                             /\ UNCHANGED <<vars, accountVars>>
  BY DEF SiteNext, PortalStep, Account, Page

\* Users add nothing to what the portal may do and take nothing away that its
\* safety rests on: with accounts and pages it is still the portal, so every
\* theorem about Spec holds of the site.
THEOREM SiteImplementsPortal == SiteSpec => Spec
<1>1. SiteInit => Init
  BY DEF SiteInit
<1>2. [SiteNext]_siteVars => [Next]_vars
  BY SiteSteps DEF siteVars
<1> QED BY <1>1, <1>2, PTL DEF SiteSpec, Spec

\* The portal's invariants, on the site.
LEMMA PortalInvariants == SiteSpec => [](TypeOK /\ ClaimInv)
BY SiteImplementsPortal, TypeCorrect, ClaimProtocol, PTL

-----------------------------------------------------------------------------
(* Accounts.                                                               *)

AccountInv == AccountsTypeOK /\ AuditTrail

\* A sign-in, a decision and the bootstrap each write the audit fields that
\* belong to the state they write.
LEMMA AccountKeeps ==
  ASSUME AccountInv, NEW u \in Users, AccountStep(u)
  PROVE  AccountInv'
<1> USE DEF AccountInv, AccountsTypeOK, AuditTrail
<1>1. CASE SignIn(u)
  BY <1>1 DEF SignIn
<1>2. CASE ApproveUser(u)
  BY <1>2 DEF ApproveUser
<1>3. CASE RejectUser(u)
  BY <1>3 DEF RejectUser
<1>4. CASE BootstrapDemo(u)
  BY <1>4 DEF BootstrapDemo
<1> QED BY <1>1, <1>2, <1>3, <1>4 DEF AccountStep

\* In every reachable state of the site, accounts are well typed and keep their
\* audit trail.
LEMMA AccountsAlways == SiteSpec => []AccountInv
<1>1. SiteInit => AccountInv
  BY DEF SiteInit, AccountsInit, AccountInv, AccountsTypeOK, AuditTrail
<1>2. AccountInv /\ [SiteNext]_siteVars => AccountInv'
  <2> SUFFICES ASSUME AccountInv, [SiteNext]_siteVars PROVE AccountInv'
    OBVIOUS
  <2>1. CASE UNCHANGED accountVars
    BY <2>1 DEF accountVars, AccountInv, AccountsTypeOK, AuditTrail
  <2>2. CASE \E u \in Users : AccountStep(u)
    BY <2>2, AccountKeeps
  <2> QED BY <2>1, <2>2, SiteSteps DEF siteVars
<1> QED BY <1>1, <1>2, PTL DEF SiteSpec

\* However administrators and the bootstrap command decide on an account, in
\* whatever order, its audit fields tell how it came to its state.
THEOREM AuditTrailKept == SiteSpec => []AuditTrail
<1>1. AccountInv => AuditTrail
  BY DEF AccountInv
<1> QED BY <1>1, AccountsAlways, PTL

-----------------------------------------------------------------------------
(* Ranks: what "going back" means.                                         *)

\* The three ranks of a status.
LEMMA Ranks ==
  /\ Rank("queued") = 1 /\ Rank("running") = 2
  /\ \A text \in TerminalValues : Rank(text) = 3
  /\ \A text \in JobStatus : Rank(text) \in 1..3
BY DEF Rank, TerminalValues, JobStatus

\* Ranks are compared as numbers are.
LEMMA NotAheadTransitive ==
  ASSUME NEW a, NEW b, NEW c, b \in JobStatus, NotAhead(a, b), NotAhead(b, c)
  PROVE  NotAhead(a, c)
BY Ranks DEF NotAhead

\* A text is not ahead of itself, and a text that is no status of no other.
LEMMA NotAheadTrivially ==
  ASSUME NEW text
  PROVE  /\ NotAhead(text, text)
         /\ NotAhead(text, "none") /\ NotAhead("none", text)
         /\ NotAhead(text, "account") /\ NotAhead("account", text)
         /\ NotAhead(text, "error") /\ NotAhead("error", text)
<1>1. "none" \notin JobStatus /\ "account" \notin JobStatus /\ "error" \notin JobStatus
  BY DEF JobStatus
<1>2. ASSUME text \in JobStatus PROVE Rank(text) <= Rank(text)
  <2>1. Rank(text) \in 1..3
    BY <1>2, Ranks
  <2> QED BY <2>1
<1> QED BY <1>1, <1>2 DEF NotAhead

\* A status that moves as StatusMoves says never falls in rank.
LEMMA StatusRises ==
  ASSUME RunnerTypeOK, StatusMoves, NEW j \in Jobs, status[j] # "absent"
  PROVE  /\ status[j] \in JobStatus /\ status'[j] \in JobStatus
         /\ Rank(status[j]) <= Rank(status'[j])
<1>1. status[j] \in JobStatus
  BY DEF RunnerTypeOK, StoreTypeOK, Status
<1>2. \/ status'[j] = status[j]
      \/ status[j] = "queued" /\ status'[j] = "running"
      \/ status'[j] \in TerminalValues
  BY DEF StatusMoves
<1>3. Rank(status[j]) \in 1..3
  BY <1>1, Ranks
<1>4. TerminalValues \subseteq JobStatus /\ "running" \in JobStatus
  BY DEF TerminalValues, JobStatus
<1> QED BY <1>1, <1>2, <1>3, <1>4, Ranks

\* No step of the portal takes an artifact row away.
LEMMA RecordsStay ==
  ASSUME TypeOK, [Next]_vars
  PROVE  \A j \in Jobs : recorded[j] \subseteq recorded'[j]
<1> USE DEF TypeOK, RunTypeOK
<1>1. CASE UNCHANGED recorded
  BY <1>1
<1>2. ASSUME NEW r \in Runners, Run(r)
      PROVE  \A j \in Jobs : recorded[j] \subseteq recorded'[j]
  <2>1. CASE RecordAll(r) \/ RecordRaises(r)
    BY <2>1 DEF RecordAll, RecordRaises, RecordArtifacts
  <2>2. CASE ~(RecordAll(r) \/ RecordRaises(r))
    <3>1. UNCHANGED recorded
      BY <1>2, <2>2 DEF Run, RunStep, BeginClaim, ClaimFails, FinishClaim, Prepare,
         PrepareRaises, DriverReturns, TimeoutWithOutput, DriverRaises, UploadAll,
         UploadRaises, PutArtifacts, MarkTimedOut, MarkExitCode, MarkSuccess, StampRuntime,
         UpdateRaises, Rescue, RescueRaises, Step, Raise, PutDown, TakeUp
    <3> QED BY <1>1, <3>1
  <2> QED BY <2>1, <2>2
<1>3. ASSUME NEW r \in Runners,
             \/ Receive(r) \/ Inspect(r) \/ Settle(r) \/ Delete(r) \/ Abandon(r)
             \/ LoopDies(r) \/ StartDirect(r) \/ Crash(r) \/ Restart(r)
      PROVE  UNCHANGED recorded
  BY <1>3 DEF Receive, Inspect, Settle, Delete, Abandon, LoopDies, StartDirect, Crash,
     Restart, Step, PutDown, TakeUp
<1>4. CASE \/ \E j \in Jobs : Submit(j) \/ WebStep(j) \/ RequestFails(j)
                              \/ VisibilityExpires(j)
           \/ \E c \in Cancellers : Cancel(c)
           \/ UNCHANGED vars
  BY <1>1, <1>4 DEF Submit, WebStep, Enqueue, FinishRequest, RequestFails,
     VisibilityExpires, Cancel, vars, runVars
<1> QED BY <1>1, <1>2, <1>3, <1>4 DEF Next, RunnerStep

-----------------------------------------------------------------------------
(* Pages.                                                                  *)

\* Types and what a page knows, together: an answer has the type of a text
\* because the row it was read from exists.
PageInv == PageTypeOK /\ PageFollowsJob

\* A user who has no page yet has no knowledge either.
LEMMA PageStarts == SiteInit => PageInv
BY DEF SiteInit, PageInit, PageInv, PageTypeOK, PageStates, PageFollowsJob,
   ClosedPagesAreBlank, PagesHaveJobs, TextsTrailRows, CodeIsRecorded

\* While the portal works, the jobs move on and the pages stay as they are.
LEMMA PortalLeavesPages ==
  ASSUME TypeOK, ClaimInv, PageInv, [Next]_vars, UNCHANGED pageVars
  PROVE  PageInv'
<1> USE DEF PageInv, PageFollowsJob
<1>1. RunnerTypeOK /\ StatusMoves
  BY StatusStep, TypeParts
<1>2. PageTypeOK' /\ ClosedPagesAreBlank'
  BY DEF pageVars, PageTypeOK, ClosedPagesAreBlank
<1>3. ASSUME NEW u \in Users, page'[u] # "closed"
      PROVE  /\ subject'[u] = subject[u] /\ subject[u] \in Jobs
             /\ status[subject[u]] \in JobStatus /\ status'[subject[u]] \in JobStatus
             /\ NotAhead(status[subject[u]], status'[subject[u]])
  <2>1. subject'[u] = subject[u] /\ subject[u] \in Jobs /\ status[subject[u]] # "absent"
    BY <1>3 DEF pageVars, PagesHaveJobs
  <2> QED BY <1>1, <2>1, StatusRises DEF NotAhead
<1>4. PagesHaveJobs'
  BY <1>3 DEF PagesHaveJobs, JobStatus
<1>5. TextsTrailRows'
  <2> SUFFICES ASSUME NEW u \in Users, page'[u] # "closed"
               PROVE  /\ NotAhead(shown[u], statusAnswer[u])
                      /\ NotAhead(shown[u], status'[subject[u]])
                      /\ NotAhead(statusAnswer[u], status'[subject[u]])
    BY DEF TextsTrailRows, pageVars, NotAhead
  <2>1. /\ NotAhead(shown[u], statusAnswer[u])
        /\ NotAhead(shown[u], status[subject[u]])
        /\ NotAhead(statusAnswer[u], status[subject[u]])
    BY DEF TextsTrailRows, pageVars
  <2> QED BY <1>3, <2>1, NotAheadTransitive
<1>6. CodeIsRecorded'
  BY <1>3, RecordsStay DEF CodeIsRecorded, pageVars
<1> QED BY <1>2, <1>4, <1>5, <1>6

\* A page that is opened shows the status just read; one that is closed forgets.
LEMMA VisitKeeps ==
  ASSUME RunnerTypeOK, PageInv, NEW u \in Users, Visit(u), UNCHANGED <<status, recorded>>
  PROVE  PageInv'
<1> USE DEF PageInv, PageFollowsJob, PageTypeOK, PageStates, Texts, Set
<1>1. ASSUME NEW j \in Jobs, OpenPage(u, j) PROVE PageInv'
  <2>1. /\ status[j] \in JobStatus /\ statusAnswer[u] = "none" /\ codeAnswer[u] = "none"
        /\ subject'[u] = j
    BY <1>1 DEF OpenPage, ClosedPagesAreBlank, RunnerTypeOK, StoreTypeOK, Status
  <2>2. PageTypeOK' /\ ClosedPagesAreBlank' /\ PagesHaveJobs'
    BY <1>1, <2>1 DEF OpenPage, ClosedPagesAreBlank, PagesHaveJobs
  <2>3. TextsTrailRows'
    BY <1>1, <2>1, NotAheadTrivially DEF OpenPage, TextsTrailRows
  <2>4. CodeIsRecorded'
    BY <1>1, <2>1 DEF OpenPage, CodeIsRecorded
  <2> QED BY <2>2, <2>3, <2>4
<1>2. CASE ClosePage(u)
  <2>1. PageTypeOK' /\ ClosedPagesAreBlank' /\ PagesHaveJobs'
    BY <1>2 DEF ClosePage, ClosedPagesAreBlank, PagesHaveJobs
  <2>2. TextsTrailRows' /\ CodeIsRecorded'
    BY <1>2 DEF ClosePage, TextsTrailRows, CodeIsRecorded
  <2> QED BY <2>1, <2>2
<1> QED BY <1>1, <1>2 DEF Visit

\* A refresh asks, is answered with what the rows hold now, and shows the answers.
LEMMA RefreshKeeps ==
  ASSUME RunnerTypeOK, PageInv, NEW u \in Users, Refresh(u), UNCHANGED <<status, recorded>>
  PROVE  PageInv'
<1> USE DEF PageInv, PageFollowsJob, PageTypeOK, PageStates, Texts, Set
<1>1. page[u] \in {"timer", "asked", "halfway"}
  BY DEF Refresh, Fire, AnswerStatus, AnswerCode, ShowStatus, ShowCode
<1>2. /\ subject[u] \in Jobs /\ status[subject[u]] \in JobStatus
      /\ NotAhead(shown[u], status[subject[u]])
  BY <1>1 DEF PagesHaveJobs, TextsTrailRows, RunnerTypeOK, StoreTypeOK, Status
<1>3. \A text : NotAhead(text, "none") /\ NotAhead("none", text)
  BY NotAheadTrivially
<1>4. CASE Fire(u)
  <2>1. PageTypeOK' /\ ClosedPagesAreBlank' /\ PagesHaveJobs'
    BY <1>1, <1>4 DEF Fire, ClosedPagesAreBlank, PagesHaveJobs
  <2>2. TextsTrailRows' /\ CodeIsRecorded'
    BY <1>1, <1>3, <1>4 DEF Fire, TextsTrailRows, CodeIsRecorded
  <2> QED BY <2>1, <2>2
<1>5. CASE AnswerStatus(u)
  <2>1. PageTypeOK' /\ ClosedPagesAreBlank' /\ PagesHaveJobs' /\ CodeIsRecorded'
    BY <1>1, <1>2, <1>5 DEF AnswerStatus, ClosedPagesAreBlank, PagesHaveJobs, CodeIsRecorded
  <2>2. TextsTrailRows'
    BY <1>1, <1>2, <1>5, NotAheadTrivially DEF AnswerStatus, TextsTrailRows
  <2> QED BY <2>1, <2>2
<1>6. CASE AnswerCode(u)
  <2>1. PageTypeOK' /\ ClosedPagesAreBlank' /\ PagesHaveJobs' /\ TextsTrailRows'
    BY <1>1, <1>2, <1>6 DEF AnswerCode, ClosedPagesAreBlank, PagesHaveJobs, TextsTrailRows
  <2>2. CodeIsRecorded'
    BY <1>1, <1>6 DEF AnswerCode, CodeIsRecorded
  <2> QED BY <2>1, <2>2
<1>7. CASE ShowStatus(u)
  <2>1. NotAhead(statusAnswer[u], statusAnswer[u])
    BY NotAheadTrivially
  <2>2. PageTypeOK' /\ ClosedPagesAreBlank' /\ PagesHaveJobs'
    BY <1>1, <1>7 DEF ShowStatus, ClosedPagesAreBlank, PagesHaveJobs
  <2>3. TextsTrailRows' /\ CodeIsRecorded'
    BY <1>1, <1>7, <2>1 DEF ShowStatus, TextsTrailRows, CodeIsRecorded
  <2> QED BY <2>2, <2>3
<1>8. CASE ShowCode(u)
  <2>1. PageTypeOK' /\ ClosedPagesAreBlank' /\ PagesHaveJobs'
    BY <1>1, <1>8 DEF ShowCode, ClosedPagesAreBlank, PagesHaveJobs
  <2>2. TextsTrailRows' /\ CodeIsRecorded'
    BY <1>1, <1>8 DEF ShowCode, TextsTrailRows, CodeIsRecorded
  <2> QED BY <2>1, <2>2
<1> QED BY <1>4, <1>5, <1>6, <1>7, <1>8 DEF Refresh

\* A page whose request was lost or answered with an error knows what it knew.
LEMMA FailureKeeps ==
  ASSUME PageInv, NEW u \in Users, RefreshFails(u), UNCHANGED <<status, recorded>>
  PROVE  PageInv'
<1> USE DEF PageInv, PageFollowsJob, PageTypeOK, PageStates, Texts, Set, ClosedPagesAreBlank,
            PagesHaveJobs
<1>1. CASE StatusFails(u)
  <2>1. PageTypeOK' /\ ClosedPagesAreBlank' /\ PagesHaveJobs' /\ CodeIsRecorded'
    BY <1>1 DEF StatusFails, CodeIsRecorded
  <2>2. TextsTrailRows'
    BY <1>1, NotAheadTrivially DEF StatusFails, TextsTrailRows
  <2> QED BY <2>1, <2>2
<1>2. CASE CodeFails(u)
  BY <1>2 DEF CodeFails, TextsTrailRows, CodeIsRecorded
<1>3. CASE LoseAnswer(u)
  BY <1>3 DEF LoseAnswer, TextsTrailRows, CodeIsRecorded
<1> QED BY <1>1, <1>2, <1>3 DEF RefreshFails

\* Every step of the site keeps what the pages know.
LEMMA PageStep ==
  ASSUME TypeOK, ClaimInv, PageInv, [SiteNext]_siteVars
  PROVE  PageInv'
<1>1. CASE [Next]_vars /\ UNCHANGED pageVars
  BY <1>1, PortalLeavesPages
<1>2. ASSUME NEW u \in Users, Visit(u) \/ Refresh(u) \/ RefreshFails(u), UNCHANGED vars
      PROVE  PageInv'
  <2>1. RunnerTypeOK /\ UNCHANGED <<status, recorded>>
    BY <1>2, TypeParts DEF vars, storeVars, runVars
  <2> QED BY <1>2, <2>1, VisitKeeps, RefreshKeeps, FailureKeeps
<1> QED BY <1>1, <1>2, SiteSteps DEF siteVars

\* The page invariant holds at every step.
LEMMA PagesAlways == SiteSpec => []PageInv
BY PageStarts, PageStep, PortalInvariants, PTL DEF SiteSpec

\* However long answers are under way and whatever happens to the job meanwhile,
\* what a page shows trails the answer, and the answer the row.
THEOREM PagesFollowJobs == SiteSpec => []PageFollowsJob
<1>1. PageInv => PageFollowsJob
  BY DEF PageInv
<1> QED BY <1>1, PagesAlways, PTL

\* Portal, accounts and pages are well typed in every reachable state of the site.
THEOREM SiteTypeCorrect == SiteSpec => []SiteTypeOK
<1>1. TypeOK /\ ClaimInv /\ AccountInv /\ PageInv => SiteTypeOK
  BY DEF AccountInv, PageInv, SiteTypeOK
<1> QED BY <1>1, PortalInvariants, AccountsAlways, PagesAlways, PTL

\* A page never shows a job that ran as queued, nor an ended one as running, and
\* takes generated code back only behind the account page or an error.
THEOREM PagesNeverGoBack == SiteSpec => PageNeverGoesBack
<1>1. PageInv /\ [SiteNext]_siteVars =>
        [\A u \in Users :
           /\ shown[u] \in JobStatus /\ shown'[u] \in JobStatus
                 => Rank(shown[u]) <= Rank(shown'[u])
           /\ code[u] /\ page'[u] # "closed" /\ ~code'[u]
                 => codeAnswer[u] \in {"account", "error"}]_siteVars
  <2> SUFFICES ASSUME PageInv, [SiteNext]_siteVars, NEW u \in Users
               PROVE  /\ NotAhead(shown[u], shown'[u])
                      /\ code[u] /\ page'[u] # "closed" /\ ~code'[u]
                            => codeAnswer[u] \in {"account", "error"}
    BY DEF NotAhead
  <2> USE DEF PageInv, PageFollowsJob, PageTypeOK, Set
  <2>1. NotAhead(shown[u], shown[u]) /\ NotAhead("none", shown'[u])
        /\ NotAhead(shown[u], "none")
    BY NotAheadTrivially
  <2>2. CASE UNCHANGED <<shown, code>>
    BY <2>1, <2>2
  <2>3. ASSUME NEW v \in Users, Visit(v)
        PROVE  /\ NotAhead(shown[u], shown'[u])
               /\ ~(code[u] /\ page'[u] # "closed" /\ ~code'[u])
    <3>1. ASSUME NEW j \in Jobs, OpenPage(v, j)
          PROVE  NotAhead(shown[u], shown'[u]) /\ ~(code[u] /\ ~code'[u])
      <4>1. CASE u = v
        <5>1. shown[u] = "none" /\ ~code[u]
          BY <3>1, <4>1 DEF OpenPage, ClosedPagesAreBlank
        <5> QED BY <2>1, <5>1
      <4>2. CASE u # v
        BY <2>1, <3>1, <4>2 DEF OpenPage
      <4> QED BY <4>1, <4>2
    <3>2. CASE ClosePage(v)
      BY <2>1, <3>2 DEF ClosePage
    <3> QED BY <2>1, <2>3, <3>1, <3>2 DEF Visit
  <2>4. ASSUME NEW v \in Users, ShowStatus(v) \/ ShowCode(v)
        PROVE  /\ NotAhead(shown[u], shown'[u])
               /\ code[u] /\ ~code'[u] => codeAnswer[u] \in {"account", "error"}
    <3>1. CASE u = v
      BY <2>1, <2>4, <3>1 DEF ShowStatus, ShowCode, TextsTrailRows, CodeIsRecorded
    <3>2. CASE u # v
      BY <2>1, <2>4, <3>2 DEF ShowStatus, ShowCode
    <3> QED BY <3>1, <3>2
  <2>5. ASSUME NEW v \in Users,
               Fire(v) \/ AnswerStatus(v) \/ AnswerCode(v) \/ RefreshFails(v)
        PROVE  UNCHANGED <<shown, code>>
    BY <2>5 DEF Fire, AnswerStatus, AnswerCode, RefreshFails, StatusFails, CodeFails,
       LoseAnswer
  <2>6. CASE UNCHANGED pageVars
    BY <2>2, <2>6 DEF pageVars
  <2>7. ASSUME NEW v \in Users, Visit(v) \/ Refresh(v) \/ RefreshFails(v)
        PROVE  /\ NotAhead(shown[u], shown'[u])
               /\ code[u] /\ page'[u] # "closed" /\ ~code'[u]
                     => codeAnswer[u] \in {"account", "error"}
    <3>1. CASE Visit(v)
      BY <2>3, <3>1
    <3>2. CASE ShowStatus(v) \/ ShowCode(v)
      BY <2>4, <3>2
    <3>3. CASE Fire(v) \/ AnswerStatus(v) \/ AnswerCode(v) \/ RefreshFails(v)
      BY <2>2, <2>5, <3>3
    <3> QED BY <2>7, <3>1, <3>2, <3>3 DEF Refresh
  <2> QED BY <2>6, <2>7, SiteSteps DEF siteVars
<1> QED BY <1>1, PagesAlways, PTL DEF SiteSpec, PageNeverGoesBack
=============================================================================
