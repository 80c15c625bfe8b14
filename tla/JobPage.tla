------------------------------- MODULE JobPage -------------------------------
(***************************************************************************)
(* The job page in the browser of the job's owner (job_detail.html) and    *)
(* the three views it talks to.  A refresh fetches the status partial and  *)
(* the generated code at the same time, waits for both answers, shows one  *)
(* after the other and decides from the text of the partial whether to set *)
(* the timer again.  An answer is what the server read when it answered.   *)
(***************************************************************************)
EXTENDS PlotRunner, Accounts

VARIABLES
    page,       \* what the script of the page waits for
    subject,    \* the job the page is about
    shown,      \* the status in the text of the page
    code,       \* the page shows generated code
    statusAnswer, codeAnswer    \* the answers of the refresh under way

pageVars == <<page, subject, shown, code, statusAnswer, codeAnswer>>

PageStates == {"closed",  \* no page
               "timer",   \* window.setTimeout(refresh) is pending
               "asked",   \* the two requests are under way
               "halfway", \* the status is shown, the code is still awaited
               "resting", \* no timer: the page has seen all it wanted
               "broken"}  \* no timer: fetch failed, refresh ended with an error

\* A user who may not see the job is redirected to the account page, which
\* fetch follows: its text takes the place of the partial.  fetch does not
\* reject an error status either: the text of the error page is shown.
Texts == JobStatus \cup {"account", "error"}

PageTypeOK ==
    /\ page \in [Users -> PageStates]
    /\ subject \in [Users -> Jobs \cup {NoOne}]
    /\ shown \in [Users -> Texts \cup {"none"}]
    /\ code \in [Users -> BOOLEAN]
    /\ statusAnswer \in [Users -> Texts \cup {"none"}]
    /\ codeAnswer \in [Users -> {"none", "code", "no code", "account", "error"}]

PageInit ==
    /\ page = [u \in Users |-> "closed"]
    /\ subject = [u \in Users |-> NoOne]
    /\ shown = [u \in Users |-> "none"]
    /\ code = [u \in Users |-> FALSE]
    /\ statusAnswer = [u \in Users |-> "none"]
    /\ codeAnswer = [u \in Users |-> "none"]

\* The words of a text that the script looks for.  The partial has the label
\* "Completed:" whatever the status is.
Words(text) == IF text \in JobStatus THEN {text, "completed"} ELSE {}

\* Faulty variant: every in place of some.
EndsPollingByEvery(text) == TerminalValues \subseteq Words(text)

StartsPolling(text) == Words(text) \cap {"queued", "running"} # {}
EndsPolling(text) == Words(text) \cap TerminalValues # {}

Set(var, u, value) == [var EXCEPT ![u] = value]

-----------------------------------------------------------------------------
(* job_detail renders the status; it passes no code to the template.       *)

OpenPage(u, j) ==
    /\ page[u] = "closed"
    /\ IsUserApproved(u)
    /\ status[j] # "absent"
    /\ page' = Set(page, u, IF StartsPolling(status[j]) THEN "timer" ELSE "resting")
    /\ subject' = Set(subject, u, j)
    /\ shown' = Set(shown, u, status[j])
    /\ code' = Set(code, u, FALSE)
    /\ UNCHANGED <<statusAnswer, codeAnswer>>

ClosePage(u) ==
    /\ page[u] # "closed"
    /\ page' = Set(page, u, "closed")
    /\ subject' = Set(subject, u, NoOne)
    /\ shown' = Set(shown, u, "none")
    /\ code' = Set(code, u, FALSE)
    /\ statusAnswer' = Set(statusAnswer, u, "none")
    /\ codeAnswer' = Set(codeAnswer, u, "none")

-----------------------------------------------------------------------------
(* refresh                                                                 *)

Fire(u) ==
    /\ page[u] = "timer"
    /\ page' = Set(page, u, "asked")
    /\ statusAnswer' = Set(statusAnswer, u, "none")
    /\ codeAnswer' = Set(codeAnswer, u, "none")
    /\ UNCHANGED <<subject, shown, code>>

\* job_status_partial
AnswerStatus(u) ==
    /\ page[u] = "asked" /\ statusAnswer[u] = "none"
    /\ statusAnswer' = Set(statusAnswer, u,
                           IF IsUserApproved(u) THEN status[subject[u]] ELSE "account")
    /\ UNCHANGED <<page, subject, shown, code, codeAnswer>>

StatusFails(u) ==
    /\ "read" \in Faults
    /\ page[u] = "asked" /\ statusAnswer[u] = "none"
    /\ statusAnswer' = Set(statusAnswer, u, "error")
    /\ UNCHANGED <<page, subject, shown, code, codeAnswer>>

\* job_generated_code: the newest script row, and its blob.
AnswerCode(u) ==
    /\ page[u] = "asked" /\ codeAnswer[u] = "none"
    /\ codeAnswer' = Set(codeAnswer, u,
                         IF ~IsUserApproved(u) THEN "account"
                         ELSE IF "script" \in recorded[subject[u]] THEN "code"
                         ELSE "no code")
    /\ UNCHANGED <<page, subject, shown, code, statusAnswer>>

\* The artifact store cannot be read, or the view fails in another way.
CodeFails(u) ==
    /\ "read" \in Faults
    /\ page[u] = "asked" /\ codeAnswer[u] = "none"
    /\ codeAnswer' = Set(codeAnswer, u, "error")
    /\ UNCHANGED <<page, subject, shown, code, statusAnswer>>

ShowStatus(u) ==
    /\ page[u] = "asked" /\ statusAnswer[u] # "none" /\ codeAnswer[u] # "none"
    /\ shown' = Set(shown, u, statusAnswer[u])
    /\ page' = Set(page, u, "halfway")
    /\ UNCHANGED <<subject, code, statusAnswer, codeAnswer>>

ShowCode(u) ==
    /\ page[u] = "halfway"
    /\ code' = Set(code, u, codeAnswer[u] = "code")
    /\ page' = Set(page, u, IF EndsPolling(shown[u]) THEN "resting" ELSE "timer")
    /\ UNCHANGED <<subject, shown, statusAnswer, codeAnswer>>

\* fetch or the reading of a text rejects: nothing catches it, and no timer is
\* set again.
LoseAnswer(u) ==
    /\ page[u] \in {"asked", "halfway"}
    /\ page' = Set(page, u, "broken")
    /\ UNCHANGED <<subject, shown, code, statusAnswer, codeAnswer>>

Refresh(u) == \/ Fire(u) \/ AnswerStatus(u) \/ AnswerCode(u)
              \/ ShowStatus(u) \/ ShowCode(u)

RefreshFails(u) == StatusFails(u) \/ CodeFails(u) \/ LoseAnswer(u)

Visit(u) == (\E j \in Jobs : OpenPage(u, j)) \/ ClosePage(u)

Polling(u) == page[u] \in {"timer", "asked", "halfway"}
=============================================================================
