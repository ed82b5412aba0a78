-------------------------------- MODULE Review --------------------------------
(***************************************************************************)
(* `review` (review.go): a reviewer in a pane beside the worker is handed a  *)
(* commit's diff and the issue as files, and its verdict counts only while   *)
(* that commit is still the pull request's and still green.                  *)
(***************************************************************************)
EXTENDS PullRequest

CONSTANT NoText

VARIABLES
  oid,      \* the commit each run is about
  place,    \* the workspace its reviewer's pane is in
  judged,   \* the issue text it hands the reviewer
  vouched,  \* whether it says that text is approved
  report,   \* what its reviewer has reported
  verdict,  \* what it makes of that
  outcome,  \* what it comes to
  posted    \* the outcome it has posted on the pull request

reviewVars == <<oid, place, judged, vouched, report, verdict, outcome, posted>>

ReviewInit ==
  /\ oid = [r \in Run |-> {}]
  /\ place = [r \in Run |-> 0]
  /\ judged = [r \in Run |-> NoText]
  /\ vouched = [r \in Run |-> FALSE]
  /\ report = [r \in Run |-> "none"]
  /\ verdict = [r \in Run |-> "none"]
  /\ outcome = [r \in Run |-> "none"]
  /\ posted = [r \in Run |-> "none"]

Outcomes ==
  {"none", "failing", "pending", "missing", "stale", "blocked", "no answer", "verified",
   "unapproved", "failed", "unreadable"}

ReviewTypeOK ==
  /\ oid \in [Run -> Commit]
  /\ place \in [Run -> Nat]
  /\ judged \in [Run -> Text \cup {NoText}]
  /\ vouched \in [Run -> BOOLEAN]
  /\ report \in [Run -> {"none", "pass", "fail", "unclear", "blocked"}]
  /\ verdict \in [Run -> {"none", "pass", "fail", "unreadable"}]
  /\ outcome \in [Run -> Outcomes] /\ posted \in [Run -> Outcomes]

Reviewer(r) == <<place[r], r>>

Ends(r, o) == GoTo(r, "over") /\ outcome' = [outcome EXCEPT ![r] = o]

-----------------------------------------------------------------------------
(* Before there is a reviewer *)

\* reviewPRFor.  From here on the run is about a commit.
View(r) ==
  /\ at[r] = "view"
  /\ \/ /\ prOpen
        /\ oid' = [oid EXCEPT ![r] = head]
        /\ GoTo(r, "checks")
        /\ UNCHANGED events
     \/ ~prOpen /\ GoTo(r, "failed") /\ UNCHANGED <<oid, events>>
     \/ Fails(r) /\ UNCHANGED oid
  /\ UNCHANGED <<worldVars, place, judged, vouched, report, verdict, outcome, posted>>

\* commitChecks and ciStatusOf: only green goes on.
Checks(r) ==
  /\ at[r] = "checks"
  /\ LET ci == CommitCI(oid[r])
     IN  \/ ci = "green" /\ GoTo(r, "place") /\ UNCHANGED <<outcome, events>>
         \/ ci # "green" /\ Ends(r, ci) /\ UNCHANGED events
         \/ Fails(r) /\ UNCHANGED outcome
  /\ UNCHANGED <<worldVars, oid, place, judged, vouched, report, verdict, posted>>

\* reviewWorktree: herdr's workspace on the worker's checkout.
Place(r) ==
  /\ at[r] = "place"
  /\ \/ /\ checkout
        /\ \E s \in spaces : place' = [place EXCEPT ![r] = s]
        /\ GoTo(r, "issue")
        /\ UNCHANGED events
     \/ (~checkout \/ spaces = {}) /\ GoTo(r, "failed") /\ UNCHANGED <<place, events>>
     \/ Fails(r) /\ UNCHANGED place
  /\ UNCHANGED <<worldVars, oid, judged, vouched, report, verdict, outcome, posted>>

\* issueFor, commitDiff, reviewIssue and writeReviewInputs.
Issue(r) ==
  /\ at[r] = "issue"
  /\ \/ /\ \E t \in Approval : judged' = [judged EXCEPT ![r] = t]
        /\ vouched' = [vouched EXCEPT ![r] = TRUE]
        /\ GoTo(r, "split")
        /\ UNCHANGED events
     \/ /\ Approval = {}
        /\ GoTo(r, "live")
        /\ UNCHANGED <<judged, vouched, events>>
     \/ Fails(r) /\ UNCHANGED <<judged, vouched>>
  /\ UNCHANGED <<worldVars, oid, place, report, verdict, outcome, posted>>

\* The live text is a second fetch, and what it finds is not called approved.
LiveIssue(r) ==
  /\ at[r] = "live"
  /\ \/ /\ judged' = [judged EXCEPT ![r] = text]
        /\ GoTo(r, "split")
        /\ UNCHANGED events
     \/ Fails(r) /\ UNCHANGED judged
  /\ UNCHANGED <<worldVars, oid, place, vouched, report, verdict, outcome, posted>>

-----------------------------------------------------------------------------
(* The reviewer *)

\* PaneSplit, KindStaff without a workspace to look at, and deliverBrief.  A
\* reviewer of the same commit that is still in its pane has the name.
StartReviewer(r) ==
  /\ at[r] = "split"
  /\ \/ /\ place[r] \in spaces
        /\ \A q \in Run : Reviewer(q) \in agents => oid[q] # oid[r]
        /\ agents' = agents \cup {Reviewer(r)}
        /\ \/ busy' = busy \cup {Reviewer(r)} /\ GoTo(r, "await") /\ UNCHANGED events
           \/ Fails(r) /\ UNCHANGED busy
     \/ /\ \/ place[r] \notin spaces
           \/ \E q \in Run : Reviewer(q) \in agents /\ oid[q] = oid[r]
        /\ GoTo(r, "failed")
        /\ UNCHANGED <<agents, busy, events>>
     \/ Fails(r) /\ UNCHANGED <<agents, busy>>
  /\ UNCHANGED <<hubVars, made, diskVars, spaces, opened, reviewVars>>

\* A reviewer decides as it likes.  "unclear" says neither, or is about another pull
\* request.
Reports(r) ==
  /\ Reviewer(r) \in busy /\ report[r] = "none"
  /\ \E said \in {"pass", "fail", "unclear", "blocked"} :
       report' = [report EXCEPT ![r] = said]
  /\ busy' = busy \ {Reviewer(r)}
  /\ UNCHANGED <<hubVars, made, diskVars, spaces, opened, agents, at, events,
                 oid, place, judged, vouched, verdict, outcome, posted>>

\* awaitReviewer and reviewVerdict.  The wait is over at any time.
AwaitReviewer(r) ==
  /\ at[r] = "await"
  /\ \/ /\ report[r] \notin {"none", "blocked"}
        /\ verdict' = [verdict EXCEPT ![r] =
                         IF report[r] = "unclear" THEN "unreadable" ELSE report[r]]
        /\ GoTo(r, "reread")
        /\ UNCHANGED outcome
     \/ report[r] = "blocked" /\ Ends(r, "blocked") /\ UNCHANGED verdict
     \/ report[r] = "none" /\ Ends(r, "no answer") /\ UNCHANGED verdict
  /\ UNCHANGED <<worldVars, events, oid, place, judged, vouched, report, posted>>

-----------------------------------------------------------------------------
(* What the verdict comes to *)

\* Mutant: the head is not compared.
RereadNothing(r) ==
  /\ at[r] = "reread"
  /\ GoTo(r, "recheck")
  /\ UNCHANGED <<worldVars, events, reviewVars>>

\* reviewPRFor again.  Whether the pull request is still open is not asked.
Reread(r) ==
  /\ at[r] = "reread"
  /\ \/ head = oid[r] /\ GoTo(r, "recheck") /\ UNCHANGED <<outcome, events>>
     \/ head # oid[r] /\ Ends(r, "stale") /\ UNCHANGED events
     \/ Fails(r) /\ UNCHANGED outcome
  /\ UNCHANGED <<worldVars, oid, place, judged, vouched, report, verdict, posted>>

Decided(r) ==
  CASE verdict[r] = "pass" /\ ~vouched[r] -> "unapproved"
    [] verdict[r] = "pass" /\ vouched[r] -> "verified"
    [] verdict[r] = "fail" -> "failed"
    [] OTHER -> "unreadable"

\* commitChecks again, and the outcome, before anything is said about it.
Recheck(r) ==
  /\ at[r] = "recheck"
  /\ \/ /\ CommitCI(oid[r]) = "green"
        /\ outcome' = [outcome EXCEPT ![r] = Decided(r)]
        /\ GoTo(r, "post")
        /\ UNCHANGED events
     \/ CommitCI(oid[r]) # "green" /\ Ends(r, "stale") /\ UNCHANGED events
     \/ Fails(r) /\ UNCHANGED outcome
  /\ UNCHANGED <<worldVars, oid, place, judged, vouched, report, verdict, posted>>

\* The findings file and postReview.  Failing, the outcome stands unposted, or
\* posted and not known to be.
PostReview(r) ==
  /\ at[r] = "post"
  /\ \/ posted' = [posted EXCEPT ![r] = outcome[r]] /\ UNCHANGED events
     \/ "callFails" \in Faults /\ Event /\ UNCHANGED posted
  /\ GoTo(r, "over")
  /\ UNCHANGED <<worldVars, oid, place, judged, vouched, report, verdict, outcome>>

ReviewStep(r) ==
  \/ View(r) \/ Checks(r) \/ Place(r) \/ Issue(r) \/ LiveIssue(r) \/ StartReviewer(r)
  \/ AwaitReviewer(r) \/ Reread(r) \/ Recheck(r) \/ PostReview(r)
=============================================================================
