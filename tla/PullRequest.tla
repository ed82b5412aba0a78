----------------------------- MODULE PullRequest -----------------------------
(***************************************************************************)
(* One issue's open pull request: what GitHub says of it, what the machine   *)
(* that ran its worker holds of it, and how both move under the commands     *)
(* that review it, send it back and verify it (review.go, rework.go,         *)
(* verify.go).  None of the three takes the repository lock.                 *)
(*                                                                           *)
(* A commit is the set of changes it contains: an ancestor is a subset.      *)
(* Branches are pushed fast-forward only.                                    *)
(***************************************************************************)
EXTENDS Naturals, FiniteSets

CONSTANTS
  Run,        \* runs of the three commands
  Text,       \* what the issue may say, its checks included
  Filed,      \* what it says at first
  Faults,     \* which faults this instance admits
  MaxChanges, \* changes anybody makes in one behavior, the first two included
  MaxEvents   \* what people, workers, GitHub and faults do in one behavior

ASSUME PullRequestAssumption ==
  /\ Filed \in Text /\ MaxChanges \in Nat \ {0, 1} /\ MaxEvents \in Nat
  /\ Faults \subseteq {"callFails"}

VARIABLES
  prOpen,    \* whether the pull request is open
  head,      \* the commit it is at
  checks,    \* how the latest run of each check of a commit stands
  text,      \* what the issue says
  approved,  \* texts somebody with write access has approved
  made,      \* changes made so far
  checkout,  \* whether a worktree is on the branch
  dirty,     \* whether it holds changes nobody committed
  local,     \* the local branch, if there is one
  tracking,  \* origin/branch, as last fetched or pushed
  spaces,    \* herdr workspaces open on the worktree
  opened,    \* workspaces opened so far
  agents,    \* agents in them: where, and who started each
  busy,      \* those in the middle of a turn
  at,        \* where each run stands
  events     \* events so far

hubVars == <<prOpen, head, checks, text, approved>>
diskVars == <<checkout, dirty, local, tracking>>
herdrVars == <<spaces, opened, agents, busy>>
worldVars == <<hubVars, made, diskVars, herdrVars>>

Commit == SUBSET (1..MaxChanges)
NoBranch == {0}

\* A worker, or the reviewer a run of `review` started.
Who == {"worker"} \cup Run

\* CI of a commit, as the latest run of each of its checks has it.
CIStates == {{}, {"wait"}, {"pass"}, {"pass", "fail"}}

WorldInit ==
  /\ prOpen = TRUE
  /\ head = {1}
  /\ \E s \in CIStates : checks = [c \in Commit |-> IF c = {1} THEN s ELSE {}]
  /\ text = Filed
  /\ approved \in {{}, {Filed}}
  /\ made = 2
  /\ checkout \in BOOLEAN
  /\ dirty \in IF checkout THEN BOOLEAN ELSE {FALSE}
  /\ local \in {{1}, {1, 2}} \cup IF checkout THEN {{}} ELSE {NoBranch}
  /\ tracking \in {{}, {1}}
  /\ spaces \in IF checkout THEN {{}, {1}} ELSE {{}}
  /\ opened = 1
  /\ agents \in {{}} \cup {{<<s, "worker">>} : s \in spaces}
  /\ busy = {}
  /\ events = 0

Labels ==
  {"view", "checks", "place", "issue", "live", "split", "await", "reread", "recheck", "post",
   "approval", "pr", "spaces", "agents", "pin", "tell", "fetch", "status", "ancestor", "close",
   "remove", "branch", "create", "launch",
   "verify", "base", "head", "judge", "revert", "over", "failed"}

Agent == (Nat \ {0}) \X Who

WorldTypeOK ==
  /\ prOpen \in BOOLEAN /\ text \in Text /\ approved \subseteq Text
  /\ head \in Commit /\ tracking \in Commit /\ local \in Commit \cup {NoBranch}
  /\ checks \in [Commit -> CIStates]
  /\ made \in Nat /\ made <= MaxChanges
  /\ checkout \in BOOLEAN /\ dirty \in BOOLEAN
  /\ spaces \subseteq Nat \ {0} /\ opened \in Nat
  /\ busy \subseteq agents /\ agents \subseteq Agent
  /\ at \in [Run -> Labels] /\ events \in Nat

GoTo(r, label) == at' = [at EXCEPT ![r] = label]

Event == events < MaxEvents /\ events' = events + 1

\* A call of gh, git or herdr fails, and with it the run.
Fails(r) == "callFails" \in Faults /\ Event /\ GoTo(r, "failed")

-----------------------------------------------------------------------------
(* What is read *)

\* ciStatusOf: every check counts, required or not.
CIState(standing) ==
  IF "fail" \in standing THEN "failing"
  ELSE IF "wait" \in standing THEN "pending"
  ELSE IF standing = {} THEN "missing" ELSE "green"

\* commitChecks, asked by the commit's id and not for the pull request's head.
CommitCI(c) == CIState(checks[c])

\* factoryApproval, as one read: what the issue says now, if it is approved.
Approval == approved \cap {text}

-----------------------------------------------------------------------------
(* People, workers and GitHub *)

EnvironmentRest(unchanged) == UNCHANGED <<at, unchanged>> /\ Event

\* A worker, or a person at its checkout, edits and commits.
EditFile ==
  /\ checkout /\ ~dirty
  /\ dirty' = TRUE
  /\ EnvironmentRest(<<hubVars, made, checkout, local, tracking, herdrVars>>)

MakeCommit ==
  /\ checkout /\ made < MaxChanges
  /\ made' = made + 1
  /\ local' = local \cup {made'}
  /\ dirty' = FALSE
  /\ EnvironmentRest(<<hubVars, checkout, tracking, herdrVars>>)

Push ==
  /\ checkout /\ local # head /\ head \subseteq local
  /\ head' = local /\ tracking' = local
  /\ EnvironmentRest(<<prOpen, checks, text, approved, made, checkout, dirty, local, herdrVars>>)

PushFromElsewhere ==
  /\ made < MaxChanges
  /\ made' = made + 1
  /\ head' = head \cup {made'}
  /\ EnvironmentRest(<<prOpen, checks, text, approved, diskVars, herdrVars>>)

\* Every check has passed, or one is run again.
CheckMoves ==
  /\ \E s \in {{"pass"}, {"wait"}} \ {checks[head]} : checks' = [checks EXCEPT ![head] = s]
  /\ EnvironmentRest(<<prOpen, head, text, approved, made, diskVars, herdrVars>>)

\* Closed, merged, or opened again.
ClosePR ==
  /\ prOpen' = ~prOpen
  /\ EnvironmentRest(<<head, checks, text, approved, made, diskVars, herdrVars>>)

EditIssue ==
  /\ text' \in Text \ {text}
  /\ EnvironmentRest(<<prOpen, head, checks, approved, made, diskVars, herdrVars>>)

Approve ==
  /\ text \notin approved
  /\ approved' = approved \cup {text}
  /\ EnvironmentRest(<<prOpen, head, checks, text, made, diskVars, herdrVars>>)

\* A worker goes, or a person closes a reviewer's pane.
AgentExits ==
  /\ \E a \in agents : agents' = agents \ {a} /\ busy' = busy \ {a}
  /\ EnvironmentRest(<<hubVars, made, diskVars, spaces, opened>>)

\* A worker ends its turn.
WorkerRests ==
  /\ \E a \in busy : a[2] = "worker" /\ busy' = busy \ {a}
  /\ UNCHANGED <<hubVars, made, diskVars, spaces, opened, agents, at, events>>

\* sync, or a person, opens a workspace on a worktree that has none, or staffs one
\* without an agent.  herdr takes no second agent of one name.
SyncOpens ==
  /\ checkout /\ spaces = {}
  /\ opened' = opened + 1
  /\ spaces' = {opened'}
  /\ EnvironmentRest(<<hubVars, made, diskVars, agents, busy>>)

SyncStaffs ==
  /\ \A a \in agents : a[2] # "worker"
  /\ \E s \in spaces :
       /\ \A a \in agents : a[1] # s
       /\ agents' = agents \cup {<<s, "worker">>}
       /\ busy' = busy \cup {<<s, "worker">>}
  /\ EnvironmentRest(<<hubVars, made, diskVars, spaces, opened>>)

World ==
  \/ EditFile \/ MakeCommit \/ Push \/ PushFromElsewhere
  \/ CheckMoves \/ ClosePR \/ EditIssue \/ Approve
  \/ AgentExits \/ WorkerRests \/ SyncOpens \/ SyncStaffs
=============================================================================
