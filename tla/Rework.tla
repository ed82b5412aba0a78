-------------------------------- MODULE Rework --------------------------------
(***************************************************************************)
(* `rework` (rework.go): an open pull request goes back to its worker.  If   *)
(* one is in the workspace it is told; otherwise the worktree is made anew   *)
(* from origin and a worker started there, and what the old one held may not *)
(* be lost.                                                                  *)
(***************************************************************************)
EXTENDS PullRequest

VARIABLES
  was,    \* whether the branch had a worktree when the run looked
  home,   \* the workspace it found on it, or made; 0 for none
  told    \* the agent it sends the work to, if it has one

reworkVars == <<was, home, told>>

NoAgent == <<0, "worker">>

ReworkInit ==
  /\ was = [r \in Run |-> FALSE]
  /\ home = [r \in Run |-> 0]
  /\ told = [r \in Run |-> NoAgent]

-----------------------------------------------------------------------------
(* Refusals, before anything is typed, closed or removed *)

\* hashApproval, for the text that was filed and approved by its hash; then prFor.
Confirm(r) ==
  /\ at[r] = "approval"
  /\ \/ GoTo(r, IF text = Filed THEN "pr" ELSE "failed") /\ UNCHANGED events
     \/ Fails(r)
  /\ UNCHANGED <<worldVars, reworkVars>>

FindPR(r) ==
  /\ at[r] = "pr"
  /\ \/ /\ was' = [was EXCEPT ![r] = checkout]
        /\ GoTo(r, IF ~prOpen THEN "failed" ELSE IF checkout THEN "spaces" ELSE "fetch")
        /\ UNCHANGED events
     \/ Fails(r) /\ UNCHANGED was
  /\ UNCHANGED <<worldVars, home, told>>

\* liveWorker: the first workspace herdr lists on the checkout.
ListSpaces(r) ==
  /\ at[r] = "spaces"
  /\ \/ spaces = {} /\ home' = [home EXCEPT ![r] = 0] /\ GoTo(r, "fetch") /\ UNCHANGED events
     \/ /\ \E s \in spaces : (\A t \in spaces : s <= t) /\ home' = [home EXCEPT ![r] = s]
        /\ GoTo(r, "agents")
        /\ UNCHANGED events
     \/ Fails(r) /\ UNCHANGED home
  /\ UNCHANGED <<worldVars, was, told>>

AgentsIn(s) == {a \in agents : a[1] = s}

\* Mutant: with several agents it does not matter which.
ListAgentsAny(r) ==
  /\ at[r] = "agents"
  /\ IF Cardinality(AgentsIn(home[r])) = 1
     THEN /\ told' = [told EXCEPT ![r] = CHOOSE a \in AgentsIn(home[r]) : TRUE]
          /\ GoTo(r, IF AgentsIn(home[r]) \subseteq busy THEN "failed" ELSE "pin")
     ELSE GoTo(r, "fetch") /\ UNCHANGED told
  /\ UNCHANGED <<worldVars, events, was, home>>

\* liveWorker: the agents of that workspace, the reviewers among them.  Several are
\* refused, and so is one that works.
ListAgents(r) ==
  /\ at[r] = "agents"
  /\ LET found == AgentsIn(home[r])
     IN  \/ found = {} /\ GoTo(r, "fetch") /\ UNCHANGED <<told, events>>
         \/ /\ Cardinality(found) = 1
            /\ \E a \in found :
                 /\ told' = [told EXCEPT ![r] = a]
                 /\ GoTo(r, IF a \in busy THEN "failed" ELSE "pin")
            /\ UNCHANGED events
         \/ Cardinality(found) > 1 /\ GoTo(r, "failed") /\ UNCHANGED <<told, events>>
         \/ Fails(r) /\ UNCHANGED told
  /\ UNCHANGED <<worldVars, was, home>>

\* pinReworkFiles, into the checkout's git directory.
PinNote(r) ==
  /\ at[r] = "pin"
  /\ \/ GoTo(r, IF checkout THEN "tell" ELSE "failed") /\ UNCHANGED events
     \/ Fails(r)
  /\ UNCHANGED <<worldVars, reworkVars>>

\* deliverBrief of reworkPrompt, into the pane the agent was found in.
Tell(r) ==
  /\ at[r] = "tell"
  /\ \/ told[r] \in agents /\ busy' = busy \cup {told[r]} /\ GoTo(r, "over") /\ UNCHANGED events
     \/ told[r] \notin agents /\ GoTo(r, "failed") /\ UNCHANGED <<busy, events>>
     \/ Fails(r) /\ UNCHANGED busy
  /\ UNCHANGED <<hubVars, made, diskVars, spaces, opened, agents, reworkVars>>

-----------------------------------------------------------------------------
(* A new worktree, and a worker in it *)

\* issueFor, and fetchRemoteBranch.
FetchBranch(r) ==
  /\ at[r] = "fetch"
  /\ \/ tracking' = head /\ GoTo(r, "status") /\ UNCHANGED events
     \/ Fails(r) /\ UNCHANGED tracking
  /\ UNCHANGED <<hubVars, made, checkout, dirty, local, herdrVars, reworkVars>>

\* Mutant: a branch with no worktree has nothing to lose.
CleanWithoutWorktree(r) ==
  /\ at[r] = "status"
  /\ GoTo(r, IF was[r] THEN IF checkout /\ ~dirty THEN "ancestor" ELSE "failed" ELSE "close")
  /\ UNCHANGED <<worldVars, events, reworkVars>>

\* checkNothingOnlyLocal, as far as git status.
CleanStatus(r) ==
  /\ at[r] = "status"
  /\ \/ /\ GoTo(r, CASE was[r] -> IF checkout /\ ~dirty THEN "ancestor" ELSE "failed"
                     [] ~was[r] /\ local = NoBranch -> "close"
                     [] OTHER -> "ancestor")
        /\ UNCHANGED events
     \/ Fails(r)
  /\ UNCHANGED <<worldVars, reworkVars>>

\* checkNothingOnlyLocal: git merge-base --is-ancestor.
NothingOnlyLocal(r) ==
  /\ at[r] = "ancestor"
  /\ \/ /\ GoTo(r, IF local # NoBranch /\ local \subseteq tracking THEN "close" ELSE "failed")
        /\ UNCHANGED events
     \/ Fails(r)
  /\ UNCHANGED <<worldVars, reworkVars>>

\* WorkspaceClose, of the workspace that was found without an agent.
CloseSpace(r) ==
  /\ at[r] = "close"
  /\ \/ /\ home[r] = 0 \/ home[r] \in spaces
        /\ spaces' = spaces \ {home[r]}
        /\ agents' = {a \in agents : a[1] # home[r]}
        /\ busy' = busy \cap agents'
        /\ \/ GoTo(r, "remove") /\ UNCHANGED events
           \/ Fails(r)
     \/ /\ home[r] \notin spaces \cup {0}
        /\ GoTo(r, "failed")
        /\ UNCHANGED <<spaces, agents, busy, events>>
     \/ Fails(r) /\ UNCHANGED <<spaces, agents, busy>>
  /\ UNCHANGED <<hubVars, made, diskVars, opened, reworkVars>>

\* git worktree remove, without --force.
RemoveWorktree(r) ==
  /\ at[r] = "remove"
  /\ \/ ~was[r] /\ GoTo(r, "branch") /\ UNCHANGED <<checkout, events>>
     \/ was[r] /\ checkout /\ ~dirty /\ checkout' = FALSE /\ GoTo(r, "branch") /\ UNCHANGED events
     \/ was[r] /\ (~checkout \/ dirty) /\ GoTo(r, "failed") /\ UNCHANGED <<checkout, events>>
     \/ was[r] /\ Fails(r) /\ UNCHANGED checkout
  /\ UNCHANGED <<hubVars, made, dirty, local, tracking, herdrVars, reworkVars>>

\* git branch -D, which git refuses while a worktree is on the branch.
DeleteBranch(r) ==
  /\ at[r] = "branch"
  /\ \/ /\ local = NoBranch \/ ~checkout
        /\ local' = NoBranch
        /\ GoTo(r, "create") /\ UNCHANGED events
     \/ /\ local # NoBranch /\ checkout
        /\ GoTo(r, "failed") /\ UNCHANGED <<local, events>>
     \/ Fails(r) /\ UNCHANGED local
  /\ UNCHANGED <<hubVars, made, checkout, dirty, tracking, herdrVars, reworkVars>>

\* WorktreeCreate from origin/<branch>, in a workspace of its own.
CreateWorktree(r) ==
  /\ at[r] = "create"
  /\ \/ /\ local = NoBranch /\ ~checkout
        /\ checkout' = TRUE /\ local' = tracking
        /\ opened' = opened + 1
        /\ spaces' = spaces \cup {opened'}
        /\ home' = [home EXCEPT ![r] = opened']
        /\ GoTo(r, "launch")
        /\ UNCHANGED events
     \/ /\ local # NoBranch \/ checkout
        /\ GoTo(r, "failed")
        /\ UNCHANGED <<checkout, local, opened, spaces, home, events>>
     \/ Fails(r) /\ UNCHANGED <<checkout, local, opened, spaces, home>>
  /\ UNCHANGED <<hubVars, made, dirty, tracking, agents, busy, was, told>>

\* launchWorker: the pinned files, KindStaff in the new workspace, the brief.  The
\* name is the branch's, and herdr takes it once.  A worker somebody has staffed the
\* workspace with since makes the executor skip, and is briefed in its place.
LaunchWorker(r) ==
  /\ at[r] = "launch"
  /\ LET worker == <<home[r], "worker">>
         free == AgentsIn(home[r]) = {} /\ \A a \in agents : a[2] # "worker"
     IN  \/ /\ checkout /\ home[r] \in spaces /\ (free \/ worker \in agents)
            /\ agents' = agents \cup {worker}
            /\ busy' = busy \cup {worker}
            /\ told' = [told EXCEPT ![r] = worker]
            /\ GoTo(r, "over")
            /\ UNCHANGED events
         \/ /\ ~checkout \/ home[r] \notin spaces \/ ~(free \/ worker \in agents)
            /\ GoTo(r, "failed")
            /\ UNCHANGED <<agents, busy, told, events>>
         \/ Fails(r) /\ UNCHANGED <<agents, busy, told>>
  /\ UNCHANGED <<hubVars, made, diskVars, spaces, opened, was, home>>

ReworkTypeOK ==
  /\ was \in [Run -> BOOLEAN]
  /\ home \in [Run -> Nat]
  /\ told \in [Run -> Nat \X Who]

ReworkStep(r) ==
  \/ Confirm(r) \/ FindPR(r) \/ ListSpaces(r) \/ ListAgents(r) \/ PinNote(r) \/ Tell(r)
  \/ FetchBranch(r) \/ CleanStatus(r) \/ NothingOnlyLocal(r) \/ CloseSpace(r)
  \/ RemoveWorktree(r) \/ DeleteBranch(r) \/ CreateWorktree(r) \/ LaunchWorker(r)
=============================================================================
