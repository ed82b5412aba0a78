----------------------------- MODULE Reconciler -----------------------------
(***************************************************************************)
(* The collect / reconcile / execute pipeline (internal/reconcile/         *)
(* collect.go, internal/execute/execute.go and the two callers in main.go) *)
(* run by any number of processes over one repository, while people and    *)
(* agents go on working in it.                                             *)
(*                                                                         *)
(* Every herdr call and every git reading of a checkout is a step.  What a *)
(* Collector read is kept in a State (Reconcile), so a plan is made from   *)
(* facts of different ages and carried out on a world that has moved on.   *)
(***************************************************************************)
EXTENDS Reconcile

CONSTANTS
  Trees,        \* the checkouts, in git's order
  Linked,       \* those that are linked worktrees; the rest is the main one
  BranchOf,     \* the branch each of them is on
  InBase,       \* those whose branch base took in a merge, upstream deleted
  NoTree,       \* no checkout
  Spaces,       \* the workspace ids herdr will hand out, in its order
  PanesOf,      \* the panes of each workspace, in herdr's order
  Runner,       \* the invocations of the binary
  Serialised,   \* the repository lock excludes, as it does without a fault
  HerdrFails,   \* a herdr call may fail, or its answer be lost
  Scenes        \* what is run, on what, and how much may happen meanwhile

Tree == Range(Trees)
WS   == Range(Spaces)
Pane == UNION {Range(PanesOf[w]) : w \in WS}

\* What gh says of a branch, nothing when it was not asked.
PRStates == {"", "OPEN", "MERGED", "CLOSED"}

ASSUME WorldAssumption ==
  /\ Linked \subseteq Tree
  /\ InBase \subseteq Linked
  /\ NoTree \notin Tree
  /\ NoWS \notin WS
  /\ Trees \in Seq(Tree) /\ Spaces \in Seq(WS)
  /\ \A w \in WS : PanesOf[w] \in Seq(Range(PanesOf[w]))
  /\ \A v, w \in WS : v # w => Range(PanesOf[v]) \cap Range(PanesOf[w]) = {}
ASSUME SceneAssumption ==
  \A s \in Scenes : s.moves \in Nat /\ \A w \in s.worlds :
    /\ w.onDisk \subseteq Tree /\ w.dirty \subseteq w.onDisk /\ w.ahead \subseteq Tree
    /\ w.pr \in [Tree -> PRStates]
    /\ w.held \in [WS -> Tree \cup {NoTree}]
    /\ w.agent \in [Pane -> {"none", "idle", "working"}]
    /\ \A v \in WS : w.held[v] = NoTree => \A p \in Range(PanesOf[v]) : w.agent[p] = "none"
    /\ w.report \in [Pane -> {"none", "progress", "done"}]
\* git lists a checkout once, and herdr opens a workspace with a shell in it.
ASSUME ListingAssumption == IsInjective(Trees) /\ \A w \in WS : PanesOf[w] # <<>>
ASSUME PolicyAssumption == Serialised \in BOOLEAN /\ HerdrFails \in BOOLEAN

VARIABLES
  scene,        \* the scene of this behavior
  onDisk,       \* the checkouts that exist
  dirty,        \* those with uncommitted work
  ahead,        \* branches with commits that are nowhere else
  branches,     \* the local branches that exist
  pr,           \* what gh says of each branch
  held,         \* the checkout each open workspace is on; NoTree when not open
  used,         \* the workspace ids herdr has handed out
  listed,       \* the open workspaces worktree.list knows of
  agent,        \* what each pane hosts
  report,       \* the last report on each pane
  pc,           \* where each runner stands
  run,          \* what each runner remembers
  moves,        \* moves of people and agents so far
  since,        \* history: what has been true ever since a runner's guards began
  lost,         \* history: those of them the runner destroyed all the same
  doubled       \* history: panes that were given a second agent mid-start

gitVars   == <<onDisk, dirty, ahead, branches, pr>>
herdrVars == <<held, used, listed, agent>>
world     == <<gitVars, herdrVars, report, moves>>
vars      == <<scene, world, pc, run, since, lost, doubled>>

\* Each runner is a sync or one of its kin, a prune-apply, with --release-agents or
\* not, or no run at all.
Kind          == scene.kind
ReleaseAgents == scene.release
CallerDir     == scene.caller     \* the checkout prune-apply was called from, or NoTree
Lags          == scene.lags       \* worktree.list may not yet know a workspace just opened
MaxPasses     == scene.passes     \* reconcilePasses: 3 in the program
MaxTries      == scene.tries      \* attempts at a busy pane that fit in AgentStartTimeout
MaxMoves      == scene.moves      \* how often people and agents act

Agents == {"none", "starting", "idle", "working"}

\* An agent herdr lists: one still starting is not there yet.
Hosted(p) == agent[p] \in {"idle", "working"}

OnTree(t) == {w \in WS : held[w] = t}
PanesOn(t) == UNION {Range(PanesOf[w]) : w \in OnTree(t)}

EmptyState == [worktrees |-> <<>>, workspaces |-> <<>>, agents |-> <<>>,
               reports |-> <<>>, herdrAbsent |-> FALSE, release |-> FALSE]

Fresh == [snap |-> EmptyState, i |-> 1, plan |-> <<>>, seen |-> <<>>,
          target |-> NoWS, phase |-> 1, trail |-> FALSE, opened |-> FALSE,
          tries |-> 0, failed |-> FALSE, unasked |-> FALSE, gaveUp |-> {}]

Init ==
  /\ scene \in Scenes
  /\ \E s \in scene.worlds :
       /\ onDisk = s.onDisk
       /\ dirty = s.dirty
       /\ ahead = s.ahead
       /\ pr = s.pr
       /\ held = s.held
       /\ agent = s.agent
       /\ report = s.report
  /\ branches = Linked
  /\ used = {w \in WS : held[w] # NoTree}
  /\ listed = used
  /\ pc = [r \in Runner |-> IF Kind[r] = "none" THEN "done" ELSE "idle"]
  /\ run = [r \in Runner |-> Fresh]
  /\ moves = 0
  /\ since = [r \in Runner |-> {}]
  /\ lost = {}
  /\ doubled = {}

Goto(r, label) == pc' = [pc EXCEPT ![r] = label]

\* History: what is worth keeping, as it stands.
Facts ==
  {<<"dirty", t>> : t \in dirty} \cup {<<"checkout", t>> : t \in onDisk}
    \cup {<<"agent", p>> : p \in {q \in Pane : Hosted(q)}}
    \cup {<<"busy", p>> : p \in {q \in Pane : agent[q] = "working"}}
    \cup {<<"unfinished", p>> : p \in {q \in Pane : report[q] # "done"}}

\* Where the guards of an action, or of one more attempt at it, begin.
GuardsBegin == {"staffAgents", "pruneDirty", "closeStat"}

\* Every step is watched, and stays in its scene.
Watch ==
  /\ since' = [r \in Runner |->
       IF pc'[r] \in GuardsBegin /\ pc[r] # pc'[r] THEN Facts'
       ELSE IF pc'[r] \in {"idle", "next", "done", "trees"} THEN {} ELSE since[r] \cap Facts']
  /\ UNCHANGED scene

\* The action a runner is carrying out.
Now(r) == Head(run[r].plan)

\* This action is answered: on to the next one.
Answered(r, isFailure) ==
  /\ run' = [run EXCEPT ![r].plan = Tail(@), ![r].failed = @ \/ isFailure,
                        ![r].seen = <<>>, ![r].target = NoWS]
  /\ Goto(r, "next")

Reading == UNCHANGED <<world, lost, doubled>> /\ Watch

\* Mutant: a snapshot that fails is begun again.
CollectRetries(r) ==
  /\ HerdrFails
  /\ pc[r] \in {"trees", "spaces", "agents", "panes"}
  /\ run' = [run EXCEPT ![r].snap = EmptyState]
  /\ Goto(r, "trees")
  /\ Reading

\* A herdr call that fails is a herdr call that fails: Collect returns its error.
CollectFails(r) ==
  /\ HerdrFails
  /\ pc[r] \in {"trees", "spaces", "agents", "panes"}
  /\ run' = [run EXCEPT ![r].failed = TRUE, ![r].snap = EmptyState]
  /\ Goto(r, "done")
  /\ Reading

-----------------------------------------------------------------------------
(* Collect *)

Begin(r) ==
  /\ pc[r] = "idle"
  /\ Serialised => \A q \in Runner : pc[q] \in {"idle", "done"}
  /\ Goto(r, "trees")
  /\ UNCHANGED run
  /\ Reading

Worktree(t, ws) ==
  [path |-> t, branch |-> IF t \in Linked THEN BranchOf[t] ELSE NoBranch,
   linked |-> t \in Linked, bare |-> FALSE, workspace |-> ws, dirty |-> FALSE,
   merged |-> FALSE, gone |-> FALSE, transcript |-> FALSE, pr |-> ""]

\* herdr's open_workspace_id: of two workspaces on a checkout it names either.
OpenOn(t) == IF OnTree(t) \cap listed = {} THEN {NoWS} ELSE OnTree(t) \cap listed

WorktreeList(r) ==
  /\ pc[r] = "trees"
  /\ LET found == Picked(Trees, {i \in DOMAIN Trees : Trees[i] \in onDisk})
     IN  \E open \in [onDisk -> WS \cup {NoWS}] :
           /\ \A t \in onDisk : open[t] \in OpenOn(t)
           /\ run' = [run EXCEPT ![r].snap.worktrees =
                        [i \in DOMAIN found |-> Worktree(found[i], open[found[i]])]]
  /\ Goto(r, "spaces")
  /\ Reading

\* The panes are asked for one workspace at a time, later.
WorkspaceList(r) ==
  /\ pc[r] = "spaces"
  /\ LET found == Picked(Spaces, {i \in DOMAIN Spaces : held[Spaces[i]] # NoTree})
     IN  run' = [run EXCEPT ![r].snap.workspaces =
                   [i \in DOMAIN found |->
                      [id |-> found[i], path |-> held[found[i]],
                       linked |-> held[found[i]] \in Linked, panes |-> <<>>]]]
  /\ Goto(r, "agents")
  /\ Reading

ListedAgents == [p \in {q \in Pane : Hosted(q)} |-> agent[p]]

AgentList(r) ==
  /\ pc[r] = "agents"
  /\ run' = [run EXCEPT ![r].snap.agents = ListedAgents, ![r].i = 1]
  /\ Goto(r, "facts")
  /\ Reading

\* resolve: the git and gh facts of one linked checkout.  A checkout that cannot
\* be read is dirty.  Only the prune commands ask gh.
Resolve(r) ==
  LET i == run[r].i
      w == run[r].snap.worktrees[i]
      t == w.path
  IN  /\ pc[r] = "facts"
      /\ i \in DOMAIN run[r].snap.worktrees
      /\ run' = [run EXCEPT ![r].i = i + 1, ![r].snap.worktrees[i] =
           IF ~w.linked THEN w ELSE
           [w EXCEPT !.dirty = t \in dirty \/ t \notin onDisk,
                     !.merged = t \in InBase /\ t \notin ahead,
                     !.gone = t \in InBase,
                     !.pr = IF Kind[r] = "apply" THEN pr[t] ELSE ""]]
      /\ UNCHANGED pc
      /\ Reading

ResolvedAll(r) ==
  /\ pc[r] = "facts"
  /\ run[r].i > Len(run[r].snap.worktrees)
  /\ run' = [run EXCEPT ![r].i = 1]
  /\ Goto(r, "panes")
  /\ Reading

\* A workspace that was closed since it was listed is left out of the State.
PaneList(r) ==
  LET i == run[r].i
      spaces == run[r].snap.workspaces
      w == spaces[i].id
  IN  /\ pc[r] = "panes"
      /\ i \in DOMAIN spaces
      /\ run' = IF held[w] = NoTree
                THEN [run EXCEPT ![r].snap.workspaces = Picked(spaces, DOMAIN spaces \ {i})]
                ELSE [run EXCEPT ![r].snap.workspaces[i].panes = PanesOf[w], ![r].i = i + 1]
      /\ UNCHANGED pc
      /\ Reading

\* readGhostReports asks the panes of ghosts only, and only for prune-apply.
GhostPanes(r) ==
  IF Kind[r] # "apply" THEN {}
  ELSE UNION {Range(ws.panes) : ws \in
                {v \in Range(run[r].snap.workspaces) : ~Live(run[r].snap, v.path)}}

ListedPanes(r) ==
  /\ pc[r] = "panes"
  /\ run[r].i > Len(run[r].snap.workspaces)
  /\ run' = [run EXCEPT ![r].i = 1]
  /\ Goto(r, "reports")
  /\ Reading

\* What a pane's tokens decode to, with gh's word on the pull request they name.
\* PR 7 is the one opened from the checkout's own branch.
ReadReport(p) ==
  LET w == CHOOSE v \in WS : p \in Range(PanesOf[v])
      t == held[w]
      none == [found |-> FALSE, status |-> "", pr |-> 0, prState |-> "",
               prHead |-> NoBranch, unreadable |-> FALSE]
  IN  CASE report[p] = "none" -> none
        [] report[p] = "progress" -> [none EXCEPT !.found = TRUE, !.status = "progress"]
        [] report[p] = "done" /\ t # NoTree ->
             [none EXCEPT !.found = TRUE, !.status = "done", !.pr = 7,
                          !.prState = pr[t], !.prHead = BranchOf[t]]
        [] OTHER -> [none EXCEPT !.unreadable = TRUE]

ReadGhostReport(r) ==
  /\ pc[r] = "reports"
  /\ \E p \in GhostPanes(r) \ DOMAIN run[r].snap.reports :
       \E answer \in {ReadReport(p)} \cup
           (IF HerdrFails THEN {[ReadReport(p) EXCEPT !.found = FALSE, !.unreadable = TRUE]} ELSE {}) :
         run' = [run EXCEPT ![r].snap.reports =
                   [q \in DOMAIN @ \cup {p} |-> IF q = p THEN answer ELSE @[q]]]
  /\ UNCHANGED pc
  /\ Reading

\* What each caller keeps of the plan: the passes adopt and staff, the trailing
\* pass of reconcileOpen staffs only, prune-apply removes and closes.
Kinds(r) ==
  CASE Kind[r] = "apply" -> {"prune", "keep", "ghost", "close-ghost"}
    [] OTHER             -> IF run[r].trail THEN {"staff"} ELSE {"adopt", "staff"}

PlanIt(r) ==
  /\ pc[r] = "reports"
  /\ GhostPanes(r) \subseteq DOMAIN run[r].snap.reports
  /\ Goto(r, "next")
  /\ LET state == [run[r].snap EXCEPT !.release = ReleaseAgents /\ Kind[r] = "apply"]
     IN  \E all \in {ReconcileState(state)} :
           run' = [run EXCEPT ![r].plan = Only(all, Kinds(r)),
                              ![r].snap = EmptyState, ![r].tries = 0]
  /\ Reading

-----------------------------------------------------------------------------
(* Executor.Run *)

FirstGuard(kind) ==
  CASE kind = "adopt" -> "open"
    [] kind = "staff" -> "staffAgents"
    [] kind = "prune" -> "pruneDirty"
    [] kind = "close-ghost" -> "closeStat"

\* A keep and a ghost only explain.
TakeAction(r) ==
  /\ pc[r] = "next"
  /\ run[r].plan # <<>>
  /\ IF Now(r).kind \in {"keep", "ghost"}
     THEN run' = [run EXCEPT ![r].plan = Tail(@)] /\ UNCHANGED pc
     ELSE Goto(r, FirstGuard(Now(r).kind)) /\ UNCHANGED run
  /\ Reading

\* herdr hands w out no later than v.
Before(w, v) == \E i, j \in DOMAIN Spaces : Spaces[i] = w /\ Spaces[j] = v /\ i <= j

\* adopt: herdr opens a workspace with a bare shell.  It opens a second one on a
\* checkout that has one.
WorktreeOpen(r) ==
  /\ pc[r] = "open"
  /\ \/ /\ WS \ used # {}
        /\ Now(r).path \in onDisk
        /\ \E w \in WS \ used :
             /\ \A v \in WS \ used : Before(w, v)
             /\ held' = [held EXCEPT ![w] = Now(r).path]
             /\ used' = used \cup {w}
             /\ listed' = IF Lags THEN listed ELSE listed \cup {w}
        /\ run' = [run EXCEPT ![r].plan = Tail(@), ![r].opened = TRUE]
        /\ Goto(r, "next")
        /\ UNCHANGED agent
     \/ /\ HerdrFails \/ Now(r).path \notin onDisk \/ used = WS
        /\ Answered(r, TRUE)
        /\ UNCHANGED herdrVars
  /\ UNCHANGED <<gitVars, report, moves, lost, doubled>>
  /\ Watch

\* A workspace that cannot be asked about is left alone.
Unasked(r) ==
  /\ run' = [run EXCEPT ![r].plan = Tail(@), ![r].seen = <<>>, ![r].target = NoWS,
                        ![r].unasked = TRUE]
  /\ Goto(r, "next")

\* The first half of workspaceOccupant, for staffing, pruning and closing alike.
ReadAgents(r, label, nextLabel) ==
  /\ pc[r] = label
  /\ \/ /\ run' = [run EXCEPT ![r].seen = ListedAgents]
        /\ Goto(r, nextLabel)
     \/ HerdrFails /\ Unasked(r)
  /\ Reading

\* What PaneList finds in a workspace, given the agents already read.
SeenIn(r, w) == {run[r].seen[p] : p \in Range(PanesOf[w]) \cap DOMAIN run[r].seen}

\* workspaceStaffed.
StaffPanes(r) ==
  LET w == Now(r).workspace
  IN  /\ pc[r] = "staffPanes"
      /\ \/ HerdrFails /\ Unasked(r)
         \/ IF held[w] = NoTree \/ SeenIn(r, w) # {}
            THEN Answered(r, FALSE)
            ELSE Goto(r, "staffStart") /\ UNCHANGED run
      /\ Reading

\* herdr takes the request: from here on the pane is mid-start.  A pane with an
\* agent, or one mid-start, it may take all the same, on top of what is there.
AgentStart(r) ==
  LET p == Now(r).pane
  IN  /\ pc[r] = "staffStart"
      /\ held[Now(r).workspace] # NoTree
      /\ agent' = [agent EXCEPT ![p] = "starting"]
      /\ lost' = lost \cup (since[r] \cap {<<"agent", p>>})
      /\ doubled' = IF agent[p] = "starting" THEN doubled \cup {p} ELSE doubled
      /\ Goto(r, "staffWait")
      /\ UNCHANGED <<gitVars, held, used, listed, report, moves, run>>
      /\ Watch

\* The pane is not an available shell yet: wait, and check everything again,
\* until the budget all the actions of this run share is spent.
AgentPaneBusy(r) ==
  /\ pc[r] = "staffStart"
  /\ held[Now(r).workspace] # NoTree
  /\ \/ /\ run[r].tries < MaxTries
        /\ run' = [run EXCEPT ![r].tries = @ + 1, ![r].seen = <<>>]
        /\ Goto(r, "staffAgents")
     \/ Answered(r, TRUE)
  /\ Reading

\* Any other refusal, such as a workspace that is gone.
AgentStartFails(r) ==
  /\ pc[r] = "staffStart"
  /\ HerdrFails \/ held[Now(r).workspace] = NoTree
  /\ Answered(r, TRUE)
  /\ Reading

\* Mutant: the launch is not waited for.
AgentNotAwaited(r) ==
  /\ pc[r] = "staffWait"
  /\ Answered(r, FALSE)
  /\ Reading

\* herdr answers once its launch is over, if the answer arrives.
AgentStarted(r) ==
  /\ pc[r] = "staffWait"
  /\ \/ agent[Now(r).pane] # "starting" /\ Answered(r, agent[Now(r).pane] = "none")
     \/ /\ HerdrFails
        /\ run' = [run EXCEPT ![r].plan = Tail(@), ![r].seen = <<>>, ![r].target = NoWS,
                              ![r].failed = TRUE, ![r].gaveUp = @ \cup {Now(r).pane}]
        /\ Goto(r, "next")
  /\ Reading

-----------------------------------------------------------------------------
(* prune: every guard again, then the removal *)

\* Mutant: the plan's word that the checkout is clean is taken.
PruneUndirtied(r) ==
  /\ pc[r] = "pruneDirty"
  /\ run' = [run EXCEPT ![r].target = Now(r).workspace]
  /\ Goto(r, IF Now(r).workspace = NoWS THEN "pruneHolder" ELSE "pruneAgents")
  /\ Reading

PruneDirty(r) ==
  LET t == Now(r).path
  IN  /\ pc[r] = "pruneDirty"
      /\ IF t \in dirty \/ t \notin onDisk
         THEN Answered(r, FALSE)
         ELSE /\ run' = [run EXCEPT ![r].target = Now(r).workspace]
              /\ Goto(r, IF Now(r).workspace = NoWS THEN "pruneHolder" ELSE "pruneAgents")
      /\ Reading

\* workspaceHolding: the plan named no workspace, so herdr is asked for the first
\* one on this path; with none there are no panes to look into.
PruneHolder(r) ==
  LET found == Picked(Spaces, {i \in DOMAIN Spaces : held[Spaces[i]] = Now(r).path})
  IN  /\ pc[r] = "pruneHolder"
      /\ \/ HerdrFails /\ Answered(r, FALSE)
         \/ /\ run' = [run EXCEPT ![r].target = IF found = <<>> THEN NoWS ELSE Head(found)]
            /\ Goto(r, IF found = <<>> THEN "pruneCaller" ELSE "pruneAgents")
      /\ Reading

PrunePanes(r) ==
  LET seen == SeenIn(r, run[r].target)
  IN  /\ pc[r] = "prunePanes"
      /\ \/ HerdrFails /\ Answered(r, FALSE)
         \/ IF \/ held[run[r].target] = NoTree
               \/ seen # {} /\ ~Now(r).releases
               \/ \E status \in seen : ~Finished(status)
            THEN Answered(r, FALSE)
            ELSE Goto(r, "pruneCaller") /\ UNCHANGED run
      /\ Reading

\* Not the ground the caller stands on.
PruneCaller(r) ==
  /\ pc[r] = "pruneCaller"
  /\ IF CallerDir = Now(r).path
     THEN Answered(r, FALSE)
     ELSE Goto(r, "pruneRemove") /\ UNCHANGED run
  /\ Reading

\* What a removal of checkout t, closing the workspaces in spaces, takes from what
\* there has been since runner r's guards began.  Only an action that releases agents
\* may take one that has finished.  A busy agent in another workspace on t than the
\* one closed is told apart.
Destroyed(r, t, spaces) ==
  LET panes == UNION {Range(PanesOf[w]) : w \in spaces}
      taken == {<<"dirty", t>>}
                 \cup {<<"busy", p>> : p \in IF spaces = {} THEN PanesOn(t) ELSE panes}
                 \cup (IF Now(r).releases THEN {} ELSE {<<"agent", p>> : p \in panes})
      beside == IF spaces = {} THEN {} ELSE {p \in PanesOn(t) \ panes : <<"busy", p>> \in since[r]}
  IN  (since[r] \cap taken) \cup {<<"beside", p>> : p \in beside}

CloseSpaces(spaces) ==
  /\ held' = [w \in WS |-> IF w \in spaces THEN NoTree ELSE held[w]]
  /\ listed' = listed \ spaces
  /\ agent' = [p \in Pane |->
       IF \E w \in spaces : p \in Range(PanesOf[w]) THEN "none" ELSE agent[p]]
  /\ UNCHANGED used

\* removeCheckout: through herdr, which tears the workspace down with it, or with
\* git where the guards found none; by force either way.  A lost answer leaves
\* the removal done and the action failed.
RemoveCheckout(r) ==
  LET t == Now(r).path
      spaces == {run[r].target} \ {NoWS}
  IN  /\ pc[r] = "pruneRemove"
      /\ t \in onDisk
      /\ \A w \in spaces : held[w] = t
      /\ onDisk' = onDisk \ {t}
      /\ dirty' = dirty \ {t}
      /\ lost' = lost \cup Destroyed(r, t, spaces)
      /\ CloseSpaces(spaces)
      /\ \/ Goto(r, "pruneBranch") /\ UNCHANGED run
         \/ HerdrFails /\ Answered(r, TRUE)
      /\ UNCHANGED <<ahead, branches, pr, report, moves, doubled>>
      /\ Watch

RemoveFails(r) ==
  LET t == Now(r).path
      spaces == {run[r].target} \ {NoWS}
  IN  /\ pc[r] = "pruneRemove"
      /\ HerdrFails \/ t \notin onDisk \/ \E w \in spaces : held[w] # t
      /\ Answered(r, TRUE)
      /\ Reading

\* Mutant: git branch -D.
ForceBranch(r) ==
  /\ pc[r] = "pruneBranch"
  /\ branches' = branches \ {Now(r).path}
  /\ Answered(r, FALSE)
  /\ UNCHANGED <<onDisk, dirty, ahead, pr, herdrVars, report, moves, lost, doubled>>
  /\ Watch

\* git branch -d: git refuses a branch that is not merged, or is checked out.
DropBranch(r) ==
  /\ pc[r] = "pruneBranch"
  /\ branches' = IF Now(r).branch # NoBranch /\ Now(r).path \notin ahead \cup onDisk
                 THEN branches \ {Now(r).path} ELSE branches
  /\ Answered(r, FALSE)
  /\ UNCHANGED <<onDisk, dirty, ahead, pr, herdrVars, report, moves, lost, doubled>>
  /\ Watch

-----------------------------------------------------------------------------
(* closeGhost: everything the plan rested on again, then the close *)

CloseStat(r) ==
  /\ pc[r] = "closeStat"
  /\ IF Now(r).path \in onDisk
     THEN Answered(r, FALSE)
     ELSE Goto(r, "closeReport") /\ UNCHANGED run
  /\ Reading

CloseReport(r) ==
  LET answer == ReadReport(Now(r).pane)
  IN  /\ pc[r] = "closeReport"
      /\ \/ HerdrFails /\ Answered(r, FALSE)
         \/ IF ~answer.found \/ answer.status # "done" \/ answer.pr # Now(r).pr
            THEN Answered(r, FALSE)
            ELSE Goto(r, "closeAgents") /\ UNCHANGED run
      /\ Reading

\* Only the worker's own agent may be there, finished, and only to be released.
ClosePanes(r) ==
  LET w == Now(r).workspace
      hosting == Range(PanesOf[w]) \cap DOMAIN run[r].seen
  IN  /\ pc[r] = "closePanes"
      /\ \/ HerdrFails /\ Answered(r, FALSE)
         \/ IF \/ held[w] = NoTree
               \/ \E p \in hosting : \/ p # Now(r).pane
                                     \/ ~Finished(run[r].seen[p])
                                     \/ ~Now(r).releases
            THEN Answered(r, FALSE)
            ELSE Goto(r, "closeWorkspace") /\ UNCHANGED run
      /\ Reading

CloseWorkspace(r) ==
  LET w == Now(r).workspace
  IN  /\ pc[r] = "closeWorkspace"
      /\ held[w] # NoTree
      /\ lost' = lost \cup Destroyed(r, held[w], {w})
           \cup (since[r] \cap {<<"checkout", held[w]>>, <<"unfinished", Now(r).pane>>})
      /\ CloseSpaces({w})
      /\ \E failed \in IF HerdrFails THEN BOOLEAN ELSE {FALSE} : Answered(r, failed)
      /\ UNCHANGED <<gitVars, report, moves, doubled>>
      /\ Watch

CloseFails(r) ==
  /\ pc[r] = "closeWorkspace"
  /\ HerdrFails \/ held[Now(r).workspace] = NoTree
  /\ Answered(r, TRUE)
  /\ Reading

-----------------------------------------------------------------------------
(* Repeat and the trailing pass *)

Again(r) == [run[r] EXCEPT !.snap = EmptyState, !.i = 1]

\* Mutant: what a pass opened waits for the next trigger.
PassOverUntrailed(r) ==
  /\ pc[r] = "next"
  /\ run[r].plan = <<>>
  /\ Goto(r, "done")
  /\ UNCHANGED run
  /\ Reading

\* A pass is over.  A failed one ends the command; a mark that arrived during it
\* runs another while the cap allows; and when a workspace was opened, one more
\* pass staffs what is open by then.
PassOver(r) ==
  /\ pc[r] = "next"
  /\ run[r].plan = <<>>
  /\ \/ /\ Kind[r] = "apply" \/ run[r].failed \/ run[r].trail \/ ~run[r].opened
        /\ Goto(r, "done")
        /\ UNCHANGED run
     \/ /\ Kind[r] = "sync" /\ ~run[r].failed /\ ~run[r].trail
        /\ run[r].phase < MaxPasses
        /\ run' = [run EXCEPT ![r] = [Again(r) EXCEPT !.phase = @ + 1]]
        /\ Goto(r, "trees")
     \/ /\ Kind[r] = "sync" /\ ~run[r].failed /\ ~run[r].trail /\ run[r].opened
        /\ run' = [run EXCEPT ![r] = [Again(r) EXCEPT !.trail = TRUE]]
        /\ Goto(r, "trees")
  /\ Reading

-----------------------------------------------------------------------------
(* People, agents and herdr *)

Move == moves < MaxMoves /\ moves' = moves + 1
Elsewhere == UNCHANGED <<pc, run, lost, doubled>> /\ Watch

Edit(t) ==
  /\ Move /\ t \in onDisk \ dirty
  /\ dirty' = dirty \cup {t}
  /\ UNCHANGED <<onDisk, ahead, branches, pr, herdrVars, report>> /\ Elsewhere

Commit(t) ==
  /\ Move /\ t \in dirty
  /\ dirty' = dirty \ {t}
  /\ ahead' = ahead \cup {t}
  /\ UNCHANGED <<onDisk, branches, pr, herdrVars, report>> /\ Elsewhere

PRMerges(t) ==
  /\ Move /\ pr[t] = "OPEN"
  /\ pr' = [pr EXCEPT ![t] = "MERGED"]
  /\ UNCHANGED <<onDisk, dirty, ahead, branches, herdrVars, report>> /\ Elsewhere

\* Someone deletes a checkout, or creates one at the path again, branch and all.
Checkout(t) ==
  /\ Move /\ t \in Linked
  /\ \/ t \in onDisk /\ onDisk' = onDisk \ {t} /\ UNCHANGED branches
     \/ t \notin onDisk /\ onDisk' = onDisk \cup {t} /\ branches' = branches \cup {t}
  /\ dirty' = dirty \ {t}
  /\ UNCHANGED <<ahead, pr, herdrVars, report>> /\ Elsewhere

\* An agent is started by hand, finishes, picks work up again, or is closed.
AgentMoves(p) ==
  /\ Move
  /\ \E w \in WS : p \in Range(PanesOf[w]) /\ held[w] # NoTree
  /\ \E next \in {"none", "idle", "working"} :
       /\ agent[p] # "starting" /\ next # agent[p]
       /\ ~(agent[p] = "none" /\ next = "idle")
       /\ agent' = [agent EXCEPT ![p] = next]
  /\ UNCHANGED <<gitVars, held, used, listed, report>> /\ Elsewhere

WorkerReports(p) ==
  /\ Move /\ Hosted(p)
  /\ \E said \in {"progress", "done"} \ {report[p]} : report' = [report EXCEPT ![p] = said]
  /\ UNCHANGED <<gitVars, herdrVars>> /\ Elsewhere

UserOpens(t) ==
  /\ Move /\ t \in onDisk /\ OnTree(t) = {}
  /\ \E w \in WS \ used :
       /\ held' = [held EXCEPT ![w] = t]
       /\ used' = used \cup {w}
       /\ listed' = IF Lags THEN listed ELSE listed \cup {w}
  /\ UNCHANGED <<gitVars, agent, report>> /\ Elsewhere

UserCloses(w) ==
  /\ Move /\ held[w] # NoTree
  /\ CloseSpaces({w})
  /\ UNCHANGED <<gitVars, report>> /\ Elsewhere

\* A launch that was under way ends with an agent in the pane.
Launched(p) ==
  /\ agent[p] = "starting"
  /\ agent' = [agent EXCEPT ![p] = "working"]
  /\ UNCHANGED <<gitVars, held, used, listed, report, moves>> /\ Elsewhere

ListCatchesUp ==
  /\ \E w \in WS \ listed : held[w] # NoTree /\ listed' = listed \cup {w}
  /\ UNCHANGED <<gitVars, held, used, agent, report, moves>> /\ Elsewhere

Environment ==
  \/ \E t \in Tree : Edit(t) \/ Commit(t) \/ PRMerges(t) \/ Checkout(t) \/ UserOpens(t)
  \/ \E p \in Pane : AgentMoves(p) \/ WorkerReports(p) \/ Launched(p)
  \/ \E w \in WS : UserCloses(w)
  \/ ListCatchesUp

-----------------------------------------------------------------------------
Collect(r) ==
  \/ Begin(r) \/ WorktreeList(r) \/ WorkspaceList(r) \/ AgentList(r) \/ Resolve(r)
  \/ ResolvedAll(r) \/ PaneList(r) \/ ListedPanes(r) \/ ReadGhostReport(r)
  \/ CollectFails(r) \/ PlanIt(r)

Execute(r) ==
  \/ TakeAction(r) \/ PassOver(r) \/ WorktreeOpen(r)
  \/ ReadAgents(r, "staffAgents", "staffPanes") \/ StaffPanes(r)
  \/ AgentStart(r) \/ AgentPaneBusy(r) \/ AgentStartFails(r) \/ AgentStarted(r)
  \/ PruneDirty(r) \/ PruneHolder(r) \/ ReadAgents(r, "pruneAgents", "prunePanes")
  \/ PrunePanes(r) \/ PruneCaller(r) \/ RemoveCheckout(r) \/ RemoveFails(r) \/ DropBranch(r)
  \/ CloseStat(r) \/ CloseReport(r) \/ ReadAgents(r, "closeAgents", "closePanes")
  \/ ClosePanes(r) \/ CloseWorkspace(r) \/ CloseFails(r)

Next == (\E r \in Runner : Collect(r) \/ Execute(r)) \/ Environment

Spec == Init /\ [][Next]_vars

\* A runner is scheduled, herdr ends its launches; people owe nothing.
Fairness ==
  /\ \A r \in Runner : WF_vars(Collect(r) \/ Execute(r))
  /\ \A p \in Pane : WF_vars(Launched(p))

FairSpec == Spec /\ Fairness

-----------------------------------------------------------------------------
(* Properties *)

TypeOK ==
  /\ onDisk \subseteq Tree /\ dirty \subseteq onDisk
  /\ ahead \subseteq Tree /\ branches \subseteq Linked
  /\ held \in [WS -> Tree \cup {NoTree}]
  /\ \A w \in WS : held[w] # NoTree => w \in used
  /\ listed \subseteq used /\ used \subseteq WS
  /\ pr \in [Tree -> PRStates]
  /\ agent \in [Pane -> Agents]
  /\ \A w \in WS : held[w] = NoTree => \A p \in Range(PanesOf[w]) : agent[p] = "none"
  /\ report \in [Pane -> {"none", "progress", "done"}]
  /\ moves \in 0..MaxMoves

\* Guards read again right before the act are worth something: uncommitted work, a
\* busy agent, an agent nobody released, a checkout that came back or a report
\* that is not done - whatever was there from before the guards began until the
\* act is never destroyed by it, however old the plan (pruneBlocked, closeGhost,
\* staff).  Of two workspaces on one checkout only the one closed was looked into
\* (workspacesByPath).
NothingLost == \A fact \in lost : fact[1] = "beside"

\* Commits that exist nowhere else keep their branch, whatever was removed and
\* whenever they were made (removeCheckout forces, dropBranch never does).
CommitsSurvive == ahead \cap Linked \subseteq branches

\* Left alone, a sync that reports success and could ask about every workspace
\* leaves an agent in every linked
\* checkout, those it had to open included: the trailing pass of reconcileOpen.
SyncConverges ==
  \A r \in Runner :
    (pc[r] = "done" /\ Kind[r] = "sync" /\ ~run[r].failed /\ ~run[r].unasked
       /\ moves = 0) =>
      \A t \in onDisk \cap Linked : \E p \in PanesOn(t) : agent[p] # "none"

\* Left alone, no sync opens a second workspace on a checkout, which adopting it from a
\* stale listing would; and no pane is given a second agent while the first one's launch
\* is under way, unless the run that asked for the first was told nothing of it (adopt,
\* staff).
NothingTwice ==
  /\ moves = 0 => \A t \in Tree : Cardinality(OnTree(t)) <= 1
  /\ doubled \subseteq UNION {run[r].gaveUp : r \in Runner}

\* Every invocation ends: the wait for busy panes, the passes and the trailing
\* pass are all bounded.
RunnerEnds == \A r \in Runner : pc[r] = "trees" ~> pc[r] = "done"

\* When no sync opens a second workspace on a checkout: the lock excludes, a sync finds
\* what has been opened in the listing, and there is no second one to begin with.
Orderly ==
  /\ Serialised
  /\ \A s \in Scenes :
       /\ s.lags => \A r \in Runner : s.kind[r] \in {"apply", "none"}
       /\ \A w \in s.worlds : \A u, v \in WS :
            w.held[u] = w.held[v] /\ w.held[u] # NoTree => u = v

-----------------------------------------------------------------------------
(* What the repository says and the code does not do *)

\* The comment on guard b: never delete the ground a busy agent stands on.
GroundKept ==
  \A fact \in lost : fact[1] \notin {"busy", "beside"}
=============================================================================
