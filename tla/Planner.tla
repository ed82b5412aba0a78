------------------------------ MODULE Planner ------------------------------
(***************************************************************************)
(* What the pure planner promises about every state of a small repository, *)
(* and how its plan moves when one fact moves.  The variable is the State  *)
(* a Collector would read at that instant; a step is one fact changing, a  *)
(* flag being given, or the plan being carried out.                        *)
(***************************************************************************)
EXTENDS Reconcile

CONSTANTS
  Initial,       \* the States a behavior may start from
  MaxMoves       \* how many facts may move in one behavior

\* What a Collector hands over: git lists a checkout once and herdr a workspace, and
\* the workspace a checkout is listed with is a workspace on that checkout.
IsState(s) ==
  /\ DOMAIN s = {"worktrees", "workspaces", "agents", "reports", "herdrAbsent", "release"}
  /\ s.worktrees \in Seq(Range(s.worktrees)) /\ s.workspaces \in Seq(Range(s.workspaces))
  /\ \A i, j \in DOMAIN s.worktrees : s.worktrees[i].path = s.worktrees[j].path => i = j
  /\ \A i, j \in DOMAIN s.workspaces : s.workspaces[i].id = s.workspaces[j].id => i = j
  /\ \A i \in DOMAIN s.worktrees : {"path", "workspace", "dirty", "merged", "pr"} \subseteq DOMAIN s.worktrees[i]
  /\ \A ws \in Range(s.workspaces) :
       /\ ws.id # NoWS /\ ws.panes \in Seq(Range(ws.panes))
       /\ \A w \in Range(s.worktrees) : w.workspace = ws.id => w.path = ws.path
  /\ \A p \in DOMAIN s.reports : {"found", "status", "unreadable"} \subseteq DOMAIN s.reports[p]

ASSUME InitialAssumption == \A s \in Initial : IsState(s)

VARIABLES
  state,         \* the facts as they stand
  moves          \* how many have moved

stateVars == <<state, moves>>

StateInit == state \in Initial /\ moves = 0

\* What a plan takes away, as against what it opens or explains.
Removals(s) ==
  {<<a.kind, a.path, a.workspace>> : a \in
     {b \in Range(ReconcileState(s)) : b.kind \in {"prune", "close-ghost"}}}

Panes(s) == UNION {Range(ws.panes) : ws \in Range(s.workspaces)}

-----------------------------------------------------------------------------
(* A fact that speaks for keeping appears *)

AgentAtWork(p) ==
  \E status \in {"working", "blocked", "unheardOf"} :
    state' = [state EXCEPT !.agents =
               [q \in DOMAIN state.agents \cup {p} |->
                  IF q = p THEN status ELSE state.agents[q]]]

WorkAppears(i) ==
  state' = [state EXCEPT !.worktrees[i].dirty = TRUE]

CommitsAppear(i) ==
  /\ state.worktrees[i].pr = ""
  /\ state' = [state EXCEPT !.worktrees[i].merged = FALSE]

Reopened(i) ==
  \E answer \in {"OPEN", "CLOSED"} :
    state' = [state EXCEPT !.worktrees[i].pr = answer]

\* A pane reports again, or cannot be read any more.
ReportsAgain(p) ==
  /\ p \in DOMAIN state.reports
  /\ \E field \in {"status", "unreadable"} :
       state' = [state EXCEPT !.reports[p] =
         IF field = "status" THEN [@ EXCEPT !.status = "progress", !.found = TRUE]
                             ELSE [@ EXCEPT !.unreadable = TRUE]]

Doubt ==
  \/ \E p \in Panes(state) : AgentAtWork(p) \/ ReportsAgain(p)
  \/ \E i \in DOMAIN state.worktrees : WorkAppears(i) \/ CommitsAppear(i) \/ Reopened(i)

-----------------------------------------------------------------------------
(* --release-agents is given, and the plan is carried out *)

ReleaseGiven ==
  /\ ~state.release
  /\ state' = [state EXCEPT !.release = TRUE]

\* The world after staffing, removing and closing what the plan names.  Adopting
\* is left to the state machine of the reconcilers: it makes new workspaces.
Performed(s) ==
  LET plan    == Range(ReconcileState(s))
      started == {a.pane : a \in {b \in plan : b.kind = "staff"}}
      removed == {a.path : a \in {b \in plan : b.kind = "prune"}}
      closed  == {a.workspace : a \in {b \in plan : b.kind \in {"prune", "close-ghost"}}}
      stay    == {i \in DOMAIN s.worktrees : s.worktrees[i].path \notin removed}
      open    == {i \in DOMAIN s.workspaces : s.workspaces[i].id \notin closed}
  IN  [s EXCEPT
         !.agents = [p \in DOMAIN s.agents \cup started |->
                       IF p \in DOMAIN s.agents THEN s.agents[p] ELSE "working"],
         !.worktrees = Picked(s.worktrees, stay),
         !.workspaces = Picked(s.workspaces, open)]

Perform == state' = Performed(state)

StateNext ==
  /\ moves < MaxMoves
  /\ moves' = moves + 1
  /\ Doubt \/ ReleaseGiven \/ Perform

-----------------------------------------------------------------------------
(* Properties *)

\* Nothing falls out of the plan in silence: every linked checkout is kept or
\* removed exactly once, and every workspace that outlived its checkout is named
\* or closed exactly once (the omission the comment on ghosts() describes).
EverythingAnswered ==
  LET plan == ReconcileState(state)
      Once(answers) == \E i \in answers : answers = {i}
  IN  /\ \A w \in Range(state.worktrees) : w.linked =>
           Once({i \in DOMAIN plan : plan[i].kind \in {"keep", "prune"} /\ plan[i].path = w.path})
      /\ \A ws \in Range(state.workspaces) : ~Live(state, ws.path) =>
           Once({i \in DOMAIN plan : plan[i].kind \in {"ghost", "close-ghost"}
                                      /\ plan[i].workspace = ws.id})

\* Doubt never removes: a fact that speaks for keeping - an agent at work in any
\* pane, uncommitted work, new commits, a pull request that is not merged, a new
\* report - adds no removal to the plan (prune, verdict, closable).
DoubtRemovesNothing ==
  [][Doubt => Removals(state') \subseteq Removals(state)]_stateVars

\* The planner is idempotent, which is what the repository lock leans on: once a
\* plan was carried out, planning again starts and removes nothing.
Idempotent ==
  [][Perform =>
       {a \in Range(ReconcileState(state')) : a.kind \in {"staff", "prune"}} = {}]_stateVars

=============================================================================
