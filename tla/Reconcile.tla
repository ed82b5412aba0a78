----------------------------- MODULE Reconcile -----------------------------
(***************************************************************************)
(* internal/reconcile/reconcile.go: the pure function from the facts a     *)
(* Collector read to the actions a repository needs.  A path stands for    *)
(* the checkout it resolves to (pathKey), and a reason for what it says is *)
(* left out.  A State is a record:                                         *)
(*   worktrees   sequence of [path, branch, linked, bare, workspace, dirty,*)
(*               merged, gone, transcript, pr]                             *)
(*   workspaces  sequence of [id, path, linked, panes], in herdr's order   *)
(*   agents      what the agent of each pane is doing; a pane outside the  *)
(*               domain hosts none                                         *)
(*   reports     the last report read from each pane that was asked        *)
(*   herdrAbsent, release                                                  *)
(***************************************************************************)
EXTENDS Naturals, Sequences, FiniteSets, Functions

CONSTANTS
  NoWS,             \* the empty workspace id
  NoPane,           \* the empty pane id
  NoBranch,         \* the empty branch of a detached checkout
  CheckoutDir(_)    \* the directory herdr gives a branch's checkout

\* An agent plainly not in the middle of anything; an unknown status is busy.
Finished(status) == status \in {"idle", "done"}

\* What the agents in the panes of a workspace are doing.
Occupants(state, ws) ==
  {state.agents[p] : p \in Range(ws.panes) \cap DOMAIN state.agents}

\* agentIn: the busiest pane wins.
Occupied(state, ws)  == Occupants(state, ws) # {}
AgentBusy(state, ws) == \E status \in Occupants(state, ws) : ~Finished(status)

\* worktreesByPath: git still has the checkout at that path.
Live(state, path) == \E w \in Range(state.worktrees) : w.path = path

\* What a map filled from a list keeps of several for one key.
Latest(at) == CHOOSE i \in at : \A j \in at : j <= i

WorktreeAt(state, path) ==
  LET at == {i \in DOMAIN state.worktrees : state.worktrees[i].path = path}
  IN  state.worktrees[Latest(at)]

\* workspacesByPath: of two workspaces on one checkout the later one is kept.  A
\* path without one finds the zero Workspace, which has no panes.
WorkspaceAt(state, path) ==
  LET at == {i \in DOMAIN state.workspaces : state.workspaces[i].path = path}
  IN  IF at = {}
      THEN [id |-> NoWS, path |-> path, linked |-> FALSE, panes |-> <<>>]
      ELSE state.workspaces[Latest(at)]

\* An Action with every field at its zero value but these.
ActionOn(kind, path, branch, ws) ==
  [kind |-> kind, path |-> path, branch |-> branch, workspace |-> ws,
   pane |-> NoPane, pr |-> 0, releases |-> FALSE, resume |-> FALSE]

\* The elements of seq at these indices, in their order: SelectSeq without its
\* recursion, about which nothing could be proved.
Picked(seq, where) ==
  [n \in 1..Cardinality(where) |->
     seq[CHOOSE i \in where : Cardinality({j \in where : j <= i}) = n]]

\* One action for each element of seq that Test admits, in its order.
Each(seq, Test(_), Make(_)) ==
  Picked([i \in DOMAIN seq |-> Make(seq[i])], {i \in DOMAIN seq : Test(seq[i])})

\* A workspace for every checkout herdr does not hold open already.
Adopt(state) ==
  LET Unopened(w) == ~state.herdrAbsent /\ ~w.bare /\ w.workspace = NoWS
      Opening(w)  == ActionOn("adopt", w.path, w.branch, NoWS)
  IN  Each(state.worktrees, Unopened, Opening)

\* Mutant: a finished agent is not in the way of a new one.
StaffOverFinished(state) ==
  LET Quiet(ws) == /\ ws.linked /\ ws.panes # <<>> /\ Live(state, ws.path)
      Starting(ws) == [ActionOn("staff", ws.path, NoBranch, ws.id) EXCEPT !.pane = ws.panes[1]]
  IN  Each(state.workspaces, Quiet, Starting)

\* An agent for every linked workspace that has none and is no ghost, in its
\* first pane, resuming the conversation the checkout had.
Staff(state) ==
  LET Empty(ws) == /\ ws.linked
                   /\ ws.panes # <<>>
                   /\ ~Occupied(state, ws)
                   /\ Live(state, ws.path)
      Starting(ws) ==
        LET w == WorktreeAt(state, ws.path)
        IN  [ActionOn("staff", ws.path, w.branch, ws.id) EXCEPT
               !.pane = ws.panes[1], !.resume = w.transcript]
  IN  Each(state.workspaces, Empty, Starting)

\* verdict: a merged pull request has landed and any other has not; with none to
\* ask, both a merge commit in base and a deleted upstream are required.
Landed(w) ==
  \/ w.pr = "MERGED"
  \/ w.pr = "" /\ w.merged /\ w.gone

\* The guards in their order: uncommitted work, an agent in the middle of
\* something, a branch that has not landed, a finished agent nobody released.
Spared(state, w) ==
  LET ws == WorkspaceAt(state, w.path)
  IN  \/ w.dirty
      \/ AgentBusy(state, ws)
      \/ ~Landed(w)
      \/ Occupied(state, ws) /\ ~state.release

\* Mutant: a checkout with nothing to say about it is silently left out.
PruneOnly(state) ==
  LET Removable(w) == w.linked /\ ~Spared(state, w)
      Verdict(w) == ActionOn("prune", w.path, w.branch, w.workspace)
  IN  Each(state.worktrees, Removable, Verdict)

\* Every linked checkout is either kept, with a reason, or planned for removal.
Prune(state) ==
  LET IsLinked(w) == w.linked
      Verdict(w) ==
        IF Spared(state, w)
        THEN ActionOn("keep", w.path, w.branch, w.workspace)
        ELSE [ActionOn("prune", w.path, w.branch, w.workspace) EXCEPT
                !.releases = Occupied(state, WorkspaceAt(state, w.path))]
  IN  Each(state.worktrees, IsLinked, Verdict)

\* The one report a close rests on: done, with a pull request that merged from a
\* branch named for this workspace's checkout.
MergedFinish(r, ws) ==
  /\ r.status = "done"
  /\ r.pr # 0
  /\ r.prState = "MERGED"
  /\ r.prHead # NoBranch
  /\ CheckoutDir(r.prHead) = ws.path

\* Mutant: a report that is not done is passed over.
ReportingDone(state, ws) ==
  {p \in Range(ws.panes) \cap DOMAIN state.reports :
     state.reports[p].found /\ state.reports[p].status = "done"}

Reporting(state, ws) ==
  {p \in Range(ws.panes) \cap DOMAIN state.reports : state.reports[p].found}

\* closable: "close", "needsRelease", or "no" for every other refusal.
Closable(state, ws) ==
  LET accounted ==
        /\ ~AgentBusy(state, ws)
        /\ \A p \in Range(ws.panes) :
             /\ p \in DOMAIN state.reports
             /\ ~state.reports[p].unreadable
             /\ state.reports[p].found \/ p \notin DOMAIN state.agents
        /\ Cardinality(Reporting(state, ws)) = 1
        /\ \A p \in Reporting(state, ws) : MergedFinish(state.reports[p], ws)
  IN  IF ~accounted THEN "no"
      ELSE IF Occupied(state, ws) /\ ~state.release THEN "needsRelease" ELSE "close"

\* Every workspace on a checkout git no longer has: named, or closed when its
\* worker's work is known to have landed.
Ghosts(state) ==
  LET Ghost(ws) == ~Live(state, ws.path)
      Answer(ws) ==
        IF Closable(state, ws) # "close"
        THEN ActionOn("ghost", ws.path, NoBranch, ws.id)
        ELSE LET worker == CHOOSE p \in Reporting(state, ws) : TRUE
                 report == state.reports[worker]
             IN  [ActionOn("close-ghost", ws.path, report.prHead, ws.id) EXCEPT
                    !.pane = worker, !.pr = report.pr,
                    !.releases = Occupied(state, ws)]
  IN  Each(state.workspaces, Ghost, Answer)

ReconcileState(state) == Adopt(state) \o Staff(state) \o Prune(state) \o Ghosts(state)

\* Only the named kinds, in order, so that no command does another's work.
Only(actions, kinds) ==
  Picked(actions, {i \in DOMAIN actions : actions[i].kind \in kinds})
=============================================================================
