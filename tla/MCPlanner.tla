----------------------------- MODULE MCPlanner -----------------------------
(* One linked checkout t1 beside the main one, and up to two workspaces on it or
   on t2, a checkout git no longer has.  w1 has two panes, w2 has one.  And the
   commands that look at such a repository: one set of machines where git and
   GitHub move, one where the sessions of herdr do. *)
EXTENDS Degraded

CONSTANTS main, t1, t2, b1, b2, b2other, w1, w2, p1, p2, p3

\* Two branches share a checkout directory: feat/x and feat-x.
MCCheckoutDir(branch) == IF branch = b1 THEN t1 ELSE t2

MCMain == [path |-> main, branch |-> NoBranch, linked |-> FALSE, bare |-> FALSE,
         workspace |-> NoWS, dirty |-> FALSE, merged |-> FALSE, gone |-> FALSE,
         transcript |-> FALSE, pr |-> ""]

Checkouts ==
  {[MCMain EXCEPT !.path = t1, !.branch = b1, !.linked = TRUE, !.workspace = ws,
       !.dirty = d, !.merged = m, !.gone = g, !.pr = pr] :
     ws \in {NoWS, w1}, d \in BOOLEAN, m \in BOOLEAN, g \in BOOLEAN,
     pr \in {"", "MERGED", "OPEN"}}

W1(path) == [id |-> w1, path |-> path, linked |-> TRUE, panes |-> <<p1, p2>>]
W2(path) == [id |-> w2, path |-> path, linked |-> TRUE, panes |-> <<p3>>]

NoReport == [found |-> FALSE, status |-> "", pr |-> 0, prState |-> "",
             prHead |-> NoBranch, unreadable |-> FALSE]
Done(branch) == [NoReport EXCEPT !.found = TRUE, !.status = "done", !.pr = 7,
                   !.prState = "MERGED", !.prHead = branch]
Reports == {NoReport, Done(b2), Done(b1), [NoReport EXCEPT !.unreadable = TRUE]}

AgentMaps(panes) == UNION {[q -> {"idle", "working"}] : q \in SUBSET panes}

States(worktrees, workspaces, statuses, reports, release) ==
  {[worktrees |-> wt, workspaces |-> ws, agents |-> a, reports |-> r,
    herdrAbsent |-> FALSE, release |-> rel] :
      wt \in worktrees, ws \in workspaces, a \in statuses, r \in reports, rel \in release}

\* One workspace on the checkout: every verdict, every occupant.
Worked == States({<<MCMain, c>> : c \in Checkouts}, {<<W1(t1)>>, <<>>},
                 AgentMaps({p1, p2}), {<<>>}, BOOLEAN)

\* A ghost beside a live workspace: every pair of reports, every occupant.
Haunted == States({<<MCMain, c>> : c \in {d \in Checkouts : d.pr = "MERGED" /\ d.workspace = NoWS}},
                  {<<W1(t2), W2(t1)>>}, AgentMaps({p1, p2, p3}),
                  [{p1, p2} -> Reports], BOOLEAN)

\* Two workspaces on one checkout, as a double adoption leaves them.
Doubled == States({<<MCMain, c>> : c \in {d \in Checkouts : d.workspace = w1}},
                  {<<W1(t1), W2(t1)>>, <<W2(t1), W1(t1)>>},
                  AgentMaps({p1, p3}), {<<>>}, {FALSE})

Everything == Worked \cup Haunted \cup Doubled

-----------------------------------------------------------------------------
CONSTANTS default, beside

MCEndpoints == <<default, beside>>
MCNothing == [worktrees |-> <<>>, workspaces |-> <<>>, agents |-> <<>>, reports |-> <<>>,
              herdrAbsent |-> FALSE, release |-> FALSE]

Commit(parent, brings) == [first |-> parent, second |-> 0, brings |-> brings]
PR(second, prState) == [at |-> second, state |-> prState]

\* A person at a shell beside no herdr at all.
Alone == {c \in Calls : c.command = "apply" /\ c.by = "hand" /\ c.named = NoSession /\ c.repo}
Quiet == [history |-> <<Commit(0, {1})>>, tip |-> 1, trunk |-> 1, remote |-> 0, prs |-> <<>>,
          socket |-> [e \in {default, beside} |-> "none"], agents |-> {}, repo |-> 0, herdr |-> 0,
          calls |-> Alone]

\* The branch is new; forked off another; published with work of its own.
Branches ==
  {[Quiet EXCEPT !.repo = 5],
   [Quiet EXCEPT !.repo = 4, !.history = @ \o <<Commit(1, {2})>>, !.tip = 2],
   [Quiet EXCEPT !.repo = 4, !.history = @ \o <<Commit(1, {2})>>, !.tip = 2, !.remote = 2]}
  \cup
  {[Quiet EXCEPT !.repo = 3, !.history = @ \o <<Commit(1, {2})>>, !.tip = 2, !.remote = 2,
                 !.prs = <<PR(1, a), PR(second, b)>>] :
     second \in {1, 2}, a \in {"MERGED", "CLOSED"}, b \in {"OPEN", "MERGED", "CLOSED"}}

\* Merged for all to see; what matters is whose agents are in the checkout.
Sessions ==
  {[Quiet EXCEPT !.prs = <<PR(1, "MERGED")>>, !.herdr = 4,
                 !.socket = [e \in {default, beside} |-> IF e = default THEN a ELSE b],
                 !.agents = {e \in {default, beside} :
                               (IF e = default THEN a ELSE b) \in {"live", "busy"}},
                 !.calls = Calls] :
     a \in {"none", "live", "busy", "stale"}, b \in {"none", "live", "busy", "stale"}}

MCMachines == {Quiet} \cup Branches \cup Sessions
=============================================================================
