------------------------------ MODULE Degraded ------------------------------
(***************************************************************************)
(* prune-apply from its first dial to the removal of one checkout, with a  *)
(* herdr or without one: Probe, the facts Collect reads call by call, the  *)
(* plan of Reconcile over them, the guards read again and the removal.     *)
(* It runs beside the planner's own states: a behavior is either one of    *)
(* Planner's or one command's, whose snapshot is Planner's state.          *)
(***************************************************************************)
EXTENDS Planner, Dial, Evidence

CONSTANTS
  Machines,    \* where a command may find itself, and how much may still move there
  Main,        \* the main checkout, as a fact of the snapshot
  Nothing,     \* the snapshot nobody has taken yet
  Path, Name,  \* the checkout and its branch
  Space, Seat  \* the workspace and the pane of an agent in it

\* A commit has a place after its parents', agents live in sessions that are up, and
\* GitHub lists the pull requests of a branch as they were opened.
ASSUME MachineAssumption ==
  \A m \in Machines :
    /\ m.calls \subseteq Calls
    /\ m.socket \in [Session -> {"none", "live", "busy", "stale"}]
    /\ \A s \in m.agents : s \in Session /\ m.socket[s] \in {"live", "busy"}
    /\ m.history \in Seq(Range(m.history))
    /\ {m.tip, m.trunk} \subseteq DOMAIN m.history /\ m.remote \in {0} \cup DOMAIN m.history
    /\ \A i \in DOMAIN m.history :
         {m.history[i].first, m.history[i].second} \subseteq {0} \cup DOMAIN m.history
    /\ m.prs \in Seq([at : Nat, state : {"OPEN", "MERGED", "CLOSED"}])
    /\ \A i, j \in DOMAIN m.prs : i <= j => m.prs[i].at <= m.prs[j].at

ASSUME SnapshotAssumption ==
  /\ IsState(Nothing) /\ Nothing.worktrees = <<>> /\ Nothing.workspaces = <<>>
  /\ DOMAIN Nothing.reports = {}
  /\ Main.path # Path /\ ~Main.linked /\ Main.workspace # Space /\ Space # NoWS
  /\ {"path", "branch", "linked", "workspace", "dirty", "merged", "gone", "pr"} \subseteq DOMAIN Main

VARIABLES
  facts,       \* what Collect has read so far
  there,       \* sessions whose agent has been in the checkout all along
  first,       \* history: the tip when the first question about commits was asked
  merged,      \* history: the newest pull request was merged, and none open, at the lookup
  left         \* what may still move, of the repository and of the sessions

readVars    == <<facts, first, merged>>
machineVars == <<call, at, dialVars, sessionVars, repoVars, facts, there, first, merged, left>>

NoFacts == [dirty |-> FALSE, ancestor |-> FALSE, off |-> FALSE, gone |-> FALSE, pr |-> "",
            hosts |-> FALSE]

\* A machine with its repository and sessions, and a command about to be called.
Machine(m) ==
  /\ history = m.history /\ tip = m.tip /\ edited = FALSE /\ trunk = m.trunk /\ base = m.trunk
  /\ remote = m.remote /\ tracked = m.remote /\ published = (m.remote # 0) /\ prs = m.prs
  /\ socket = m.socket /\ folders = {s \in Session : socket[s] # "none"} /\ agents = m.agents
  /\ left = [repo |-> m.repo, herdr |-> m.herdr]
  /\ todo = {} /\ live = {} /\ mute = {} /\ client = NoSession
  /\ facts = NoFacts /\ there = agents /\ first = 0 /\ merged = FALSE

MachineInit == \E m \in Machines : Machine(m) /\ call \in m.calls /\ at = "named"

-----------------------------------------------------------------------------
(* Collect *)

\* The workspaces and agents of the session that answers, or none of any.  A call that
\* fails ends the command.
ReadHerdr ==
  /\ at = "collect"
  /\ \/ /\ client # NoSession => socket[client] = "live"
        /\ facts' = [facts EXCEPT !.hosts = client \in agents]
        /\ at' = "dirty"
     \/ client # NoSession /\ at' = "over" /\ UNCHANGED facts
  /\ UNCHANGED <<first, merged>>

Ask(here, field, answers, next) ==
  /\ at = here
  /\ \E a \in answers : facts' = [facts EXCEPT ![field] = a]
  /\ at' = next

ReadDirty ==
  /\ Ask("dirty", "dirty", {IsDirty(a) : a \in BOOLEAN}, "ancestor")
  /\ UNCHANGED <<first, merged>>

ReadAncestor ==
  /\ Ask("ancestor", "ancestor", {IsAncestor(a) : a \in BOOLEAN}, "trunk")
  /\ first' = tip
  /\ UNCHANGED merged

ReadTrunk ==
  /\ Ask("trunk", "off", {OffTrunk(a) : a \in BOOLEAN}, "upstream")
  /\ UNCHANGED <<first, merged>>

ReadUpstream ==
  /\ Ask("upstream", "gone", {UpstreamGone(c, r) : c, r \in BOOLEAN}, "pr")
  /\ UNCHANGED <<first, merged>>

LookupPR ==
  /\ Ask("pr", "pr", UNION {GhPRState(a, d) : a, d \in BOOLEAN}, "plan")
  /\ merged' = (prs # <<>> /\ prs[Len(prs)].state = "MERGED" /\ NoneOpen)
  /\ UNCHANGED first

\* Collect's State, or collectWithoutHerdr's: nothing to adopt into, nothing to staff,
\* and no agent to spare a checkout for.
Collected ==
  LET space == [id |-> Space, path |-> Path, linked |-> TRUE, panes |-> <<Seat>>]
      linked == [Main EXCEPT !.path = Path, !.branch = Name, !.linked = TRUE,
                   !.workspace = IF facts.hosts THEN Space ELSE NoWS,
                   !.dirty = facts.dirty, !.merged = facts.ancestor /\ facts.off,
                   !.gone = facts.gone, !.pr = facts.pr]
  IN  [Nothing EXCEPT
         !.worktrees = <<Main, linked>>,
         !.workspaces = IF facts.hosts THEN <<space>> ELSE <<>>,
         !.agents = IF facts.hosts THEN [p \in {Seat} |-> "working"] ELSE <<>>,
         !.herdrAbsent = client = NoSession]

Removing(s) == <<"prune", Path, (IF facts.hosts THEN Space ELSE NoWS)>> \in Removals(s)

PlanPrune ==
  /\ at = "plan"
  /\ state' = Collected
  /\ at' = IF Removing(state') THEN "recheck" ELSE "over"
  /\ UNCHANGED readVars

-----------------------------------------------------------------------------
(* pruneBlocked and removeCheckout *)

RecheckDirty ==
  /\ at = "recheck"
  /\ \E a \in BOOLEAN : at' = IF IsDirty(a) THEN "over" ELSE "holder"
  /\ UNCHANGED readVars

\* workspaceHolding and the agents in what it names: with no client nothing holds
\* anything, and an answer that fails blocks.
RecheckHolder ==
  /\ at = "holder"
  /\ \/ /\ client # NoSession => socket[client] = "live" /\ client \notin agents
        /\ at' = "remove"
     \/ client # NoSession /\ at' = "over"
  /\ UNCHANGED readVars

\* By herdr or by git, either of which may refuse.
RemoveIt ==
  /\ at = "remove"
  /\ at' \in {"removed", "over"}
  /\ UNCHANGED readVars

-----------------------------------------------------------------------------
Command ==
  /\ \/ DialStep /\ UNCHANGED <<state, readVars>>
     \/ /\ \/ ReadHerdr \/ ReadDirty \/ ReadAncestor \/ ReadTrunk \/ ReadUpstream \/ LookupPR
           \/ RecheckDirty \/ RecheckHolder \/ RemoveIt
        /\ UNCHANGED <<state, dialVars>>
     \/ PlanPrune /\ UNCHANGED dialVars
  /\ UNCHANGED <<sessionVars, repoVars, call, there, left>>

Elsewhere ==
  /\ \/ /\ left.repo > 0
        /\ left' = [left EXCEPT !.repo = @ - 1]
        /\ RepoMoves
        /\ UNCHANGED <<sessionVars, there>>
     \/ /\ left.herdr > 0
        /\ left' = [left EXCEPT !.herdr = @ - 1]
        /\ SessionMoves
        /\ there' = there \cap agents'
        /\ UNCHANGED repoVars
  /\ at \notin {"over", "refused", "removed"}
  /\ UNCHANGED <<state, call, at, dialVars, readVars>>

Planning == at = "none"

\* A behavior of the planner alone has no machine in it.
PlannerInit ==
  /\ StateInit /\ at = "none"
  /\ \E m \in Machines : Machine(m) /\ call \in m.calls /\ m.repo = 0 /\ m.herdr = 0

DegradedInit == PlannerInit \/ (state = Nothing /\ moves = 0 /\ MachineInit)

DegradedNext ==
  \/ Planning /\ StateNext /\ UNCHANGED machineVars
  \/ ~Planning /\ (Command \/ Elsewhere) /\ UNCHANGED moves

DegradedSpec == DegradedInit /\ [][DegradedNext]_<<stateVars, machineVars>>

-----------------------------------------------------------------------------
(* Properties *)

\* prune-apply never removes a checkout an agent of some herdr has been in all along:
\* it does without herdr only where none was up, not where none was found (Probe).  It
\* was told to ask another one, or another alone answered and this one did not, or the
\* folder of sessions could not be read.
GroundIsSpared ==
  at = "removed" => \A s \in there :
    \/ client # NoSession /\ s # client /\ (client = call.named \/ s \in mute)
    \/ s # Default /\ s \notin live \cup mute /\ call.named # s

\* It removes a checkout in the repository it was called for, unless herdr called it,
\* said nothing of where and was gone at the dial; and only on a merge: no pull request
\* was open and the newest was merged, in whatever order gh lists them; or gh had
\* nothing to say and every change of the branch is on the default branch.
RemovalIsMeant ==
  at = "removed" =>
    /\ Root = "meant" \/ (client = NoSession /\ call.context = "noDir")
    /\ IF facts.pr = "" THEN Changes(first) \subseteq Changes(trunk) ELSE merged

-----------------------------------------------------------------------------
(* What the repository says and the code does not do *)

\* A dial that establishes nothing is fatal for every caller (the comment on
\* ErrHerdrUnknown), so no checkout is removed under an agent whose session was there
\* when it was dialled and did not answer.
SilenceIsFatal == at = "removed" => mute \cap there = {}
=============================================================================
